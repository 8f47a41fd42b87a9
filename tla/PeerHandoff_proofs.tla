-------------------------- MODULE PeerHandoff_proofs --------------------------
(***************************************************************************)
(* Proofs about the peer handoff, for any bots and handoffs.               *)
(***************************************************************************)
EXTENDS PeerHandoff, TLAPS

DrainRecords == [todo : Seq(Items), at : Busily \cup {"off", "asking"}]

Queues == [Bots -> Seq(Items)]

-----------------------------------------------------------------------------
(* The invariant.  A card and the promise behind it agree because the drain *)
(* that opened the card stays at the item it is about; nothing is lost      *)
(* because a drain lets go only of an item whose user has been told.        *)

\* Every bot's queue, and what its drain still has to do, is its own.
OwnQueue ==
  \A b \in Bots :
    /\ \A n \in DOMAIN queued[b] : From[queued[b][n]] = b
    /\ \A n \in DOMAIN drain[b].todo : From[drain[b].todo[n]] = b

\* In the middle of an item, a drain has one.
Engaged ==
  \A b \in Bots :
    drain[b].at \in {"asking", "allowed", "denied", "settled"} => drain[b].todo # <<>>

\* A drain settles an item after its user was told, and goes on with one that
\* was allowed.
Answered ==
  \A b \in Bots :
    /\ drain[b].at = "settled" => fate[Head(drain[b].todo)] # {}
    /\ drain[b].at = "allowed" =>
         \/ card[Head(drain[b].todo)] = "allow"
         \/ <<b, To[Head(drain[b].todo)]>> \in granted

\* A deleted bot has no queue.
GoneIsEmpty == \A b \in Bots : b \notin alive => queued[b] = <<>>

HandoffInv ==
  /\ TypeOK /\ OwnQueue /\ Engaged /\ Answered /\ GoneIsEmpty
  /\ CardAndPromiseAgree /\ NothingLost

-----------------------------------------------------------------------------
(* The helpers.                                                            *)

\* Filtering an item out keeps a queue of items, adds nothing, and loses
\* nothing but that item (delegations.ts, acknowledgeDelegation).
LEMMA WithoutFilters ==
  ASSUME NEW q \in Seq(Items), NEW i \in Items
  PROVE  /\ Without(q, i) \in Seq(Items)
         /\ \A n \in DOMAIN Without(q, i) : \E m \in DOMAIN q : Without(q, i)[n] = q[m]
         /\ \A m \in DOMAIN q : q[m] # i =>
              \E n \in DOMAIN Without(q, i) : Without(q, i)[n] = q[m]
<1> DEFINE at == {n \in DOMAIN q : q[n] = i}
           k  == CHOOSE n \in at : TRUE
           w  == [n \in 1 .. Len(q) - 1 |-> IF n < k THEN q[n] ELSE q[n + 1]]
<1>1. CASE at = {}
  BY <1>1 DEF Without
<1>2. CASE at # {}
  <2>1. k \in 1 .. Len(q) /\ q[k] = i
    BY <1>2
  <2>2. Without(q, i) = w
    BY <1>2 DEF Without
  <2> HIDE DEF k
  <2>3. Len(q) - 1 \in Nat /\ DOMAIN w = 1 .. Len(q) - 1
    BY <2>1
  <2>4. \A n \in DOMAIN w : w[n] \in Items
    BY <2>1, <2>3
  <2>5. w \in Seq(Items)
    BY <2>3, <2>4
  <2>6. ASSUME NEW n \in DOMAIN w PROVE \E m \in DOMAIN q : w[n] = q[m]
    BY <2>1, <2>3
  <2>7. ASSUME NEW m \in DOMAIN q, q[m] # i PROVE \E n \in DOMAIN w : w[n] = q[m]
    <3>1. CASE m < k
      <4>1. m \in DOMAIN w /\ w[m] = q[m]
        BY <2>1, <2>3, <3>1
      <4> QED
        BY <4>1
    <3>2. CASE ~(m < k)
      <4>1. m - 1 \in DOMAIN w /\ w[m - 1] = q[m]
        BY <2>1, <2>3, <2>7, <3>2
      <4> QED
        BY <4>1
    <3> QED
      BY <3>1, <3>2
  <2> HIDE DEF w
  <2> QED
    BY <2>2, <2>5, <2>6, <2>7
<1> QED
  BY <1>1, <1>2

LEMMA DrainedType ==
  ASSUME NEW b \in Bots, NEW q \in Queues, NEW d \in [Bots -> DrainRecords],
         Drained(b, q, d)
  PROVE  queued' \in Queues /\ drain' \in [Bots -> DrainRecords]
<1>1. <<>> \in Seq(Items)
  OBVIOUS
<1>2. [todo |-> q[b], at |-> "next"] \in DrainRecords
  BY DEF Queues, DrainRecords, Busily
<1> QED
  BY <1>1, <1>2 DEF Drained, Queues

LEMMA ToldType ==
  ASSUME TypeOK, NEW S, NEW w \in Fates
  PROVE  Told(S, w) \in [Items -> SUBSET Fates]
BY DEF TypeOK, Told

LEMMA OriginsType ==
  ASSUME TypeOK, NEW S, NEW how \in {"finished", "stopped"}
  PROVE  OriginsOf(S, how) \in [Items -> {"none", "running", "finished", "stopped"}]
BY DEF TypeOK, OriginsOf

LEMMA ResolvesType ==
  ASSUME TypeOK, NEW S, NEW verdict \in {"allow", "deny"}, Resolves(S, verdict)
  PROVE  /\ pending' \subseteq Items
         /\ card' \in [Items -> {"none", "open", "allow", "deny"}]
         /\ drain' \in [Bots -> DrainRecords]
BY DEF TypeOK, Resolves, DrainRecords, Busily

EndTyped ==
  /\ turn' \in [Bots -> {None, Own} \cup Items]
  /\ watch' \in [Bots -> {None} \cup Items]
  /\ timer' \in [Bots -> {"off", "turn", "late"}] /\ astray' \subseteq Bots

LEMMA EndsType ==
  ASSUME TypeOK, NEW b \in Bots, Ends(b)
  PROVE  EndTyped
BY DEF TypeOK, Ends, EndTyped

-----------------------------------------------------------------------------
(* Type correctness.                                                       *)

LEMMA BotStepTyped ==
  ASSUME TypeOK, NEW b \in Bots, BotStep(b)
  PROVE  TypeOK'
<1> USE HandoffAssumption
<1>0. <<>> \in Seq(Items)
  OBVIOUS
<1>1. CASE PersonSends(b)
  <2>1. \A r \in [restarts : 0 .. MaxRestarts, turns : 0 .. MaxTurns] :
          r.turns > 0 => [r EXCEPT !.turns = @ - 1]
                         \in [restarts : 0 .. MaxRestarts, turns : 0 .. MaxTurns]
    OBVIOUS
  <2>2. left' \in [restarts : 0 .. MaxRestarts, turns : 0 .. MaxTurns]
    BY <1>1, <2>1 DEF PersonSends, TypeOK
  <2> QED
    BY <1>1, <2>2 DEF PersonSends, TypeOK, late
<1>2. CASE CompletesOk(b)
  <2>1. queued' \in Queues /\ drain' \in [Bots -> DrainRecords]
    BY <1>2, DrainedType DEF CompletesOk, TypeOK, Queues, DrainRecords
  <2>2. origin' \in [Items -> {"none", "running", "finished", "stopped"}]
    BY <1>2, OriginsType DEF CompletesOk, TypeOK
  <2>3. EndTyped
    BY <1>2, EndsType DEF CompletesOk
  <2> QED
    BY <1>2, <2>1, <2>2, <2>3 DEF CompletesOk, EndTyped, TypeOK, Queues, DrainRecords
<1>3. CASE CompletesBad(b)
  <2>1. origin' \in [Items -> {"none", "running", "finished", "stopped"}]
    BY <1>3, OriginsType DEF CompletesBad, TypeOK
  <2>4. EndTyped
    BY <1>3, EndsType DEF CompletesBad
  <2>2. fate' \in [Items -> SUBSET Fates]
    BY <1>3, ToldType DEF CompletesBad, Fates
  <2>3. queued' \in [Bots -> Seq(Items)]
    BY <1>3, <1>0 DEF CompletesBad, TypeOK
  <2> QED
    BY <1>3, <2>1, <2>2, <2>3, <2>4 DEF CompletesBad, EndTyped, TypeOK
<1>4. CASE Stalls(b)
  BY <1>4 DEF Stalls, TypeOK
<1>9. CASE Releases(b)
  <2>1. origin' \in [Items -> {"none", "running", "finished", "stopped"}]
    BY <1>9, OriginsType DEF Releases, TypeOK
  <2> QED
    BY <1>9, <2>1 DEF Releases, TypeOK
<1>5. CASE DispatchFails(b)
  <2>1. fate' \in [Items -> SUBSET Fates]
    BY <1>5, ToldType DEF DispatchFails, Fates
  <2>2. EndTyped
    BY <1>5, EndsType DEF DispatchFails
  <2> QED
    BY <1>5, <2>1, <2>2 DEF DispatchFails, EndTyped, TypeOK
<1>6. CASE Interrupts(b)
  <2>1. PICK S : Resolves(S, "deny")
    BY <1>6 DEF Interrupts
  <2> QED
    BY <1>6, <2>1, ResolvesType DEF Interrupts, TypeOK, DrainRecords, late
<1>7. CASE Gates(b)
  BY <1>7 DEF Gates, TypeOK, late
<1>8. CASE Deletes(b)
  <2>1. fate' \in [Items -> SUBSET Fates]
    BY <1>8, ToldType DEF Deletes, Fates
  <2>2. PICK S : Resolves(S, "deny")
    BY <1>8 DEF Deletes
  <2>3. queued' \in [Bots -> Seq(Items)]
    BY <1>8, <1>0 DEF Deletes, TypeOK
  <2> QED
    BY <1>8, <2>1, <2>2, <2>3, ResolvesType DEF Deletes, TypeOK, DrainRecords, late
<1> QED
  BY <1>1, <1>2, <1>3, <1>4, <1>5, <1>6, <1>7, <1>8, <1>9 DEF BotStep

\* What a drain takes up is an item.
LEMMA HeadAndTail ==
  ASSUME TypeOK, NEW b \in Bots, drain[b].todo # <<>>
  PROVE  Head(drain[b].todo) \in Items /\ Tail(drain[b].todo) \in Seq(Items)
<1>1. drain[b].todo \in Seq(Items)
  BY DEF TypeOK
<1> QED
  BY <1>1

\* What a drain does with its first item, whichever way it goes on.
LEMMA DispatchTyped ==
  ASSUME TypeOK, NEW b \in Bots, NEW i \in Items,
         Dispatches(b, i) \/ \E why \in Fates : Refuses(b, i, why)
  PROVE  /\ turn' \in [Bots -> {None, Own} \cup Items]
         /\ watch' \in [Bots -> {None} \cup Items]
         /\ ran' \subseteq Items /\ queued' = queued
         /\ fate' \in [Items -> SUBSET Fates]
         /\ drain' = [drain EXCEPT ![b].at = "settled"]
<1>1. \A why \in Fates : Told({i}, why) \in [Items -> SUBSET Fates]
  BY ToldType
<1>2. "started" \in Fates /\ "failed" \in Fates
  BY DEF Fates
<1>3. fate' \in [Items -> SUBSET Fates]
  BY <1>1, <1>2 DEF Dispatches, Refuses
<1>4. To[i] \in Bots
  BY HandoffAssumption
<1>5. /\ turn' = turn \/ turn' = [turn EXCEPT ![To[i]] = i]
      /\ \/ watch' = watch \/ watch' = [watch EXCEPT ![To[i]] = i]
         \/ watch' = [watch EXCEPT ![To[i]] = None]
  BY DEF Dispatches, Refuses
<1>6. queued' = queued /\ drain' = [drain EXCEPT ![b].at = "settled"]
  BY DEF Dispatches, Refuses, Goes
<1>7. ran' \subseteq Items
  BY DEF Dispatches, Refuses, TypeOK
<1>8. turn' \in [Bots -> {None, Own} \cup Items]
  BY <1>4, <1>5 DEF TypeOK
<1>9. watch' \in [Bots -> {None} \cup Items]
  BY <1>4, <1>5 DEF TypeOK
<1> QED
  BY <1>3, <1>6, <1>7, <1>8, <1>9

LEMMA DrainStepTyped ==
  ASSUME TypeOK, Engaged, NEW b \in Bots, DrainStep(b)
  PROVE  TypeOK'
<1> DEFINE i == Head(drain[b].todo)
<1>0. \A at \in Busily \cup {"off", "asking"} :
        [drain EXCEPT ![b].at = at] \in [Bots -> DrainRecords]
  BY DEF TypeOK, DrainRecords
<1>1. CASE Processes(b)
  <2>1. i \in Items
    BY <1>1, HeadAndTail DEF Processes
  <2>2. CASE Asks(b, i)
    <3>1. drain' \in [Bots -> DrainRecords] /\ queued' = queued
      BY <1>0, <2>2 DEF Asks, Goes, Busily
    <3>2. pending' \subseteq Items /\ card' \in [Items -> {"none", "open", "allow", "deny"}]
      <4>1. pending \subseteq Items /\ card \in [Items -> {"none", "open", "allow", "deny"}]
        BY DEF TypeOK
      <4>2. \/ card' = card /\ pending' = pending
            \/ card' = [card EXCEPT ![i] = "open"] /\ pending' = pending \cup {i}
        BY <2>2 DEF Asks
      <4> HIDE DEF i
      <4> QED
        BY <2>1, <4>1, <4>2
    <3>3. UNCHANGED <<alive, turn, watch, late, ran, fate, gated, granted, origin,
                     inflight, left>>
      BY <1>1, <2>2 DEF Processes, Asks
    <3> QED
      BY <3>1, <3>2, <3>3 DEF TypeOK, DrainRecords, late
  <2>3. CASE ~Asks(b, i)
    <3>1. /\ Dispatches(b, i) \/ \E why \in Fates : Refuses(b, i, why)
          /\ UNCHANGED <<card, pending>>
      BY <1>1, <2>3 DEF Processes, Fates
    <3>2. UNCHANGED <<alive, late, gated, granted, origin, inflight, left>>
      BY <1>1 DEF Processes
    <3> HIDE DEF i
    <3>3. drain' \in [Bots -> DrainRecords]
      BY <1>0, <2>1, <3>1, DispatchTyped DEF Busily
    <3> QED
      BY <2>1, <3>1, <3>2, <3>3, DispatchTyped DEF TypeOK, DrainRecords, late
  <2> QED
    BY <2>2, <2>3
<1>2. CASE Allowed(b) \/ Denied(b)
  <2>1. i \in Items
    BY <1>2, HeadAndTail DEF Allowed, Denied, Engaged, At
  <2>2. Dispatches(b, i) \/ \E why \in Fates : Refuses(b, i, why)
    BY <1>2 DEF Allowed, Denied, Fates
  <2>3. UNCHANGED <<alive, card, pending, late, gated, granted, origin, inflight,
                    left>>
    BY <1>2 DEF Allowed, Denied
  <2> HIDE DEF i
  <2>4. drain' \in [Bots -> DrainRecords]
    BY <1>0, <2>1, <2>2, DispatchTyped DEF Busily
  <2> QED
    BY <2>1, <2>2, <2>3, <2>4, DispatchTyped DEF TypeOK, DrainRecords, late
<1>3. CASE Acknowledges(b)
  <2>1. i \in Items /\ Tail(drain[b].todo) \in Seq(Items)
    BY <1>3, HeadAndTail DEF Acknowledges, Engaged, At
  <2>2. Without(queued[b], i) \in Seq(Items)
    BY <2>1, WithoutFilters DEF TypeOK
  <2>3. queued' \in [Bots -> Seq(Items)]
    BY <1>3, <2>2 DEF Acknowledges, TypeOK
  <2>4. drain' \in [Bots -> DrainRecords]
    BY <1>3, <2>1 DEF Acknowledges, TypeOK, DrainRecords, Busily
  <2> QED
    BY <1>3, <2>3, <2>4 DEF Acknowledges, TypeOK, DrainRecords, late
<1>4. CASE DrainEnds(b)
  <2>1. [drain EXCEPT ![b] = Off] \in [Bots -> DrainRecords]
    BY DEF TypeOK, DrainRecords, Off
  <2>2. queued' \in Queues /\ drain' \in [Bots -> DrainRecords]
    BY <1>4, <2>1, DrainedType DEF DrainEnds, TypeOK, Queues
  <2> QED
    BY <1>4, <2>2 DEF DrainEnds, TypeOK, Queues, DrainRecords, late
<1> QED
  BY <1>1, <1>2, <1>3, <1>4 DEF DrainStep

LEMMA ItemStepTyped ==
  ASSUME TypeOK, NEW i \in Items, ItemStep(i)
  PROVE  TypeOK'
<1> USE HandoffAssumption
<1>1. CASE Calls(i)
  BY <1>1 DEF Calls, TypeOK, late
<1>2. CASE Arrives(i)
  <2>1. fate' \in [Items -> SUBSET Fates]
    <3>1. Told({i}, "refused") \in [Items -> SUBSET Fates]
      BY ToldType DEF Fates
    <3> QED
      BY <1>2, <3>1 DEF Arrives, Queued, TypeOK
  <2>2. queued' \in [Bots -> Seq(Items)]
    <3>1. From[i] \in Bots /\ queued[From[i]] \in Seq(Items)
      BY DEF TypeOK
    <3>2. Append(queued[From[i]], i) \in Seq(Items)
      BY <3>1
    <3>3. \E s \in Seq(Items) : queued' \in {queued, [queued EXCEPT ![From[i]] = s]}
      BY <1>2, <3>2 DEF Arrives, Queued
    <3>4. PICK s \in Seq(Items) :
            queued' = queued \/ queued' = [queued EXCEPT ![From[i]] = s]
      BY <3>3
    <3>5. queued \in [Bots -> Seq(Items)]
      BY DEF TypeOK
    <3> QED
      BY <3>1, <3>4, <3>5
  <2> QED
    BY <1>2, <2>1, <2>2 DEF Arrives, TypeOK, late
<1>3. CASE Expires(i) \/ \E verdict \in {"allow", "deny"} : Answers(i, verdict)
  <2>1. PICK verdict \in {"allow", "deny"} : Resolves({i}, verdict)
    BY <1>3 DEF Expires, Answers
  <2>2. UNCHANGED <<alive, turn, queued, watch, late, gated, granted, origin,
                    inflight, fate, ran, left>>
    BY <1>3 DEF Expires, Answers
  <2>3. /\ pending' \subseteq Items
        /\ card' \in [Items -> {"none", "open", "allow", "deny"}]
        /\ drain' \in [Bots -> DrainRecords]
    BY <2>1, ResolvesType
  <2> QED
    BY <2>2, <2>3 DEF TypeOK, DrainRecords, late
<1>4. CASE Grants(i)
  BY <1>4 DEF Grants, TypeOK, late
<1> QED
  BY <1>1, <1>2, <1>3, <1>4 DEF ItemStep

LEMMA RestartsTyped ==
  ASSUME TypeOK, Restarts
  PROVE  TypeOK'
<1>0. <<>> \in Seq(Items)
  OBVIOUS
<1>1. left' \in [restarts : 0 .. MaxRestarts, turns : 0 .. MaxTurns]
  <2>1. \A r \in [restarts : 0 .. MaxRestarts, turns : 0 .. MaxTurns] :
          r.restarts > 0 => [r EXCEPT !.restarts = @ - 1]
                            \in [restarts : 0 .. MaxRestarts, turns : 0 .. MaxTurns]
    BY HandoffAssumption
  <2> QED
    BY <2>1 DEF Restarts, TypeOK
<1>2. queued' \in [Bots -> Seq(Items)]
  BY <1>0 DEF Restarts, TypeOK
<1>3. drain' \in [Bots -> DrainRecords]
  BY <1>0 DEF Restarts, TypeOK, DrainRecords, Off, Busily
<1>4. card' \in [Items -> {"none", "open", "allow", "deny"}]
  BY DEF Restarts, Dismissed, TypeOK
<1>5. origin' \in [Items -> {"none", "running", "finished", "stopped"}]
  BY DEF Restarts, TypeOK
<1>6. fate' \in [Items -> SUBSET Fates]
  <2>1. \A x \in Items : fate'[x] \in {{"refused"}, {}, fate[x]}
    BY DEF Restarts
  <2> QED
    BY <2>1 DEF Restarts, TypeOK, Fates
<1>7. turn' \in [Bots -> {None, Own} \cup Items] /\ watch' \in [Bots -> {None} \cup Items]
  BY DEF Restarts
<1> QED
  BY <1>1, <1>2, <1>3, <1>4, <1>5, <1>6, <1>7 DEF Restarts, TypeOK, DrainRecords

-----------------------------------------------------------------------------
(* The other conjuncts, handler by handler.                                *)

Rest ==
  /\ OwnQueue /\ Engaged /\ Answered /\ GoneIsEmpty
  /\ CardAndPromiseAgree /\ NothingLost

\* Users are told more, nothing is forgotten, and no call begins.
Grows ==
  \A i \in Items : fate[i] \subseteq fate'[i] /\ (origin'[i] = "none" <=> origin[i] = "none")

\* A handler that leaves queues, drains and cards alone.
LEMMA Untouched ==
  ASSUME HandoffInv, UNCHANGED <<alive, queued, drain, card, pending, inflight>>,
         granted \subseteq granted', Grows
  PROVE  Rest'
<1>1. OwnQueue' /\ Engaged' /\ GoneIsEmpty' /\ CardAndPromiseAgree'
  BY DEF HandoffInv, OwnQueue, Engaged, GoneIsEmpty, CardAndPromiseAgree
<1>2. NothingLost'
  BY DEF HandoffInv, NothingLost, Accepted, Listed, Grows
<1>3. ASSUME NEW b \in Bots, drain[b].at \in {"settled", "allowed"}
      PROVE  Head(drain[b].todo) \in Items
  BY <1>3, HeadAndTail DEF HandoffInv, Engaged
<1>4. Answered'
  BY <1>3 DEF HandoffInv, Answered, Grows
<1> QED
  BY <1>1, <1>2, <1>4 DEF Rest

LEMMA ToldGrows ==
  ASSUME TypeOK, NEW S, NEW w \in Fates, fate' = Told(S, w) \/ fate' = fate
  PROVE  \A i \in Items : fate[i] \subseteq fate'[i]
<1>1. CASE fate' = fate
  BY <1>1
<1>2. CASE fate' = Told(S, w)
  <2>1. \A i \in Items : fate'[i] \in {fate[i], fate[i] \cup {w}}
    BY <1>2 DEF Told
  <2> QED
    BY <2>1
<1> QED
  BY <1>1, <1>2

LEMMA OriginsGrow ==
  ASSUME TypeOK, NEW S, NEW how \in {"finished", "stopped"}, origin' = OriginsOf(S, how)
  PROVE  \A i \in Items : origin'[i] = "none" <=> origin[i] = "none"
BY DEF OriginsOf, TypeOK

\* Turns that begin, that end with nothing to drain, and permissions given.
LEMMA TurnsKeep ==
  ASSUME HandoffInv,
         \/ \E b \in Bots : \/ PersonSends(b) \/ Stalls(b) \/ Releases(b)
                            \/ DispatchFails(b) \/ Gates(b)
         \/ \E i \in Items : Grants(i)
         \/ Reloads
  PROVE  Rest'
<1>0. TypeOK
  BY DEF HandoffInv
<1>1. \A i \in Items : fate[i] \subseteq fate'[i]
  BY <1>0, ToldGrows DEF PersonSends, Stalls, Releases, Reloads, DispatchFails,
       Gates, Grants, Fates
<1>2. \A i \in Items : origin'[i] = "none" <=> origin[i] = "none"
  BY <1>0, OriginsGrow DEF PersonSends, Stalls, Releases, Reloads, DispatchFails,
       Gates, Grants
<1>3. UNCHANGED <<alive, queued, drain, card, pending, inflight>>
      /\ granted \subseteq granted'
  BY DEF PersonSends, Stalls, Releases, Reloads, DispatchFails, Gates, Grants
<1> QED
  BY <1>1, <1>2, <1>3, Untouched DEF Grows

\* A call on its way is not accepted yet.
LEMMA CallsKeep ==
  ASSUME HandoffInv, NEW i \in Items, Calls(i)
  PROVE  Rest'
<1>1. OwnQueue' /\ Engaged' /\ Answered' /\ GoneIsEmpty' /\ CardAndPromiseAgree'
  BY DEF HandoffInv, Calls, OwnQueue, Engaged, Answered, GoneIsEmpty, CardAndPromiseAgree
<1>2. ASSUME NEW j \in Items, Accepted(j)', fate'[j] = {}
      PROVE  (j \in Listed(From[j]))'
  <2>1. j # i /\ Accepted(j) /\ fate[j] = {}
    BY <1>2 DEF Calls, Accepted, HandoffInv, TypeOK
  <2> QED
    BY <2>1 DEF HandoffInv, NothingLost, Calls, Listed
<1>3. NothingLost'
  BY <1>2 DEF NothingLost
<1> QED
  BY <1>1, <1>3 DEF Rest

\* What a drain works on is a handoff of its own bot.
LEMMA HeadIsOwn ==
  ASSUME HandoffInv, NEW b \in Bots, drain[b].todo # <<>>
  PROVE  Head(drain[b].todo) \in Items /\ From[Head(drain[b].todo)] = b
<1>1. drain[b].todo \in Seq(Items)
  BY DEF HandoffInv, TypeOK
<1>2. 1 \in DOMAIN drain[b].todo /\ Head(drain[b].todo) = drain[b].todo[1]
  BY <1>1
<1> QED
  BY <1>1, <1>2 DEF HandoffInv, OwnQueue

\* A call that arrives is queued, or its turn is told that it is not.
LEMMA ArrivesKeeps ==
  ASSUME HandoffInv, NEW i \in Items, Arrives(i)
  PROVE  Rest'
<1> USE HandoffAssumption
<1> DEFINE q == queued[From[i]]
<1>0. q \in Seq(Items) /\ From[i] \in Bots
  BY DEF HandoffInv, TypeOK
<1>1. UNCHANGED <<alive, drain, card, pending, granted, origin>> /\ inflight' = inflight \ {i}
  BY DEF Arrives
<1>2. CASE From[i] \in alive /\ queued' = [queued EXCEPT ![From[i]] = Append(q, i)]
           /\ fate' = fate
  <2>1. /\ DOMAIN Append(q, i) = 1 .. Len(q) + 1
        /\ \A n \in DOMAIN q : Append(q, i)[n] = q[n]
        /\ Append(q, i)[Len(q) + 1] = i
        /\ DOMAIN q \cup {Len(q) + 1} = DOMAIN Append(q, i)
    BY <1>0
  <2>2. /\ \A b \in Bots : b # From[i] => queued'[b] = queued[b]
        /\ queued'[From[i]] = Append(q, i)
    BY <1>0, <1>2 DEF HandoffInv, TypeOK
  <2> HIDE DEF q
  <2>3. ASSUME NEW b \in Bots, NEW n \in DOMAIN queued'[b] PROVE From[queued'[b][n]] = b
    <3>1. CASE b = From[i]
      BY <2>1, <2>2, <3>1 DEF HandoffInv, OwnQueue, q
    <3>2. CASE b # From[i]
      BY <2>2, <3>2 DEF HandoffInv, OwnQueue
    <3> QED
      BY <3>1, <3>2
  <2>4. OwnQueue'
    BY <1>1, <2>3 DEF HandoffInv, OwnQueue
  <2>5. GoneIsEmpty'
    BY <1>1, <1>2, <2>2 DEF HandoffInv, GoneIsEmpty
  <2>6. ASSUME NEW j \in Items, Accepted(j)', fate'[j] = {}
        PROVE  \E n \in DOMAIN queued'[From[j]] : queued'[From[j]][n] = j
    <3>1. CASE j = i
      BY <2>1, <2>2, <3>1
    <3>2. CASE j # i
      <4>1. \E n \in DOMAIN queued[From[j]] : queued[From[j]][n] = j
        BY <1>1, <1>2, <2>6, <3>2 DEF Accepted, HandoffInv, NothingLost, Listed
      <4> QED
        BY <2>1, <2>2, <4>1 DEF q
    <3> QED
      BY <3>1, <3>2
  <2>7. NothingLost'
    BY <2>6 DEF NothingLost, Listed
  <2>8. Engaged' /\ Answered' /\ CardAndPromiseAgree'
    BY <1>1, <1>2 DEF HandoffInv, Engaged, Answered, CardAndPromiseAgree
  <2> QED
    BY <2>4, <2>5, <2>7, <2>8 DEF Rest
<1>3. CASE queued' = queued /\ fate' = Told({i}, "refused")
  <2>1. /\ \A j \in Items : fate[j] \subseteq fate'[j]
        /\ fate'[i] # {}
    BY <1>3, ToldGrows DEF Told, Fates, HandoffInv
  <2>2. OwnQueue' /\ GoneIsEmpty' /\ Engaged' /\ CardAndPromiseAgree'
    BY <1>1, <1>3 DEF HandoffInv, OwnQueue, GoneIsEmpty, Engaged, CardAndPromiseAgree
  <2>3. Answered'
    <3>1. ASSUME NEW b \in Bots, drain[b].at = "settled" PROVE Head(drain[b].todo) \in Items
      BY <3>1, HeadIsOwn DEF HandoffInv, Engaged
    <3> QED
      BY <1>1, <2>1, <3>1 DEF HandoffInv, Answered
  <2>4. ASSUME NEW j \in Items, Accepted(j)', fate'[j] = {}
        PROVE  (j \in Listed(From[j]))'
    <3>1. j # i /\ Accepted(j) /\ fate[j] = {}
      BY <1>1, <2>1, <2>4 DEF Accepted
    <3> QED
      BY <1>3, <3>1 DEF HandoffInv, NothingLost, Listed
  <2>5. NothingLost'
    BY <2>4 DEF NothingLost
  <2> QED
    BY <2>2, <2>3, <2>5 DEF Rest
<1> QED
  BY <1>2, <1>3 DEF Arrives, Queued

\* A drain begins with the queue as it is; a deleted bot has none to forget.
LEMMA DrainedBegins ==
  ASSUME HandoffInv, NEW b \in Bots, NEW d, Drained(b, queued, d)
  PROVE  /\ queued' = queued
         /\ \/ drain' = d
            \/ /\ d[b].at = "off"
               /\ drain' = [d EXCEPT ![b] = [todo |-> queued[b], at |-> "next"]]
BY DEF Drained, HandoffInv, GoneIsEmpty

\* A turn that completes starts the drain, unless one is under way.
LEMMA CompletesOkKeeps ==
  ASSUME HandoffInv, NEW b \in Bots, CompletesOk(b)
  PROVE  Rest'
<1>1. UNCHANGED <<alive, queued, card, pending, granted, inflight, fate>>
  BY DrainedBegins DEF CompletesOk
<1>2. \A i \in Items : origin'[i] = "none" <=> origin[i] = "none"
  BY OriginsGrow DEF CompletesOk, HandoffInv
<1>3. \/ drain' = drain
      \/ /\ drain[b].at = "off"
         /\ drain' = [drain EXCEPT ![b] = [todo |-> queued[b], at |-> "next"]]
  BY DrainedBegins DEF CompletesOk
<1>4. \A c \in Bots :
        \/ drain'[c] = drain[c]
        \/ /\ drain[c].at = "off" /\ drain'[c].at = "next"
           /\ drain'[c].todo = queued[c]
  BY <1>3 DEF HandoffInv, TypeOK
<1>5. OwnQueue' /\ Engaged' /\ Answered' /\ GoneIsEmpty'
  <2>1. OwnQueue'
    BY <1>1, <1>4 DEF HandoffInv, OwnQueue
  <2>2. Engaged' /\ GoneIsEmpty'
    BY <1>1, <1>4 DEF HandoffInv, Engaged, GoneIsEmpty
  <2>3. Answered'
    BY <1>1, <1>4 DEF HandoffInv, Answered
  <2> QED
    BY <2>1, <2>2, <2>3
<1>7. CardAndPromiseAgree'
  BY <1>1, <1>4, HandoffAssumption DEF HandoffInv, CardAndPromiseAgree
<1>6. NothingLost'
  BY <1>1, <1>2 DEF HandoffInv, NothingLost, Accepted, Listed
<1> QED
  BY <1>5, <1>6, <1>7 DEF Rest

\* A queue that is dropped has had its user told, item by item.
LEMMA DroppedIsTold ==
  ASSUME HandoffInv, NEW b \in Bots, queued' = [queued EXCEPT ![b] = <<>>],
         fate' = Told(Listed(b), "dropped"), UNCHANGED inflight,
         \A i \in Items : origin'[i] = "none" <=> origin[i] = "none"
  PROVE  /\ NothingLost'
         /\ \A i \in Items : fate[i] \subseteq fate'[i]
         /\ \A c \in Bots : queued'[c] \in {queued[c], <<>>}
<1>1. \A i \in Items : fate[i] \subseteq fate'[i]
  BY ToldGrows DEF HandoffInv, Fates
<1>2. \A c \in Bots : queued'[c] = IF c = b THEN <<>> ELSE queued[c]
  BY DEF HandoffInv, TypeOK
<1>3. ASSUME NEW j \in Items, Accepted(j)', fate'[j] = {}
      PROVE  (j \in Listed(From[j]))'
  <2>1. Accepted(j) /\ fate[j] = {}
    BY <1>1, <1>3 DEF Accepted
  <2>2. j \in Listed(From[j])
    BY <2>1 DEF HandoffInv, NothingLost
  <2>3. j \notin Listed(b)
    BY <1>3 DEF Told
  <2>4. From[j] \in Bots /\ From[j] # b
    BY <2>2, <2>3, HandoffAssumption
  <2> QED
    BY <1>2, <2>2, <2>4 DEF Listed
<1>4. NothingLost'
  BY <1>3 DEF NothingLost
<1> QED
  BY <1>1, <1>2, <1>4

LEMMA CompletesBadKeeps ==
  ASSUME HandoffInv, NEW b \in Bots, CompletesBad(b)
  PROVE  Rest'
<1>1. \A i \in Items : origin'[i] = "none" <=> origin[i] = "none"
  BY OriginsGrow DEF CompletesBad, HandoffInv
<1>2. UNCHANGED <<alive, drain, card, pending, granted, inflight>>
      /\ queued' = [queued EXCEPT ![b] = <<>>] /\ fate' = Told(Listed(b), "dropped")
  BY DEF CompletesBad
<1>3. /\ NothingLost'
      /\ \A i \in Items : fate[i] \subseteq fate'[i]
      /\ \A c \in Bots : queued'[c] \in {queued[c], <<>>}
  BY <1>1, <1>2, DroppedIsTold
<1>4. OwnQueue' /\ Engaged' /\ GoneIsEmpty' /\ CardAndPromiseAgree'
  BY <1>2, <1>3 DEF HandoffInv, OwnQueue, Engaged, GoneIsEmpty, CardAndPromiseAgree
<1>5. \A c \in Bots : drain[c].at = "settled" => Head(drain[c].todo) \in Items
  BY HeadIsOwn DEF HandoffInv, Engaged
<1>6. Answered'
  BY <1>2, <1>3, <1>5 DEF HandoffInv, Answered
<1> QED
  BY <1>3, <1>4, <1>6 DEF Rest

\* The cards in S are settled, each with the promise of the one drain behind it.
LEMMA ResolvesKeeps ==
  ASSUME HandoffInv, NEW S \in SUBSET pending, NEW verdict \in {"allow", "deny"},
         Resolves(S, verdict), alive' \subseteq alive, UNCHANGED granted,
         \A i \in Items : fate[i] \subseteq fate'[i],
         \A b \in Bots : queued'[b] \in {queued[b], <<>>}
  PROVE  OwnQueue' /\ Engaged' /\ Answered' /\ CardAndPromiseAgree'
<1> USE HandoffAssumption
<1> DEFINE hit(b) == \E i \in S : From[i] = b
<1>1. \A i \in S : i \in Items /\ drain[From[i]].at = "asking"
                  /\ Head(drain[From[i]].todo) = i
  BY DEF HandoffInv, TypeOK, CardAndPromiseAgree
<1>2. \A b \in Bots :
        /\ ~hit(b) => drain'[b] = drain[b]
        /\ hit(b) => /\ drain[b].at = "asking"
                     /\ Head(drain[b].todo) \in S
                     /\ drain'[b].todo = drain[b].todo
                     /\ drain'[b].at = IF verdict = "allow" THEN "allowed" ELSE "denied"
  BY <1>1 DEF Resolves, HandoffInv, TypeOK
<1>3. /\ \A i \in Items : card'[i] = IF i \in S THEN verdict ELSE card[i]
      /\ pending' = pending \ S
  BY DEF Resolves
<1>4. \A i \in Items : i \in S <=> hit(From[i]) /\ Head(drain[From[i]].todo) = i
  BY <1>1, <1>2
<1>5. \A b \in Bots : drain[b].at \in {"settled", "allowed"} =>
        Head(drain[b].todo) \in Items /\ From[Head(drain[b].todo)] = b
  BY HeadIsOwn DEF HandoffInv, Engaged
<1> HIDE DEF hit
<1>6. OwnQueue'
  BY <1>2 DEF HandoffInv, OwnQueue
<1>7. Engaged'
  BY <1>2 DEF HandoffInv, Engaged
<1>8. Answered'
  <2> SUFFICES ASSUME NEW b \in Bots
               PROVE  /\ drain'[b].at = "settled" => fate'[Head(drain'[b].todo)] # {}
                      /\ drain'[b].at = "allowed" =>
                           \/ card'[Head(drain'[b].todo)] = "allow"
                           \/ <<b, To[Head(drain'[b].todo)]>> \in granted
    BY DEF Answered
  <2>1. CASE hit(b)
    <3>1. Head(drain[b].todo) \in Items /\ Head(drain[b].todo) \in S
      BY <1>1, <1>2, <2>1
    <3> QED
      BY <1>2, <1>3, <2>1, <3>1
  <2>2. CASE ~hit(b)
    <3>1. drain'[b] = drain[b]
      BY <1>2, <2>2
    <3>2. CASE drain[b].at = "settled"
      BY <1>5, <3>1, <3>2 DEF HandoffInv, Answered
    <3>3. CASE drain[b].at = "allowed"
      <4>1. Head(drain[b].todo) \notin S
        BY <1>1, <1>5, <3>3
      <4> QED
        BY <1>3, <1>5, <3>1, <3>3, <4>1 DEF HandoffInv, Answered
    <3> QED
      BY <3>1, <3>2, <3>3
  <2> QED
    BY <2>1, <2>2
<1>9. CardAndPromiseAgree'
  <2> SUFFICES ASSUME NEW i \in Items
               PROVE  /\ i \in pending' <=> drain'[From[i]].at = "asking"
                                           /\ Head(drain'[From[i]].todo) = i
                      /\ i \in pending' => card'[i] = "open"
                      /\ card'[i] = "open" /\ From[i] \in alive' => i \in pending'
    BY DEF CardAndPromiseAgree
  <2>1. CASE i \in S
    BY <1>2, <1>3, <1>4, <2>1
  <2>2. CASE i \notin S
    BY <1>2, <1>3, <1>4, <2>2 DEF HandoffInv, CardAndPromiseAgree
  <2> QED
    BY <2>1, <2>2
<1> QED
  BY <1>6, <1>7, <1>8, <1>9

\* A person answers a card, lets it expire or presses Stop.
LEMMA AnswersKeep ==
  ASSUME HandoffInv,
         \/ \E i \in Items : Expires(i) \/ \E verdict \in {"allow", "deny"} : Answers(i, verdict)
         \/ \E b \in Bots : Interrupts(b)
  PROVE  Rest'
<1>1. PICK S \in SUBSET pending, verdict \in {"allow", "deny"} : Resolves(S, verdict)
  <2>1. \/ \E i \in pending, verdict \in {"allow", "deny"} : Resolves({i}, verdict)
        \/ \E b \in Bots : Resolves({i \in pending : From[i] = b}, "deny")
    BY DEF Expires, Answers, Interrupts
  <2>2. CASE \E i \in pending, verdict \in {"allow", "deny"} : Resolves({i}, verdict)
    <3>1. PICK i \in pending, verdict \in {"allow", "deny"} : Resolves({i}, verdict)
      BY <2>2
    <3>2. {i} \in SUBSET pending
      OBVIOUS
    <3> QED
      BY <3>1, <3>2
  <2>3. CASE \E b \in Bots : Resolves({i \in pending : From[i] = b}, "deny")
    <3>1. PICK b \in Bots : Resolves({i \in pending : From[i] = b}, "deny")
      BY <2>3
    <3>2. {i \in pending : From[i] = b} \in SUBSET pending
      OBVIOUS
    <3> QED
      BY <3>1, <3>2
  <2> QED
    BY <2>1, <2>2, <2>3
<1>2. UNCHANGED <<alive, queued, granted, origin, inflight, fate>>
  BY DEF Expires, Answers, Interrupts
<1>3. OwnQueue' /\ Engaged' /\ Answered' /\ CardAndPromiseAgree'
  BY <1>1, <1>2, ResolvesKeeps
<1>4. GoneIsEmpty' /\ NothingLost'
  BY <1>2 DEF HandoffInv, GoneIsEmpty, NothingLost, Accepted, Listed
<1> QED
  BY <1>3, <1>4 DEF Rest

LEMMA DeletesKeeps ==
  ASSUME HandoffInv, NEW b \in Bots, Deletes(b)
  PROVE  Rest'
<1> DEFINE S == {i \in pending : b \in {From[i], To[i]}}
<1>1. Resolves(S, "deny") /\ S \in SUBSET pending
  BY DEF Deletes
<1>2. alive' = alive \ {b} /\ UNCHANGED <<granted, origin, inflight>>
      /\ queued' = [queued EXCEPT ![b] = <<>>] /\ fate' = Told(Listed(b), "dropped")
  BY DEF Deletes
<1>3. /\ NothingLost'
      /\ \A i \in Items : fate[i] \subseteq fate'[i]
      /\ \A c \in Bots : queued'[c] \in {queued[c], <<>>}
  BY <1>2, DroppedIsTold
<1> HIDE DEF S
<1>4. OwnQueue' /\ Engaged' /\ Answered' /\ CardAndPromiseAgree'
  BY <1>1, <1>2, <1>3, ResolvesKeeps
<1>5. \A c \in Bots : queued'[c] = IF c = b THEN <<>> ELSE queued[c]
  BY <1>2 DEF HandoffInv, TypeOK
<1>6. GoneIsEmpty'
  BY <1>2, <1>5 DEF HandoffInv, GoneIsEmpty
<1> QED
  BY <1>3, <1>4, <1>6 DEF Rest

\* The user of b is told what becomes of the item b's drain is at.
LEMMA SettlesKeeps ==
  ASSUME HandoffInv, NEW b \in Bots, At(b, "next") \/ At(b, "allowed") \/ At(b, "denied"),
         drain[b].todo # <<>>,
         \/ Dispatches(b, Head(drain[b].todo))
         \/ \E why \in Fates : Refuses(b, Head(drain[b].todo), why),
         UNCHANGED <<alive, card, pending, granted, origin, inflight>>
  PROVE  Rest'
<1> USE HandoffAssumption
<1> DEFINE i == Head(drain[b].todo)
<1>1. i \in Items
  BY HeadIsOwn
<1>2. queued' = queued /\ drain' = [drain EXCEPT ![b].at = "settled"]
  BY DEF Dispatches, Refuses, Goes
<1>3. \E why \in Fates : fate' = Told({i}, why)
  BY DEF Dispatches, Refuses, Fates
<1> HIDE DEF i
<1>4. fate'[i] # {} /\ \A j \in Items : fate[j] \subseteq fate'[j]
  BY <1>1, <1>3, ToldGrows DEF Told, HandoffInv
<1>5. \A c \in Bots :
        /\ drain'[c].todo = drain[c].todo
        /\ c # b => drain'[c].at = drain[c].at
        /\ c = b => drain'[c].at = "settled" /\ drain[c].at # "asking"
  <2>1. drain \in [Bots -> DrainRecords]
    BY DEF HandoffInv, TypeOK, DrainRecords
  <2>2. drain[b].at # "asking"
    BY DEF At
  <2> QED
    BY <1>2, <2>1, <2>2 DEF DrainRecords
<1>6. OwnQueue' /\ Engaged' /\ GoneIsEmpty'
  BY <1>2, <1>5 DEF HandoffInv, OwnQueue, Engaged, GoneIsEmpty
<1>7. Answered'
  <2>1. \A c \in Bots : drain[c].at = "settled" => Head(drain[c].todo) \in Items
    BY HeadIsOwn DEF HandoffInv, Engaged
  <2> QED
    BY <1>4, <1>5, <2>1 DEF HandoffInv, Answered, i
<1>8. CardAndPromiseAgree'
  BY <1>5 DEF HandoffInv, CardAndPromiseAgree
<1>9. NothingLost'
  BY <1>2, <1>4 DEF HandoffInv, NothingLost, Accepted, Listed
<1> QED
  BY <1>6, <1>7, <1>8, <1>9 DEF Rest

\* The drain of b goes ahead, or stops at a card of its own.
LEMMA AsksKeeps ==
  ASSUME HandoffInv, NEW b \in Bots, At(b, "next"), drain[b].todo # <<>>,
         Asks(b, Head(drain[b].todo)), UNCHANGED <<alive, granted, origin, inflight>>
  PROVE  Rest'
<1> USE HandoffAssumption
<1> DEFINE i == Head(drain[b].todo)
<1>1. i \in Items /\ From[i] = b
  BY HeadIsOwn
<1>2. UNCHANGED <<queued, fate>>
  BY DEF Asks, Goes
<1>3. \/ /\ <<b, To[i]>> \in granted
         /\ drain' = [drain EXCEPT ![b].at = "allowed"]
         /\ UNCHANGED <<card, pending>>
      \/ /\ drain' = [drain EXCEPT ![b].at = "asking"]
         /\ card' = [card EXCEPT ![i] = "open"]
         /\ pending' = pending \cup {i}
  BY DEF Asks, Goes
<1>4. GoneIsEmpty' /\ NothingLost'
  BY <1>2 DEF HandoffInv, GoneIsEmpty, NothingLost, Accepted, Listed
<1>5. \A c \in Bots : drain[c].at \in {"settled", "allowed"} =>
        Head(drain[c].todo) \in Items /\ From[Head(drain[c].todo)] = c
  BY HeadIsOwn DEF HandoffInv, Engaged
<1> HIDE DEF i
<1>6. drain[b].at = "next" /\ Head(drain[b].todo) = i
  BY DEF At, i
<1>7. \A c \in Bots : drain'[c].todo = drain[c].todo /\ (c # b => drain'[c].at = drain[c].at)
  <2>1. PICK at \in {"allowed", "asking"} : drain' = [drain EXCEPT ![b].at = at]
    BY <1>3
  <2> QED
    BY <2>1 DEF HandoffInv, TypeOK
<1>8. OwnQueue' /\ Engaged'
  <2>1. OwnQueue'
    BY <1>2, <1>7 DEF HandoffInv, OwnQueue
  <2>2. Engaged /\ \A c \in Bots : drain'[c].todo = drain[c].todo
    BY <1>7 DEF HandoffInv
  <2>3. \A c \in Bots : drain'[c].at # drain[c].at => c = b
    BY <1>7
  <2>4. Engaged'
    BY <1>6, <2>2, <2>3 DEF Engaged
  <2> QED
    BY <2>1, <2>4
<1>9. CASE <<b, To[i]>> \in granted /\ drain' = [drain EXCEPT ![b].at = "allowed"]
           /\ UNCHANGED <<card, pending>>
  <2>1. drain'[b].at = "allowed"
    BY <1>9 DEF HandoffInv, TypeOK
  <2>2. Answered'
    <3>1. Answered /\ \A c \in Bots : Head(drain'[c].todo) = Head(drain[c].todo)
      BY <1>7 DEF HandoffInv
    <3>2. \A c \in Bots : drain'[c].at # drain[c].at => c = b
      BY <1>7
    <3> QED
      BY <1>2, <1>6, <1>9, <2>1, <3>1, <3>2 DEF Answered
  <2>3. CardAndPromiseAgree'
    BY <1>6, <1>7, <1>9, <2>1 DEF HandoffInv, CardAndPromiseAgree
  <2> QED
    BY <1>4, <1>8, <2>2, <2>3 DEF Rest
<1>10. CASE drain' = [drain EXCEPT ![b].at = "asking"] /\ card' = [card EXCEPT ![i] = "open"]
            /\ pending' = pending \cup {i}
  <2>1. drain'[b].at = "asking" /\ \A j \in Items : card'[j] = IF j = i THEN "open" ELSE card[j]
    BY <1>10 DEF HandoffInv, TypeOK
  <2>2. Answered'
    <3> SUFFICES ASSUME NEW c \in Bots
                 PROVE  /\ drain'[c].at = "settled" => fate'[Head(drain'[c].todo)] # {}
                        /\ drain'[c].at = "allowed" =>
                             \/ card'[Head(drain'[c].todo)] = "allow"
                             \/ <<c, To[Head(drain'[c].todo)]>> \in granted'
      BY DEF Answered
    <3>1. CASE c = b
      BY <2>1, <3>1
    <3>2. CASE c # b
      <4>1. drain'[c].at = drain[c].at /\ Head(drain'[c].todo) = Head(drain[c].todo)
        BY <1>7, <3>2
      <4>2. drain[c].at = "allowed" => card'[Head(drain[c].todo)] = card[Head(drain[c].todo)]
        BY <1>1, <1>5, <2>1, <3>2
      <4> QED
        BY <1>2, <4>1, <4>2 DEF HandoffInv, Answered
    <3> QED
      BY <3>1, <3>2
  <2>3. CardAndPromiseAgree'
    <3> SUFFICES ASSUME NEW j \in Items
                 PROVE  /\ j \in pending' <=> drain'[From[j]].at = "asking"
                                             /\ Head(drain'[From[j]].todo) = j
                        /\ j \in pending' => card'[j] = "open"
                        /\ card'[j] = "open" /\ From[j] \in alive' => j \in pending'
      BY DEF CardAndPromiseAgree
    <3>1. CASE From[j] = b
      BY <1>1, <1>6, <1>7, <1>10, <2>1, <3>1 DEF HandoffInv, CardAndPromiseAgree
    <3>2. CASE From[j] # b
      BY <1>1, <1>7, <1>10, <2>1, <3>2 DEF HandoffInv, CardAndPromiseAgree
    <3> QED
      BY <3>1, <3>2
  <2> QED
    BY <1>4, <1>8, <2>2, <2>3 DEF Rest
<1> QED
  BY <1>3, <1>9, <1>10 DEF i

\* A settled item leaves the queue, and nothing else does.
LEMMA AcknowledgesKeeps ==
  ASSUME HandoffInv, NEW b \in Bots, Acknowledges(b)
  PROVE  Rest'
<1> USE HandoffAssumption
<1> DEFINE i == Head(drain[b].todo)
           q == queued[b]
           w == Without(q, i)
<1>1. drain[b].at = "settled" /\ drain[b].todo # <<>>
  BY DEF Acknowledges, At, HandoffInv, Engaged
<1>2. i \in Items /\ fate[i] # {} /\ drain[b].todo \in Seq(Items)
  BY <1>1, HeadIsOwn DEF HandoffInv, Answered, TypeOK
<1>3. UNCHANGED <<alive, card, pending, granted, origin, inflight, fate>>
  BY DEF Acknowledges
<1>4. /\ \A c \in Bots : queued'[c] = IF c = b THEN w ELSE queued[c]
      /\ \A c \in Bots : drain'[c] =
           IF c = b THEN [todo |-> Tail(drain[b].todo), at |-> "next"] ELSE drain[c]
  BY DEF Acknowledges, HandoffInv, TypeOK
<1>5. /\ \A n \in DOMAIN w : \E m \in DOMAIN q : w[n] = q[m]
      /\ \A m \in DOMAIN q : q[m] # i => \E n \in DOMAIN w : w[n] = q[m]
  <2>1. q \in Seq(Items)
    BY DEF HandoffInv, TypeOK
  <2> HIDE DEF i, q
  <2> QED
    BY <1>2, <2>1, WithoutFilters
<1>6. \A n \in DOMAIN Tail(drain[b].todo) : From[Tail(drain[b].todo)[n]] = b
  <2> DEFINE t == drain[b].todo
  <2>1. t \in Seq(Items) /\ t # <<>> /\ \A n \in DOMAIN t : From[t[n]] = b
    BY <1>1, <1>2 DEF HandoffInv, OwnQueue
  <2> HIDE DEF t
  <2>2. \A n \in DOMAIN Tail(t) : n + 1 \in DOMAIN t /\ Tail(t)[n] = t[n + 1]
    BY <2>1
  <2> QED
    BY <2>1, <2>2 DEF t
<1> HIDE DEF i, w, q
<1>7. OwnQueue'
  <2>1. \A n \in DOMAIN w : From[w[n]] = b
    BY <1>5 DEF HandoffInv, OwnQueue, q
  <2>2. /\ \A c \in Bots : c # b => queued'[c] = queued[c] /\ drain'[c] = drain[c]
        /\ queued'[b] = w /\ drain'[b] = [todo |-> Tail(drain[b].todo), at |-> "next"]
    BY <1>4
  <2>4. drain'[b].todo = Tail(drain[b].todo)
    BY <2>2
  <2>3. ASSUME NEW c \in Bots
        PROVE  /\ \A n \in DOMAIN queued'[c] : From[queued'[c][n]] = c
               /\ \A n \in DOMAIN drain'[c].todo : From[drain'[c].todo[n]] = c
    <3>1. CASE c = b
      BY <1>6, <2>1, <2>2, <2>4, <3>1
    <3>2. CASE c # b
      BY <2>2, <3>2 DEF HandoffInv, OwnQueue
    <3> QED
      BY <3>1, <3>2
  <2> QED
    BY <2>3 DEF OwnQueue
<1>8. GoneIsEmpty'
  <2>1. q = <<>> => w = <<>>
    BY DEF w, Without
  <2> QED
    BY <1>3, <1>4, <2>1 DEF HandoffInv, GoneIsEmpty, q
<1>9. Engaged' /\ Answered'
  <2>1. Engaged /\ Answered
    BY DEF HandoffInv
  <2>2. \A c \in Bots : \/ drain'[c] = drain[c]
                        \/ c = b /\ drain'[c].at = "next"
    BY <1>4
  <2>3. Engaged'
    BY <2>1, <2>2 DEF Engaged
  <2>4. Answered'
    BY <1>3, <2>1, <2>2 DEF Answered
  <2> QED
    BY <2>3, <2>4
<1>10. CardAndPromiseAgree'
  BY <1>1, <1>3, <1>4 DEF HandoffInv, CardAndPromiseAgree
<1>11. ASSUME NEW j \in Items, Accepted(j), fate[j] = {}
       PROVE  \E n \in DOMAIN queued'[From[j]] : queued'[From[j]][n] = j
  <2>1. j # i /\ \E m \in DOMAIN queued[From[j]] : queued[From[j]][m] = j
    BY <1>2, <1>11 DEF HandoffInv, NothingLost, Listed
  <2> QED
    BY <1>4, <1>5, <2>1 DEF q
<1>12. NothingLost'
  BY <1>3, <1>11 DEF NothingLost, Accepted, Listed
<1> QED
  BY <1>7, <1>8, <1>9, <1>10, <1>12 DEF Rest

\* A drain that is through ends, or begins again with what came since.
LEMMA DrainEndsKeeps ==
  ASSUME HandoffInv, NEW b \in Bots, DrainEnds(b)
  PROVE  Rest'
<1> USE HandoffAssumption
<1> DEFINE d == [drain EXCEPT ![b] = Off]
<1>1. UNCHANGED <<alive, card, pending, granted, origin, inflight, fate>> /\ Drained(b, queued, d)
  BY DEF DrainEnds
<1> HIDE DEF d
<1>2. /\ queued' = queued
      /\ \/ drain' = d
         \/ drain' = [d EXCEPT ![b] = [todo |-> queued[b], at |-> "next"]]
  BY <1>1, DrainedBegins
<1>3. /\ \A c \in Bots : c # b => drain'[c] = drain[c]
      /\ drain[b].at = "next"
      /\ \/ drain'[b].todo = <<>> /\ drain'[b].at = "off"
         \/ drain'[b].todo = queued[b] /\ drain'[b].at = "next"
  BY <1>2 DEF d, HandoffInv, TypeOK, Off, DrainEnds, At
<1>4. OwnQueue'
  BY <1>2, <1>3 DEF HandoffInv, OwnQueue
<1>5. Engaged' /\ GoneIsEmpty'
  BY <1>1, <1>2, <1>3 DEF HandoffInv, Engaged, GoneIsEmpty
<1>6. Answered'
  BY <1>1, <1>3 DEF HandoffInv, Answered
<1>7. CardAndPromiseAgree'
  BY <1>1, <1>3 DEF HandoffInv, CardAndPromiseAgree
<1>8. NothingLost'
  BY <1>1, <1>2 DEF HandoffInv, NothingLost, Accepted, Listed
<1> QED
  BY <1>4, <1>5, <1>6, <1>7, <1>8 DEF Rest

LEMMA DrainStepKeeps ==
  ASSUME HandoffInv, NEW b \in Bots, DrainStep(b)
  PROVE  Rest'
<1> DEFINE i == Head(drain[b].todo)
<1>1. CASE Processes(b)
  <2>1. At(b, "next") /\ drain[b].todo # <<>>
        /\ UNCHANGED <<alive, granted, origin, inflight>>
    BY <1>1 DEF Processes
  <2>2. \/ Asks(b, i)
        \/ /\ Dispatches(b, i) \/ \E why \in Fates : Refuses(b, i, why)
           /\ UNCHANGED <<card, pending>>
    BY <1>1 DEF Processes, Fates
  <2> QED
    BY <2>1, <2>2, AsksKeeps, SettlesKeeps
<1>2. CASE Allowed(b) \/ Denied(b)
  <2>1. At(b, "allowed") \/ At(b, "denied")
    BY <1>2 DEF Allowed, Denied
  <2>2. drain[b].todo # <<>> /\ UNCHANGED <<alive, card, pending, granted, origin, inflight>>
    BY <1>2, <2>1 DEF Allowed, Denied, At, HandoffInv, Engaged
  <2>3. Dispatches(b, i) \/ \E why \in Fates : Refuses(b, i, why)
    BY <1>2 DEF Allowed, Denied, Fates
  <2> QED
    BY <2>1, <2>2, <2>3, SettlesKeeps
<1> QED
  BY <1>1, <1>2, AcknowledgesKeeps, DrainEndsKeeps DEF DrainStep

\* A boot drains what was saved, dismisses the cards, and loses nothing.
LEMMA RestartsKeeps ==
  ASSUME HandoffInv, Restarts
  PROVE  Rest'
<1> USE HandoffAssumption
<1>1. alive' = alive /\ pending' = {} /\ inflight' = {} /\ granted' = granted
  BY DEF Restarts
<1>2. /\ \A c \in Bots : queued'[c] = queued[c]
      /\ \A c \in Bots : \/ drain'[c].todo = <<>> /\ drain'[c].at = "off"
                         \/ drain'[c].todo = queued[c] /\ drain'[c].at = "next"
  BY DEF Restarts, HandoffInv, GoneIsEmpty, TypeOK, Off
<1>3. OwnQueue'
  BY <1>2 DEF HandoffInv, OwnQueue
<1>4. Engaged' /\ Answered' /\ GoneIsEmpty'
  BY <1>1, <1>2 DEF HandoffInv, Engaged, Answered, GoneIsEmpty
<1>5. \A j \in Items : From[j] \in alive => card'[j] # "open"
  BY DEF Restarts, Dismissed
<1>6. CardAndPromiseAgree'
  BY <1>1, <1>2, <1>5 DEF CardAndPromiseAgree
<1>7. ASSUME NEW j \in Items, Accepted(j)', fate'[j] = {}
      PROVE  (j \in Listed(From[j]))'
  <2>0. j \in inflight => fate'[j] = {"refused"}
    BY DEF Restarts
  <2>1. j \notin inflight
    BY <1>7, <2>0
  <2>2. origin[j] # "none"
    BY <1>7 DEF Accepted, Restarts
  <2>3. j \in Listed(From[j]) \/ fate[j] = {}
    BY <1>7, <2>1 DEF Restarts
  <2>4. j \in Listed(From[j])
    BY <2>1, <2>2, <2>3 DEF HandoffInv, NothingLost, Accepted
  <2> QED
    BY <1>2, <2>4 DEF Listed
<1>8. NothingLost'
  BY <1>7 DEF NothingLost
<1> QED
  BY <1>3, <1>4, <1>6, <1>8 DEF Rest

-----------------------------------------------------------------------------
(* The theorems.                                                           *)

LEMMA HandoffInit == Init => HandoffInv
<1> SUFFICES ASSUME Init PROVE HandoffInv
  OBVIOUS
<1> USE HandoffAssumption
<1>1. \A b \in Bots : drain[b].todo = <<>> /\ drain[b].at = "off" /\ queued[b] = <<>>
  BY DEF Init, Off
<1>2. TypeOK
  <2>1. <<>> \in Seq(Items)
    OBVIOUS
  <2>2. Off \in DrainRecords
    BY <2>1 DEF Off, DrainRecords
  <2>3. left \in [restarts : 0 .. MaxRestarts, turns : 0 .. MaxTurns]
    BY DEF Init
  <2> QED
    BY <2>1, <2>2, <2>3 DEF Init, TypeOK, DrainRecords
<1>3. OwnQueue /\ Engaged /\ Answered /\ GoneIsEmpty
  BY <1>1 DEF OwnQueue, Engaged, Answered, GoneIsEmpty
<1>4. CardAndPromiseAgree
  BY <1>1 DEF Init, CardAndPromiseAgree
<1>5. NothingLost
  BY DEF Init, NothingLost, Accepted
<1> QED
  BY <1>2, <1>3, <1>4, <1>5 DEF HandoffInv

LEMMA HandoffStep == HandoffInv /\ [Next]_vars => HandoffInv'
<1> SUFFICES ASSUME HandoffInv, [Next]_vars PROVE TypeOK' /\ Rest'
  BY DEF HandoffInv, Rest
<1>0. TypeOK /\ Engaged
  BY DEF HandoffInv
<1>1. CASE UNCHANGED vars
  <2>1. TypeOK'
    BY <1>0, <1>1 DEF TypeOK, vars, late
  <2>2. Rest'
    BY <1>1, Untouched DEF vars, Grows
  <2> QED
    BY <2>1, <2>2
<1>2. ASSUME NEW b \in Bots, DrainStep(b) PROVE TypeOK' /\ Rest'
  BY <1>0, <1>2, DrainStepTyped, DrainStepKeeps
<1>3. ASSUME NEW b \in Bots, BotStep(b) PROVE TypeOK' /\ Rest'
  <2>1. TypeOK'
    BY <1>0, <1>3, BotStepTyped
  <2>2. Rest'
    BY <1>3, TurnsKeep, CompletesOkKeeps, CompletesBadKeeps, AnswersKeep, DeletesKeeps
       DEF BotStep
  <2> QED
    BY <2>1, <2>2
<1>4. ASSUME NEW i \in Items, ItemStep(i) PROVE TypeOK' /\ Rest'
  <2>1. TypeOK'
    BY <1>0, <1>4, ItemStepTyped
  <2>2. Rest'
    BY <1>4, CallsKeep, ArrivesKeeps, AnswersKeep, TurnsKeep DEF ItemStep
  <2> QED
    BY <2>1, <2>2
<1>5. CASE Reloads
  <2>2. origin' \in [Items -> {"none", "running", "finished", "stopped"}]
    BY <1>0, <1>5, OriginsType DEF Reloads
  <2>1. /\ turn' \in [Bots -> {None, Own} \cup Items] /\ astray' \subseteq Bots
        /\ watch' \in [Bots -> {None} \cup Items]
        /\ timer' \in [Bots -> {"off", "turn", "late"}]
    BY <1>0, <1>5 DEF Reloads, TypeOK
  <2>3. TypeOK'
    BY <1>0, <1>5, <2>1, <2>2 DEF Reloads, TypeOK
  <2> QED
    BY <1>5, <2>3, TurnsKeep
<1>6. CASE Restarts
  BY <1>0, <1>6, RestartsTyped, RestartsKeeps
<1> QED
  BY <1>1, <1>2, <1>3, <1>4, <1>5, <1>6 DEF Next

\* Every state satisfies the inductive invariant.
THEOREM Invariance == Spec => []HandoffInv
BY HandoffInit, HandoffStep, PTL DEF Spec

\* For any bots, handoffs, bounds and settings the state keeps its types
\* (delegations.ts, peer-approval.ts).
THEOREM Typing == Spec => []TypeOK
<1>1. HandoffInv => TypeOK
  BY DEF HandoffInv
<1> QED
  BY <1>1, Invariance, PTL

\* An approval card is open exactly while a drain awaits its answer, also after
\* a Stop, an expiry, a deletion and a restart (peer-approval.ts).
THEOREM CardsAnswerable == Spec => []CardAndPromiseAgree
<1>1. HandoffInv => CardAndPromiseAgree
  BY DEF HandoffInv
<1> QED
  BY <1>1, Invariance, PTL

\* A handoff that delegate_bot accepted stays in delegations.json until its
\* user has been told what became of it, wherever the server crashes.
THEOREM AcceptedIsKept == Spec => []NothingLost
<1>1. HandoffInv => NothingLost
  BY DEF HandoffInv
<1> QED
  BY <1>1, Invariance, PTL

\* Only a drain that goes ahead with its first item begins to work on it.
LEMMA StartsFromDrain ==
  ASSUME HandoffInv, Next, NEW i \in Items, Starts(i)
  PROVE  \E b \in Bots :
           /\ i = Head(drain[b].todo) /\ drain[b].todo # <<>> /\ Dispatches(b, i)
           /\ (Processes(b) /\ b \notin gated) \/ Allowed(b)
<1> USE HandoffAssumption
<1>0. To[i] \in Bots /\ turn'[To[i]] = i /\ turn'[To[i]] # turn[To[i]] /\ i \notin {None, Own}
  BY DEF Starts
<1>1. \A b \in Bots : ~BotStep(b)
  <2> SUFFICES ASSUME NEW b \in Bots, BotStep(b) PROVE FALSE
    OBVIOUS
  <2>1. turn'[To[i]] \in {turn[To[i]], None, Own}
    <3>1. \/ turn' = turn
          \/ turn' = [turn EXCEPT ![b] = Own]
          \/ turn' = [turn EXCEPT ![b] = None]
          \/ turn' = [c \in Bots |-> IF c \in {b} THEN None ELSE turn[c]]
      BY DEF BotStep, PersonSends, CompletesOk, CompletesBad, Ends, Stalls, Releases,
           DispatchFails, Interrupts, Gates, Deletes
    <3> QED
      BY <1>0, <3>1 DEF HandoffInv, TypeOK
  <2> QED
    BY <1>0, <2>1
<1>2. \A j \in Items : ~ItemStep(j)
  BY <1>0 DEF ItemStep, Calls, Arrives, Expires, Grants, Answers
<1>3. ~Reloads /\ ~Restarts
  BY <1>0 DEF Reloads, Restarts
<1>4. PICK b \in Bots : DrainStep(b)
  BY <1>1, <1>2, <1>3 DEF Next
<1> DEFINE k == Head(drain[b].todo)
<1>5. CASE Processes(b)
  <2>1. drain[b].todo # <<>> /\ Dispatches(b, k) /\ b \notin gated
    BY <1>0, <1>5 DEF Processes, Refuses, Asks
  <2>2. k \in Items /\ turn' \in {turn, [turn EXCEPT ![To[k]] = k]}
    BY <2>1, HeadIsOwn DEF Dispatches
  <2>3. i = k
    BY <1>0, <2>2 DEF HandoffInv, TypeOK
  <2> QED
    BY <1>5, <2>1, <2>3
<1>6. CASE Allowed(b)
  <2>1. drain[b].todo # <<>>
    BY <1>6 DEF Allowed, At, HandoffInv, Engaged
  <2>2. Dispatches(b, k)
    BY <1>0, <1>6 DEF Allowed, Refuses
  <2>3. k \in Items /\ turn' \in {turn, [turn EXCEPT ![To[k]] = k]}
    BY <2>1, <2>2, HeadIsOwn DEF Dispatches
  <2>4. i = k
    BY <1>0, <2>3 DEF HandoffInv, TypeOK
  <2> QED
    BY <1>6, <2>1, <2>2, <2>4
<1>7. ~Denied(b) /\ ~Acknowledges(b) /\ ~DrainEnds(b)
  BY <1>0 DEF Denied, Refuses, Acknowledges, DrainEnds
<1> QED
  BY <1>4, <1>5, <1>6, <1>7 DEF DrainStep

\* A handoff of a bot with approvePeerComms starts only with a person's consent
\* to it or to the pair, however the cards, stops, expiries, deletions and
\* restarts interleave with its drain (peer-approval.ts).
THEOREM ConsentFirst == Spec => NoStartWithoutConsent
<1>1. HandoffInv /\ [Next]_vars =>
        [\A i \in Items : Starts(i) =>
           \/ card[i] = "allow" \/ From[i] \notin gated
           \/ <<From[i], To[i]>> \in granted]_vars
  <2> SUFFICES ASSUME HandoffInv, Next, NEW i \in Items, Starts(i)
               PROVE  \/ card[i] = "allow" \/ From[i] \notin gated
                      \/ <<From[i], To[i]>> \in granted
    OBVIOUS
  <2>1. PICK b \in Bots :
          /\ i = Head(drain[b].todo) /\ drain[b].todo # <<>>
          /\ (Processes(b) /\ b \notin gated) \/ Allowed(b)
    BY StartsFromDrain
  <2>2. From[i] = b
    BY <2>1, HeadIsOwn
  <2> QED
    BY <2>1, <2>2 DEF Allowed, At, HandoffInv, Answered
<1> QED
  BY <1>1, Invariance, PTL DEF Spec, NoStartWithoutConsent

\* What a step may do to the turn of bot b, to the watch that mirrors it and to
\* the watchdog's timer: leave them alone, begin a person's turn or a handoff on a
\* bot that is free, end a turn, or let it stall.
TurnMoves(b) ==
  \/ /\ turn'[b] = turn[b] /\ watch'[b] = watch[b] /\ timer'[b] = timer[b]
     /\ b \in astray => b \in astray'
     /\ ran \subseteq ran'
  \/ /\ turn[b] = None /\ turn'[b] = Own
     /\ watch'[b] = watch[b] /\ timer'[b] = timer[b] /\ astray' = astray
     /\ ran' = ran
  \/ /\ turn[b] = None /\ turn'[b] \in Items /\ To[turn'[b]] = b
     /\ watch'[b] = turn'[b] /\ timer'[b] = timer[b] /\ turn'[b] \in ran'
  \/ /\ turn'[b] = None /\ timer'[b] # "turn"
     /\ \/ watch'[b] = None
        \/ watch'[b] = watch[b] /\ b \in astray' /\ ran' = ran
  \/ /\ turn[b] = None /\ turn'[b] = None /\ timer'[b] = "off"
     /\ watch'[b] = watch[b] /\ astray' = astray /\ ran' = ran
  \/ /\ turn[b] = None /\ turn'[b] = None /\ watch'[b] = None
     /\ timer'[b] = timer[b]
  \/ /\ turn[b] # None /\ turn'[b] = turn[b] /\ watch'[b] = None
     /\ timer'[b] = "turn"

TurnsMove == \A b \in Bots : TurnMoves(b)

\* Most handlers leave all of it alone.
LEMMA TurnsStay ==
  ASSUME UNCHANGED <<turn, watch, timer, astray, ran>>
  PROVE  TurnsMove
BY DEF TurnsMove, TurnMoves

\* A turn of b ends.
LEMMA EndsMoves ==
  ASSUME TypeOK, NEW b \in Bots, Ends(b), ran' = ran
  PROVE  TurnsMove
<1> SUFFICES ASSUME NEW c \in Bots PROVE TurnMoves(c)
  BY DEF TurnsMove
<1>1. CASE c = b
  BY <1>1 DEF Ends, TurnMoves, TypeOK
<1>2. CASE c # b
  BY <1>2 DEF Ends, TurnMoves, TypeOK
<1> QED
  BY <1>1, <1>2

\* A drain goes on with item i.
LEMMA DispatchMoves ==
  ASSUME TypeOK, NEW b \in Bots, NEW i \in Items, Dispatches(b, i),
         turn[To[i]] = None, UNCHANGED late
  PROVE  TurnsMove
<1> SUFFICES ASSUME NEW c \in Bots PROVE TurnMoves(c)
  BY DEF TurnsMove
<1>0. To[i] \in Bots /\ UNCHANGED <<timer, astray>>
  BY HandoffAssumption DEF late
<1>1. CASE turn' = [turn EXCEPT ![To[i]] = i]
  <2>1. watch' = [watch EXCEPT ![To[i]] = i] /\ ran' = ran \cup {i}
    BY <1>0, <1>1, HandoffAssumption DEF Dispatches, TypeOK
  <2> QED
    BY <1>0, <1>1, <2>1 DEF TurnMoves, TypeOK
<1>2. CASE turn' = turn
  <2>1. watch' = [watch EXCEPT ![To[i]] = None] /\ ran' = ran
    BY <1>0, <1>2, HandoffAssumption DEF Dispatches, TypeOK
  <2> QED
    BY <1>0, <1>2, <2>1 DEF TurnMoves, TypeOK
<1> QED
  BY <1>1, <1>2 DEF Dispatches

LEMMA EveryStepMovesTurns ==
  ASSUME HandoffInv, [Next]_vars
  PROVE  TurnsMove
<1>0. TypeOK
  BY DEF HandoffInv
<1>1. CASE UNCHANGED vars
  BY <1>1, TurnsStay DEF vars, late
<1>2. ASSUME NEW b \in Bots, DrainStep(b) PROVE TurnsMove
  <2> DEFINE i == Head(drain[b].todo)
  <2>1. CASE Processes(b)
    <3>1. i \in Items
      BY <1>0, <2>1, HeadAndTail DEF Processes
    <3>2. CASE Dispatches(b, i) /\ turn[To[i]] = None
      BY <1>0, <2>1, <3>1, <3>2, DispatchMoves DEF Processes
    <3>3. CASE ~(Dispatches(b, i) /\ turn[To[i]] = None)
      BY <2>1, <3>3, TurnsStay DEF Processes, Refuses, Asks, late
    <3> QED
      BY <3>2, <3>3
  <2>2. CASE Allowed(b)
    <3>1. i \in Items
      BY <2>2, HeadIsOwn DEF Allowed, At, HandoffInv, Engaged
    <3>2. CASE Dispatches(b, i) /\ turn[To[i]] = None
      BY <1>0, <2>2, <3>1, <3>2, DispatchMoves DEF Allowed
    <3>3. CASE ~(Dispatches(b, i) /\ turn[To[i]] = None)
      BY <2>2, <3>3, TurnsStay DEF Allowed, Refuses, late
    <3> QED
      BY <3>2, <3>3
  <2>3. CASE Denied(b) \/ Acknowledges(b) \/ DrainEnds(b)
    BY <2>3, TurnsStay DEF Denied, Refuses, Acknowledges, DrainEnds, late
  <2> QED
    BY <1>2, <2>1, <2>2, <2>3 DEF DrainStep
<1>3. ASSUME NEW b \in Bots, BotStep(b) PROVE TurnsMove
  <2>1. CASE PersonSends(b)
    BY <1>0, <2>1 DEF PersonSends, TurnsMove, TurnMoves, late, TypeOK
  <2>2. CASE CompletesOk(b) \/ CompletesBad(b) \/ DispatchFails(b)
    BY <1>0, <2>2, EndsMoves DEF CompletesOk, CompletesBad, DispatchFails
  <2>4. CASE Stalls(b)
    BY <1>0, <2>4 DEF Stalls, TurnsMove, TurnMoves, TypeOK
  <2>5. CASE Releases(b)
    BY <1>0, <2>5 DEF Releases, TurnsMove, TurnMoves, TypeOK
  <2>3. CASE Interrupts(b) \/ Gates(b) \/ Deletes(b)
    BY <2>3, TurnsStay DEF Interrupts, Gates, Deletes, late
  <2> QED
    BY <1>3, <2>1, <2>2, <2>3, <2>4, <2>5 DEF BotStep
<1>4. ASSUME NEW i \in Items, ItemStep(i) PROVE TurnsMove
  BY <1>4, TurnsStay DEF ItemStep, Calls, Arrives, Expires, Grants, Answers, late
<1>5. CASE Reloads
  <2> DEFINE S == {b \in alive : turn[b] # None}
  <2>1. /\ turn' = [b \in Bots |-> IF b \in S THEN None ELSE turn[b]]
        /\ watch' = [b \in Bots |-> IF b \in S THEN None ELSE watch[b]]
        /\ timer' = [b \in Bots |-> IF b \in S /\ timer[b] = "turn" THEN "late" ELSE timer[b]]
        /\ astray \subseteq astray' /\ ran' = ran
    BY <1>5 DEF Reloads
  <2> HIDE DEF S
  <2> QED
    BY <2>1 DEF TurnsMove, TurnMoves
<1>6. CASE Restarts
  BY <1>6 DEF Restarts, TurnsMove, TurnMoves
<1> QED
  BY <1>1, <1>2, <1>3, <1>4, <1>5, <1>6 DEF Next

\* No turn is started on a bot that is busy, although processOne looks at its
\* target long before it dispatches (delegations.ts).
THEOREM TargetWasFree == Spec => NoTurnTakenOver
<1>1. HandoffInv /\ [Next]_vars =>
        [\A b \in Bots : turn'[b] \in {turn[b], None} \/ turn[b] = None]_vars
  <2> SUFFICES ASSUME HandoffInv, [Next]_vars, NEW b \in Bots
               PROVE  turn'[b] \in {turn[b], None} \/ turn[b] = None
    OBVIOUS
  <2>1. TurnsMove
    BY EveryStepMovesTurns
  <2> QED
    BY <2>1 DEF TurnsMove, TurnMoves
<1> QED
  BY <1>1, Invariance, PTL DEF Spec, NoTurnTakenOver

\* The watchdog's timer that is set for a bot's turn has that turn.
TimersHaveTurns == \A b \in Bots : timer[b] = "turn" => turn[b] # None

LEMMA WatchStep ==
  ASSUME HandoffInv, TimersHaveTurns, WatchFollowsTheTurn, TurnsMove
  PROVE  TimersHaveTurns' /\ WatchFollowsTheTurn'
<1>1. \A i \in Items : i # None
  BY HandoffAssumption
<1>2. ASSUME NEW b \in Bots PROVE timer'[b] = "turn" => turn'[b] # None
  BY <1>1, HandoffAssumption DEF TimersHaveTurns, TurnsMove, TurnMoves
<1>3. ASSUME NEW b \in Bots \ astray'
      PROVE  watch'[b] = (IF turn'[b] \in Items /\ timer'[b] # "turn" THEN turn'[b] ELSE None)
  <2>1. b \notin astray => watch[b] = (IF turn[b] \in Items /\ timer[b] # "turn" THEN turn[b]
                                     ELSE None)
    BY DEF WatchFollowsTheTurn
  <2>2. timer[b] = "turn" => turn[b] # None
    BY DEF TimersHaveTurns
  <2>3. TurnMoves(b) /\ Own \notin Items /\ None \notin Items
    BY HandoffAssumption DEF TurnsMove
  <2> QED
    BY <2>1, <2>2, <2>3 DEF TurnMoves
<1> QED
  BY <1>2, <1>3 DEF TimersHaveTurns, WatchFollowsTheTurn

\* The watch on a target is there while it works on that handoff, until the turn
\* ends or stalls, so the end of no other turn is mirrored into its channel; over
\* every order of stalls, timers and ends but those where an end falls on a turn
\* that is not its own (index.ts).
THEOREM WatchIsTheTurns == Spec => []WatchFollowsTheTurn
<1>1. Init => TimersHaveTurns /\ WatchFollowsTheTurn
  BY HandoffAssumption DEF Init, TimersHaveTurns, WatchFollowsTheTurn
<1>2. HandoffInv /\ TimersHaveTurns /\ WatchFollowsTheTurn /\ [Next]_vars =>
        TimersHaveTurns' /\ WatchFollowsTheTurn'
  BY EveryStepMovesTurns, WatchStep
<1> QED
  BY <1>1, <1>2, Invariance, PTL DEF Spec

-----------------------------------------------------------------------------
(* Handoffs, one by one: what a step does to who works, what waits and what *)
(* was told.  Both the course of a handoff and the refinement of Handoff    *)
(* follow from it.                                                          *)

Works(i) == turn[To[i]] = i
Waits(i) == i \in Waiting(From[i])
Settled(i) == drain[From[i]].at = "settled" /\ Head(drain[From[i]].todo) = i

\* A queue, and a drain's snapshot of it, has an item once; a drain that is
\* off has none; and a bot works on what was handed to it.
Once(q) == \A m, n \in DOMAIN q : q[m] = q[n] => m = n

QueuedOnce ==
  \A b \in Bots :
    /\ Once(queued[b]) /\ Once(drain[b].todo)
    /\ drain[b].at = "off" => drain[b].todo = <<>>
    /\ turn[b] \in Items => To[turn[b]] = b

\* Before its call arrives nothing is known of a handoff; one that works was
\* started, and one that was started waits only until its drain lets it go;
\* what was refused at the call never was in a queue.
CourseOf(i) ==
  /\ origin[i] = "none" \/ i \in inflight => fate[i] = {} /\ ~Waits(i) /\ ~Works(i)
  /\ i \in inflight => origin[i] # "none"
  /\ Works(i) => "started" \in fate[i]
  /\ "started" \in fate[i] /\ Waits(i) => Works(i) /\ Settled(i)
  /\ "refused" \in fate[i] => fate[i] = {"refused"} /\ ~Waits(i) /\ ~Works(i)

Course == \A i \in Items : CourseOf(i)

\* What this process has run, it has told as begun; what it watches, it has run.
Remembered == ran \subseteq {i \in Items : "started" \in fate[i]}

Watched == \A b \in Bots : watch[b] \in Items => watch[b] \in ran

CourseInv == HandoffInv /\ QueuedOnce /\ Course /\ Remembered /\ Watched

\* Nothing begins: turns may end, and waiting handoffs may be let go after a
\* word to the user.
Ending ==
  \A i \in Items :
    /\ Works(i)' => Works(i)
    /\ Waits(i)' => Waits(i)
    /\ fate[i] \subseteq fate'[i]
    /\ \A w \in {"started", "refused"} : w \in fate'[i] => w \in fate[i]
    /\ fate'[i] = fate[i] \/ Waits(i) \/ Works(i) \/ "started" \in fate[i]
    /\ Waits(i) /\ ~Waits(i)' /\ ~Works(i) => fate'[i] # {}
    /\ Waits(i)' /\ "started" \in fate'[i] => Works(i)' /\ Settled(i)'
    /\ origin'[i] = "none" \/ i \in inflight' => origin[i] = "none" \/ i \in inflight
    /\ i \in inflight' => origin'[i] # "none"

\* A drain starts handoff i.
Beginning(i) ==
  /\ turn[To[i]] = None /\ turn' = [turn EXCEPT ![To[i]] = i]
  /\ Waits(i) /\ Settled(i)'
  /\ \A j \in Items : Waits(j)' <=> Waits(j)
  /\ \A j \in Items : fate'[j] = IF j = i THEN fate[j] \cup {"started"} ELSE fate[j]
  /\ \A j \in Items : Settled(j) => Settled(j)'
  /\ UNCHANGED <<origin, inflight>>

\* The call of handoff i arrives: it is queued, or refused.
Arriving(i) ==
  /\ i \in inflight /\ inflight' = inflight \ {i}
  /\ \A j \in Items \ {i} : (Waits(j)' <=> Waits(j)) /\ fate'[j] = fate[j]
  /\ \/ Waits(i)' /\ fate'[i] = fate[i]
     \/ ~Waits(i)' /\ fate'[i] = {"refused"}
  /\ \A j \in Items : Settled(j)' <=> Settled(j)
  /\ UNCHANGED <<turn, origin>>

\* The server is restarted.
Restarting ==
  \A i \in Items :
    /\ ~Works(i)' /\ (Waits(i)' => Waits(i))
    /\ Waits(i)' => fate'[i] = {}
    /\ ~Waits(i)' => fate'[i] = IF i \in inflight THEN {"refused"} ELSE fate[i]
    /\ Waits(i) /\ ~Waits(i)' /\ i \notin inflight => fate[i] # {}
    /\ origin'[i] = "none" <=> origin[i] = "none"
    /\ i \notin inflight'

HandoffsMove ==
  Ending \/ (\E i \in Items : Beginning(i) \/ Arriving(i)) \/ Restarting

\* Phase, as an alternative of cases that exclude each other.
LEMMA PhaseIs ==
  ASSUME NEW i \in Items
  PROVE  Phase(i) = IF Works(i) THEN "working" ELSE IF Waits(i) THEN "queued"
                    ELSE IF "started" \in fate[i] THEN "done"
                    ELSE IF fate[i] \subseteq {"refused"} THEN "new" ELSE "refused"
<1>1. CASE Works(i)
  BY <1>1 DEF Phase, Works
<1>2. CASE ~Works(i) /\ Waits(i)
  BY <1>2 DEF Phase, Works, Waits
<1>3. CASE ~Works(i) /\ ~Waits(i)
  BY <1>3 DEF Phase, Works, Waits
<1> QED
  BY <1>1, <1>2, <1>3

LEMMA PhaseIsNext ==
  ASSUME NEW i \in Items
  PROVE  Phase(i)' = IF Works(i)' THEN "working" ELSE IF Waits(i)' THEN "queued"
                     ELSE IF "started" \in fate'[i] THEN "done"
                     ELSE IF fate'[i] \subseteq {"refused"} THEN "new" ELSE "refused"
<1>1. CASE Works(i)'
  BY <1>1 DEF Phase, Works
<1>2. CASE ~Works(i)' /\ Waits(i)'
  BY <1>2 DEF Phase, Works, Waits
<1>3. CASE ~Works(i)' /\ ~Waits(i)'
  BY <1>3 DEF Phase, Works, Waits
<1> QED
  BY <1>1, <1>2, <1>3

\* Every such step keeps every handoff on its course.
LEMMA MovesKeepCourse ==
  ASSUME HandoffInv, QueuedOnce, Course, HandoffsMove
  PROVE  Course'
<1> SUFFICES ASSUME NEW i \in Items PROVE CourseOf(i)'
  BY DEF Course
<1>0. CourseOf(i) /\ fate[i] \subseteq Fates
  BY DEF Course, HandoffInv, TypeOK
<1>1. CASE Ending
  <2>1. ASSUME "refused" \in fate'[i] PROVE fate'[i] = {"refused"} /\ ~Waits(i)' /\ ~Works(i)'
    BY <1>0, <1>1, <2>1 DEF Ending, CourseOf
  <2> QED
    BY <1>0, <1>1, <2>1 DEF Ending, CourseOf
<1>2. ASSUME NEW k \in Items, Beginning(k) PROVE CourseOf(i)'
  <2>0. CourseOf(k) /\ To[k] \in Bots /\ turn \in [Bots -> {None, Own} \cup Items]
        /\ To[i] \in Bots /\ None \notin Items
    BY HandoffAssumption DEF Course, HandoffInv, TypeOK
  <2>1. ~Works(k) /\ Works(k)'
    BY <1>2, <2>0 DEF Beginning, Works
  <2>2. CASE i = k
    <3>1. fate'[i] = fate[i] \cup {"started"} /\ Waits(i) /\ Waits(i)' /\ Settled(i)'
          /\ origin' = origin /\ inflight' = inflight
      BY <1>2, <2>2 DEF Beginning
    <3>2. "refused" \notin fate'[i]
      BY <1>0, <3>1 DEF CourseOf
    <3> QED
      BY <1>0, <2>1, <2>2, <3>1, <3>2 DEF CourseOf
  <2>3. CASE i # k
    <3>1. fate'[i] = fate[i] /\ (Waits(i)' <=> Waits(i)) /\ (Settled(i) => Settled(i)')
          /\ origin' = origin /\ inflight' = inflight
      BY <1>2, <2>3 DEF Beginning
    <3>2. Works(i)' <=> Works(i)
      BY <1>2, <2>0, <2>3 DEF Beginning, Works
    <3> QED
      BY <1>0, <3>1, <3>2 DEF CourseOf
  <2> QED
    BY <2>2, <2>3
<1>3. ASSUME NEW k \in Items, Arriving(k) PROVE CourseOf(i)'
  <2>1. Works(i)' <=> Works(i)
    BY <1>3 DEF Arriving, Works
  <2>2. CASE i = k
    BY <1>0, <1>3, <2>1, <2>2 DEF Arriving, CourseOf
  <2>3. CASE i # k
    BY <1>0, <1>3, <2>1, <2>3 DEF Arriving, CourseOf
  <2> QED
    BY <2>2, <2>3
<1>4. CASE Restarting
  BY <1>0, <1>4 DEF Restarting, CourseOf
<1> QED
  BY <1>1, <1>2, <1>3, <1>4 DEF HandoffsMove

\* And every such step is a step of Handoff, or changes no handoff's phase.
LEMMA MovesAreHandoffs ==
  ASSUME HandoffInv, Course, HandoffsMove
  PROVE  H!Next \/ [i \in Items |-> Phase(i)]' = [i \in Items |-> Phase(i)]
<1> DEFINE ph == [i \in Items |-> Phase(i)]
           ph2 == [i \in Items |-> Phase(i)']
<1>0. ph' = ph2
  OBVIOUS
<1>a. \A i \in Items : CourseOf(i) /\ fate[i] \subseteq Fates
  BY DEF Course, HandoffInv, TypeOK
<1>1. CASE Ending
  <2> DEFINE S == {i \in Items : Phase(i)' # Phase(i)}
  <2>1. ASSUME NEW i \in Items, Phase(i)' # Phase(i)
        PROVE  \/ Phase(i) = "queued" /\ Phase(i)' = "refused"
               \/ Phase(i) = "working" /\ Phase(i)' = "done"
    BY <1>1, <1>a, <2>1, PhaseIs, PhaseIsNext DEF Ending, CourseOf
  <2>2. S \in SUBSET {i \in Items : ph[i] \in {"queued", "working"}}
    BY <2>1
  <2>3. ph2 = [i \in Items |->
                IF i \notin S THEN ph[i]
                ELSE IF ph[i] = "working" THEN "done" ELSE "refused"]
    BY <2>1
  <2> QED
    BY <1>0, <2>2, <2>3 DEF H!Next, H!Leave
<1>2. ASSUME NEW k \in Items, Beginning(k)
      PROVE  H!Next
  <2>0. To[k] \in Bots /\ turn \in [Bots -> {None, Own} \cup Items]
        /\ \A j \in Items : To[j] \in Bots /\ None # j
    BY HandoffAssumption DEF HandoffInv, TypeOK
  <2>1. \A j \in Items : To[j] = To[k] => ph[j] # "working"
    BY <1>2, <2>0, PhaseIs DEF Beginning, Works
  <2>2. ph[k] = "queued" /\ Phase(k)' = "working"
    BY <1>2, <2>0, PhaseIs, PhaseIsNext DEF Beginning, Works
  <2>3. ASSUME NEW j \in Items, j # k PROVE Phase(j)' = Phase(j)
    <3>1. Works(j)' <=> Works(j)
      BY <1>2, <2>0, <2>3 DEF Beginning, Works
    <3> QED
      BY <1>2, <2>3, <3>1, PhaseIs, PhaseIsNext DEF Beginning
  <2>4. ph2 = [ph EXCEPT ![k] = "working"]
    BY <2>2, <2>3
  <2>5. H!Start(k)
    BY <1>0, <2>1, <2>2, <2>4 DEF H!Start, H!Moves
  <2> QED
    BY <2>5 DEF H!Next
<1>3. ASSUME NEW k \in Items, Arriving(k)
      PROVE  H!Next \/ ph' = ph
  <2>1. \A j \in Items : Works(j)' <=> Works(j)
    BY <1>3 DEF Arriving, Works
  <2>2. ASSUME NEW j \in Items, j # k PROVE Phase(j)' = Phase(j)
    BY <1>3, <2>1, <2>2, PhaseIs, PhaseIsNext DEF Arriving
  <2>3. ph[k] = "new"
    BY <1>3, <1>a, PhaseIs DEF Arriving, CourseOf
  <2>4. Phase(k)' \in {"new", "queued"}
    BY <1>3, <1>a, <2>1, PhaseIsNext DEF Arriving, CourseOf
  <2>5. CASE Phase(k)' = "queued"
    <3>1. ph2 = [ph EXCEPT ![k] = "queued"]
      BY <2>2, <2>5
    <3>2. H!Queue(k)
      BY <1>0, <2>3, <3>1 DEF H!Queue, H!Moves
    <3> QED
      BY <3>2 DEF H!Next
  <2>6. CASE Phase(k)' = "new"
    <3>1. ph2 = ph
      BY <2>2, <2>3, <2>6
    <3> QED
      BY <1>0, <3>1
  <2> QED
    BY <2>4, <2>5, <2>6
<1>4. CASE Restarting
  <2> DEFINE S == {i \in Items : Phase(i)' = "queued"}
  <2>1. ASSUME NEW i \in Items
        PROVE  /\ Phase(i) = "working" => Phase(i)' \in {"queued", "done"}
               /\ Phase(i) = "queued" => Phase(i)' \in {"queued", "refused"}
               /\ Phase(i) \notin {"working", "queued"} => Phase(i)' = Phase(i)
    BY <1>4, <1>a, PhaseIs, PhaseIsNext DEF Restarting, CourseOf
  <2>2. ph2 = [i \in Items |->
                 CASE ph[i] = "working" -> IF i \in S THEN "queued" ELSE "done"
                   [] ph[i] = "queued" -> IF i \in S THEN "queued" ELSE "refused"
                   [] OTHER -> ph[i]]
    BY <2>1
  <2>3. S \in SUBSET Items
    OBVIOUS
  <2> QED
    BY <1>0, <2>2, <2>3 DEF H!Next, H!Crash
<1> HIDE DEF ph, ph2
<1> QED
  BY <1>1, <1>2, <1>3, <1>4 DEF HandoffsMove, ph

-----------------------------------------------------------------------------
(* Every step moves handoffs so.                                           *)

\* What waits, in terms of the queue and of the drain's snapshot.
LEMMA WaitsIs ==
  ASSUME NEW i \in Items
  PROVE  /\ Waits(i) <=> \/ \E n \in DOMAIN queued[From[i]] : queued[From[i]][n] = i
                         \/ \E n \in DOMAIN drain[From[i]].todo : drain[From[i]].todo[n] = i
         /\ Waits(i)' <=> \/ \E n \in DOMAIN queued'[From[i]] : queued'[From[i]][n] = i
                          \/ \E n \in DOMAIN drain'[From[i]].todo : drain'[From[i]].todo[n] = i
BY DEF Waits, Waiting, Listed

\* When no drain is in the middle of an item, nothing that was started waits.
LEMMA QuietEnds ==
  ASSUME HandoffInv, Course, Quiet,
         \A i \in Items : Works(i)' => Works(i),
         \A i \in Items : Waits(i)' => Waits(i),
         \A i \in Items :
           \/ fate'[i] = fate[i]
           \/ /\ Waits(i) \/ Works(i) \/ "started" \in fate[i]
              /\ \E w \in Fates \ {"started", "refused"} : fate'[i] = fate[i] \cup {w},
         \A i \in Items : Waits(i) /\ ~Waits(i)' => fate'[i] # {},
         \A i \in Items : origin'[i] = "none" \/ i \in inflight'
                            => origin[i] = "none" \/ i \in inflight,
         \A i \in Items : i \in inflight' => origin'[i] # "none"
  PROVE  Ending
<1>1. ASSUME NEW i \in Items PROVE ~Settled(i)
  BY HandoffAssumption DEF Quiet, Busily, Settled
<1>2. ASSUME NEW i \in Items
      PROVE  /\ fate[i] \subseteq fate'[i]
             /\ \A w \in {"started", "refused"} : w \in fate'[i] => w \in fate[i]
  OBVIOUS
<1>3. ASSUME NEW i \in Items, Waits(i)', "started" \in fate'[i] PROVE FALSE
  BY <1>1, <1>2, <1>3 DEF Course, CourseOf
<1> QED
  BY <1>2, <1>3 DEF Ending

\* A bot that is told to work for a person, or whose turn ends, works on no
\* more handoffs than before.
LEMMA FewerWork ==
  ASSUME \A b \in Bots : turn'[b] \in {turn[b], None, Own}
  PROVE  \A i \in Items : Works(i)' => Works(i)
BY HandoffAssumption DEF Works

\* A handler that leaves queues, snapshots and what users were told alone; a
\* drain that is off may take its snapshot.
Idle ==
  /\ Quiet /\ queued' = queued /\ fate' = fate
  /\ \A b \in Bots : turn'[b] \in {turn[b], None, Own}
  /\ \A b \in Bots : \/ drain'[b].todo = drain[b].todo
                     \/ drain'[b].todo = queued[b] /\ drain[b].todo = <<>>
  /\ \A i \in Items :
       /\ origin'[i] = "none" \/ i \in inflight' => origin[i] = "none" \/ i \in inflight
       /\ i \in inflight' => origin'[i] # "none"

LEMMA IdleEnds ==
  ASSUME HandoffInv, Course, Idle
  PROVE  Ending
<1>1. ASSUME NEW i \in Items PROVE Waits(i)' <=> Waits(i)
  <2>1. From[i] \in Bots
    BY HandoffAssumption
  <2>2. queued'[From[i]] = queued[From[i]]
        /\ \/ drain'[From[i]].todo = drain[From[i]].todo
           \/ drain'[From[i]].todo = queued[From[i]] /\ drain[From[i]].todo = <<>>
    BY <2>1 DEF Idle
  <2>3. CASE drain'[From[i]].todo = drain[From[i]].todo
    BY <2>2, <2>3, WaitsIs
  <2>4. CASE drain'[From[i]].todo = queued[From[i]] /\ drain[From[i]].todo = <<>>
    <3>1. DOMAIN drain[From[i]].todo = {}
      BY <2>4
    <3> QED
      BY <2>2, <2>4, <3>1, WaitsIs
  <2> QED
    BY <2>2, <2>3, <2>4
<1>2. /\ \A i \in Items : Works(i)' => Works(i)
      /\ \A i \in Items : Waits(i)' => Waits(i)
      /\ \A i \in Items : Waits(i) /\ ~Waits(i)' => fate'[i] # {}
  BY <1>1, FewerWork DEF Idle
<1> QED
  BY <1>2, QuietEnds DEF Idle

\* A queue is dropped, and its users are told.
LEMMA DropsEnd ==
  ASSUME HandoffInv, Course, Quiet, NEW b \in Bots,
         \A c \in Bots : turn'[c] \in {turn[c], None, Own},
         queued' = [queued EXCEPT ![b] = <<>>], fate' = Told(Listed(b), "dropped"),
         \A c \in Bots : drain'[c].todo = drain[c].todo,
         \A i \in Items : origin'[i] = "none" <=> origin[i] = "none",
         UNCHANGED inflight
  PROVE  Ending
<1>1. \A c \in Bots : queued'[c] = IF c = b THEN <<>> ELSE queued[c]
  BY DEF HandoffInv, TypeOK
<1>2. ASSUME NEW i \in Items
      PROVE  /\ Waits(i)' => Waits(i)
             /\ i \in Listed(b) => Waits(i)
             /\ Waits(i) /\ ~Waits(i)' => i \in Listed(b)
  <2>1. From[i] \in Bots
    BY HandoffAssumption
  <2>2. i \in Listed(b) => From[i] = b
    BY DEF HandoffInv, OwnQueue, Listed
  <2>3. i \in Listed(From[i]) <=> \E n \in DOMAIN queued[From[i]] : queued[From[i]][n] = i
    BY DEF Listed
  <2>4. i \in Listed(From[i]) => Waits(i)
    BY <2>3, WaitsIs
  <2>5. CASE From[i] = b
    <3>1. Waits(i)' <=> \E n \in DOMAIN drain[From[i]].todo : drain[From[i]].todo[n] = i
      BY <1>1, <2>1, <2>5, WaitsIs
    <3> QED
      BY <2>3, <2>4, <2>5, <3>1, WaitsIs
  <2>6. CASE From[i] # b
    <3>2. queued'[From[i]] = queued[From[i]] /\ drain'[From[i]].todo = drain[From[i]].todo
      BY <1>1, <2>1, <2>6
    <3>1. Waits(i)' <=> Waits(i)
      BY <3>2, WaitsIs
    <3> QED
      BY <2>2, <2>6, <3>1
  <2> QED
    BY <2>5, <2>6
<1>3. ASSUME NEW i \in Items
      PROVE  fate'[i] = IF i \in Listed(b) THEN fate[i] \cup {"dropped"} ELSE fate[i]
  BY DEF Told
<1>4. "dropped" \in Fates \ {"started", "refused"}
  BY DEF Fates
<1>5. \A i \in Items : i \in inflight => origin[i] # "none"
  BY DEF Course, CourseOf
<1> QED
  BY <1>2, <1>3, <1>4, <1>5, FewerWork, QuietEnds

\* Turns, calls, cards, permissions and deletions begin no handoff.
LEMMA TurnsEnd ==
  ASSUME CourseInv,
         \/ \E b \in Bots : BotStep(b)
         \/ \E i \in Items : ItemStep(i) /\ ~Arrives(i)
         \/ Reloads
  PROVE  Ending
<1> USE HandoffAssumption
<1>0. TypeOK /\ \A i \in Items : i \in inflight => origin[i] # "none"
  BY DEF CourseInv, HandoffInv, Course, CourseOf
<1>a. HandoffInv /\ Course /\ QueuedOnce
  BY DEF CourseInv
<1>1. CASE \E b \in Bots : PersonSends(b) \/ Gates(b)
  <2>1. PICK b \in Bots : PersonSends(b) \/ Gates(b)
    BY <1>1
  <2>2. /\ \A c \in Bots : turn'[c] \in {turn[c], None, Own}
        /\ Quiet /\ UNCHANGED <<queued, drain, fate, origin, inflight>>
    BY <1>0, <2>1 DEF PersonSends, Gates, TypeOK
  <2>9. Idle
    BY <1>0, <2>2 DEF Idle
  <2> QED
    BY <1>a, <2>9, IdleEnds
<1>2. CASE Reloads \/ \E b \in Bots : Stalls(b) \/ Releases(b)
  <2>2. /\ \A c \in Bots : turn'[c] \in {turn[c], None, Own}
        /\ Quiet /\ UNCHANGED <<queued, drain, fate, inflight>>
    BY <1>0, <1>2 DEF Reloads, Stalls, Releases, TypeOK
  <2>3. \A i \in Items : origin'[i] = "none" <=> origin[i] = "none"
    BY <1>0, <1>2, OriginsGrow DEF Reloads, Stalls, Releases
  <2>9. Idle
    BY <1>0, <2>2, <2>3 DEF Idle
  <2> QED
    BY <1>a, <2>9, IdleEnds
<1>3. CASE \E b \in Bots : CompletesOk(b)
  <2>1. PICK b \in Bots : CompletesOk(b)
    BY <1>3
  <2>2. /\ \A c \in Bots : turn'[c] \in {turn[c], None, Own}
        /\ Quiet /\ UNCHANGED <<fate, inflight>>
    BY <1>0, <2>1 DEF CompletesOk, Ends, TypeOK
  <2>3. \A i \in Items : origin'[i] = "none" <=> origin[i] = "none"
    BY <1>0, <2>1, OriginsGrow DEF CompletesOk
  <2>4. /\ queued' = queued
        /\ \/ drain' = drain
           \/ /\ drain[b].at = "off"
              /\ drain' = [drain EXCEPT ![b] = [todo |-> queued[b], at |-> "next"]]
    BY <1>a, <2>1, DrainedBegins DEF CompletesOk
  <2>6. /\ drain \in [Bots -> DrainRecords]
        /\ drain[b].at = "off" => drain[b].todo = <<>>
    BY <1>0, <1>a DEF TypeOK, DrainRecords, QueuedOnce
  <2>5. \A c \in Bots : \/ drain'[c].todo = drain[c].todo
                        \/ drain'[c].todo = queued[c] /\ drain[c].todo = <<>>
    BY <2>4, <2>6
  <2>9. Idle
    BY <1>0, <2>2, <2>3, <2>4, <2>5 DEF Idle
  <2> QED
    BY <1>a, <2>9, IdleEnds
<1>4. CASE \E b \in Bots : CompletesBad(b)
  <2>1. PICK b \in Bots : CompletesBad(b)
    BY <1>4
  <2>2. /\ \A c \in Bots : turn'[c] \in {turn[c], None, Own}
        /\ Quiet /\ UNCHANGED <<drain, inflight>>
        /\ queued' = [queued EXCEPT ![b] = <<>>] /\ fate' = Told(Listed(b), "dropped")
    BY <1>0, <2>1 DEF CompletesBad, Ends, TypeOK
  <2>3. \A i \in Items : origin'[i] = "none" <=> origin[i] = "none"
    BY <1>0, <2>1, OriginsGrow DEF CompletesBad
  <2> QED
    BY <1>a, <2>2, <2>3, DropsEnd
<1>5. CASE \E b \in Bots : Deletes(b)
  <2>1. PICK b \in Bots : Deletes(b)
    BY <1>5
  <2>2. /\ UNCHANGED <<turn, origin, inflight>> /\ Quiet
        /\ queued' = [queued EXCEPT ![b] = <<>>] /\ fate' = Told(Listed(b), "dropped")
    BY <2>1 DEF Deletes
  <2>3. \A c \in Bots : drain'[c].todo = drain[c].todo
    BY <1>0, <2>1 DEF Deletes, Resolves, TypeOK
  <2> QED
    BY <1>a, <2>2, <2>3, DropsEnd
<1>6. CASE \/ \E i \in Items : Expires(i) \/ \E v \in {"allow", "deny"} : Answers(i, v)
           \/ \E b \in Bots : Interrupts(b)
  <2>1. PICK S, v : Resolves(S, v)
    BY <1>6 DEF Expires, Answers, Interrupts
  <2>2. UNCHANGED <<turn, queued, origin, inflight, fate>> /\ Quiet
    BY <1>6 DEF Expires, Answers, Interrupts
  <2>3. \A c \in Bots : drain'[c].todo = drain[c].todo
    BY <1>0, <2>1 DEF Resolves, TypeOK
  <2>9. Idle
    BY <1>0, <2>2, <2>3 DEF Idle
  <2> QED
    BY <1>a, <2>9, IdleEnds
<1>7. CASE \E i \in Items : Calls(i) \/ Grants(i)
  <2>1. PICK i \in Items : Calls(i) \/ Grants(i)
    BY <1>7
  <2>2. UNCHANGED <<turn, queued, drain, fate>> /\ Quiet
    BY <2>1 DEF Calls, Grants
  <2>3. \A j \in Items : /\ origin'[j] = "none" \/ j \in inflight'
                              => origin[j] = "none" \/ j \in inflight
                         /\ j \in inflight' => origin'[j] # "none"
    BY <1>0, <2>1 DEF Calls, Grants, TypeOK
  <2>9. Idle
    BY <2>2, <2>3 DEF Idle
  <2> QED
    BY <1>a, <2>9, IdleEnds
<1>8. CASE \E b \in Bots : DispatchFails(b)
  <2>1. PICK b \in Bots : DispatchFails(b)
    BY <1>8
  <2>2. /\ \A c \in Bots : turn'[c] \in {turn[c], None, Own}
        /\ Quiet /\ UNCHANGED <<queued, drain, origin, inflight>>
    BY <1>0, <2>1 DEF DispatchFails, Ends, TypeOK
  <2>3. ASSUME NEW i \in Items
        PROVE  fate'[i] = IF i = watch[b] THEN fate[i] \cup {"failed"} ELSE fate[i]
    BY <2>1 DEF DispatchFails, Told
  <2>4. ASSUME NEW i \in Items, i = watch[b] PROVE "started" \in fate[i]
    BY <2>4 DEF CourseInv, Watched, Remembered
  <2>5. "failed" \in Fates \ {"started", "refused"}
    BY DEF Fates
  <2>6. ASSUME NEW i \in Items PROVE Waits(i)' <=> Waits(i)
    BY <2>2, WaitsIs
  <2> QED
    BY <1>0, <1>a, <2>2, <2>3, <2>4, <2>5, <2>6, FewerWork, QuietEnds
<1> QED
  BY <1>1, <1>2, <1>3, <1>4, <1>5, <1>6, <1>7, <1>8 DEF BotStep, ItemStep

\* What becomes of the item a drain is at: it begins, or its user is told.
LEMMA ItemMoves ==
  ASSUME HandoffInv, QueuedOnce, Course, NEW b \in Bots, drain[b].todo # <<>>,
         drain[b].at \in {"next", "allowed", "denied"},
         NEW at \in {"asking", "allowed", "settled"}, Goes(b, at),
         UNCHANGED <<origin, inflight>>,
         \/ UNCHANGED <<turn, fate>>
         \/ /\ turn' = turn
            /\ \E why \in Fates \ {"started", "refused"} :
                 fate' = Told({Head(drain[b].todo)}, why)
         \/ /\ turn[To[Head(drain[b].todo)]] = None /\ at = "settled"
            /\ turn' = [turn EXCEPT ![To[Head(drain[b].todo)]] = Head(drain[b].todo)]
            /\ fate' = Told({Head(drain[b].todo)}, "started")
  PROVE  HandoffsMove
<1> USE HandoffAssumption
<1> DEFINE i == Head(drain[b].todo)
<1>1. i \in Items /\ From[i] = b
  BY HeadIsOwn
<1>2. Waits(i)
  <2>1. drain[b].todo \in Seq(Items)
    BY DEF HandoffInv, TypeOK
  <2>2. 1 \in DOMAIN drain[b].todo /\ drain[b].todo[1] = i
    BY <2>1
  <2> HIDE DEF i
  <2> QED
    BY <1>1, <2>2, WaitsIs
<1>3. /\ queued' = queued /\ \A c \in Bots : drain'[c].todo = drain[c].todo
      /\ \A c \in Bots : drain'[c].at = IF c = b THEN at ELSE drain[c].at
  BY DEF Goes, HandoffInv, TypeOK
<1>4. ASSUME NEW j \in Items
      PROVE  /\ Waits(j)' <=> Waits(j)
             /\ Settled(j) => From[j] # b /\ Settled(j)'
  <2>1. /\ From[j] \in Bots /\ queued'[From[j]] = queued[From[j]]
        /\ drain'[From[j]].todo = drain[From[j]].todo
    BY <1>3
  <2>2. Waits(j)' <=> Waits(j)
    BY <2>1, WaitsIs
  <2>3. Settled(j) => From[j] # b /\ Settled(j)'
    BY <1>3, <2>1 DEF Settled
  <2> QED
    BY <2>2, <2>3
<1>5. at = "settled" => Settled(i)'
  BY <1>1, <1>3 DEF Settled
<1>6. \A j \in Items : CourseOf(j)
  BY DEF Course
<1> HIDE DEF i
<1>7. CASE turn' = turn /\ fate' = fate
  <2>1. \A j \in Items : Works(j)' <=> Works(j)
    BY <1>7 DEF Works
  <2>2. Ending
    BY <1>4, <1>6, <1>7, <2>1 DEF Ending, CourseOf
  <2> QED
    BY <2>2 DEF HandoffsMove
<1>8. ASSUME NEW why \in Fates \ {"started", "refused"}, turn' = turn, fate' = Told({i}, why)
      PROVE  HandoffsMove
  <2>1. \A j \in Items : Works(j)' <=> Works(j)
    BY <1>8 DEF Works
  <2>2. \A j \in Items : fate'[j] = IF j = i THEN fate[j] \cup {why} ELSE fate[j]
    BY <1>8 DEF Told
  <2>3. ASSUME NEW j \in Items
        PROVE  /\ fate[j] \subseteq fate'[j]
               /\ \A w \in {"started", "refused"} : w \in fate'[j] => w \in fate[j]
               /\ fate'[j] = fate[j] \/ Waits(j)
    <3>1. Waits(i) /\ (j # i => fate'[j] = fate[j])
      BY <1>2, <2>2
    <3>2. why \notin {"started", "refused"}
      BY <1>8
    <3>3. fate'[j] = fate[j] \/ fate'[j] = fate[j] \cup {why}
      BY <2>2
    <3>4. /\ fate[j] \subseteq fate'[j]
          /\ \A w \in {"started", "refused"} : w \in fate'[j] => w \in fate[j]
      BY <3>2, <3>3
    <3>5. fate'[j] = fate[j] \/ Waits(j)
      BY <3>1
    <3> QED
      BY <3>4, <3>5
  <2>4. ASSUME NEW j \in Items, Waits(j)', "started" \in fate'[j]
        PROVE  Works(j)' /\ Settled(j)'
    <3>1. Waits(j) /\ "started" \in fate[j]
      BY <1>4, <2>3, <2>4
    <3> QED
      BY <1>4, <1>6, <2>1, <3>1 DEF CourseOf
  <2>6. \A j \in Items : j \in inflight => origin[j] # "none"
    BY <1>6 DEF CourseOf
  <2>5. Ending
    BY <1>4, <2>1, <2>3, <2>4, <2>6 DEF Ending
  <2> QED
    BY <2>5 DEF HandoffsMove
<1>9. CASE /\ turn[To[i]] = None /\ at = "settled"
           /\ turn' = [turn EXCEPT ![To[i]] = i] /\ fate' = Told({i}, "started")
  <2>1. \A j \in Items : fate'[j] = IF j = i THEN fate[j] \cup {"started"} ELSE fate[j]
    BY <1>9 DEF Told
  <2>2. Beginning(i)
    BY <1>1, <1>2, <1>4, <1>5, <1>9, <2>1 DEF Beginning
  <2> QED
    BY <1>1, <2>2 DEF HandoffsMove
<1> QED
  BY <1>7, <1>8, <1>9 DEF i

\* A filtered queue has an item once, and no longer the one filtered out.
LEMMA WithoutOnce ==
  ASSUME NEW q \in Seq(Items), NEW i \in Items, Once(q)
  PROVE  Once(Without(q, i)) /\ \A n \in DOMAIN Without(q, i) : Without(q, i)[n] # i
<1> DEFINE at == {n \in DOMAIN q : q[n] = i}
           k  == CHOOSE n \in at : TRUE
           w  == [n \in 1 .. Len(q) - 1 |-> IF n < k THEN q[n] ELSE q[n + 1]]
<1>1. CASE at = {}
  BY <1>1 DEF Without
<1>2. CASE at # {}
  <2>1. k \in 1 .. Len(q) /\ q[k] = i /\ DOMAIN q = 1 .. Len(q) /\ Len(q) \in Nat
    BY <1>2
  <2>2. Without(q, i) = w
    BY <1>2 DEF Without
  <2> HIDE DEF k
  <2>3. DOMAIN w = 1 .. Len(q) - 1
    OBVIOUS
  <2>4. \A n \in DOMAIN w :
          /\ n < k => w[n] = q[n] /\ n \in DOMAIN q
          /\ ~(n < k) => w[n] = q[n + 1] /\ n + 1 \in DOMAIN q
    BY <2>1, <2>3
  <2>5. \A m, n \in DOMAIN q : q[m] = q[n] => m = n
    BY DEF Once
  <2>6. DOMAIN w \subseteq Nat
    BY <2>1, <2>3
  <2> HIDE DEF w
  <2>7. ASSUME NEW n \in DOMAIN w PROVE w[n] # i
    <3>1. n \in Nat
      BY <2>6
    <3>2. CASE n < k
      BY <2>1, <2>4, <2>5, <3>1, <3>2
    <3>3. CASE ~(n < k)
      BY <2>1, <2>4, <2>5, <3>1, <3>3
    <3> QED
      BY <3>2, <3>3
  <2>8. ASSUME NEW m \in DOMAIN w, NEW n \in DOMAIN w, w[m] = w[n] PROVE m = n
    <3>1. m \in Nat /\ n \in Nat
      BY <2>6
    <3>2. CASE m < k /\ n < k
      BY <2>4, <2>5, <2>8, <3>2
    <3>3. CASE m < k /\ ~(n < k)
      <4>1. m = n + 1
        BY <2>4, <2>5, <2>8, <3>3
      <4> QED
        BY <2>1, <3>1, <3>3, <4>1
    <3>4. CASE ~(m < k) /\ n < k
      <4>1. n = m + 1
        BY <2>4, <2>5, <2>8, <3>4
      <4> QED
        BY <2>1, <3>1, <3>4, <4>1
    <3>5. CASE ~(m < k) /\ ~(n < k)
      <4>1. m + 1 = n + 1
        BY <2>4, <2>5, <2>8, <3>5
      <4> QED
        BY <3>1, <4>1
    <3> QED
      BY <3>2, <3>3, <3>4, <3>5
  <2> QED
    BY <2>2, <2>7, <2>8 DEF Once
<1> QED
  BY <1>1, <1>2

\* So has the rest of a snapshot.
LEMMA TailOnce ==
  ASSUME NEW q \in Seq(Items), q # <<>>, Once(q)
  PROVE  /\ Once(Tail(q)) /\ \A n \in DOMAIN Tail(q) : Tail(q)[n] # Head(q)
         /\ \A m \in DOMAIN q : q[m] # Head(q) => \E n \in DOMAIN Tail(q) : Tail(q)[n] = q[m]
         /\ \A n \in DOMAIN Tail(q) : \E m \in DOMAIN q : Tail(q)[n] = q[m]
<1>1. /\ Len(q) \in Nat /\ Len(q) > 0 /\ DOMAIN q = 1 .. Len(q) /\ Head(q) = q[1]
      /\ DOMAIN Tail(q) = 1 .. Len(q) - 1 /\ \A n \in 1 .. Len(q) - 1 : Tail(q)[n] = q[n + 1]
  OBVIOUS
<1>2. \A m, n \in DOMAIN q : q[m] = q[n] => m = n
  BY DEF Once
<1>3. \A n \in DOMAIN Tail(q) : n \in Nat /\ n + 1 \in DOMAIN q /\ n > 0 /\ Tail(q)[n] = q[n + 1]
  BY <1>1
<1>4. ASSUME NEW m \in DOMAIN Tail(q), NEW n \in DOMAIN Tail(q), Tail(q)[m] = Tail(q)[n]
      PROVE  m = n
  <2>1. m + 1 = n + 1
    BY <1>2, <1>3, <1>4
  <2> QED
    BY <1>3, <2>1
<1>5. ASSUME NEW n \in DOMAIN Tail(q) PROVE Tail(q)[n] # Head(q)
  <2>1. Tail(q)[n] = Head(q) => n + 1 = 1
    BY <1>1, <1>2, <1>3
  <2> QED
    BY <1>3, <2>1
<1>6. ASSUME NEW m \in DOMAIN q, q[m] # Head(q)
      PROVE  \E n \in DOMAIN Tail(q) : Tail(q)[n] = q[m]
  <2>1. m - 1 \in DOMAIN Tail(q) /\ Tail(q)[m - 1] = q[m]
    BY <1>1, <1>6
  <2> QED
    BY <2>1
<1> QED
  BY <1>3, <1>4, <1>5, <1>6 DEF Once

\* A drain's step lets one handoff begin, or none.
LEMMA DrainStepMoves ==
  ASSUME HandoffInv, QueuedOnce, Course, NEW b \in Bots, DrainStep(b)
  PROVE  HandoffsMove
<1> USE HandoffAssumption
<1> DEFINE i == Head(drain[b].todo)
<1>0. TypeOK /\ \A j \in Items : CourseOf(j)
  BY DEF HandoffInv, Course
<1>1. CASE Processes(b) \/ Allowed(b) \/ Denied(b)
  <2>1. drain[b].todo # <<>> /\ drain[b].at \in {"next", "allowed", "denied"}
    BY <1>1 DEF Processes, Allowed, Denied, At, HandoffInv, Engaged
  <2>2. \/ Asks(b, i)
        \/ Dispatches(b, i) /\ turn[To[i]] = None
        \/ \E why \in Fates \ {"started", "refused"} : Refuses(b, i, why)
    BY <1>1 DEF Processes, Allowed, Denied, Fates
  <2>3. UNCHANGED <<origin, inflight>>
    BY <1>1 DEF Processes, Allowed, Denied
  <2>4. "failed" \in Fates \ {"started", "refused"}
    BY DEF Fates
  <2>5. \E at \in {"asking", "allowed", "settled"} :
          /\ Goes(b, at)
          /\ \/ UNCHANGED <<turn, fate>>
             \/ /\ turn' = turn
                /\ \E why \in Fates \ {"started", "refused"} : fate' = Told({i}, why)
             \/ /\ turn[To[i]] = None /\ at = "settled"
                /\ turn' = [turn EXCEPT ![To[i]] = i]
                /\ fate' = Told({i}, "started")
    <3>1. CASE Asks(b, i)
      BY <3>1 DEF Asks
    <3>2. ASSUME NEW why \in Fates \ {"started", "refused"}, Refuses(b, i, why)
          PROVE  Goes(b, "settled") /\ turn' = turn /\ fate' = Told({i}, why)
      BY <3>2 DEF Refuses
    <3>3. CASE Dispatches(b, i) /\ turn[To[i]] = None
      BY <2>4, <3>3 DEF Dispatches
    <3> QED
      BY <2>2, <3>1, <3>2, <3>3
  <2> QED
    BY <2>1, <2>3, <2>5, ItemMoves
<1>2. CASE Acknowledges(b)
  <2> DEFINE t == Tail(drain[b].todo)
             w == Without(queued[b], i)
  <2>1. drain[b].at = "settled" /\ drain[b].todo # <<>> /\ drain[b].todo \in Seq(Items)
    BY <1>0, <1>2 DEF Acknowledges, At, HandoffInv, Engaged, TypeOK
  <2>2. i \in Items /\ From[i] = b /\ fate[i] # {} /\ queued[b] \in Seq(Items)
    BY <1>0, <2>1, HeadIsOwn DEF HandoffInv, Answered, TypeOK
  <2>3. UNCHANGED <<turn, origin, inflight, fate>>
        /\ \A c \in Bots : c # b => queued'[c] = queued[c] /\ drain'[c] = drain[c]
        /\ queued'[b] = w /\ drain'[b].todo = t
    BY <1>0, <1>2 DEF Acknowledges, TypeOK
  <2>4. Once(queued[b]) /\ Once(drain[b].todo)
    BY DEF QueuedOnce
  <2>5. /\ \A n \in DOMAIN t : t[n] # i
        /\ \A m \in DOMAIN drain[b].todo : drain[b].todo[m] # i =>
             \E n \in DOMAIN t : t[n] = drain[b].todo[m]
        /\ \A n \in DOMAIN t :
             \E m \in DOMAIN drain[b].todo : t[n] = drain[b].todo[m]
    BY <2>1, <2>4, TailOnce
  <2> HIDE DEF i
  <2>6. /\ \A n \in DOMAIN w : w[n] # i
        /\ \A n \in DOMAIN w :
             \E m \in DOMAIN queued[b] : w[n] = queued[b][m]
        /\ \A m \in DOMAIN queued[b] : queued[b][m] # i =>
             \E n \in DOMAIN w : w[n] = queued[b][m]
    BY <2>2, <2>4, WithoutFilters, WithoutOnce
  <2> HIDE DEF t, w
  <2>7. ASSUME NEW j \in Items, From[j] = b
        PROVE  Waits(j)' <=> Waits(j) /\ j # i
    <3>1. CASE j = i
      <4>1. /\ \A n \in DOMAIN queued'[From[j]] : queued'[From[j]][n] # j
            /\ \A n \in DOMAIN drain'[From[j]].todo : drain'[From[j]].todo[n] # j
        BY <2>3, <2>5, <2>6, <2>7, <3>1
      <4>2. ~Waits(j)'
        BY <4>1, WaitsIs
      <4> QED
        BY <3>1, <4>2
    <3>2. CASE j # i
      <4>1. (\E n \in DOMAIN queued[b] : queued[b][n] = j)
              <=> \E n \in DOMAIN queued'[b] : queued'[b][n] = j
        BY <2>3, <2>6, <3>2
      <4>2. (\E n \in DOMAIN drain[b].todo : drain[b].todo[n] = j)
              <=> \E n \in DOMAIN drain'[b].todo : drain'[b].todo[n] = j
        BY <2>3, <2>5, <3>2
      <4> QED
        BY <2>7, <3>2, <4>1, <4>2, WaitsIs
    <3> QED
      BY <3>1, <3>2
  <2>8. ASSUME NEW j \in Items, From[j] # b
        PROVE  (Waits(j)' <=> Waits(j)) /\ (Settled(j)' <=> Settled(j))
    <3>1. queued'[From[j]] = queued[From[j]] /\ drain'[From[j]] = drain[From[j]]
      BY <2>3, <2>8
    <3> QED
      BY <3>1, WaitsIs DEF Settled
  <2>9. \A j \in Items : Works(j)' <=> Works(j)
    BY <2>3 DEF Works
  <2>10. ASSUME NEW j \in Items, Waits(j)', "started" \in fate[j]
         PROVE  Works(j)' /\ Settled(j)'
    <3>1. Waits(j) /\ Works(j) /\ Settled(j)
      BY <1>0, <2>7, <2>8, <2>10 DEF CourseOf
    <3>2. From[j] # b
      BY <2>7, <2>10, <3>1 DEF Settled, i
    <3> QED
      BY <2>8, <2>9, <3>1, <3>2
  <2>11. \A j \in Items : Waits(j)' => Waits(j)
    BY <2>7, <2>8
  <2>12. \A j \in Items : Waits(j) /\ ~Waits(j)' => fate'[j] # {}
    BY <2>2, <2>3, <2>7, <2>8
  <2>13. \A j \in Items : j \in inflight => origin[j] # "none"
    BY <1>0 DEF CourseOf
  <2>14. Ending
    BY <2>3, <2>9, <2>10, <2>11, <2>12, <2>13 DEF Ending
  <2> QED
    BY <2>14 DEF HandoffsMove
<1>3. CASE DrainEnds(b)
  <2> DEFINE d == [drain EXCEPT ![b] = Off]
  <2>1. UNCHANGED <<turn, origin, inflight, fate>> /\ Drained(b, queued, d)
        /\ drain[b].at = "next" /\ drain[b].todo = <<>>
    BY <1>3 DEF DrainEnds, At
  <2> HIDE DEF d
  <2>2. /\ queued' = queued
        /\ \/ drain' = d
           \/ drain' = [d EXCEPT ![b] = [todo |-> queued[b], at |-> "next"]]
    BY <2>1, DrainedBegins
  <2>3. /\ \A c \in Bots : c # b => drain'[c] = drain[c]
        /\ drain'[b].todo = <<>> \/ drain'[b].todo = queued[b]
    BY <1>0, <2>2 DEF d, TypeOK, Off
  <2>4. ASSUME NEW j \in Items PROVE Waits(j)' <=> Waits(j)
    <3>1. queued'[From[j]] = queued[From[j]]
      BY <2>2
    <3>2. CASE From[j] = b
      <4>1. Waits(j) <=> \E n \in DOMAIN queued[b] : queued[b][n] = j
        BY <2>1, <3>2, WaitsIs
      <4>2. Waits(j)' <=> \E n \in DOMAIN queued[b] : queued[b][n] = j
        BY <2>3, <3>1, <3>2, WaitsIs
      <4> QED
        BY <4>1, <4>2
    <3>3. CASE From[j] # b
      <4>1. drain'[From[j]] = drain[From[j]]
        BY <2>3, <3>3
      <4> QED
        BY <3>1, <4>1, WaitsIs
    <3> QED
      BY <3>2, <3>3
  <2>5. ASSUME NEW j \in Items, Settled(j) PROVE Settled(j)'
    <3>1. From[j] # b
      BY <2>1, <2>5 DEF Settled
    <3>2. drain'[From[j]] = drain[From[j]]
      BY <2>3, <3>1
    <3> QED
      BY <2>5, <3>2 DEF Settled
  <2>6. \A j \in Items : Works(j)' <=> Works(j)
    BY <2>1 DEF Works
  <2>7. Ending
    BY <1>0, <2>1, <2>4, <2>5, <2>6 DEF Ending, CourseOf
  <2> QED
    BY <2>7 DEF HandoffsMove
<1> QED
  BY <1>1, <1>2, <1>3 DEF DrainStep

\* A call that arrives is about a handoff nothing is known of.
LEMMA ArrivesMoves ==
  ASSUME HandoffInv, Course, NEW i \in Items, Arrives(i)
  PROVE  HandoffsMove
<1> USE HandoffAssumption
<1> DEFINE q == queued[From[i]]
<1>0. CourseOf(i) /\ From[i] \in Bots /\ q \in Seq(Items)
  BY DEF HandoffInv, TypeOK, Course
<1>1. UNCHANGED <<turn, drain, origin>> /\ i \in inflight /\ inflight' = inflight \ {i}
  BY DEF Arrives
<1>2. fate[i] = {} /\ ~Waits(i)
  BY <1>0, <1>1 DEF CourseOf
<1>3. \A j \in Items : Settled(j)' <=> Settled(j)
  BY <1>1 DEF Settled
<1>4. CASE queued' = [queued EXCEPT ![From[i]] = Append(q, i)] /\ fate' = fate
  <2>1. /\ DOMAIN Append(q, i) = DOMAIN q \cup {Len(q) + 1}
        /\ \A n \in DOMAIN q : Append(q, i)[n] = q[n]
        /\ Append(q, i)[Len(q) + 1] = i
    BY <1>0
  <2>2. /\ \A b \in Bots : b # From[i] => queued'[b] = queued[b]
        /\ queued'[From[i]] = Append(q, i)
    BY <1>0, <1>4 DEF HandoffInv, TypeOK
  <2>3. Waits(i)'
    BY <2>1, <2>2, WaitsIs
  <2>4. ASSUME NEW j \in Items \ {i} PROVE Waits(j)' <=> Waits(j)
    <3>1. CASE From[j] = From[i]
      <4>1. (\E n \in DOMAIN queued'[From[j]] : queued'[From[j]][n] = j)
              <=> \E n \in DOMAIN queued[From[j]] : queued[From[j]][n] = j
        BY <2>1, <2>2, <3>1
      <4> QED
        BY <1>1, <4>1, WaitsIs
    <3>2. CASE From[j] # From[i]
      <4>1. queued'[From[j]] = queued[From[j]]
        BY <2>2, <3>2
      <4> QED
        BY <1>1, <4>1, WaitsIs
    <3> QED
      BY <3>1, <3>2
  <2>5. Arriving(i)
    BY <1>1, <1>3, <1>4, <2>3, <2>4 DEF Arriving
  <2> QED
    BY <2>5 DEF HandoffsMove
<1>5. CASE queued' = queued /\ fate' = Told({i}, "refused")
  <2>1. \A j \in Items : Waits(j)' <=> Waits(j)
    BY <1>1, <1>5, WaitsIs
  <2>2. fate'[i] = {"refused"} /\ \A j \in Items \ {i} : fate'[j] = fate[j]
    BY <1>2, <1>5 DEF Told
  <2>3. Arriving(i)
    BY <1>1, <1>2, <1>3, <2>1, <2>2 DEF Arriving
  <2> QED
    BY <2>3 DEF HandoffsMove
<1> QED
  BY <1>4, <1>5 DEF Arrives, Queued

\* After a restart what is saved waits, as if nothing had become of it.
LEMMA RestartsMoves ==
  ASSUME HandoffInv, Course, Restarts
  PROVE  HandoffsMove
<1> USE HandoffAssumption
<1>1. /\ \A c \in Bots : queued'[c] = queued[c]
      /\ \A c \in Bots : drain'[c].todo = <<>> \/ drain'[c].todo = queued[c]
  BY DEF Restarts, HandoffInv, GoneIsEmpty, TypeOK, Off
<1>2. ASSUME NEW i \in Items
      PROVE  /\ i \in Listed(From[i]) => Waits(i)
             /\ Waits(i)' <=> i \in Listed(From[i])
  <2>1. i \in Listed(From[i]) <=> \E n \in DOMAIN queued[From[i]] : queued[From[i]][n] = i
    BY DEF Listed
  <2>2. i \in Listed(From[i]) => Waits(i)
    BY <2>1, WaitsIs
  <2>3. /\ From[i] \in Bots /\ queued'[From[i]] = queued[From[i]]
        /\ drain'[From[i]].todo = <<>> \/ drain'[From[i]].todo = queued[From[i]]
    BY <1>1
  <2>4. Waits(i)' <=> \E n \in DOMAIN queued[From[i]] : queued[From[i]][n] = i
    BY <2>3, WaitsIs
  <2> QED
    BY <2>1, <2>2, <2>4
<1>3. ASSUME NEW i \in Items
      PROVE  /\ ~Works(i)' /\ i \notin inflight'
             /\ fate'[i] = IF i \in inflight THEN {"refused"}
                           ELSE IF i \in Listed(From[i]) THEN {} ELSE fate[i]
             /\ origin'[i] = "none" <=> origin[i] = "none"
  BY DEF Restarts, Works
<1>4. ASSUME NEW i \in Items
      PROVE  /\ i \in inflight => ~Waits(i)
             /\ Waits(i) /\ i \notin Listed(From[i]) /\ i \notin inflight => fate[i] # {}
  BY DEF Course, CourseOf, HandoffInv, NothingLost, Accepted
<1>5. Restarting
  BY <1>2, <1>3, <1>4 DEF Restarting
<1> QED
  BY <1>5 DEF HandoffsMove

LEMMA StepsMoveHandoffs ==
  ASSUME CourseInv, [Next]_vars
  PROVE  HandoffsMove
<1>0. HandoffInv /\ QueuedOnce /\ Course
  BY DEF CourseInv
<1>1. CASE UNCHANGED vars
  <2>1. \A i \in Items : /\ (Works(i)' <=> Works(i)) /\ (Waits(i)' <=> Waits(i))
                         /\ (Settled(i)' <=> Settled(i))
    BY <1>1 DEF vars, Works, Waits, Waiting, Listed, Settled
  <2>2. UNCHANGED <<fate, origin, inflight>>
    BY <1>1 DEF vars
  <2>3. Ending
    <3> USE <1>0
    <3> SUFFICES ASSUME NEW i \in Items, CourseOf(i)
                 PROVE  /\ (Works(i)' <=> Works(i)) /\ (Waits(i)' <=> Waits(i))
                        /\ fate'[i] = fate[i] /\ (Waits(i) /\ "started" \in fate[i] => Settled(i)' /\ Works(i)')
                        /\ origin'[i] = origin[i] /\ inflight' = inflight
                        /\ i \in inflight => origin[i] # "none"
      BY DEF Ending, Course
    <3> QED
      BY <2>1, <2>2 DEF CourseOf
  <2> QED
    BY <2>3 DEF HandoffsMove
<1>2. CASE Next
  BY <1>0, <1>2, DrainStepMoves, TurnsEnd, ArrivesMoves, RestartsMoves DEF Next, HandoffsMove
<1> QED
  BY <1>1, <1>2

-----------------------------------------------------------------------------
(* A queue and its snapshot have an item once.                             *)

\* What a step may do to a queue and to a drain.
QueuesMove ==
  \A b \in Bots :
    /\ \/ queued'[b] = queued[b]
       \/ queued'[b] = <<>>
       \/ \E i \in Items : queued'[b] = Append(queued[b], i) /\ i \notin Listed(b)
       \/ \E i \in Items : queued'[b] = Without(queued[b], i)
    /\ \/ drain'[b].todo = drain[b].todo /\ (drain'[b].at = "off" => drain[b].at = "off")
       \/ drain'[b].todo = queued[b] /\ drain'[b].at = "next"
       \/ drain'[b].todo = Tail(drain[b].todo) /\ drain'[b].at = "next" /\ drain[b].todo # <<>>
       \/ drain'[b].todo = <<>>

LEMMA QueuesMoveOnce ==
  ASSUME HandoffInv, QueuedOnce, QueuesMove, TurnsMove
  PROVE  QueuedOnce'
<1> SUFFICES ASSUME NEW b \in Bots
             PROVE  /\ Once(queued'[b]) /\ Once(drain'[b].todo)
                    /\ drain'[b].at = "off" => drain'[b].todo = <<>>
                    /\ turn'[b] \in Items => To[turn'[b]] = b
  BY DEF QueuedOnce
<1>0. /\ queued[b] \in Seq(Items) /\ drain[b].todo \in Seq(Items)
      /\ Once(queued[b]) /\ Once(drain[b].todo)
      /\ turn \in [Bots -> {None, Own} \cup Items]
      /\ \A c \in Bots : turn[c] \in Items => To[turn[c]] = c
      /\ drain[b].at = "off" => drain[b].todo = <<>>
  BY DEF HandoffInv, TypeOK, QueuedOnce
<1>1. Once(<<>>)
  BY DEF Once
<1>2. ASSUME NEW i \in Items, i \notin Listed(b) PROVE Once(Append(queued[b], i))
  <2> DEFINE q == queued[b]
             a == Append(q, i)
  <2>1. /\ DOMAIN a = DOMAIN q \cup {Len(q) + 1} /\ a[Len(q) + 1] = i
        /\ \A n \in DOMAIN q : a[n] = q[n]
    BY <1>0
  <2>2. \A n \in DOMAIN q : q[n] # i
    BY <1>2 DEF Listed
  <2>3. \A m, n \in DOMAIN q : q[m] = q[n] => m = n
    BY <1>0 DEF Once
  <2> HIDE DEF q, a
  <2>4. \A m, n \in DOMAIN a : a[m] = a[n] => m = n
    BY <2>1, <2>2, <2>3
  <2> QED
    BY <2>4 DEF Once, a, q
<1>3. Once(queued'[b])
  BY <1>0, <1>1, <1>2, WithoutOnce DEF QueuesMove
<1>4. Once(drain'[b].todo)
  <2>1. drain[b].todo # <<>> => Once(Tail(drain[b].todo))
    BY <1>0, TailOnce
  <2> QED
    BY <1>0, <1>1, <2>1 DEF QueuesMove
<1>5. drain'[b].at = "off" => drain'[b].todo = <<>>
  BY <1>0 DEF QueuesMove
<1>6. turn'[b] \in Items => To[turn'[b]] = b
  BY <1>0, HandoffAssumption DEF TurnsMove, TurnMoves
<1> QED
  BY <1>3, <1>4, <1>5, <1>6

LEMMA StepsMoveQueues ==
  ASSUME HandoffInv, Course, [Next]_vars
  PROVE  QueuesMove
<1> USE HandoffAssumption
<1>0. /\ TypeOK /\ queued \in Queues /\ drain \in [Bots -> DrainRecords]
  BY DEF HandoffInv, TypeOK, Queues, DrainRecords
<1>1. CASE UNCHANGED <<queued, drain>>
  BY <1>1 DEF QueuesMove
<1>2. CASE \E b \in Bots : CompletesOk(b) \/ DrainEnds(b)
  <2>0. PICK b \in Bots : CompletesOk(b) \/ DrainEnds(b)
    BY <1>2
  <2>1. PICK d \in {drain, [drain EXCEPT ![b] = Off]} : Drained(b, queued, d)
    BY <2>0 DEF CompletesOk, DrainEnds
  <2>2. /\ queued' = queued
        /\ \/ drain' = d
           \/ drain' = [d EXCEPT ![b] = [todo |-> queued[b], at |-> "next"]]
    BY <2>1, DrainedBegins
  <2>3. \A c \in Bots :
          \/ drain'[c] = drain[c] \/ drain'[c].todo = <<>>
          \/ drain'[c].todo = queued[c] /\ drain'[c].at = "next"
    <3>1. CASE d = drain
      BY <1>0, <2>2, <3>1
    <3>2. CASE d = [drain EXCEPT ![b] = Off]
      BY <1>0, <2>2, <3>2 DEF Off
    <3> QED
      BY <3>1, <3>2
  <2> QED
    BY <2>2, <2>3 DEF QueuesMove
<1>3. CASE \E b \in Bots : CompletesBad(b)
  <2>1. PICK b \in Bots : queued' = [queued EXCEPT ![b] = <<>>] /\ drain' = drain
    BY <1>3 DEF CompletesBad
  <2>2. \A c \in Bots : queued'[c] \in {queued[c], <<>>}
    BY <1>0, <2>1 DEF Queues
  <2> QED
    BY <2>1, <2>2 DEF QueuesMove
<1>4. CASE \E b \in Bots : Processes(b) \/ Allowed(b) \/ Denied(b)
  <2>1. PICK b \in Bots, at \in {"asking", "allowed", "settled"} : Goes(b, at)
    BY <1>4 DEF Processes, Allowed, Denied, Dispatches, Refuses, Asks
  <2>2. queued' = queued /\ \A c \in Bots : /\ drain'[c].todo = drain[c].todo
                                            /\ drain'[c].at \in {drain[c].at, at}
    BY <1>0, <2>1 DEF Goes
  <2> QED
    BY <2>2 DEF QueuesMove
<1>5. CASE \E b \in Bots : Acknowledges(b)
  <2>1. PICK b \in Bots : Acknowledges(b)
    BY <1>5
  <2>2. drain[b].todo # <<>> /\ Head(drain[b].todo) \in Items
    BY <2>1, HeadIsOwn DEF Acknowledges, At, HandoffInv, Engaged
  <2>3. /\ queued'[b] = Without(queued[b], Head(drain[b].todo))
        /\ drain'[b].todo = Tail(drain[b].todo) /\ drain'[b].at = "next"
        /\ \A c \in Bots : c # b => queued'[c] = queued[c] /\ drain'[c] = drain[c]
    BY <1>0, <2>1 DEF Acknowledges, Queues
  <2> QED
    BY <2>2, <2>3 DEF QueuesMove
<1>6. CASE \E i \in Items : Arrives(i)
  <2>1. PICK i \in Items : Arrives(i)
    BY <1>6
  <2>2. /\ drain' = drain
        /\ queued' = queued \/ queued' = [queued EXCEPT ![From[i]] = Append(@, i)]
    BY <2>1 DEF Arrives, Queued
  <2>3. i \notin Listed(From[i])
    BY <2>1 DEF Arrives, Course, CourseOf, Waits, Waiting
  <2>4. \A c \in Bots : \/ queued'[c] = queued[c]
                        \/ queued'[c] = Append(queued[c], i) /\ i \notin Listed(c)
    BY <1>0, <2>2, <2>3 DEF Queues
  <2> QED
    BY <2>2, <2>4 DEF QueuesMove
<1>7. CASE \/ \E i \in Items : Expires(i) \/ \E v \in {"allow", "deny"} : Answers(i, v)
           \/ \E b \in Bots : Interrupts(b) \/ Deletes(b)
  <2>1. PICK S, v : Resolves(S, v)
    BY <1>7 DEF Expires, Answers, Interrupts, Deletes
  <2>2. \A c \in Bots : /\ drain'[c].todo = drain[c].todo
                        /\ drain'[c].at \in {drain[c].at, "allowed", "denied"}
    BY <1>0, <2>1 DEF Resolves, DrainRecords
  <2>3. \A c \in Bots : queued'[c] \in {queued[c], <<>>}
    BY <1>0, <1>7 DEF Expires, Answers, Interrupts, Deletes, Queues
  <2> QED
    BY <2>2, <2>3 DEF QueuesMove
<1>8. CASE Restarts
  <2>1. \A c \in Bots : queued'[c] \in {queued[c], <<>>}
    BY <1>8 DEF Restarts
  <2>2. \A c \in Bots : \/ drain'[c].todo = queued[c] /\ drain'[c].at = "next"
                        \/ drain'[c].todo = <<>>
    BY <1>8 DEF Restarts, Off
  <2> QED
    BY <2>1, <2>2 DEF QueuesMove
<1>9. ASSUME Next
      PROVE  \/ UNCHANGED <<queued, drain>>
             \/ \E b \in Bots : \/ CompletesOk(b) \/ CompletesBad(b) \/ DrainEnds(b)
                                \/ Processes(b) \/ Allowed(b) \/ Denied(b)
                                \/ Acknowledges(b) \/ Interrupts(b) \/ Deletes(b)
             \/ \E i \in Items : \/ Arrives(i) \/ Expires(i)
                                 \/ \E v \in {"allow", "deny"} : Answers(i, v)
             \/ Restarts
  BY <1>9 DEF Next, DrainStep, BotStep, ItemStep, PersonSends, Stalls, Releases, Reloads,
       DispatchFails, Gates, Calls, Grants
<1> QED
  BY <1>1, <1>2, <1>3, <1>4, <1>5, <1>6, <1>7, <1>8, <1>9 DEF vars

-----------------------------------------------------------------------------
(* What this process has run and what it watches.                          *)

LEMMA RememberedStep ==
  ASSUME HandoffInv, Remembered, [Next]_vars
  PROVE  Remembered'
<1>0. TypeOK
  BY DEF HandoffInv
<1>1. CASE Restarts
  BY <1>1 DEF Restarts, Remembered
<1>2. CASE \E b \in Bots : Processes(b) \/ Allowed(b) \/ Denied(b)
  <2>1. PICK b \in Bots : Processes(b) \/ Allowed(b) \/ Denied(b)
    BY <1>2
  <2> DEFINE i == Head(drain[b].todo)
  <2>2. i \in Items
    BY <2>1, HeadIsOwn DEF Processes, Allowed, Denied, At, HandoffInv, Engaged
  <2>3. \/ ran' = ran /\ \E w \in Fates : fate' = Told({i}, w) \/ fate' = fate
        \/ ran' = ran \cup {i} /\ fate' = Told({i}, "started")
    BY <2>1 DEF Processes, Allowed, Denied, Dispatches, Refuses, Asks, Fates
  <2> HIDE DEF i
  <2>4. ASSUME NEW w \in Fates, fate' = Told({i}, w) \/ fate' = fate, ran' = ran
        PROVE  Remembered'
    <3>1. \A j \in Items : fate[j] \subseteq fate'[j]
      BY <1>0, <2>4, ToldGrows
    <3> QED
      BY <2>4, <3>1 DEF Remembered
  <2>5. CASE ran' = ran \cup {i} /\ fate' = Told({i}, "started")
    <3>1. \A j \in Items : fate'[j] = IF j = i THEN fate[j] \cup {"started"} ELSE fate[j]
      BY <2>5 DEF Told
    <3> QED
      BY <2>2, <2>5, <3>1 DEF Remembered
  <2> QED
    BY <2>3, <2>4, <2>5
<1>3. CASE ~Restarts /\ ~\E b \in Bots : Processes(b) \/ Allowed(b) \/ Denied(b)
  <2> DEFINE grows == ran' = ran /\ \A j \in Items : fate[j] \subseteq fate'[j]
  <2>1. "dropped" \in Fates /\ "failed" \in Fates /\ "refused" \in Fates
    BY DEF Fates
  <2>2. CASE UNCHANGED vars
    BY <2>2 DEF vars, Remembered
  <2>3. ASSUME NEW b \in Bots, Acknowledges(b) \/ DrainEnds(b) \/ BotStep(b) PROVE grows
    <3>1. /\ ran' = ran
          /\ \/ fate' = fate \/ fate' = Told(Listed(b), "dropped")
             \/ fate' = Told({watch[b]}, "failed")
      BY <2>3 DEF Acknowledges, DrainEnds, BotStep, PersonSends, CompletesOk,
         CompletesBad, Stalls, Releases, DispatchFails, Interrupts, Gates, Deletes
    <3> QED
      BY <1>0, <2>1, <3>1, ToldGrows
  <2>4. ASSUME NEW i \in Items, ItemStep(i) PROVE grows
    <3>1. ran' = ran /\ (fate' = fate \/ fate' = Told({i}, "refused"))
      BY <2>4 DEF ItemStep, Calls, Arrives, Queued, Expires, Grants, Answers
    <3> QED
      BY <1>0, <2>1, <3>1, ToldGrows
  <2>5. CASE Reloads
    BY <2>5 DEF Reloads, Remembered
  <2>6. CASE grows
    BY <2>6 DEF Remembered
  <2> QED
    BY <1>3, <2>2, <2>3, <2>4, <2>5, <2>6 DEF Next, DrainStep
<1> QED
  BY <1>1, <1>2, <1>3

LEMMA WatchedStep ==
  ASSUME Watched, TurnsMove
  PROVE  Watched'
<1> SUFFICES ASSUME NEW b \in Bots, watch'[b] \in Items PROVE watch'[b] \in ran'
  BY DEF Watched
<1>1. TurnMoves(b) /\ (watch[b] \in Items => watch[b] \in ran) /\ None \notin Items
  BY HandoffAssumption DEF TurnsMove, Watched
<1> QED
  BY <1>1 DEF TurnMoves

-----------------------------------------------------------------------------
(* The refinement.                                                         *)

LEMMA CourseInit == Init => CourseInv
<1> SUFFICES ASSUME Init PROVE CourseInv
  OBVIOUS
<1> USE HandoffAssumption
<1>1. \A b \in Bots : /\ drain[b].todo = <<>> /\ drain[b].at = "off" /\ queued[b] = <<>>
                      /\ turn[b] = None /\ watch[b] = None
  BY DEF Init, Off
<1>2. QueuedOnce
  <2>1. Once(<<>>)
    BY DEF Once
  <2> QED
    BY <1>1, <2>1 DEF QueuedOnce
<1>3. \A i \in Items : ~Waits(i) /\ ~Works(i)
  BY <1>1, WaitsIs DEF Works
<1>4. Course
  BY <1>3 DEF Init, Course, CourseOf
<1>5. Remembered /\ Watched
  BY <1>1 DEF Init, Remembered, Watched
<1> QED
  BY <1>2, <1>4, <1>5, HandoffInit DEF CourseInv

LEMMA CourseStep ==
  ASSUME CourseInv, [Next]_vars
  PROVE  CourseInv' /\ HandoffsMove
<1>1. HandoffInv /\ QueuedOnce /\ Course /\ Remembered /\ Watched
  BY DEF CourseInv
<1>2. HandoffInv'
  BY <1>1, HandoffStep
<1>3. TurnsMove
  BY <1>1, EveryStepMovesTurns
<1>4. Remembered' /\ Watched'
  BY <1>1, <1>3, RememberedStep, WatchedStep
<1>5. QueuesMove
  BY <1>1, StepsMoveQueues
<1>6. QueuedOnce'
  BY <1>1, <1>3, <1>5, QueuesMoveOnce
<1>7. HandoffsMove
  BY StepsMoveHandoffs
<1>8. Course'
  BY <1>1, <1>7, MovesKeepCourse
<1> QED
  BY <1>2, <1>4, <1>6, <1>7, <1>8 DEF CourseInv

\* A handoff is in the queue of the bot that gave it once, no drain that is off
\* keeps a snapshot, and what was begun waits only until its drain lets it go.
THEOREM Courses == Spec => []CourseInv
BY CourseInit, CourseStep, PTL DEF Spec

\* Queue, drain, cards, turns and restarts implement Handoff: work that was
\* accepted is refused with a word to its user, or done by its target in one
\* turn, one handoff at a time, and only a crash queues it again.
THEOREM Refinement == Spec => RefinesHandoff
<1> DEFINE ph == [i \in Items |-> Phase(i)]
<1>1. Init => H!Init
  <2> SUFFICES ASSUME Init PROVE ph = [i \in Items |-> "new"]
    BY DEF H!Init
  <2>1. \A i \in Items : ~Waits(i) /\ ~Works(i) /\ fate[i] = {}
    <3> SUFFICES ASSUME NEW i \in Items PROVE ~Waits(i) /\ ~Works(i) /\ fate[i] = {}
      OBVIOUS
    <3>1. CourseOf(i)
      BY CourseInit DEF CourseInv, Course
    <3> QED
      BY <3>1 DEF Init, CourseOf
  <2>2. \A i \in Items : Phase(i) = "new"
    BY <2>1, PhaseIs
  <2> QED
    BY <2>2
<1>2. CourseInv /\ [Next]_vars => [H!Next]_ph
  <2> SUFFICES ASSUME CourseInv, [Next]_vars PROVE H!Next \/ ph' = ph
    OBVIOUS
  <2>1. HandoffInv /\ Course /\ HandoffsMove
    BY CourseStep DEF CourseInv
  <2> QED
    BY <2>1, MovesAreHandoffs
<1> QED
  BY <1>1, <1>2, Courses, PTL DEF Spec, RefinesHandoff, H!Spec

-----------------------------------------------------------------------------
(* Once by one process.                                                    *)

\* One server process runs no handoff twice, whatever its drain waits for and
\* however turns, stops and deletions fall in between (delegations.ts).
THEOREM OnceByAProcess == Spec => RunsOnce
<1>1. CourseInv /\ [Next]_vars =>
        [\A i \in Items : Starts(i) => i \notin ran]_vars
  <2> SUFFICES ASSUME CourseInv, Next, NEW i \in Items, Starts(i)
               PROVE  i \notin ran
    OBVIOUS
  <2>0. HandoffInv /\ CourseOf(i) /\ Remembered
    BY DEF CourseInv, Course
  <2>1. PICK b \in Bots :
          /\ i = Head(drain[b].todo) /\ drain[b].todo # <<>>
          /\ Processes(b) \/ Allowed(b)
    BY <2>0, StartsFromDrain
  <2>2. From[i] = b /\ ~Settled(i)
    BY <2>0, <2>1, HeadIsOwn DEF Processes, Allowed, At, Settled
  <2>3. Waits(i)
    <3>1. drain[b].todo \in Seq(Items)
      BY <2>0 DEF HandoffInv, TypeOK
    <3>2. 1 \in DOMAIN drain[b].todo /\ drain[b].todo[1] = i
      BY <2>1, <3>1
    <3> QED
      BY <2>2, <3>2, WaitsIs
  <2> QED
    BY <2>0, <2>2, <2>3 DEF CourseOf, Remembered
<1> QED
  BY <1>1, Courses, PTL DEF Spec, RunsOnce

=============================================================================
