------------------------- MODULE Automations_proofs --------------------------
(***************************************************************************)
(* Proofs about routines and webhook deliveries, for any bots, routines,   *)
(* webhooks, deliveries and bounds.                                        *)
(***************************************************************************)
EXTENDS Automations, FiniteSetTheorems, TLAPS

Statuses == {"none", "queued"} \cup Active \cup Ended
Live == {"queued"} \cup Active
Receipt == [status : Statuses, of : Triggers \cup {None},
            delivery : Deliveries \cup {None}]
News == {r \in Routines : due[r] # "no"}

-----------------------------------------------------------------------------
(* What the handlers do to the list of runs.                               *)

\* A receipt keeps what it is of; its status moves on, never back.
Moves(n) ==
  /\ run'[n].of = run[n].of /\ run'[n].delivery = run[n].delivery
  /\ \/ run'[n].status = run[n].status
     \/ run[n].status \in Live /\ run'[n].status \in Active \cup Ended

\* Receipts move, and new ones join at the end.
Listing ==
  /\ made' \in made .. MaxRuns /\ run' \in [Ids -> Receipt]
  /\ \A n \in Ids : n <= made \/ n > made' => Moves(n)
  /\ \A n \in Ids : n > made /\ n <= made' =>
       run'[n].status # "none" /\ run'[n].of \in Triggers

\* The receipts in the list are the first `made`; a due routine is on, and has
\* room; what is queued has its definition.
Kept ==
  /\ \A n \in Ids : (run[n].status = "none") <=> n > made
  /\ \A n \in Ids : n <= made => run[n].of \in Triggers
  /\ made + Cardinality(News) <= MaxRuns
  /\ \A r \in Routines : due[r] # "no" => trigger[r] = "on"
  /\ \A n \in Ids : run[n].status = "queued" => trigger[run[n].of] # "gone"

LEMMA MarkedTypes ==
  ASSUME NEW ru \in [Ids -> Receipt], NEW S, NEW status \in Statuses
  PROVE  /\ Marked(ru, S, status) \in [Ids -> Receipt]
         /\ \A n \in Ids :
              /\ Marked(ru, S, status)[n].of = ru[n].of
              /\ Marked(ru, S, status)[n].delivery = ru[n].delivery
              /\ Marked(ru, S, status)[n].status = IF n \in S THEN status ELSE ru[n].status
<1>1. \A q \in Receipt : LET e == [q EXCEPT !.status = status] IN
        e \in Receipt /\ e.of = q.of /\ e.delivery = q.delivery /\ e.status = status
  BY DEF Receipt
<1> QED BY <1>1 DEF Marked

LEMMA SettledTypes ==
  ASSUME TypeOK, NEW k, NEW status \in Active \cup Ended, Settled(k, status)
  PROVE  /\ run' \in [Ids -> Receipt] /\ \A n \in Ids : Moves(n)
         /\ \A n \in Ids : run'[n].status =
              IF n = k /\ run[n].status \in Active THEN status ELSE run[n].status
<1>1. \A q \in Receipt : LET e == [q EXCEPT !.status = status] IN
        e \in Receipt /\ e.of = q.of /\ e.delivery = q.delivery /\ e.status = status
  BY DEF Receipt, Statuses
<1>2. run \in [Ids -> Receipt]
  BY DEF TypeOK, Receipt, Statuses
<1>3. \A n \in Ids : run'[n] = IF n = k /\ run[n].status \in Active
                               THEN [run[n] EXCEPT !.status = status] ELSE run[n]
  BY DEF Settled
<1>4. run' \in [Ids -> Receipt]
  BY <1>1, <1>2 DEF Settled
<1>5. ASSUME NEW n \in Ids
      PROVE  /\ Moves(n)
             /\ run'[n].status =
                  IF n = k /\ run[n].status \in Active THEN status ELSE run[n].status
  <2>1. run[n] \in Receipt
    BY <1>2
  <2>2. CASE n = k /\ run[n].status \in Active
    <3>1. run'[n] = [run[n] EXCEPT !.status = status]
      BY <1>3, <2>2
    <3>2. run'[n].of = run[n].of /\ run'[n].delivery = run[n].delivery /\ run'[n].status = status
      BY <1>1, <2>1, <3>1
    <3> QED BY <2>2, <3>2 DEF Moves, Live
  <2>3. CASE ~(n = k /\ run[n].status \in Active)
    <3>1. run'[n] = run[n]
      BY <1>3, <2>3
    <3> QED BY <2>3, <3>1 DEF Moves
  <2> QED BY <2>2, <2>3
<1> QED BY <1>4, <1>5

\* A set of routines becomes a sequence of its elements.
LEMMA Listable ==
  ASSUME NEW S, IsFiniteSet(S)
  PROVE  SetToSeq(S) \in [1 .. Cardinality(S) -> S]
<1>1. ExistsBijection(1 .. Cardinality(S), S)
  BY FS_CardinalityType
<1>2. \E f \in [1 .. Cardinality(S) -> S] : IsInjective(f)
  BY <1>1 DEF ExistsBijection, Bijection, Injection, IsInjective
<1> QED BY <1>2 DEF SetToSeq

\* The list a tick makes of what is due.
LEMMA ScheduledRuns ==
  ASSUME TypeOK, Kept
  PROVE  /\ Scheduled \in [Ids -> Receipt]
         /\ Cardinality(News) \in Nat
         /\ \A n \in Ids : n <= made \/ n > made + Cardinality(News) => Scheduled[n] = run[n]
         /\ \A n \in Ids : n > made /\ n <= made + Cardinality(News) =>
              /\ Scheduled[n].of \in News /\ Scheduled[n].delivery = None
              /\ Scheduled[n].status \in {"queued", "missed"}
<1> DEFINE list == SetToSeq(News)
           at(n) == list[n - made]
           new(n) == [NewRun(at(n), None) EXCEPT
                        !.status = IF due[at(n)] = "stale" THEN "missed" ELSE "queued"]
<1>1. IsFiniteSet(News) /\ Cardinality(News) \in Nat
  BY AutomationAssumption, FS_Subset, FS_CardinalityType DEF News
<1>2. list \in [1 .. Cardinality(News) -> News]
  BY <1>1, Listable
<1>3. Len(list) = Cardinality(News)
  BY <1>1, <1>2
<1>4. Scheduled = [n \in Ids |-> IF n > made /\ n <= made + Len(list) THEN new(n) ELSE run[n]]
  BY DEF Scheduled, News
<1>5. made \in Nat /\ run \in [Ids -> Receipt] /\ Ids \subseteq Nat
  BY DEF TypeOK, Receipt, Statuses, Ids
<1>6. ASSUME NEW n \in Ids, n > made, n <= made + Cardinality(News)
      PROVE  /\ new(n).of \in News /\ new(n).delivery = None
             /\ new(n).status \in {"queued", "missed"} /\ new(n) \in Receipt
  <2>1. at(n) \in News
    BY <1>1, <1>2, <1>5, <1>6
  <2> HIDE DEF at
  <2>2. at(n) \in Triggers
    BY <2>1 DEF News, Triggers
  <2> QED BY <2>1, <2>2 DEF NewRun, Receipt, Statuses, Ended
<1> HIDE DEF list, new
<1> QED BY <1>1, <1>3, <1>4, <1>5, <1>6

\* What the dispatch loop makes of the list, and whose turns it starts.
LEMMA DispatchedRuns ==
  ASSUME NEW ru \in [Ids -> Receipt], NEW pick
  PROVE  /\ Dispatched(ru, pick) \in [Ids -> Receipt]
         /\ \A n \in Ids :
              LET e == Dispatched(ru, pick)[n] IN
              /\ e.of = ru[n].of /\ e.delivery = ru[n].delivery
              /\ \/ e.status = ru[n].status
                 \/ ru[n].status = "queued" /\ e.status = "failed"
                 \/ /\ ru[n].status = "queued" /\ e.status = "running"
                    /\ BotOfRun(ru, n) \in alive /\ pick[BotOfRun(ru, n)] = n
<1> DEFINE queued == {n \in Ids : ru[n].status = "queued"}
           bot(n) == BotOfRun(ru, n)
           started == {n \in queued : bot(n) \in alive /\ pick[bot(n)] = n}
           failed == {n \in queued : \/ bot(n) \notin alive
                                     \/ /\ turn[bot(n)] = Free
                                        /\ pick[bot(n)] = Free \/ n > pick[bot(n)]}
           once == Marked(ru, failed, "failed")
<1>1. Dispatched(ru, pick) = Marked(once, started, "running")
  BY DEF Dispatched
<1>2. "failed" \in Statuses /\ "running" \in Statuses
  BY DEF Statuses, Active, Ended
<1>3. \A n \in started : n \in queued /\ bot(n) \in alive /\ pick[bot(n)] = n
  OBVIOUS
<1>4. failed \subseteq queued /\ \A n \in queued : ru[n].status = "queued"
  OBVIOUS
<1> HIDE DEF queued, started, failed
<1>5. /\ once \in [Ids -> Receipt]
      /\ \A n \in Ids : /\ once[n].of = ru[n].of /\ once[n].delivery = ru[n].delivery
                        /\ once[n].status = IF n \in failed THEN "failed" ELSE ru[n].status
  BY <1>2, MarkedTypes
<1> HIDE DEF once
<1>6. /\ Marked(once, started, "running") \in [Ids -> Receipt]
      /\ \A n \in Ids :
           /\ Marked(once, started, "running")[n].of = once[n].of
           /\ Marked(once, started, "running")[n].delivery = once[n].delivery
           /\ Marked(once, started, "running")[n].status =
                IF n \in started THEN "running" ELSE once[n].status
  BY <1>2, <1>5, MarkedTypes
<1> QED BY <1>1, <1>3, <1>4, <1>5, <1>6

\* One more run joins.
Joined(ru, t, d) == Room /\ ru = [run EXCEPT ![made + 1] = NewRun(t, d)]

LEMMA Joins ==
  ASSUME TypeOK, Kept, NEW t \in Triggers, NEW d \in Deliveries \cup {None},
         NEW ru, Joined(ru, t, d)
  PROVE  /\ made + 1 \in Ids /\ made + 1 \in made .. MaxRuns
         /\ made + 1 + Cardinality(News) <= MaxRuns
         /\ ru \in [Ids -> Receipt]
         /\ ru[made + 1].of = t /\ ru[made + 1].delivery = d /\ ru[made + 1].status = "queued"
         /\ \A n \in Ids : n # made + 1 => ru[n] = run[n]
<1>1. Cardinality(News) \in Nat
  BY ScheduledRuns
<1>2. made + Cardinality(News) < MaxRuns
  BY DEF Joined, Room, News
<1>3. made + 1 \in Ids /\ made + 1 \in made .. MaxRuns /\ made + 1 + Cardinality(News) <= MaxRuns
  BY <1>1, <1>2, AutomationAssumption DEF TypeOK, Ids
<1>4. run \in [Ids -> Receipt]
  BY DEF TypeOK, Receipt, Statuses
<1>5. NewRun(t, d) \in Receipt
  BY DEF NewRun, Receipt, Statuses
<1>6. NewRun(t, d).of = t /\ NewRun(t, d).delivery = d /\ NewRun(t, d).status = "queued"
  BY DEF NewRun
<1> QED BY <1>3, <1>4, <1>5, <1>6 DEF Joined

LEMMA Marks ==
  ASSUME TypeOK, NEW S, NEW status \in Active \cup Ended, run' = Marked(run, S, status),
         \A n \in S : n \in Ids /\ run[n].status \in Live
  PROVE  /\ run' \in [Ids -> Receipt] /\ \A n \in Ids : Moves(n)
         /\ \A n \in Ids : run'[n].status = IF n \in S THEN status ELSE run[n].status
<1>1. run \in [Ids -> Receipt] /\ status \in Statuses
  BY DEF TypeOK, Receipt, Statuses
<1> QED BY <1>1, MarkedTypes DEF Moves

\* The runs a dead process had are failed when the next one reads the list.
LEMMA Recovers ==
  ASSUME NEW ru \in [Ids -> Receipt]
  PROVE  /\ Recovered(ru) \in [Ids -> Receipt]
         /\ \A n \in Ids :
              /\ Recovered(ru)[n].of = ru[n].of /\ Recovered(ru)[n].delivery = ru[n].delivery
              /\ Recovered(ru)[n].status = IF ru[n].status \in Active THEN "failed"
                                           ELSE ru[n].status
<1>1. "failed" \in Statuses
  BY DEF Statuses, Ended
<1> QED BY <1>1, MarkedTypes DEF Recovered

\* Nothing joins.
LEMMA Steady ==
  ASSUME TypeOK, made' = made, run' \in [Ids -> Receipt], \A n \in Ids : Moves(n)
  PROVE  Listing
<1>1. made' \in made .. MaxRuns
  BY DEF TypeOK
<1>2. \A n \in Ids : ~(n > made /\ n <= made')
  BY DEF TypeOK, Ids
<1> QED BY <1>1, <1>2 DEF Listing

LEMMA Unlisted == ASSUME TypeOK, UNCHANGED <<made, run>> PROVE Listing
<1>1. run' \in [Ids -> Receipt]
  BY DEF TypeOK, Receipt, Statuses
<1>2. \A n \in Ids : Moves(n)
  BY DEF Moves
<1> QED BY <1>1, <1>2, Steady

LEMMA Grown ==
  ASSUME TypeOK, Kept, NEW t \in Triggers, NEW d \in Deliveries \cup {None},
         made' = made + 1, NEW ru, Joined(ru, t, d),
         run' \in {ru, Recovered(ru)}
  PROVE  /\ Listing
         /\ made' + Cardinality(News) <= MaxRuns
         /\ run'[made + 1].of = t /\ run'[made + 1].delivery = d /\ made + 1 \in Ids
         /\ \A n \in Ids : n # made + 1 => Moves(n)
<1>1. /\ made + 1 \in Ids /\ made + 1 \in made .. MaxRuns
      /\ made + 1 + Cardinality(News) <= MaxRuns
      /\ ru \in [Ids -> Receipt]
      /\ ru[made + 1].of = t /\ ru[made + 1].delivery = d /\ ru[made + 1].status = "queued"
      /\ \A n \in Ids : n # made + 1 => ru[n] = run[n]
  BY Joins
<1>2. /\ run' \in [Ids -> Receipt]
      /\ \A n \in Ids : /\ run'[n].of = ru[n].of /\ run'[n].delivery = ru[n].delivery
                        /\ \/ run'[n].status = ru[n].status
                           \/ ru[n].status \in Active /\ run'[n].status = "failed"
  <2>1. CASE run' = ru
    BY <1>1, <2>1
  <2>2. CASE run' = Recovered(ru)
    <3>1. /\ Recovered(ru) \in [Ids -> Receipt]
          /\ \A n \in Ids :
               /\ Recovered(ru)[n].of = ru[n].of /\ Recovered(ru)[n].delivery = ru[n].delivery
               /\ Recovered(ru)[n].status = IF ru[n].status \in Active THEN "failed"
                                            ELSE ru[n].status
      BY <1>1, Recovers
    <3> QED BY <2>2, <3>1
  <2> QED BY <2>1, <2>2
<1>3. \A n \in Ids : n # made + 1 => Moves(n)
  BY <1>1, <1>2 DEF Moves, Live, Ended
<1>4. run'[made + 1].of = t /\ run'[made + 1].delivery = d /\ run'[made + 1].status = "queued"
  BY <1>1, <1>2 DEF Active
<1>5. \A n \in Ids : n > made /\ n <= made' => n = made + 1
  BY DEF TypeOK, Ids
<1>6. \A n \in Ids : n <= made \/ n > made' => n # made + 1
  BY DEF TypeOK, Ids
<1>7. Listing
  BY <1>1, <1>2, <1>3, <1>4, <1>5, <1>6 DEF Listing
<1> QED BY <1>1, <1>3, <1>4, <1>7

LEMMA Ticked ==
  ASSUME TypeOK, Kept, Tick
  PROVE  /\ Listing /\ made' = made + Cardinality(News) /\ UNCHANGED <<alive, seen, left>>
         /\ turn' \in [Bots -> {Chat, Free} \cup Ids]
         /\ \A b \in Bots : turn[b] # Free => turn'[b] = turn[b]
         /\ \A n \in Ids : n > made => run'[n].delivery = None \/ n > made'
         /\ \A n \in Ids : n > made /\ n <= made' => run'[n].of \in News
         /\ \A n \in Ids : run'[n].status \in Active =>
              \/ n <= made /\ run[n].status = run'[n].status
              \/ /\ turn[BotOfRun(run', n)] = Free /\ turn'[BotOfRun(run', n)] = n
                 /\ n <= made => run[n].status = "queued"
         /\ \A n \in Ids, b \in Bots : turn'[b] = n /\ turn[b] # n =>
              /\ b \in alive /\ BotOfRun(run', n) = b /\ n <= made'
              /\ n <= made => run[n].status = "queued"
<1> DEFINE ru == Scheduled
<1>1. PICK pick \in [Bots -> Ids \cup {Free}] :
        /\ \A b \in Bots : pick[b] # Free =>
             /\ turn[b] = Free /\ b \in alive /\ pick[b] \in Ids
             /\ ru[pick[b]].status = "queued" /\ BotOfRun(ru, pick[b]) = b
        /\ run' = Dispatched(ru, pick)
        /\ turn' = [b \in Bots |-> IF pick[b] # Free THEN pick[b] ELSE turn[b]]
  BY DEF Tick
<1>2. made' = made + Cardinality(News) /\ UNCHANGED <<alive, seen, left>>
  BY DEF Tick, News
<1>3. /\ ru \in [Ids -> Receipt] /\ Cardinality(News) \in Nat
      /\ \A n \in Ids : n <= made \/ n > made' => ru[n] = run[n]
      /\ \A n \in Ids : n > made /\ n <= made' =>
           ru[n].of \in News /\ ru[n].delivery = None /\ ru[n].status \in {"queued", "missed"}
  BY <1>2, ScheduledRuns
<1> HIDE DEF ru
<1>4. /\ run' \in [Ids -> Receipt]
      /\ \A n \in Ids :
           /\ run'[n].of = ru[n].of /\ run'[n].delivery = ru[n].delivery
           /\ \/ run'[n].status = ru[n].status
              \/ ru[n].status = "queued" /\ run'[n].status = "failed"
              \/ /\ ru[n].status = "queued" /\ run'[n].status = "running"
                 /\ BotOfRun(ru, n) \in alive /\ pick[BotOfRun(ru, n)] = n
  BY <1>1, <1>3, DispatchedRuns
<1>5. \A n \in Ids : BotOfRun(run', n) = BotOfRun(ru, n)
  BY <1>4 DEF BotOfRun
<1>6. made' \in made .. MaxRuns
  BY <1>2, <1>3, AutomationAssumption DEF Kept, TypeOK
<1>7. \A n \in Ids : n <= made \/ n > made' => Moves(n)
  BY <1>3, <1>4 DEF Moves, Live, Active, Ended
<1>8. \A n \in Ids : n > made /\ n <= made' =>
        /\ run'[n].status # "none" /\ run'[n].of \in Triggers /\ run'[n].delivery = None
        /\ run'[n].of \in News
  BY <1>3, <1>4 DEF News, Triggers
<1>9. Listing
  BY <1>4, <1>6, <1>7, <1>8 DEF Listing
<1>10. /\ turn' \in [Bots -> {Chat, Free} \cup Ids]
       /\ \A b \in Bots : turn[b] # Free => turn'[b] = turn[b]
  BY <1>1 DEF TypeOK
<1>11. \A n \in Ids : n \in Nat /\ n # Free
  BY AutomationAssumption DEF Ids, Free
<1>12. ASSUME NEW n \in Ids, run'[n].status \in Active
       PROVE  \/ n <= made /\ run[n].status = run'[n].status
              \/ /\ turn[BotOfRun(run', n)] = Free /\ turn'[BotOfRun(run', n)] = n
                 /\ n <= made => run[n].status = "queued"
  <2>1. CASE run'[n].status = ru[n].status
    <3>1. n <= made \/ n > made'
      BY <1>3, <1>6, <1>11, <1>12, <2>1 DEF Active, TypeOK
    <3>2. ru[n] = run[n]
      BY <1>3, <3>1
    <3>3. n <= made
      BY <1>6, <1>11, <1>12, <2>1, <3>2 DEF Kept, Active, TypeOK
    <3> QED BY <2>1, <3>2, <3>3
  <2>2. CASE ru[n].status = "queued" /\ BotOfRun(ru, n) \in alive /\ pick[BotOfRun(ru, n)] = n
    <3> DEFINE b == BotOfRun(ru, n)
    <3>1. b \in Bots /\ pick[b] = n /\ pick[b] # Free
      BY <1>11, <2>2 DEF TypeOK
    <3> HIDE DEF b
    <3>2. turn[b] = Free /\ turn'[b] = n
      BY <1>1, <3>1
    <3> QED BY <1>3, <1>5, <2>2, <3>2 DEF b
  <2> QED BY <1>4, <1>12, <2>1, <2>2 DEF Active
<1>13. ASSUME NEW n \in Ids, NEW b \in Bots, turn'[b] = n, turn[b] # n
       PROVE  /\ b \in alive /\ BotOfRun(run', n) = b /\ n <= made'
              /\ n <= made => run[n].status = "queued"
  <2>1. pick[b] = n /\ b \in alive /\ ru[n].status = "queued" /\ BotOfRun(ru, n) = b
    BY <1>1, <1>11, <1>13
  <2>2. n <= made'
    BY <1>3, <1>6, <1>11, <2>1 DEF Kept, TypeOK
  <2> QED BY <1>3, <1>5, <2>1, <2>2
<1>14. \A n \in Ids : n > made => run'[n].delivery = None \/ n > made'
  BY <1>6, <1>8, <1>11 DEF TypeOK
<1> QED BY <1>2, <1>8, <1>9, <1>10, <1>12, <1>13, <1>14

-----------------------------------------------------------------------------
(* Types, and what keeps the list in order.                                *)

\* No definition is lost under a queued run, no due routine is off or roomless.
Orderly ==
  /\ made' + Cardinality(News') <= MaxRuns
  /\ \A r \in Routines : due'[r] # "no" => trigger'[r] = "on"
  /\ \A n \in Ids : n <= made /\ run'[n].status = "queued" => trigger'[run'[n].of] # "gone"
  /\ \A n \in Ids : n > made /\ n <= made' => trigger'[run'[n].of] # "gone"

LEMMA Keeps == ASSUME TypeOK, Kept, Listing, Orderly PROVE Kept'
<1>1. made \in Nat /\ made' \in Nat /\ made <= made' /\ Ids \subseteq Nat
  BY AutomationAssumption DEF TypeOK, Listing, Ids
<1>2. \A n \in Ids : (run'[n].status = "none") <=> n > made'
  BY <1>1 DEF Kept, Listing, Moves, Live, Active, Ended
<1>3. \A n \in Ids : n <= made' => run'[n].of \in Triggers
  BY <1>1 DEF Kept, Listing, Moves
<1>4. \A n \in Ids : run'[n].status = "queued" => trigger'[run'[n].of] # "gone"
  <2>1. ASSUME NEW n \in Ids, run'[n].status = "queued" PROVE n <= made'
    <3>1. ~(n > made')
      BY <1>2, <2>1
    <3> QED BY <1>1, <3>1
  <2>2. \A n \in Ids : n <= made \/ n > made
    BY <1>1
  <2> QED BY <2>1, <2>2 DEF Orderly
<1> QED BY <1>2, <1>3, <1>4 DEF Kept, Orderly

\* Fewer routines are due: there is room for as many runs as before.
LEMMA Fewer ==
  ASSUME TypeOK, Kept, made' = made, \A r \in Routines : due'[r] # "no" => due[r] # "no"
  PROVE  made' + Cardinality(News') <= MaxRuns
<1>1. SUFFICES ASSUME NEW now, now = News' PROVE made' + Cardinality(now) <= MaxRuns
  OBVIOUS
<1>2. now \subseteq News
  BY <1>1 DEF News
<1>3. IsFiniteSet(News)
  BY AutomationAssumption, FS_Subset DEF News
<1>4. /\ Cardinality(now) <= Cardinality(News)
      /\ Cardinality(now) \in Nat /\ Cardinality(News) \in Nat
  BY <1>2, <1>3, FS_Subset, FS_CardinalityType
<1> QED BY <1>4, AutomationAssumption DEF Kept, TypeOK

\* A step that moves receipts and takes away no definition.
LEMMA Quietly ==
  ASSUME TypeOK, Kept, Listing, made' = made,
         \A r \in Routines : due'[r] # "no" => due[r] # "no" /\ trigger'[r] = "on",
         \A t \in Triggers : trigger'[t] = "gone" => trigger[t] = "gone"
  PROVE  Kept'
<1>1. made' + Cardinality(News') <= MaxRuns
  BY Fewer
<1>2. \A n \in Ids : n <= made => run'[n].of = run[n].of /\ run[n].of \in Triggers
  BY DEF Listing, Moves, Kept
<1>3. \A n \in Ids : n <= made /\ run'[n].status = "queued" => run[n].status = "queued"
  BY DEF Listing, Moves, Active, Ended
<1>4. \A n \in Ids : ~(n > made /\ n <= made')
  BY DEF TypeOK, Ids
<1>5. Orderly
  BY <1>1, <1>2, <1>3, <1>4 DEF Orderly, Kept
<1> QED BY <1>5, Keeps

\* What a queued receipt of a definition comes to when it is paused or deleted.
LEMMA Cancelled ==
  ASSUME TypeOK, NEW t, run' = Marked(run, Queued(run, t), "cancelled")
  PROVE  /\ run' \in [Ids -> Receipt] /\ \A n \in Ids : Moves(n)
         /\ \A n \in Ids : run'[n].status = "queued" => run'[n].of # t
<1>1. /\ \A n \in Queued(run, t) : n \in Ids /\ run[n].status \in Live
      /\ "cancelled" \in Active \cup Ended
  BY DEF Queued, Live, Ended
<1>2. /\ run' \in [Ids -> Receipt] /\ \A n \in Ids : Moves(n)
      /\ \A n \in Ids : run'[n].status = IF n \in Queued(run, t) THEN "cancelled" ELSE run[n].status
  BY <1>1, Marks
<1> QED BY <1>2 DEF Queued, Moves

LEMMA BotSteps ==
  ASSUME TypeOK, Kept, NEW b \in Bots, BotStep(b)
  PROVE  Listing /\ TypeOK' /\ Kept'
<1>1. ASSUME Listing, made' = made, UNCHANGED <<alive, trigger, due, seen>>,
             turn' \in [Bots -> {Chat, Free} \cup Ids],
             left' \in [restarts : 0 .. MaxRestarts, chats : 0 .. MaxChats]
      PROVE  Listing /\ TypeOK' /\ Kept'
  <2>1. Kept'
    BY <1>1, Quietly DEF Kept
  <2>2. TypeOK'
    BY <1>1 DEF TypeOK, Listing, Receipt, Statuses
  <2> QED BY <1>1, <2>1, <2>2
<1>2. ASSUME turn' = [turn EXCEPT ![b] = Free] PROVE turn' \in [Bots -> {Chat, Free} \cup Ids]
  BY <1>2 DEF TypeOK
<1>3. CASE ChatBegins(b)
  <2>1. Listing
    BY <1>3, Unlisted DEF ChatBegins
  <2>2. left' \in [restarts : 0 .. MaxRestarts, chats : 0 .. MaxChats]
    BY <1>3, AutomationAssumption DEF ChatBegins, TypeOK
  <2>3. turn' \in [Bots -> {Chat, Free} \cup Ids]
    BY <1>3 DEF ChatBegins, TypeOK
  <2> QED BY <1>1, <1>3, <2>1, <2>2, <2>3 DEF ChatBegins
<1>4. CASE EndsSilently(b)
  <2>1. Listing
    BY <1>4, Unlisted DEF EndsSilently
  <2> QED BY <1>1, <1>2, <1>4, <2>1 DEF EndsSilently, TypeOK
<1>5. ASSUME NEW k, NEW status \in Active \cup Ended, Settled(k, status),
             UNCHANGED <<alive, made, trigger, due, seen, left>>,
             turn' \in {turn, [turn EXCEPT ![b] = Free]}
      PROVE  Listing /\ TypeOK' /\ Kept'
  <2>1. Listing
    BY <1>5, SettledTypes, Steady
  <2> QED BY <1>1, <1>2, <1>5, <2>1 DEF TypeOK
<1>6. CASE DispatchFails(b)
  BY <1>5, <1>6 DEF DispatchFails, Ended
<1>7. ASSUME NEW status \in {"completed", "failed"}, Completes(b, status)
      PROVE  Listing /\ TypeOK' /\ Kept'
  BY <1>5, <1>7 DEF Completes, Ended
<1>8. ASSUME NEW status \in Active, Asks(b, status) PROVE Listing /\ TypeOK' /\ Kept'
  BY <1>5, <1>8 DEF Asks
<1>9. CASE Deletes(b)
  <2> DEFINE S == {n \in Ids : /\ BotOfRun(run, n) = b
                               /\ run[n].status \in {"queued"} \cup Active}
             owned == {t \in Triggers : BotOf[t] = b /\ trigger[t] = "on"}
  <2>1. /\ run' = Marked(run, S, "cancelled") /\ made' = made
        /\ \A n \in S : n \in Ids /\ run[n].status \in Live
        /\ "cancelled" \in Active \cup Ended
    BY <1>9 DEF Deletes, Live, Ended
  <2>2. /\ alive' = alive \ {b} /\ UNCHANGED <<turn, seen, left>>
        /\ trigger' = [t \in Triggers |-> IF t \in owned THEN "off" ELSE trigger[t]]
        /\ due' = [r \in Routines |-> IF r \in owned THEN "no" ELSE due[r]]
    BY <1>9 DEF Deletes
  <2> HIDE DEF S, owned
  <2>3. Listing
    BY <2>1, Marks, Steady
  <2>4. TypeOK'
    BY <2>1, <2>2, <2>3 DEF TypeOK, Listing, Receipt, Statuses
  <2>5. Kept'
    BY <2>1, <2>2, <2>3, Quietly DEF Kept, Triggers
  <2> QED BY <2>3, <2>4, <2>5
<1> QED BY <1>3, <1>4, <1>6, <1>7, <1>8, <1>9 DEF BotStep

LEMMA TriggerSteps ==
  ASSUME TypeOK, Kept, NEW t \in Triggers, TriggerStep(t)
  PROVE  Listing /\ TypeOK' /\ Kept'
<1>1. CASE Pauses(t)
  <2>1. /\ run' = Marked(run, Queued(run, t), "cancelled") /\ trigger' = [trigger EXCEPT ![t] = "off"]
        /\ trigger[t] = "on" /\ UNCHANGED <<alive, turn, made, seen, left>>
        /\ due' = IF t \in Routines THEN [due EXCEPT ![t] = "no"] ELSE due
    BY <1>1 DEF Pauses
  <2>2. Listing
    BY <2>1, Cancelled, Steady
  <2>3. TypeOK'
    BY <2>1, <2>2 DEF TypeOK, Listing, Receipt, Statuses
  <2>4. Kept'
    BY <2>1, <2>2, Quietly DEF Kept, TypeOK, Triggers
  <2> QED BY <2>2, <2>3, <2>4
<1>2. CASE Enables(t)
  <2>1. Listing
    BY <1>2, Unlisted DEF Enables
  <2>2. TypeOK'
    BY <1>2 DEF Enables, TypeOK
  <2>3. Kept'
    BY <1>2, <2>1, Quietly DEF Enables, Kept, TypeOK, Triggers
  <2> QED BY <2>1, <2>2, <2>3
<1>3. CASE Removes(t)
  <2>1. /\ run' = Marked(run, Queued(run, t), "cancelled") /\ trigger' = [trigger EXCEPT ![t] = "gone"]
        /\ UNCHANGED <<alive, turn, made, left>>
        /\ due' = IF t \in Routines THEN [due EXCEPT ![t] = "no"] ELSE due
        /\ seen' = {s \in seen : s[1] # t}
    BY <1>3 DEF Removes
  <2>2. /\ run' \in [Ids -> Receipt] /\ \A n \in Ids : Moves(n)
        /\ \A n \in Ids : run'[n].status = "queued" => run'[n].of # t
    BY <2>1, Cancelled
  <2>3. Listing
    BY <2>1, <2>2, Steady
  <2>4. TypeOK'
    BY <2>1, <2>3 DEF TypeOK, Listing, Receipt, Statuses
  <2>5. made' + Cardinality(News') <= MaxRuns
    BY <2>1, Fewer DEF TypeOK
  <2>6. \A r \in Routines : due'[r] # "no" => trigger'[r] = "on"
    BY <2>1 DEF TypeOK, Kept, Triggers
  <2>7. \A n \in Ids : n <= made /\ run'[n].status = "queued" => trigger'[run'[n].of] # "gone"
    <3>1. \A n \in Ids : run'[n].status = "queued" => run[n].status = "queued" /\ run'[n].of = run[n].of
      BY <2>2 DEF Moves, Active, Ended
    <3> QED BY <2>1, <2>2, <3>1 DEF Kept, TypeOK
  <2>8. \A n \in Ids : ~(n > made /\ n <= made')
    BY <2>1 DEF TypeOK, Ids
  <2>9. Orderly
    BY <2>5, <2>6, <2>7, <2>8 DEF Orderly
  <2> QED BY <2>3, <2>4, <2>9, Keeps
<1> QED BY <1>1, <1>2, <1>3 DEF TriggerStep

LEMMA RoutineSteps ==
  ASSUME TypeOK, Kept, NEW r \in Routines,
         RunNow(r) \/ Edits(r) \/ \E how \in {"due", "stale"} : TimeComes(r, how)
  PROVE  Listing /\ TypeOK' /\ Kept'
<1>1. CASE RunNow(r)
  <2> DEFINE ru == [run EXCEPT ![made + 1] = NewRun(r, None)]
  <2>1. /\ Joined(ru, r, None) /\ run' = ru /\ made' = made + 1 /\ trigger[r] # "gone"
        /\ UNCHANGED <<alive, turn, trigger, due, seen, left>>
    BY <1>1 DEF RunNow, Joined
  <2>2. r \in Triggers /\ None \in Deliveries \cup {None}
    BY DEF Triggers
  <2> HIDE DEF ru
  <2>3. /\ Listing /\ made' + Cardinality(News) <= MaxRuns
        /\ run'[made + 1].of = r
        /\ \A n \in Ids : n # made + 1 => Moves(n)
    BY <2>1, <2>2, Grown
  <2>4. TypeOK'
    BY <2>1, <2>3 DEF TypeOK, Listing, Receipt, Statuses
  <2>5. News' = News
    BY <2>1 DEF News
  <2>6. /\ \A n \in Ids : n > made /\ n <= made' => n = made + 1
        /\ \A n \in Ids : n <= made => n # made + 1
    BY <2>1 DEF TypeOK, Ids
  <2>7. Orderly
    BY <2>1, <2>3, <2>5, <2>6 DEF Orderly, Kept, Moves, Active, Ended
  <2> QED BY <2>3, <2>4, <2>7, Keeps
<1>2. CASE Edits(r)
  <2>1. Listing
    BY <1>2, Unlisted DEF Edits
  <2>2. TypeOK'
    BY <1>2 DEF Edits, TypeOK
  <2>3. Kept'
    BY <1>2, <2>1, Quietly DEF Edits, Kept, TypeOK
  <2> QED BY <2>1, <2>2, <2>3
<1>3. ASSUME NEW how \in {"due", "stale"}, TimeComes(r, how)
      PROVE  Listing /\ TypeOK' /\ Kept'
  <2>1. Listing
    BY <1>3, Unlisted DEF TimeComes
  <2>2. /\ due' = [due EXCEPT ![r] = how] /\ trigger[r] = "on"
        /\ UNCHANGED <<alive, turn, made, run, trigger, seen, left>>
        /\ due[r] = "no" => Room
    BY <1>3 DEF TimeComes
  <2>3. TypeOK'
    BY <2>2 DEF TypeOK
  <2>4. made' + Cardinality(News') <= MaxRuns
    <3>1. SUFFICES ASSUME NEW now, now = News' PROVE made' + Cardinality(now) <= MaxRuns
      OBVIOUS
    <3>2. now = News \cup {r}
      BY <2>2, <3>1 DEF News, TypeOK
    <3>3. IsFiniteSet(News)
      BY AutomationAssumption, FS_Subset DEF News
    <3>4. /\ Cardinality(News) \in Nat
          /\ Cardinality(now) = IF r \in News THEN Cardinality(News) ELSE Cardinality(News) + 1
      BY <3>2, <3>3, FS_AddElement, FS_CardinalityType
    <3>5. CASE due[r] = "no"
      <4>1. made + Cardinality(News) < MaxRuns
        BY <2>2, <3>5 DEF Room, News
      <4> QED BY <2>2, <3>4, <4>1, AutomationAssumption DEF TypeOK
    <3>6. CASE due[r] # "no"
      BY <2>2, <3>4, <3>6 DEF Kept, News
    <3> QED BY <3>5, <3>6
  <2>5. \A n \in Ids : ~(n > made /\ n <= made')
    BY <2>2 DEF TypeOK, Ids
  <2>6. Orderly
    BY <2>2, <2>4, <2>5 DEF Orderly, Kept, TypeOK
  <2> QED BY <2>1, <2>3, <2>6, Keeps
<1> QED BY <1>1, <1>2, <1>3

LEMMA DeliverySteps ==
  ASSUME TypeOK, Kept, NEW h \in Hooks, NEW d \in Deliveries,
         Receives(h, d) \/ TornReceive(h, d)
  PROVE  /\ Listing /\ TypeOK' /\ Kept'
         /\ made + 1 \in Ids /\ run'[made + 1].of = h /\ run'[made + 1].delivery = d
         /\ \A n \in Ids : n # made + 1 => Moves(n)
<1> DEFINE ru == [run EXCEPT ![made + 1] = NewRun(h, d)]
<1>1. /\ Joined(ru, h, d) /\ run' \in {ru, Recovered(ru)} /\ made' = made + 1
      /\ trigger[h] = "on" /\ UNCHANGED <<alive, trigger, due>>
  BY DEF Receives, TornReceive, Enqueues, Reboots, Joined
<1>2. h \in Triggers /\ d \in Deliveries \cup {None}
  BY DEF Triggers
<1> HIDE DEF ru
<1>3. /\ Listing /\ made' + Cardinality(News) <= MaxRuns /\ made + 1 \in Ids
      /\ run'[made + 1].of = h /\ run'[made + 1].delivery = d
      /\ \A n \in Ids : n # made + 1 => Moves(n)
  BY <1>1, <1>2, Grown
<1>4. /\ turn' \in [Bots -> {Chat, Free} \cup Ids] /\ seen' \subseteq Hooks \X Deliveries
      /\ left' \in [restarts : 0 .. MaxRestarts, chats : 0 .. MaxChats]
  BY AutomationAssumption DEF Receives, TornReceive, Reboots, TypeOK
<1>5. TypeOK'
  BY <1>1, <1>3, <1>4 DEF TypeOK, Listing, Receipt, Statuses
<1>6. News' = News
  BY <1>1 DEF News
<1>7. /\ \A n \in Ids : n > made /\ n <= made' => n = made + 1
      /\ \A n \in Ids : n <= made => n # made + 1
  BY <1>1 DEF TypeOK, Ids
<1>8. Orderly
  BY <1>1, <1>3, <1>6, <1>7 DEF Orderly, Kept, Moves, Active, Ended
<1> QED BY <1>3, <1>5, <1>8, Keeps

LEMMA Step ==
  ASSUME TypeOK, Kept, [Next]_vars
  PROVE  Listing /\ TypeOK' /\ Kept'
<1>1. ASSUME NEW n \in Ids, Cancels(n) PROVE Listing /\ TypeOK' /\ Kept'
  <2> DEFINE S == {n}
  <2>1. /\ run' = Marked(run, S, "cancelled") /\ "cancelled" \in Active \cup Ended
        /\ \A m \in S : m \in Ids /\ run[m].status \in Live
        /\ UNCHANGED <<alive, turn, made, trigger, due, seen, left>>
    BY <1>1 DEF Cancels, Live, Ended
  <2> HIDE DEF S
  <2>2. Listing
    BY <2>1, Marks, Steady
  <2>3. TypeOK'
    BY <2>1, <2>2 DEF TypeOK, Listing, Receipt, Statuses
  <2>4. Kept'
    BY <2>1, <2>2, Quietly DEF Kept
  <2> QED BY <2>2, <2>3, <2>4
<1>2. CASE Tick
  <2>1. /\ Listing /\ made' = made + Cardinality(News) /\ UNCHANGED <<alive, seen, left>>
        /\ turn' \in [Bots -> {Chat, Free} \cup Ids]
        /\ \A n \in Ids : n > made /\ n <= made' => run'[n].of \in News
    BY <1>2, Ticked
  <2>2. /\ due' = [r \in Routines |-> "no"]
        /\ trigger' = [t \in Triggers |-> IF t \in News \cap Once THEN "off" ELSE trigger[t]]
    BY <1>2 DEF Tick, News
  <2>3. TypeOK'
    BY <2>1, <2>2 DEF TypeOK, Listing, Receipt, Statuses
  <2>4. made' + Cardinality(News') <= MaxRuns
    <3>1. News' = {}
      BY <2>2 DEF News
    <3>2. Cardinality(News') = 0
      BY <3>1, FS_EmptySet
    <3> QED BY <2>1, <3>2, AutomationAssumption DEF Listing, TypeOK
  <2>5. \A n \in Ids : n <= made /\ run'[n].status = "queued" =>
          run'[n].of = run[n].of /\ run[n].of \in Triggers /\ trigger[run[n].of] # "gone"
    BY <2>1 DEF Listing, Moves, Kept, Active, Ended
  <2>6. \A r \in News : r \in Triggers /\ trigger[r] = "on"
    BY DEF News, Triggers, Kept
  <2>7. Orderly
    BY <2>1, <2>2, <2>4, <2>5, <2>6 DEF Orderly
  <2> QED BY <2>1, <2>3, <2>7, Keeps
<1>3. CASE Restarts
  <2>1. /\ run' = Recovered(run) /\ UNCHANGED <<alive, made, trigger, due, seen>>
        /\ turn' = [b \in Bots |-> Free]
        /\ left' \in [restarts : 0 .. MaxRestarts, chats : 0 .. MaxChats]
    BY <1>3, AutomationAssumption DEF Restarts, Reboots, TypeOK
  <2>2. run \in [Ids -> Receipt]
    BY DEF TypeOK, Receipt, Statuses
  <2>3. run' \in [Ids -> Receipt] /\ \A n \in Ids : Moves(n)
    BY <2>1, <2>2, Recovers DEF Moves, Live, Ended
  <2>4. Listing
    BY <2>1, <2>3, Steady
  <2>5. TypeOK'
    BY <2>1, <2>4 DEF TypeOK, Listing, Receipt, Statuses
  <2>6. Kept'
    BY <2>1, <2>4, Quietly DEF Kept
  <2> QED BY <2>4, <2>5, <2>6
<1>4. CASE UNCHANGED vars
  <2>1. Listing
    BY <1>4, Unlisted DEF vars
  <2>2. TypeOK'
    BY <1>4 DEF vars, TypeOK
  <2>3. Kept'
    BY <1>4, <2>1, Quietly DEF vars, Kept
  <2> QED BY <2>1, <2>2, <2>3
<1> QED BY <1>1, <1>2, <1>3, <1>4, BotSteps, TriggerSteps, RoutineSteps, DeliverySteps DEF Next

LEMMA KeptInit == Init => TypeOK /\ Kept
<1> SUFFICES ASSUME Init PROVE TypeOK /\ Kept
  OBVIOUS
<1>1. TypeOK
  BY AutomationAssumption DEF Init, TypeOK, NoRun, Triggers
<1>2. News = {}
  BY DEF Init, News
<1>3. Cardinality(News) = 0
  BY <1>2, FS_EmptySet
<1>4. \A n \in Ids : run[n].status = "none" /\ n > made
  BY DEF Init, NoRun, Ids
<1>5. \A n \in Ids : ~(n <= made)
  BY DEF Init, Ids
<1> QED BY <1>1, <1>3, <1>4, <1>5, AutomationAssumption DEF Init, Kept

LEMMA Order == Spec => [](TypeOK /\ Kept)
  BY KeptInit, Step, PTL DEF Spec

\* The type invariant of routines and webhook deliveries (server/routines.ts,
\* server/webhooks.ts), for any bots, definitions, deliveries and bounds.
THEOREM Typing == Spec => []TypeOK
  BY Order, PTL

-----------------------------------------------------------------------------
(* Receipts.                                                               *)

\* ReceiptsAreFinal: what became of a run does not change, whatever is torn or
\* silent (RoutineManager.handleRuntimeEvent, failThread, cancelRun, load).
THEOREM FinalReceipts == Spec => ReceiptsAreFinal
<1>1. ASSUME TypeOK, Kept, [Next]_vars, NEW n \in Ids, run[n].status \in Ended
      PROVE  run'[n].status = run[n].status
  <2>1. n <= made
    BY <1>1 DEF Kept, Ended, TypeOK, Ids
  <2>2. Moves(n)
    BY <1>1, <2>1, Step DEF Listing
  <2> QED BY <1>1, <2>2 DEF Moves, Live, Active, Ended
<1>2. TypeOK /\ Kept /\ [Next]_vars
        => [\A n \in Ids : run[n].status \in Ended => run'[n].status = run[n].status]_vars
  BY <1>1
<1> QED BY <1>2, Order, PTL DEF ReceiptsAreFinal, Spec

\* NothingRunsForTheGone: what a tick starts has its definition and its bot.
THEOREM GoneStaysGone == Spec => NothingRunsForTheGone
<1>1. ASSUME TypeOK, Kept, [Next]_vars, NEW n \in Ids, Starts(n)
      PROVE  trigger[run'[n].of] # "gone" /\ BotOf[run'[n].of] \in alive
  <2>1. PICK b \in Bots : turn[b] # n /\ turn'[b] = n
    BY <1>1 DEF Starts
  <2>2. n # Chat /\ n # Free
    BY AutomationAssumption DEF Ids, Chat, Free
  <2>3. Tick
    BY <1>1, <2>1, <2>2 DEF Next, vars, BotStep, TriggerStep, ChatBegins, Completes, Asks,
       DispatchFails, EndsSilently, TimeComes, RunNow, Receives, TornReceive, Pauses, Edits,
       Enables, Removes, Cancels, Deletes, Restarts, Reboots, TypeOK
  <2>4. /\ b \in alive /\ BotOfRun(run', n) = b /\ n <= made'
        /\ n <= made => run[n].status = "queued"
        /\ n > made /\ n <= made' => run'[n].of \in News
    BY <1>1, <2>1, <2>3, Ticked
  <2>5. Listing /\ Kept'
    BY <1>1, Step
  <2>6. run'[n].of \in Triggers
    BY <2>4, <2>5 DEF Kept
  <2>7. BotOf[run'[n].of] = b
    BY <2>4, <2>6, AutomationAssumption DEF BotOfRun, Triggers
  <2>8. CASE n <= made
    BY <1>1, <2>4, <2>5, <2>7, <2>8 DEF Listing, Moves, Kept
  <2>9. CASE n > made
    BY <1>1, <2>4, <2>5, <2>7, <2>9 DEF News, Kept
  <2>10. n <= made \/ n > made
    BY <1>1 DEF TypeOK, Ids
  <2> QED BY <2>8, <2>9, <2>10
<1>2. TypeOK /\ Kept /\ [Next]_vars
        => [\A n \in Ids : Starts(n) =>
              trigger[run'[n].of] # "gone" /\ BotOf[run'[n].of] \in alive]_vars
  BY <1>1
<1> QED BY <1>2, Order, PTL DEF NothingRunsForTheGone, Spec

-----------------------------------------------------------------------------
(* Deliveries.                                                             *)

\* A delivery with a run is remembered, until its webhook is deleted.
Remembered ==
  \A n \in Ids : run[n].delivery # None =>
    /\ run[n].of \in Hooks
    /\ <<run[n].of, run[n].delivery>> \in seen \/ trigger[run[n].of] = "gone"

LEMMA RememberedStep ==
  ASSUME TypeOK, Kept, Remembered, OneRunPerDelivery, ~TornSaves, [Next]_vars
  PROVE  Remembered' /\ OneRunPerDelivery'
<1>0. Listing
  BY Step
<1>1. ASSUME \A n \in Ids : Moves(n),
             \A h \in Hooks, d \in Deliveries :
               <<h, d>> \in seen => <<h, d>> \in seen' \/ trigger'[h] = "gone",
             \A t \in Triggers : trigger[t] = "gone" => trigger'[t] = "gone"
      PROVE  Remembered' /\ OneRunPerDelivery'
  <2>1. \A n \in Ids : run'[n].of = run[n].of /\ run'[n].delivery = run[n].delivery
    BY <1>1 DEF Moves
  <2>2. OneRunPerDelivery'
    BY <2>1 DEF OneRunPerDelivery
  <2>3. \A n \in Ids : run[n].delivery \in Deliveries \cup {None}
    BY DEF TypeOK
  <2>4. Remembered'
    BY <1>1, <2>1, <2>3 DEF Remembered, Triggers
  <2> QED BY <2>2, <2>4
<1>2. ASSUME UNCHANGED made PROVE \A n \in Ids : Moves(n)
  BY <1>0, <1>2 DEF Listing, TypeOK, Ids
<1>3. ASSUME UNCHANGED <<made, seen>>, \A t \in Triggers : trigger[t] = "gone" => trigger'[t] = "gone"
      PROVE  Remembered' /\ OneRunPerDelivery'
  BY <1>1, <1>2, <1>3
<1>4. ASSUME NEW b \in Bots, BotStep(b) PROVE Remembered' /\ OneRunPerDelivery'
  <2>1. UNCHANGED <<made, seen>>
    BY <1>4 DEF BotStep, ChatBegins, Completes, Asks, DispatchFails, EndsSilently, Deletes
  <2>2. \A t \in Triggers : trigger[t] = "gone" => trigger'[t] = "gone"
    BY <1>4 DEF BotStep, ChatBegins, Completes, Asks, DispatchFails, EndsSilently, Deletes
  <2> QED BY <1>3, <2>1, <2>2
<1>5. ASSUME NEW t \in Triggers, TriggerStep(t) PROVE Remembered' /\ OneRunPerDelivery'
  <2>1. CASE Pauses(t) \/ Enables(t)
    BY <1>3, <2>1 DEF Pauses, Enables, TypeOK
  <2>2. CASE Removes(t)
    <3>1. UNCHANGED made /\ seen' = {s \in seen : s[1] # t}
          /\ trigger' = [trigger EXCEPT ![t] = "gone"]
      BY <2>2 DEF Removes
    <3>2. \A h \in Hooks, d \in Deliveries :
            <<h, d>> \in seen => <<h, d>> \in seen' \/ trigger'[h] = "gone"
      BY <3>1 DEF TypeOK, Triggers
    <3> QED BY <1>1, <1>2, <3>1, <3>2 DEF TypeOK
  <2> QED BY <1>5, <2>1, <2>2 DEF TriggerStep
<1>6. ASSUME NEW r \in Routines, RunNow(r) PROVE Remembered' /\ OneRunPerDelivery'
  <2> DEFINE ru == [run EXCEPT ![made + 1] = NewRun(r, None)]
  <2>1. /\ Joined(ru, r, None) /\ run' = ru /\ made' = made + 1
        /\ UNCHANGED <<trigger, seen>>
    BY <1>6 DEF RunNow, Joined
  <2>2. r \in Triggers /\ None \in Deliveries \cup {None}
    BY DEF Triggers
  <2> HIDE DEF ru
  <2>3. /\ run'[made + 1].delivery = None
        /\ \A n \in Ids : n # made + 1 => Moves(n)
    BY <2>1, <2>2, Grown
  <2>4. \A n \in Ids : run'[n].delivery # None =>
          run'[n].of = run[n].of /\ run'[n].delivery = run[n].delivery
    BY <2>3 DEF Moves
  <2> QED BY <2>1, <2>4 DEF Remembered, OneRunPerDelivery
<1>7. ASSUME NEW r \in Routines, Edits(r) \/ \E how \in {"due", "stale"} : TimeComes(r, how)
      PROVE  Remembered' /\ OneRunPerDelivery'
  BY <1>3, <1>7 DEF Edits, TimeComes
<1>8. ASSUME NEW h \in Hooks, NEW d \in Deliveries, Receives(h, d)
      PROVE  Remembered' /\ OneRunPerDelivery'
  <2>1. /\ seen' = seen \cup {<<h, d>>} /\ trigger' = trigger
        /\ <<h, d>> \notin seen /\ trigger[h] = "on"
    BY <1>8 DEF Receives, Enqueues
  <2>2. /\ made + 1 \in Ids /\ run'[made + 1].of = h /\ run'[made + 1].delivery = d
        /\ \A n \in Ids : n # made + 1 =>
             run'[n].of = run[n].of /\ run'[n].delivery = run[n].delivery
    BY <1>8, DeliverySteps DEF Moves
  <2>3. Remembered'
    BY <2>1, <2>2 DEF Remembered
  <2>4. \A n \in Ids : run[n].delivery # None => run[n].of # h \/ run[n].delivery # d
    BY <2>1 DEF Remembered
  <2>5. d # None
    BY AutomationAssumption
  <2>6. OneRunPerDelivery'
    BY <2>2, <2>4, <2>5 DEF OneRunPerDelivery
  <2> QED BY <2>3, <2>6
<1>9. ASSUME NEW n \in Ids, Cancels(n) PROVE Remembered' /\ OneRunPerDelivery'
  BY <1>3, <1>9 DEF Cancels
<1>10. CASE Tick
  <2>1. /\ made' = made + Cardinality(News) /\ seen' = seen
        /\ \A n \in Ids : n > made => run'[n].delivery = None \/ n > made'
    BY <1>10, Ticked
  <2>2. \A t \in Triggers : trigger[t] = "gone" => trigger'[t] = "gone"
    BY <1>10 DEF Tick, Kept, Triggers
  <2>3. \A n \in Ids : run'[n].delivery # None =>
          run'[n].of = run[n].of /\ run'[n].delivery = run[n].delivery
    BY <1>0, <2>1 DEF Listing, Moves, TypeOK, Ids
  <2> QED BY <2>1, <2>2, <2>3 DEF Remembered, OneRunPerDelivery, Triggers
<1>11. CASE Restarts \/ UNCHANGED vars
  BY <1>3, <1>11 DEF Restarts, Reboots, vars
<1>12. ASSUME NEW h \in Hooks, NEW d \in Deliveries PROVE ~TornReceive(h, d)
  BY DEF TornReceive
<1> QED BY <1>4, <1>5, <1>6, <1>7, <1>8, <1>9, <1>10, <1>11, <1>12 DEF Next

\* OneRunPerDelivery, when both files of a dispatch are saved or neither is:
\* no repeated delivery starts a second run (WebhookManager.dispatch).
THEOREM DeliveredOnce == ASSUME ~TornSaves PROVE Spec => []OneRunPerDelivery
<1>1. ~TornSaves
  OBVIOUS
<1>2. Init => Remembered /\ OneRunPerDelivery
  BY DEF Init, NoRun, Remembered, OneRunPerDelivery
<1>3. TypeOK /\ Kept /\ Remembered /\ OneRunPerDelivery /\ [Next]_vars
        => Remembered' /\ OneRunPerDelivery'
  BY <1>1, RememberedStep
<1> QED BY <1>2, <1>3, Order, PTL DEF Spec

-----------------------------------------------------------------------------
(* Runs and turns.                                                         *)

\* No receipt becomes active and no bot's turn changes under an active one.
Attached ==
  \A n \in Ids : run'[n].status \in Active =>
    /\ run'[n].of = run[n].of /\ run[n].status \in Active
    /\ turn'[BotOfRun(run, n)] = turn[BotOfRun(run, n)]

LEMMA AttachedStep ==
  ASSUME RunHasItsTurn, Attached PROVE RunHasItsTurn'
  BY DEF RunHasItsTurn, Attached, BotOfRun

LEMMA HasTurnStep ==
  ASSUME TypeOK, Kept, RunHasItsTurn, ~SilentEnds, [Next]_vars
  PROVE  RunHasItsTurn'
<1>0. Listing /\ Kept'
  BY Step
<1>1. \A n \in Ids : run[n].status \in Active =>
        BotOfRun(run, n) \in Bots /\ turn[BotOfRun(run, n)] = n /\ n # Free /\ n # Chat
  BY AutomationAssumption
     DEF Kept, RunHasItsTurn, BotOfRun, Triggers, Active, Ids, TypeOK, Free, Chat
<1>2. ASSUME UNCHANGED turn,
             \A n \in Ids : run'[n].status \in Active =>
               run'[n].of = run[n].of /\ run[n].status \in Active
      PROVE  RunHasItsTurn'
  BY <1>2, AttachedStep DEF Attached
<1>3. ASSUME UNCHANGED <<turn, run>> PROVE RunHasItsTurn'
  BY <1>2, <1>3
<1>4. ASSUME NEW b \in Bots, NEW status \in {"completed", "failed"},
             turn' = [turn EXCEPT ![b] = Free], Settled(turn[b], status)
      PROVE  RunHasItsTurn'
  <2>1. status \in Ended /\ status \notin Active
    BY <1>4 DEF Ended, Active
  <2>2. /\ \A n \in Ids : run'[n].of = run[n].of
        /\ \A n \in Ids : run'[n].status =
             IF n = turn[b] /\ run[n].status \in Active THEN status ELSE run[n].status
    BY <1>4, <2>1, SettledTypes DEF Moves
  <2>3. \A n \in Ids : run'[n].status \in Active =>
          run[n].status \in Active /\ n # turn[b] /\ BotOfRun(run, n) # b
    BY <1>1, <2>1, <2>2
  <2>4. Attached
    BY <1>1, <1>4, <2>2, <2>3 DEF Attached, TypeOK
  <2> QED BY <2>4, AttachedStep
<1>5. ASSUME NEW b \in Bots, BotStep(b) PROVE RunHasItsTurn'
  <2>1. CASE ChatBegins(b)
    <3>1. turn' = [turn EXCEPT ![b] = Chat] /\ turn[b] = Free /\ run' = run
      BY <2>1 DEF ChatBegins
    <3>2. \A n \in Ids : run[n].status \in Active => BotOfRun(run, n) # b
      BY <1>1, <3>1
    <3>3. Attached
      BY <1>1, <3>1, <3>2 DEF Attached, TypeOK
    <3> QED BY <3>3, AttachedStep
  <2>2. CASE DispatchFails(b) \/ \E status \in {"completed", "failed"} : Completes(b, status)
    BY <1>4, <2>2 DEF DispatchFails, Completes
  <2>3. ASSUME NEW status \in Active, Asks(b, status) PROVE RunHasItsTurn'
    <3>1. /\ turn' = turn
          /\ \A n \in Ids : run'[n].status =
               IF n = turn[b] /\ run[n].status \in Active THEN status ELSE run[n].status
          /\ \A n \in Ids : run'[n].of = run[n].of
      BY <2>3, SettledTypes DEF Asks, Moves
    <3> QED BY <1>2, <3>1
  <2>4. CASE Deletes(b)
    <3> DEFINE S == {n \in Ids : /\ BotOfRun(run, n) = b
                                 /\ run[n].status \in {"queued"} \cup Active}
    <3>1. /\ run' = Marked(run, S, "cancelled") /\ turn' = turn
          /\ \A n \in S : n \in Ids /\ run[n].status \in Live
          /\ "cancelled" \in Ended /\ "cancelled" \notin Active
      BY <2>4 DEF Deletes, Live, Ended, Active
    <3> HIDE DEF S
    <3>2. \A n \in Ids : /\ run'[n].of = run[n].of
                         /\ run'[n].status \in Active => run[n].status \in Active
      BY <3>1, Marks DEF Moves
    <3> QED BY <1>2, <3>1, <3>2
  <2>5. ~EndsSilently(b)
    BY DEF EndsSilently
  <2> QED BY <1>5, <2>1, <2>2, <2>3, <2>4, <2>5 DEF BotStep
<1>6. ASSUME NEW t \in Triggers, TriggerStep(t) PROVE RunHasItsTurn'
  <2>1. CASE Enables(t)
    BY <1>3, <2>1 DEF Enables
  <2>2. CASE Pauses(t) \/ Removes(t)
    <3>1. run' = Marked(run, Queued(run, t), "cancelled") /\ turn' = turn
      BY <2>2 DEF Pauses, Removes
    <3>2. /\ \A n \in Queued(run, t) : n \in Ids /\ run[n].status \in Live
          /\ "cancelled" \in Ended /\ "cancelled" \notin Active
      BY DEF Queued, Live, Ended, Active
    <3>3. \A n \in Ids : /\ run'[n].of = run[n].of
                         /\ run'[n].status \in Active => run[n].status \in Active
      BY <3>1, <3>2, Marks DEF Moves
    <3> QED BY <1>2, <3>1, <3>3
  <2> QED BY <1>6, <2>1, <2>2 DEF TriggerStep
<1>7. ASSUME NEW t \in Triggers, NEW d \in Deliveries \cup {None},
             NEW ru, Joined(ru, t, d), run' = ru, UNCHANGED turn
      PROVE  RunHasItsTurn'
  <2>1. /\ ru[made + 1].status = "queued"
        /\ \A n \in Ids : n # made + 1 => ru[n] = run[n]
    BY <1>7, Joins
  <2> QED BY <1>2, <1>7, <2>1 DEF Active
<1>8. ASSUME NEW r \in Routines, RunNow(r) PROVE RunHasItsTurn'
  <2> DEFINE ru == [run EXCEPT ![made + 1] = NewRun(r, None)]
  <2>1. Joined(ru, r, None) /\ run' = ru /\ turn' = turn
    BY <1>8 DEF RunNow, Joined
  <2>2. r \in Triggers /\ None \in Deliveries \cup {None}
    BY DEF Triggers
  <2> HIDE DEF ru
  <2> QED BY <1>7, <2>1, <2>2
<1>9. ASSUME NEW h \in Hooks, NEW d \in Deliveries, Receives(h, d) PROVE RunHasItsTurn'
  <2> DEFINE ru == [run EXCEPT ![made + 1] = NewRun(h, d)]
  <2>1. Joined(ru, h, d) /\ run' = ru /\ turn' = turn
    BY <1>9 DEF Receives, Enqueues, Joined
  <2>2. h \in Triggers /\ d \in Deliveries \cup {None}
    BY DEF Triggers
  <2> HIDE DEF ru
  <2> QED BY <1>7, <2>1, <2>2
<1>10. ASSUME NEW r \in Routines, Edits(r) \/ \E how \in {"due", "stale"} : TimeComes(r, how)
       PROVE  RunHasItsTurn'
  BY <1>3, <1>10 DEF Edits, TimeComes
<1>11. ASSUME NEW n \in Ids, Cancels(n) PROVE RunHasItsTurn'
  <2> DEFINE S == {n}
  <2>1. /\ run' = Marked(run, S, "cancelled") /\ turn' = turn
        /\ \A m \in S : m \in Ids /\ run[m].status \in Live
        /\ "cancelled" \in Ended /\ "cancelled" \notin Active
    BY <1>11 DEF Cancels, Live, Ended, Active
  <2> HIDE DEF S
  <2>2. \A m \in Ids : /\ run'[m].of = run[m].of
                       /\ run'[m].status \in Active => run[m].status \in Active
    BY <2>1, Marks DEF Moves
  <2> QED BY <1>2, <2>1, <2>2
<1>12. ASSUME NEW ru \in [Ids -> Receipt], run' = Recovered(ru) PROVE RunHasItsTurn'
  <2>1. \A n \in Ids : Recovered(ru)[n].status =
          IF ru[n].status \in Active THEN "failed" ELSE ru[n].status
    BY <1>12, Recovers
  <2>2. \A n \in Ids : run'[n].status \notin Active
    BY <1>12, <2>1 DEF Active
  <2> QED BY <2>2 DEF RunHasItsTurn
<1>13. CASE Restarts
  BY <1>12, <1>13 DEF Restarts, Reboots, TypeOK, Receipt, Statuses
<1>14. ASSUME NEW h \in Hooks, NEW d \in Deliveries, TornReceive(h, d) PROVE RunHasItsTurn'
  <2> DEFINE ru == [run EXCEPT ![made + 1] = NewRun(h, d)]
  <2>1. Joined(ru, h, d) /\ run' = Recovered(ru)
    BY <1>14 DEF TornReceive, Enqueues, Reboots, Joined
  <2>2. h \in Triggers /\ d \in Deliveries \cup {None}
    BY DEF Triggers
  <2> HIDE DEF ru
  <2>3. ru \in [Ids -> Receipt]
    BY <2>1, <2>2, Joins
  <2> QED BY <1>12, <2>1, <2>3
<1>15. CASE Tick
  <2>1. /\ \A b \in Bots : turn[b] # Free => turn'[b] = turn[b]
        /\ \A n \in Ids : run'[n].status \in Active =>
             \/ n <= made /\ run[n].status = run'[n].status
             \/ turn'[BotOfRun(run', n)] = n
    BY <1>15, Ticked
  <2>2. ASSUME NEW n \in Ids, n <= made, run'[n].status \in Active, run[n].status = run'[n].status
        PROVE  turn'[BotOfRun(run', n)] = n
    <3>1. BotOfRun(run', n) = BotOfRun(run, n)
      BY <1>0, <2>2 DEF Listing, Moves, BotOfRun
    <3> QED BY <1>1, <2>1, <2>2, <3>1
  <2> QED BY <2>1, <2>2 DEF RunHasItsTurn
<1>16. CASE UNCHANGED vars
  BY <1>3, <1>16 DEF vars
<1> QED BY <1>5, <1>6, <1>8, <1>9, <1>10, <1>11, <1>13, <1>14, <1>15, <1>16 DEF Next

\* RunHasItsTurn, when the harness tells the manager how each turn ends: an
\* active receipt is the turn its bot is at, through ticks, cancels and boots.
THEOREM RunsAreTurns == ASSUME ~SilentEnds PROVE Spec => []RunHasItsTurn
<1>1. ~SilentEnds
  OBVIOUS
<1>2. Init => RunHasItsTurn
  BY DEF Init, NoRun, RunHasItsTurn, Active
<1>3. TypeOK /\ Kept /\ RunHasItsTurn /\ [Next]_vars => RunHasItsTurn'
  BY <1>1, HasTurnStep
<1> QED BY <1>2, <1>3, Order, PTL DEF Spec
=============================================================================
