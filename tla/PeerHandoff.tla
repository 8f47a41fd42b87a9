----------------------------- MODULE PeerHandoff ------------------------------
(***************************************************************************)
(* Handing work to a peer (delegate_bot): delegations.ts, peer-approval.ts *)
(* and the parts of index.ts that start, settle and stop turns.  A bot     *)
(* queues handoffs while its turn runs; when the turn completes they are   *)
(* drained one after the other, each perhaps behind a card a person has to *)
(* answer, and each becomes a turn of its target.                          *)
(*                                                                         *)
(* A handler, and the promise continuations it makes runnable, run before  *)
(* the next event: the steps of a drain that waits for nothing (Busily)    *)
(* are interleaved with each other and with a crash, and with nothing else.*)
(* Every queue change is saved in the handler that makes it, so `queued`   *)
(* stands for the map in memory and for delegations.json.                  *)
(***************************************************************************)
EXTENDS Naturals, Sequences

CONSTANTS
  Bots, Items, None,
  From, To,        \* who hands item i over, and to whom
  MaxQueued,       \* MAX_QUEUED_PER_THREAD
  MaxRestarts,     \* bound: crashes of the server
  MaxTurns,        \* bound: turns a person starts
  Approvals,       \* people use approvePeerComms
  LateCalls,       \* a delegate_bot call may outlive the turn that made it
  Silent           \* bots whose turns may stall, go on under an idle bot, or end twice

Own == "own"                       \* a turn for a person

ASSUME HandoffAssumption ==
  /\ From \in [Items -> Bots] /\ To \in [Items -> Bots]
  /\ \A i \in Items : From[i] # To[i]
  /\ None \notin Bots /\ {None, Own} \cap Items = {} /\ None # Own
  /\ MaxQueued \in Nat /\ MaxRestarts \in Nat /\ MaxTurns \in Nat
  /\ {Approvals, LateCalls} \subseteq BOOLEAN /\ Silent \subseteq Bots

VARIABLES
  alive,      \* the bots in the store
  turn,       \* what bot b is busy with: nothing, its user's message, a handoff
  queued,     \* pendingDelegations
  drain,      \* drainingThreads, with the snapshot and the await it is at
  card,       \* the approval card of item i, in the store
  pending,    \* pendingComms: the cards with a promise behind them
  watch,      \* delegationWatch
  timer,      \* the watchdog's: set for the turn b is busy with, or one that is over
  astray,     \* history: bots with an end to come that is not their turn's
  gated,      \* bots with approvePeerComms
  granted,    \* alwaysAllow: pairs of bots
  origin,     \* how far the turn that queued item i is
  inflight,   \* delegate_bot calls on their way
  fate,       \* history: what has become of item i
  ran,        \* history: items this process has started
  left        \* bounds: restarts and turns left

late == <<timer, astray>>

vars == <<alive, turn, queued, drain, card, pending, watch, late,
          gated, granted, origin, inflight, fate, ran, left>>

Fates == {"started", "busy", "denied", "gone", "failed", "dropped", "refused"}
Off == [todo |-> <<>>, at |-> "off"]
Busily == {"next", "allowed", "denied", "settled"}

TypeOK ==
  /\ alive \subseteq Bots
  /\ turn \in [Bots -> {None, Own} \cup Items]
  /\ queued \in [Bots -> Seq(Items)]
  /\ drain \in [Bots -> [todo : Seq(Items), at : Busily \cup {"off", "asking"}]]
  /\ card \in [Items -> {"none", "open", "allow", "deny"}]
  /\ pending \subseteq Items
  /\ watch \in [Bots -> {None} \cup Items]
  /\ timer \in [Bots -> {"off", "turn", "late"}] /\ astray \subseteq Bots
  /\ gated \subseteq Bots /\ granted \subseteq Bots \X Bots
  /\ origin \in [Items -> {"none", "running", "finished", "stopped"}]
  /\ inflight \subseteq Items
  /\ fate \in [Items -> SUBSET Fates]
  /\ ran \subseteq Items
  /\ left \in [restarts : 0 .. MaxRestarts, turns : 0 .. MaxTurns]

Init ==
  /\ alive = Bots
  /\ turn = [b \in Bots |-> None]
  /\ queued = [b \in Bots |-> <<>>]
  /\ drain = [b \in Bots |-> Off]
  /\ card = [i \in Items |-> "none"]
  /\ pending = {} /\ granted = {} /\ inflight = {} /\ ran = {}
  /\ watch = [b \in Bots |-> None]
  /\ timer = [b \in Bots |-> "off"] /\ astray = {}
  /\ gated = IF Approvals THEN Bots ELSE {}
  /\ origin = [i \in Items |-> "none"]
  /\ fate = [i \in Items |-> {}]
  /\ left = [restarts |-> MaxRestarts, turns |-> MaxTurns]

\* The event loop takes the next event: no continuation is runnable.
Quiet == \A b \in Bots : drain[b].at \notin Busily

Told(S, what) == [i \in Items |-> IF i \in S THEN fate[i] \cup {what} ELSE fate[i]]

Listed(b) == {queued[b][n] : n \in DOMAIN queued[b]}

\* Queue q after item i is filtered out: it is there at most once.
Without(q, i) ==
  LET at == {n \in DOMAIN q : q[n] = i}
      m  == CHOOSE n \in at : TRUE IN
  IF at = {} THEN q
  ELSE [n \in 1 .. Len(q) - 1 |-> IF n < m THEN q[n] ELSE q[n + 1]]

\* drainDelegations, with queue q for bot b and drains d.
Drained(b, q, d) ==
  IF d[b].at # "off" \/ q[b] = <<>> THEN queued' = q /\ drain' = d
  ELSE IF b \notin alive
  THEN queued' = [q EXCEPT ![b] = <<>>] /\ drain' = d
  ELSE queued' = q /\ drain' = [d EXCEPT ![b] = [todo |-> q[b], at |-> "next"]]

-----------------------------------------------------------------------------
(* Turns, and the calls they make.                                         *)

\* A person's message starts a turn of bot b.
PersonSends(b) ==
  /\ Quiet /\ b \in alive /\ turn[b] = None /\ left.turns > 0
  /\ turn' = [turn EXCEPT ![b] = Own]
  /\ left' = [left EXCEPT !.turns = @ - 1]
  /\ UNCHANGED <<alive, queued, drain, card, pending, watch, late, gated,
                 granted, origin, inflight, fate, ran>>

\* delegate_bot, from a turn a person started: a delegated turn has no agents
\* integration (MAX_COMMS_DEPTH).
Calls(i) ==
  /\ Quiet
  /\ turn[From[i]] = Own \/ From[i] \in astray
  /\ origin[i] = "none"
  /\ origin' = [origin EXCEPT ![i] = "running"]
  /\ inflight' = inflight \cup {i}
  /\ UNCHANGED <<alive, turn, queued, drain, card, pending, watch, late, gated,
                 granted, fate, ran, left>>

\* queueDelegation
Queued(i) ==
  \/ /\ To[i] \in alive /\ Len(queued[From[i]]) < MaxQueued
     /\ queued' = [queued EXCEPT ![From[i]] = Append(@, i)]
     /\ UNCHANGED fate
  \/ /\ To[i] \notin alive \/ Len(queued[From[i]]) >= MaxQueued
     /\ fate' = Told({i}, "refused")
     /\ UNCHANGED queued

\* POST /api/internal/delegate-bot
Arrives(i) ==
  /\ Quiet /\ i \in inflight
  /\ inflight' = inflight \ {i}
  /\ \/ From[i] \in alive /\ Queued(i)
     \/ From[i] \notin alive /\ fate' = Told({i}, "refused") /\ UNCHANGED queued
  /\ UNCHANGED <<alive, turn, drain, card, pending, watch, late, gated, granted,
                 origin, ran, left>>

\* The turns of the bots in S are over.
OriginsOf(S, how) ==
  [i \in Items |-> IF From[i] \in S /\ origin[i] = "running" THEN how ELSE origin[i]]

\* A turn of b ends: b is idled, and the watch on the turn's thread removed.  An
\* engine may report a second end (turn.completed, and sendTurn rejects); when
\* one is astray, this may be it, of another thread than the turn b is busy with.
Ends(b) ==
  /\ turn[b] # None \/ b \in astray
  /\ turn' = [turn EXCEPT ![b] = None]
  /\ timer' = [timer EXCEPT ![b] = IF @ = "turn" THEN "late" ELSE @]
  /\ watch' \in {[watch EXCEPT ![b] = None]} \cup (IF b \in astray THEN {watch} ELSE {})
  /\ astray' \in {astray, astray \cup ({b} \cap Silent)}

\* turn.completed with ok: the drain.  (The engine waits for its tool calls.)
CompletesOk(b) ==
  /\ Quiet /\ Ends(b)
  /\ \/ /\ \A i \in inflight : origin[i] = "running" => From[i] # b
        /\ origin' = OriginsOf({b}, "finished")
     \/ b \in astray /\ UNCHANGED origin
  /\ Drained(b, queued, drain)
  /\ UNCHANGED <<alive, card, pending, gated, granted, inflight, fate, ran,
                 left>>

\* turn.completed of a turn that failed or was stopped: discardDelegations.
CompletesBad(b) ==
  /\ Quiet /\ Ends(b)
  /\ \/ /\ LateCalls \/ \A i \in inflight : origin[i] = "running" => From[i] # b
        /\ origin' = OriginsOf({b}, "stopped")
     \/ b \in astray /\ UNCHANGED origin
  /\ queued' = [queued EXCEPT ![b] = <<>>]
  /\ fate' = Told(Listed(b), "dropped")
  /\ UNCHANGED <<alive, drain, card, pending, gated, granted, inflight, ran,
                 left>>

\* startTurn's catch, after startTurn returned: onDispatchError.
DispatchFails(b) ==
  /\ Quiet /\ Ends(b)
  /\ b \in astray \/ \A i \in Items : From[i] = b => origin[i] # "running"
  /\ fate' = Told({watch[b]}, "failed")
  /\ UNCHANGED <<alive, queued, drain, card, pending, gated, granted, origin,
                 inflight, ran, left>>

\* Fault: a turn that stalled is not reported to the channel.
StallsUntold(b) ==
  /\ b \in Silent /\ Quiet /\ turn[b] # None /\ timer[b] = "off"
  /\ timer' = [timer EXCEPT ![b] = "turn"]
  /\ UNCHANGED <<alive, turn, queued, drain, card, pending, watch, astray,
                 gated, granted, origin, inflight, fate, ran, left>>

\* watchdog.onStall: the channel is told, the engine is told to stop, and a timer
\* is set.  The bot stays busy.
Stalls(b) ==
  /\ b \in Silent /\ Quiet /\ turn[b] # None /\ timer[b] = "off"
  /\ timer' = [timer EXCEPT ![b] = "turn"]
  /\ watch' = [watch EXCEPT ![b] = None]
  /\ UNCHANGED <<alive, turn, queued, drain, card, pending, astray, gated,
                 granted, origin, inflight, fate, ran, left>>

\* The timer, six seconds later: a bot that is busy is idled, whatever it is
\* busy with.  The end of the turn is still to come: of the one that stalled, or
\* of a later one, which goes on.
Releases(b) ==
  /\ Quiet /\ timer[b] # "off"
  /\ timer' = [timer EXCEPT ![b] = "off"]
  /\ turn' = [turn EXCEPT ![b] = None]
  /\ origin' = IF timer[b] = "turn" THEN OriginsOf({b}, "stopped") ELSE origin
  /\ astray' = IF turn[b] = None THEN astray ELSE astray \cup {b}
  /\ UNCHANGED <<alive, queued, drain, card, pending, watch, gated, granted,
                 inflight, fate, ran, left>>

\* reloadProviders: every bot that is busy is idled, its channel told.  The turns
\* that are not dispatched yet go on.
Reloads ==
  LET S == {b \in alive : turn[b] # None} IN
  /\ Silent # {} /\ Quiet /\ S # {}
  /\ turn' = [b \in Bots |-> IF b \in S THEN None ELSE turn[b]]
  /\ watch' = [b \in Bots |-> IF b \in S THEN None ELSE watch[b]]
  /\ timer' = [b \in Bots |-> IF b \in S /\ timer[b] = "turn" THEN "late" ELSE timer[b]]
  /\ \E X \in SUBSET (S \cap Silent) :
       astray' = astray \cup X /\ origin' = OriginsOf(S \ X, "stopped")
  /\ UNCHANGED <<alive, queued, drain, card, pending, gated, granted, inflight,
                 fate, ran, left>>

-----------------------------------------------------------------------------
(* The drain.                                                              *)

At(b, at) == drain[b].at = at

\* Fault: the queue forgets a handoff as soon as its drain begins with it.
GoesForgets(b, at) ==
  /\ drain' = [drain EXCEPT ![b].at = at]
  /\ queued' = [queued EXCEPT ![b] = Without(@, Head(drain[b].todo))]

Goes(b, at) == drain' = [drain EXCEPT ![b].at = at] /\ UNCHANGED queued

\* Mirrors the request, watches the target and calls startTurn, which may
\* refuse at once (no provider, files being restored).
Dispatches(b, i) ==
  /\ Goes(b, "settled")
  /\ \/ /\ turn' = [turn EXCEPT ![To[i]] = i]
        /\ watch' = [watch EXCEPT ![To[i]] = i]
        /\ ran' = ran \cup {i}
        /\ fate' = Told({i}, "started")
     \/ /\ watch' = [watch EXCEPT ![To[i]] = None]
        /\ fate' = Told({i}, "failed")
        /\ UNCHANGED <<turn, ran>>

\* A handoff that does not run.
Refuses(b, i, why) ==
  /\ Goes(b, "settled")
  /\ fate' = Told({i}, why)
  /\ UNCHANGED <<turn, watch, ran>>

\* requestPeerApproval: a card, unless the pair is always allowed.
Asks(b, i) ==
  /\ \/ /\ <<b, To[i]>> \in granted
        /\ Goes(b, "allowed")
        /\ UNCHANGED <<card, pending>>
     \/ /\ <<b, To[i]>> \notin granted
        /\ Goes(b, "asking")
        /\ card' = [card EXCEPT ![i] = "open"]
        /\ pending' = pending \cup {i}
  /\ UNCHANGED <<turn, watch, ran, fate>>

\* Fault: a target that is busy is not looked at.
ProcessesUnchecked(b) ==
  LET i == Head(drain[b].todo) IN
  /\ At(b, "next") /\ drain[b].todo # <<>>
  /\ Dispatches(b, i)
  /\ UNCHANGED <<alive, card, pending, late, gated, granted, origin, inflight,
                 left>>

\* processOne, up to its first await.
Processes(b) ==
  LET i == Head(drain[b].todo) IN
  /\ At(b, "next") /\ drain[b].todo # <<>>
  /\ \/ /\ To[i] \notin alive
        /\ Refuses(b, i, "gone")
        /\ UNCHANGED <<card, pending>>
     \/ /\ To[i] \in alive /\ turn[To[i]] # None
        /\ Refuses(b, i, "busy")
        /\ UNCHANGED <<card, pending>>
     \/ /\ To[i] \in alive /\ turn[To[i]] = None
        /\ \/ /\ b \notin gated
              /\ Dispatches(b, i)
              /\ UNCHANGED <<card, pending>>
           \/ b \in gated /\ Asks(b, i)
  /\ UNCHANGED <<alive, late, gated, granted, origin, inflight, left>>

\* Fault: what was checked before the card is not checked again.
AllowedUnchecked(b) ==
  /\ At(b, "allowed")
  /\ Dispatches(b, Head(drain[b].todo))
  /\ UNCHANGED <<alive, card, pending, late, gated, granted, origin, inflight,
                 left>>

\* The rest of processOne, after the verdict.  A bot that is gone by now is not
\* mentioned to the user.
Allowed(b) ==
  LET i == Head(drain[b].todo) IN
  /\ At(b, "allowed")
  /\ \/ ~({b, To[i]} \subseteq alive) /\ Refuses(b, i, "gone")
     \/ {b, To[i]} \subseteq alive /\ turn[To[i]] # None /\ Refuses(b, i, "busy")
     \/ {b, To[i]} \subseteq alive /\ turn[To[i]] = None /\ Dispatches(b, i)
  /\ UNCHANGED <<alive, card, pending, late, gated, granted, origin, inflight,
                 left>>

\* Fault: any answer lets the handoff go on.
DeniedUnchecked(b) ==
  /\ At(b, "denied")
  /\ Dispatches(b, Head(drain[b].todo))
  /\ UNCHANGED <<alive, card, pending, late, gated, granted, origin, inflight,
                 left>>

Denied(b) ==
  /\ At(b, "denied")
  /\ Refuses(b, Head(drain[b].todo), "denied")
  /\ UNCHANGED <<alive, card, pending, late, gated, granted, origin, inflight,
                 left>>

\* acknowledgeDelegation, and the next item.
Acknowledges(b) ==
  /\ At(b, "settled")
  /\ queued' = [queued EXCEPT ![b] = Without(@, Head(drain[b].todo))]
  /\ drain' = [drain EXCEPT ![b] = [todo |-> Tail(@.todo), at |-> "next"]]
  /\ UNCHANGED <<alive, turn, card, pending, watch, late, gated, granted,
                 origin, inflight, fate, ran, left>>

\* Fault: what was queued during the drain waits for another turn.
DrainEndsForGood(b) ==
  /\ At(b, "next") /\ drain[b].todo = <<>>
  /\ drain' = [drain EXCEPT ![b] = Off]
  /\ UNCHANGED <<alive, turn, queued, card, pending, watch, late, gated,
                 granted, origin, inflight, fate, ran, left>>

\* The end of the drain, which starts another one for what was queued since.
DrainEnds(b) ==
  /\ At(b, "next") /\ drain[b].todo = <<>>
  /\ Drained(b, queued, [drain EXCEPT ![b] = Off])
  /\ UNCHANGED <<alive, turn, card, pending, watch, late, gated, granted,
                 origin, inflight, fate, ran, left>>

-----------------------------------------------------------------------------
(* The person at the cards.                                                *)

\* The pending cards in S are settled and their promises resolved.
Resolves(S, verdict) ==
  /\ pending' = pending \ S
  /\ card' = [i \in Items |-> IF i \in S THEN verdict ELSE card[i]]
  /\ drain' = [b \in Bots |->
                 IF \E i \in S : From[i] = b
                 THEN [drain[b] EXCEPT !.at = IF verdict = "allow" THEN "allowed" ELSE "denied"]
                 ELSE drain[b]]

\* resolvePeerComms
Answers(i, verdict) ==
  /\ Quiet /\ i \in pending
  /\ Resolves({i}, verdict)
  /\ UNCHANGED <<alive, turn, queued, watch, late, gated, granted, origin,
                 inflight, fate, ran, left>>

\* Fifteen minutes without an answer.
Expires(i) ==
  /\ Quiet /\ i \in pending
  /\ Resolves({i}, "deny")
  /\ UNCHANGED <<alive, turn, queued, watch, late, gated, granted, origin,
                 inflight, fate, ran, left>>

\* Stop: closeOpenApprovals on the bot's thread.  The turn ends by itself.
Interrupts(b) ==
  /\ Quiet /\ b \in alive
  /\ LET S == {i \in pending : From[i] = b} IN
     S # {} /\ Resolves(S, "deny")
  /\ UNCHANGED <<alive, turn, queued, watch, late, gated, granted, origin,
                 inflight, fate, ran, left>>

\* PATCH /api/bots/:id: approvePeerComms of a bot that hands work over, and
\* alwaysAllow for a pair of bots.
Gates(b) ==
  /\ Approvals /\ Quiet /\ b \in alive
  /\ \E i \in Items : From[i] = b
  /\ gated' = IF b \in gated THEN gated \ {b} ELSE gated \cup {b}
  /\ UNCHANGED <<alive, turn, queued, drain, card, pending, watch, late,
                 granted, origin, inflight, fate, ran, left>>

Grants(i) ==
  /\ Approvals /\ Quiet /\ From[i] \in alive /\ <<From[i], To[i]>> \notin granted
  /\ granted' = granted \cup {<<From[i], To[i]>>}
  /\ UNCHANGED <<alive, turn, queued, drain, card, pending, watch, late, gated,
                 origin, inflight, fate, ran, left>>

\* DELETE /api/bots/:id: approvals naming the bot are denied and its queue is
\* dropped; its turn, told to stop, ends with no bot to settle.
Deletes(b) ==
  /\ Quiet /\ b \in alive
  /\ alive' = alive \ {b}
  /\ Resolves({i \in pending : b \in {From[i], To[i]}}, "deny")
  /\ queued' = [queued EXCEPT ![b] = <<>>]
  /\ fate' = Told(Listed(b), "dropped")
  /\ UNCHANGED <<turn, watch, late, gated, granted, origin, inflight, ran,
                 left>>

\* Fault: only the cards of bots that still have approvePeerComms are looked at.
DismissedIfGated ==
  [i \in Items |-> IF card[i] = "open" /\ From[i] \in alive \cap gated THEN "deny" ELSE card[i]]

\* dismissStalePeerCards: the open cards of the bots in the store.
Dismissed ==
  [i \in Items |-> IF card[i] = "open" /\ From[i] \in alive THEN "deny" ELSE card[i]]

\* The server dies, at any point, and boots: stale cards are dismissed, the
\* queue is loaded, and every thread's queue is drained.  A call the agent had
\* on its way fails, and whatever is still in the queue is yet to be done.
Restarts ==
  /\ left.restarts > 0
  /\ left' = [left EXCEPT !.restarts = @ - 1]
  /\ turn' = [b \in Bots |-> None]
  /\ watch' = [b \in Bots |-> None]
  /\ timer' = [b \in Bots |-> "off"] /\ astray' = {}
  /\ pending' = {} /\ inflight' = {} /\ ran' = {}
  /\ card' = Dismissed
  /\ queued' = [b \in Bots |-> IF b \in alive THEN queued[b] ELSE <<>>]
  /\ drain' = [b \in Bots |->
                 IF b \in alive /\ queued[b] # <<>>
                 THEN [todo |-> queued[b], at |-> "next"] ELSE Off]
  /\ origin' = [i \in Items |-> IF origin[i] = "running" THEN "finished" ELSE origin[i]]
  /\ fate' = [i \in Items |->
                IF i \in inflight THEN {"refused"}
                ELSE IF i \in Listed(From[i]) THEN {} ELSE fate[i]]
  /\ UNCHANGED <<alive, gated, granted>>

-----------------------------------------------------------------------------
DrainStep(b) ==
  Processes(b) \/ Allowed(b) \/ Denied(b) \/ Acknowledges(b) \/ DrainEnds(b)

BotStep(b) ==
  \/ PersonSends(b) \/ CompletesOk(b) \/ CompletesBad(b) \/ Stalls(b)
  \/ Releases(b) \/ DispatchFails(b) \/ Interrupts(b) \/ Gates(b) \/ Deletes(b)

ItemStep(i) ==
  \/ Calls(i) \/ Arrives(i) \/ Expires(i) \/ Grants(i)
  \/ \E verdict \in {"allow", "deny"} : Answers(i, verdict)

Next ==
  \/ \E b \in Bots : DrainStep(b) \/ BotStep(b)
  \/ \E i \in Items : ItemStep(i)
  \/ Reloads \/ Restarts

\* Continuations run, and the approval timer fires.
Fairness ==
  /\ \A b \in Bots : WF_vars(DrainStep(b))
  /\ \A i \in Items : WF_vars(Expires(i)) /\ WF_vars(Arrives(i))

Spec == Init /\ [][Next]_vars

FairSpec == Spec /\ Fairness

-----------------------------------------------------------------------------
(* Properties.                                                             *)

Starts(i) == turn[To[i]] # i /\ turn'[To[i]] = i

\* In b's queue, or in the snapshot of its drain.
Waiting(b) == Listed(b) \cup {drain[b].todo[n] : n \in DOMAIN drain[b].todo}

\* Accepted by queueDelegation.
Accepted(i) == origin[i] # "none" /\ i \notin inflight

\* A card is open exactly as long as a drain awaits its answer: no card a
\* person cannot answer, no await that nobody can end.  (A deleted bot's drain
\* may still open a card, on a thread that no boot looks at.)
CardAndPromiseAgree ==
  \A i \in Items :
    /\ i \in pending <=> drain[From[i]].at = "asking" /\ Head(drain[From[i]].todo) = i
    /\ i \in pending => card[i] = "open"
    /\ card[i] = "open" /\ From[i] \in alive => i \in pending

\* A handoff that was accepted is in the saved queue until it is settled and its
\* user told what became of it (unless a bot of it is gone): a crash loses none.
NothingLost ==
  \A i \in Items : Accepted(i) /\ fate[i] = {} => i \in Listed(From[i])

\* A turn's end is mirrored into the channel of the handoff it worked on, and
\* of no other: the watch on a target is there while it works, until that turn
\* ends or is found to have stalled, over every end but those that come for
\* another turn than the one the bot is busy with.
WatchFollowsTheTurn ==
  \A b \in Bots \ astray :
    watch[b] = (IF turn[b] \in Items /\ timer[b] # "turn" THEN turn[b] ELSE None)

\* No handoff is run twice by one server process.
RunsOnce == [][\A i \in Items : Starts(i) => i \notin ran]_vars

\* A turn is never started on a bot that is busy, however long ago the target
\* was found to be free.
NoTurnTakenOver == [][\A b \in Bots : turn'[b] \in {turn[b], None} \/ turn[b] = None]_vars

\* A handoff of a bot with approvePeerComms runs when a person allowed it, or
\* always allows that pair: not after a denial, a Stop or an expired card.
NoStartWithoutConsent ==
  [][\A i \in Items : Starts(i) =>
       \/ card[i] = "allow" \/ From[i] \notin gated
       \/ <<From[i], To[i]>> \in granted]_vars

\* delegations.ts: a handoff the user was told is dropped does not run.
DroppedNeverRuns == [][\A i \in Items : Starts(i) => "dropped" \notin fate[i]]_vars

\* delegations.ts: a handoff runs after the turn that queued it has settled.
RunsAfterItsTurn == [][\A i \in Items : Starts(i) => origin[i] # "running"]_vars

\* index.ts: the handoffs of a turn that failed or was stopped do not run.
StoppedNeverRuns == [][\A i \in Items : Starts(i) => origin[i] # "stopped"]_vars

\* What a turn queued before it completed comes to an end, even when the drain
\* was busy with a card at the time and even when the server is restarted.
QueueMoves ==
  \A i \in Items : Accepted(i) /\ origin[i] = "finished" ~> fate[i] # {}

\* Handoffs do what Handoff says, each of them queued until the drain that
\* works on it lets it go, and being worked on while its target is busy with it.
Phase(i) ==
  CASE turn[To[i]] = i -> "working"
    [] turn[To[i]] # i /\ i \in Waiting(From[i]) -> "queued"
    [] turn[To[i]] # i /\ i \notin Waiting(From[i]) ->
         IF "started" \in fate[i] THEN "done"
         ELSE IF fate[i] \subseteq {"refused"} THEN "new" ELSE "refused"

H == INSTANCE Handoff WITH phase <- [i \in Items |-> Phase(i)]

RefinesHandoff == H!Spec

=============================================================================
