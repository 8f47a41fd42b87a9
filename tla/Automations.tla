----------------------------- MODULE Automations ------------------------------
(***************************************************************************)
(* Work that starts without a person (routines.ts, webhooks.ts): calendar  *)
(* routines and webhook deliveries become receipts in one list of runs,    *)
(* and a tick turns queued receipts into turns of their bots.  The harness *)
(* owns the turns; the manager learns how they end from the event bus.     *)
(*                                                                         *)
(* A run is numbered in the order it joined the list.  Every handler saves *)
(* routines.json before it returns, so run, trigger and due stand for the  *)
(* file as well; `seen` is the deliveries in webhooks.json, a file of its  *)
(* own that is written after routines.json.  A tick only waits for         *)
(* startTurn, which marks the bot busy and returns: it is one step.        *)
(***************************************************************************)
EXTENDS Naturals, FiniteSets, SequencesExt

CONSTANTS
  Bots, Routines, Hooks, Deliveries, None,
  BotOf,          \* the bot a routine or a webhook is assigned to
  Once,           \* the routines that run once; the others recur
  MaxPending,     \* MAX_PENDING_RUNS of one webhook
  MaxRuns,        \* bound: runs ever created
  MaxRestarts,    \* bound: crashes of the server
  MaxChats,       \* bound: turns people start
  SilentEnds,     \* a turn may end without its turn.completed
  TornSaves       \* a crash may fall between the two files

ASSUME AutomationAssumption ==
  /\ BotOf \in [Routines \cup Hooks -> Bots]
  /\ Once \subseteq Routines /\ Routines \cap Hooks = {}
  /\ {MaxPending, MaxRuns, MaxRestarts, MaxChats} \subseteq Nat
  /\ {SilentEnds, TornSaves} \subseteq BOOLEAN
  /\ IsFiniteSet(Routines)
  /\ None \notin Deliveries /\ None \notin Routines \cup Hooks

VARIABLES
  alive,     \* the bots in the store
  turn,      \* what a bot works on: nothing, a chat, or a run
  made,      \* runs created so far
  run,       \* the receipts
  trigger,   \* whether a routine or a webhook is on, paused or deleted
  due,       \* whether a routine's nextRunAt has passed, perhaps long ago
  seen,      \* accepted deliveries
  left       \* bounds: restarts and chats left

vars == <<alive, turn, made, run, trigger, due, seen, left>>

Triggers == Routines \cup Hooks
Ids == 1 .. MaxRuns
Chat == 0                          \* a turn that is nobody's run
Free == MaxRuns + 1                \* no turn
Active == {"running", "waiting"}
Ended == {"completed", "missed", "failed", "cancelled"}
NoRun == [status |-> "none", of |-> None, delivery |-> None]

TypeOK ==
  /\ alive \subseteq Bots
  /\ turn \in [Bots -> {Chat, Free} \cup Ids]
  /\ made \in 0 .. MaxRuns
  /\ run \in [Ids -> [status : {"none", "queued"} \cup Active \cup Ended,
                      of : Triggers \cup {None}, delivery : Deliveries \cup {None}]]
  /\ trigger \in [Triggers -> {"on", "off", "gone"}]
  /\ due \in [Routines -> {"no", "due", "stale"}]
  /\ seen \subseteq Hooks \X Deliveries
  /\ left \in [restarts : 0 .. MaxRestarts, chats : 0 .. MaxChats]

Init ==
  /\ alive = Bots
  /\ turn = [b \in Bots |-> Free]
  /\ made = 0
  /\ run = [n \in Ids |-> NoRun]
  /\ trigger = [t \in Triggers |-> "on"]
  /\ due = [r \in Routines |-> "no"]
  /\ seen = {}
  /\ left = [restarts |-> MaxRestarts, chats |-> MaxChats]

BotOfRun(ru, n) == IF ru[n].of = None THEN None ELSE BotOf[ru[n].of]

\* The runs in S get a status.
Marked(ru, S, status) == [n \in Ids |-> IF n \in S THEN [ru[n] EXCEPT !.status = status] ELSE ru[n]]

Queued(ru, t) == {n \in Ids : ru[n].status = "queued" /\ ru[n].of = t}

\* Bound: there is room for one more run beside those that are due.
Room == made + Cardinality({r \in Routines : due[r] # "no"}) < MaxRuns

NewRun(t, d) == [status |-> "queued", of |-> t, delivery |-> d]

-----------------------------------------------------------------------------
(* The harness: turns and how they end.                                    *)

ChatBegins(b) ==
  /\ b \in alive /\ turn[b] = Free /\ left.chats > 0
  /\ turn' = [turn EXCEPT ![b] = Chat]
  /\ left' = [left EXCEPT !.chats = @ - 1]
  /\ UNCHANGED <<alive, made, run, trigger, due, seen>>

\* Fault: the receipt of the turn's thread is found whatever its status.
SettledAgain(n, status) ==
  run' = [m \in Ids |-> IF m = n THEN [run[m] EXCEPT !.status = status] ELSE run[m]]

\* The receipt of a turn's thread, if it is active, gets a status.
Settled(n, status) ==
  run' = [m \in Ids |-> IF m = n /\ run[m].status \in Active
                        THEN [run[m] EXCEPT !.status = status] ELSE run[m]]

\* handleRuntimeEvent of turn.completed, and the harness's own fold.
Completes(b, status) ==
  /\ turn[b] # Free
  /\ turn' = [turn EXCEPT ![b] = Free]
  /\ Settled(turn[b], status)
  /\ UNCHANGED <<alive, made, trigger, due, seen, left>>

\* handleRuntimeEvent of request.opened and request.resolved.
Asks(b, status) ==
  /\ turn[b] \in Ids
  /\ run[turn[b]].status \in Active \ {status}
  /\ Settled(turn[b], status)
  /\ UNCHANGED <<alive, turn, made, trigger, due, seen, left>>

\* Fault: a dispatch that fails frees the bot and tells nobody.
DispatchFailsUntold(b) ==
  /\ turn[b] # Free
  /\ turn' = [turn EXCEPT ![b] = Free]
  /\ UNCHANGED <<alive, made, run, trigger, due, seen, left>>

\* The turn's setup fails: onDispatchError, failThread.
DispatchFails(b) ==
  /\ turn[b] # Free
  /\ turn' = [turn EXCEPT ![b] = Free]
  /\ Settled(turn[b], "failed")
  /\ UNCHANGED <<alive, made, trigger, due, seen, left>>

\* The harness gives up on a turn that stalled, or reloads the providers.
EndsSilently(b) ==
  /\ SilentEnds /\ turn[b] # Free
  /\ turn' = [turn EXCEPT ![b] = Free]
  /\ UNCHANGED <<alive, made, run, trigger, due, seen, left>>

-----------------------------------------------------------------------------
(* The tick.                                                               *)

\* A routine's time comes, perhaps while nobody looks for twelve hours.
TimeComes(r, how) ==
  /\ trigger[r] = "on"
  /\ \/ due[r] = "no" /\ Room
     \/ due[r] = "due" /\ how = "stale"
  /\ due' = [due EXCEPT ![r] = how]
  /\ UNCHANGED <<alive, turn, made, run, trigger, seen, left>>

\* Every due routine joins the list, as queued or as missed.
Scheduled ==
  LET list == SetToSeq({r \in Routines : due[r] # "no"})
      at(n) == list[n - made]
  IN [n \in Ids |->
        IF n > made /\ n <= made + Len(list)
        THEN [NewRun(at(n), None) EXCEPT !.status = IF due[at(n)] = "stale" THEN "missed" ELSE "queued"]
        ELSE run[n]]

\* Queued runs ru, and what the dispatch loop makes of them: newest first, each
\* free bot starts one, after failing the newer ones whose startTurn refused.
\* pick[b] is the run of b that starts.
Dispatched(ru, pick) ==
  LET queued == {n \in Ids : ru[n].status = "queued"}
      bot(n) == BotOfRun(ru, n)
      started == {n \in queued : bot(n) \in alive /\ pick[bot(n)] = n}
      failed == {n \in queued : \/ bot(n) \notin alive
                                \/ /\ turn[bot(n)] = Free
                                   /\ pick[bot(n)] = Free \/ n > pick[bot(n)]}
  IN Marked(Marked(ru, failed, "failed"), started, "running")

\* tick()
Tick ==
  LET ru == Scheduled
      news == {r \in Routines : due[r] # "no"}
      mine(b) == {n \in Ids : ru[n].status = "queued" /\ BotOfRun(ru, n) = b}
  IN
  /\ made' = made + Cardinality(news)
  /\ due' = [r \in Routines |-> "no"]
  /\ trigger' = [t \in Triggers |-> IF t \in news \cap Once THEN "off" ELSE trigger[t]]
  /\ \E pick \in [Bots -> Ids \cup {Free}] :
       /\ \A b \in Bots : pick[b] # Free => turn[b] = Free /\ b \in alive /\ pick[b] \in mine(b)
       /\ run' = Dispatched(ru, pick)
       /\ turn' = [b \in Bots |-> IF pick[b] # Free THEN pick[b] ELSE turn[b]]
  /\ UNCHANGED <<alive, seen, left>>

-----------------------------------------------------------------------------
(* Routines and webhooks.                                                  *)

\* runNow
RunNow(r) ==
  /\ trigger[r] # "gone" /\ Room
  /\ made' = made + 1
  /\ run' = [run EXCEPT ![made + 1] = NewRun(r, None)]
  /\ UNCHANGED <<alive, turn, trigger, due, seen, left>>

\* activeWebhookRunCount
Pending(h) ==
  Cardinality({n \in Ids : run[n].of = h /\ run[n].status \in {"queued"} \cup Active})

\* enqueueWebhook, for a delivery that may be accepted.
Enqueues(h, d) ==
  /\ trigger[h] = "on" /\ BotOf[h] \in alive
  /\ <<h, d>> \notin seen
  /\ Pending(h) < MaxPending /\ Room
  /\ made' = made + 1

\* Fault: a delivery is remembered when its run is done.
ReceivesUnremembered(h, d) ==
  /\ Enqueues(h, d)
  /\ run' = [run EXCEPT ![made + 1] = NewRun(h, d)]
  /\ UNCHANGED <<alive, turn, trigger, due, seen, left>>

\* WebhookManager.dispatch.  Rejected deliveries change nothing that matters.
Receives(h, d) ==
  /\ Enqueues(h, d)
  /\ run' = [run EXCEPT ![made + 1] = NewRun(h, d)]
  /\ seen' = seen \cup {<<h, d>>}
  /\ UNCHANGED <<alive, turn, trigger, due, left>>

\* update with enabled: a pause cancels what the routine or webhook has queued.
Pauses(t) ==
  /\ trigger[t] = "on"
  /\ trigger' = [trigger EXCEPT ![t] = "off"]
  /\ due' = IF t \in Routines THEN [due EXCEPT ![t] = "no"] ELSE due
  /\ run' = Marked(run, Queued(run, t), "cancelled")
  /\ UNCHANGED <<alive, turn, made, seen, left>>

\* update of anything else computes nextRunAt from now: an occurrence that came
\* due but was not ticked yet is skipped, or for a one-off routine due again.
Edits(r) ==
  /\ trigger[r] = "on" /\ due[r] # "no"
  /\ due' = [due EXCEPT ![r] = IF r \in Once THEN "due" ELSE "no"]
  /\ UNCHANGED <<alive, turn, made, run, trigger, seen, left>>

Enables(t) ==
  /\ trigger[t] = "off" /\ BotOf[t] \in alive
  /\ trigger' = [trigger EXCEPT ![t] = "on"]
  /\ UNCHANGED <<alive, turn, made, run, due, seen, left>>

\* Fault: deleting a definition leaves its queue.
RemovesOnly(t) ==
  /\ trigger[t] # "gone"
  /\ trigger' = [trigger EXCEPT ![t] = "gone"]
  /\ due' = IF t \in Routines THEN [due EXCEPT ![t] = "no"] ELSE due
  /\ seen' = {s \in seen : s[1] # t}
  /\ UNCHANGED <<alive, turn, made, run, left>>

\* remove
Removes(t) ==
  /\ trigger[t] # "gone"
  /\ trigger' = [trigger EXCEPT ![t] = "gone"]
  /\ due' = IF t \in Routines THEN [due EXCEPT ![t] = "no"] ELSE due
  /\ run' = Marked(run, Queued(run, t), "cancelled")
  /\ seen' = {s \in seen : s[1] # t}
  /\ UNCHANGED <<alive, turn, made, left>>

\* cancelRun: the turn of a started run is told to stop, and ends by itself.
Cancels(n) ==
  /\ run[n].status \in {"queued"} \cup Active
  /\ run' = Marked(run, {n}, "cancelled")
  /\ UNCHANGED <<alive, turn, made, trigger, due, seen, left>>

\* DELETE /api/bots/:id: disableForBot of both managers.
Deletes(b) ==
  LET owned == {t \in Triggers : BotOf[t] = b /\ trigger[t] = "on"} IN
  /\ b \in alive
  /\ alive' = alive \ {b}
  /\ trigger' = [t \in Triggers |-> IF t \in owned THEN "off" ELSE trigger[t]]
  /\ due' = [r \in Routines |-> IF r \in owned THEN "no" ELSE due[r]]
  /\ run' = Marked(run, {n \in Ids : /\ BotOfRun(run, n) = b
                                     /\ run[n].status \in {"queued"} \cup Active}, "cancelled")
  /\ UNCHANGED <<turn, made, seen, left>>

-----------------------------------------------------------------------------
(* Crash and boot.                                                         *)

\* Fault: what was running is taken up as it was.
RecoveredAsIs(ru) == ru

\* The manager's constructor fails what a dead process was running.
Recovered(ru) == Marked(ru, {n \in Ids : ru[n].status \in Active}, "failed")

Reboots(ru) ==
  /\ left.restarts > 0
  /\ left' = [left EXCEPT !.restarts = @ - 1]
  /\ turn' = [b \in Bots |-> Free]
  /\ run' = Recovered(ru)
  /\ UNCHANGED <<alive, trigger, due, seen>>

Restarts == Reboots(run) /\ UNCHANGED made

\* The process dies in dispatch: the run is in routines.json, the delivery is
\* not in webhooks.json, and the sender has no answer.
TornReceive(h, d) ==
  /\ TornSaves
  /\ Enqueues(h, d)
  /\ Reboots([run EXCEPT ![made + 1] = NewRun(h, d)])

-----------------------------------------------------------------------------
BotStep(b) ==
  \/ ChatBegins(b) \/ DispatchFails(b) \/ EndsSilently(b) \/ Deletes(b)
  \/ \E status \in {"completed", "failed"} : Completes(b, status)
  \/ \E status \in Active : Asks(b, status)

TriggerStep(t) == Pauses(t) \/ Enables(t) \/ Removes(t)

Next ==
  \/ \E b \in Bots : BotStep(b)
  \/ \E t \in Triggers : TriggerStep(t)
  \/ \E r \in Routines : RunNow(r) \/ Edits(r) \/ \E how \in {"due", "stale"} : TimeComes(r, how)
  \/ \E h \in Hooks, d \in Deliveries : Receives(h, d) \/ TornReceive(h, d)
  \/ \E n \in Ids : Cancels(n)
  \/ Tick \/ Restarts

\* The ten-second timer, and turns that end one way or another.
Fairness ==
  /\ WF_vars(Tick)
  /\ \A b \in Bots : WF_vars(\E status \in {"completed", "failed"} : Completes(b, status))

Spec == Init /\ [][Next]_vars

FairSpec == Spec /\ Fairness

-----------------------------------------------------------------------------
(* Properties.                                                             *)

Starts(n) == run[n].status # "running" /\ \E b \in Bots : turn[b] # n /\ turn'[b] = n

\* A receipt says running or waiting only while its turn is the one its bot is
\* at: Stop, the bot's busy state and a webhook's places all rely on it.
RunHasItsTurn ==
  \A n \in Ids : run[n].status \in Active => turn[BotOfRun(run, n)] = n

\* A sender that repeats a delivery, before or after a restart, starts no
\* second run.
OneRunPerDelivery ==
  \A m, n \in Ids :
    run[m].delivery # None /\ run[m].of = run[n].of /\ run[m].delivery = run[n].delivery => m = n

\* What became of a run does not change any more: not when a cancelled turn
\* completes after all, nor when the server restarts.
ReceiptsAreFinal ==
  [][\A n \in Ids : run[n].status \in Ended => run'[n].status = run[n].status]_vars

\* No run starts for a routine or webhook that was deleted, or a deleted bot.
NothingRunsForTheGone ==
  [][\A n \in Ids : Starts(n) =>
       trigger[run'[n].of] # "gone" /\ BotOf[run'[n].of] \in alive]_vars

\* index.ts: unattended work is kept in order behind a busy bot.
InOrder ==
  [][\A n \in Ids : Starts(n) =>
       \A m \in 1 .. n - 1 :
         run[m].status = "queued" => BotOfRun(run, m) # BotOfRun(run', n)]_vars

\* Every run comes to an end.
RunsEnd == \A n \in Ids : run[n].status # "none" ~> run[n].status \in Ended

=============================================================================
