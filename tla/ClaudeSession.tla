--------------------------- MODULE ClaudeSession ----------------------------
(***************************************************************************)
(* The Claude driver's turns on one thread (server/drivers/claude.ts).  A  *)
(* CLI process outlives its turn and is reused by the next message while   *)
(* its spawn contract is unchanged; otherwise it is closed and a fresh one *)
(* is spawned.  A process that dies early with a transient error is        *)
(* relaunched after a backoff by its close handler, a closure of the       *)
(* sendTurn call that spawned it.  The thread's state is spread over the   *)
(* maps `sessions`, `active` and `retryState`, those closures, and the     *)
(* permission broker, whose socket path all processes of a thread share.   *)
(* An action is the code between two awaits or one event's handler.        *)
(***************************************************************************)
EXTENDS Naturals, FiniteSets

CONSTANTS
  Messages,    \* what the caller sends, each at most once
  Processes,   \* slots for CLI processes
  None,        \* null
  MaxAttempts, \* RETRY_MAX_ATTEMPTS
  MaxAsks,     \* bound: requests one broker holds at once
  Flaky,       \* processes that may die of a transient error: "fresh", "reused"
  Overlaps     \* the caller may send before its last message is settled

ASSUME ClaudeAssumption ==
  /\ MaxAttempts \in Nat \ {0} /\ MaxAsks \in Nat
  /\ Flaky \subseteq {"fresh", "reused"} /\ Overlaps \in BOOLEAN
  /\ None \notin Messages \cup Processes

VARIABLES
  stage,      \* how far a message's sendTurn call is
  ends,       \* its turn.completed events and rejections
  process,    \* every CLI process, with its Session record and its closure
  current,    \* sessions.get(threadId)
  active,     \* active.get(threadId)
  retry,      \* every retry record, named after the message that made it
  holds,      \* the retry record a message's call took
  retryState, \* retryState.get(threadId)
  socket,     \* the process whose broker listens on the thread's socket path
  pending     \* requests each broker holds

vars == <<stage, ends, process, current, active, retry, holds,
          retryState, socket, pending>>

\* resolving: awaiting resolveClaudeTurnModel; writing: awaiting writeUser;
\* open: sendTurn returned, the turn has not ended.
Stages == {"unsent", "resolving", "writing", "open", "settled"}
\* dying: killed, or its stdin ended; exited: exitCode is set and the close
\* event is to come; waiting: its close handler sleeps before the relaunch.
Children == {"none", "alive", "dying", "exited", "waiting"}

NoProcess == [child |-> "none", turn |-> None, streamed |-> FALSE,
              closing |-> FALSE, broker |-> FALSE, made |-> None,
              retry |-> None, used |-> FALSE]
NotActive == [turn |-> None, process |-> None, cancels |-> FALSE]
NoRetry == [attempt |-> 0, cancelled |-> FALSE]

TypeOK ==
  /\ stage \in [Messages -> Stages] /\ ends \in [Messages -> Nat]
  /\ process \in [Processes ->
       [child : Children, turn : Messages \cup {None}, streamed : BOOLEAN,
        closing : BOOLEAN, broker : BOOLEAN, made : Messages \cup {None},
        retry : Messages \cup {None}, used : BOOLEAN]]
  /\ current \in Processes \cup {None}
  /\ active \in [turn : Messages \cup {None},
                 process : Processes \cup {None}, cancels : BOOLEAN]
  /\ retry \in [Messages -> [attempt : 0 .. MaxAttempts - 1,
                             cancelled : BOOLEAN]]
  /\ holds \in [Messages -> Messages \cup {None}]
  /\ retryState \in Messages \cup {None}
  /\ socket \in Processes \cup {None}
  /\ pending \in [Processes -> 0 .. MaxAsks]

Init ==
  /\ stage = [m \in Messages |-> "unsent"] /\ ends = [m \in Messages |-> 0]
  /\ process = [p \in Processes |-> NoProcess]
  /\ current = None /\ active = NotActive
  /\ retry = [m \in Messages |-> NoRetry]
  /\ holds = [m \in Messages |-> None] /\ retryState = None
  /\ socket = None /\ pending = [p \in Processes |-> 0]

-----------------------------------------------------------------------------
Running(p) == process[p].child \in {"alive", "dying"}

\* The message is settled: turn.completed, or sendTurn's rejection.
Settled(m) ==
  /\ ends' = [ends EXCEPT ![m] = @ + 1]
  /\ stage' = [stage EXCEPT ![m] = "settled"]

\* settle, from process records ps: the turn ends, its process stays.
Settles(p, ps) ==
  /\ Settled(process[p].turn)
  /\ process' = [ps EXCEPT ![p].turn = None]
  /\ active' = NotActive /\ retryState' = None

\* A broker that closes drains its requests and unlinks the socket path,
\* whoever is listening there.
BrokerCloses(p) ==
  IF p # None /\ process[p].broker
  THEN socket' = None /\ pending' = [pending EXCEPT ![p] = 0]
  ELSE UNCHANGED <<socket, pending>>

\* Fault: the closing session keeps its broker, for its close event to close.
ClosedLater(p, ps) ==
  IF p = None THEN ps
  ELSE [ps EXCEPT ![p].closing = TRUE,
                  ![p].child = IF @ = "alive" THEN "dying" ELSE @]

\* closeSession, from process records ps: the session detaches its broker, its
\* process is told to end and later killed.
Closed(p, ps) ==
  IF p = None THEN ps
  ELSE [ps EXCEPT ![p].closing = TRUE, ![p].broker = FALSE,
                  ![p].child = IF @ = "alive" THEN "dying" ELSE @]

-----------------------------------------------------------------------------
\* The entry of sendTurn for a message: a retry record is made or taken over.
Enters(m) ==
  LET r == IF retryState = None THEN m ELSE retryState IN
  /\ retryState' = r /\ holds' = [holds EXCEPT ![m] = r]
  /\ retry' = [retry EXCEPT ![r] =
                 IF retryState = None THEN NoRetry
                 ELSE [@ EXCEPT !.cancelled = FALSE]]
  /\ stage' = [stage EXCEPT ![m] = "resolving"]

Send(m) ==
  /\ stage[m] = "unsent" /\ active = NotActive
  /\ Overlaps \/ \A n \in Messages : stage[n] \in {"unsent", "settled"}
  /\ Enters(m)
  /\ UNCHANGED <<ends, process, current, active, socket, pending>>

\* "a turn is already running on this thread"
SendRefused(m) ==
  /\ stage[m] = "unsent" /\ active # NotActive
  /\ Settled(m)
  /\ UNCHANGED <<process, current, active, retry, holds,
                 retryState, socket, pending>>

Reusable(p) == /\ p # None /\ Running(p)
               /\ process[p].turn = None /\ ~process[p].closing

\* The live process takes the message.  Its close handler stays that of the
\* call that spawned it, and the new `stop` only kills.
Reuse(m) ==
  /\ stage[m] = "resolving" /\ Reusable(current)
  /\ process' = [process EXCEPT ![current].turn = m,
                                ![current].streamed = FALSE,
                                ![current].used = TRUE]
  /\ active' = [turn |-> m, process |-> current, cancels |-> FALSE]
  /\ stage' = [stage EXCEPT ![m] = "writing"]
  /\ UNCHANGED <<ends, current, retry, holds,
                 retryState, socket, pending>>

\* No live process, or another spawn contract.
Spawn(m) ==
  LET p == CHOOSE q \in Processes : process[q].child = "none"
      new == [child |-> "alive", turn |-> m, streamed |-> FALSE,
              closing |-> FALSE, broker |-> TRUE, made |-> m,
              retry |-> holds[m], used |-> FALSE] IN
  /\ stage[m] = "resolving" /\ \E q \in Processes : process[q].child = "none"
  /\ process' = [Closed(current, process) EXCEPT ![p] = new]
  /\ pending' = [q \in Processes |-> IF q = current THEN 0 ELSE pending[q]]
  /\ current' = p /\ socket' = p
  /\ active' = [turn |-> m, process |-> p, cancels |-> TRUE]
  /\ stage' = [stage EXCEPT ![m] = "writing"]
  /\ UNCHANGED <<ends, retry, holds, retryState>>

Writing(m, p) == stage[m] = "writing" /\ process[p].turn = m

Written(m, p) ==
  /\ Writing(m, p) /\ Running(p)
  /\ stage' = [stage EXCEPT ![m] = "open"]
  /\ UNCHANGED <<ends, process, current, active, retry, holds,
                 retryState, socket, pending>>

\* Fault: the failed turn is not marked settled.
WriteFailsUnsettled(m, p) ==
  /\ Writing(m, p)
  /\ Settled(m)
  /\ process' = Closed(current, process)
  /\ active' = NotActive
  /\ retryState' = IF process[p].used THEN retryState ELSE None
  /\ BrokerCloses(current)
  /\ UNCHANGED <<current, retry, holds>>

\* A fresh call settles its turn and closes the session; on a reused process
\* the call throws, and the retry record stays.
WriteFails(m, p) ==
  /\ Writing(m, p)
  /\ Settled(m)
  /\ process' = Closed(current, [process EXCEPT ![p].turn = None])
  /\ active' = NotActive
  /\ retryState' = IF process[p].used THEN retryState ELSE None
  /\ BrokerCloses(current)
  /\ UNCHANGED <<current, retry, holds>>

-----------------------------------------------------------------------------
\* What the process says.  Its closure's `session` is its own record, whether
\* or not it is still the thread's.  A delta marks the turn as streaming, the
\* message that ends its block takes the mark off again.
Streams(p) ==
  /\ Running(p) /\ process[p].turn # None
  /\ ~Writing(process[p].turn, p)
  /\ process' = [process EXCEPT ![p].streamed = ~@]
  /\ UNCHANGED <<stage, ends, current, active, retry, holds,
                 retryState, socket, pending>>

\* Fault: the open requests of the turn are left for the next one.
ResultUnpaused(p) ==
  /\ Running(p) /\ process[p].turn # None /\ ~Writing(process[p].turn, p)
  /\ Settles(p, process)
  /\ UNCHANGED <<pending, current, retry, socket, holds>>

\* The result line settles the turn and drains its requests.
Result(p) ==
  /\ Running(p) /\ process[p].turn # None /\ ~Writing(process[p].turn, p)
  /\ Settles(p, process)
  /\ pending' = [pending EXCEPT ![p] = 0]
  /\ UNCHANGED <<current, retry, socket, holds>>

Exits(p) ==
  /\ Running(p)
  /\ process' = [process EXCEPT ![p].child = "exited"]
  /\ UNCHANGED <<stage, ends, current, active, retry, holds,
                 retryState, socket, pending>>

\* The close event; pending writes to stdin have failed before it.  A turn
\* that showed nothing yet is kept for a relaunch ...
Retryable(p) ==
  LET r == retry[process[p].retry] IN
  /\ ~r.cancelled /\ ~process[p].streamed /\ r.attempt < MaxAttempts - 1
  /\ (IF process[p].used THEN "reused" ELSE "fresh") \in Flaky

\* Fault: the turn is no longer active during the backoff.
ClosesToRetryInactive(p) ==
  /\ process[p].child = "exited" /\ process[p].turn # None
  /\ ~Writing(process[p].turn, p) /\ Retryable(p)
  /\ BrokerCloses(p)
  /\ process' = [process EXCEPT ![p].child = "waiting", ![p].turn = None,
                                ![p].broker = FALSE]
  /\ current' = None /\ active' = NotActive
  /\ retry' = [retry EXCEPT ![process[p].retry].attempt = @ + 1]
  /\ UNCHANGED <<stage, ends, retryState, holds>>

ClosesToRetry(p) ==
  /\ process[p].child = "exited" /\ process[p].turn # None
  /\ ~Writing(process[p].turn, p) /\ Retryable(p)
  /\ BrokerCloses(p)
  /\ process' = [process EXCEPT ![p].child = "waiting", ![p].turn = None,
                                ![p].broker = FALSE]
  /\ current' = None
  /\ retry' = [retry EXCEPT ![process[p].retry].attempt = @ + 1]
  /\ UNCHANGED <<stage, ends, active, retryState, holds>>

\* ... any other turn ends with its process.
ClosesTurn(p) ==
  /\ process[p].child = "exited" /\ process[p].turn # None
  /\ ~Writing(process[p].turn, p)
  /\ BrokerCloses(p)
  /\ Settles(p, [process EXCEPT ![p] = NoProcess])
  /\ current' = IF current = p THEN None ELSE current
  /\ UNCHANGED <<retry, holds>>

ClosesIdle(p) ==
  /\ process[p].child = "exited" /\ process[p].turn = None
  /\ BrokerCloses(p)
  /\ process' = [process EXCEPT ![p] = NoProcess]
  /\ current' = IF current = p THEN None ELSE current
  /\ UNCHANGED <<stage, ends, active, retry, holds, retryState>>

\* Fault: a Stop during the backoff is not looked at.
RelaunchesStopped(p) ==
  /\ process[p].child = "waiting"
  /\ active' = NotActive
  /\ process' = [process EXCEPT ![p] = NoProcess]
  /\ Enters(process[p].made)
  /\ UNCHANGED <<ends, current, socket, pending>>

\* The backoff is over: the call that spawned the process is made again, with
\* that call's message.
Relaunches(p) ==
  /\ process[p].child = "waiting" /\ ~retry[process[p].retry].cancelled
  /\ active' = NotActive
  /\ process' = [process EXCEPT ![p] = NoProcess]
  /\ Enters(process[p].made)
  /\ UNCHANGED <<ends, current, socket, pending>>

\* A Stop ended the wait.
Abandons(p) ==
  /\ process[p].child = "waiting" /\ retry[process[p].retry].cancelled
  /\ active' = NotActive /\ retryState' = None
  /\ process' = [process EXCEPT ![p] = NoProcess]
  /\ Settled(process[p].made)
  /\ UNCHANGED <<current, retry, socket, pending, holds>>

-----------------------------------------------------------------------------
Killed(p) == [process EXCEPT ![p].child = IF @ = "alive" THEN "dying" ELSE @]

\* interruptTurn
Interrupt ==
  /\ active # NotActive
  /\ process' = Killed(active.process)
  /\ retry' = IF active.cancels
              THEN [retry EXCEPT ![process[active.process].retry].cancelled = TRUE]
              ELSE retry
  /\ UNCHANGED <<stage, ends, current, active, holds, retryState, socket,
                 pending>>

\* SESSION_IDLE_MS without a turn
IdleCloses ==
  /\ current # None /\ process[current].turn = None
  /\ ~process[current].closing
  /\ process' = Closed(current, process)
  /\ BrokerCloses(current)
  /\ UNCHANGED <<stage, ends, current, active, retry, holds, retryState>>

\* A request on a connection to p's broker.  `isActive` looks at the thread's
\* session, whichever it is; a closed broker or an idle thread denies at once.
Asks(p) ==
  /\ Running(p) /\ process[p].broker
  /\ current # None /\ process[current].turn # None
  /\ pending[p] < MaxAsks
  /\ pending' = [pending EXCEPT ![p] = @ + 1]
  /\ UNCHANGED <<stage, ends, process, current, active, retry, holds,
                 retryState, socket>>

\* The person, or the broker's own timeout, answers.
Answered(p) ==
  /\ pending[p] > 0
  /\ pending' = [pending EXCEPT ![p] = @ - 1]
  /\ UNCHANGED <<stage, ends, process, current, active, retry, holds,
                 retryState, socket>>

-----------------------------------------------------------------------------
Sending(m) ==
  \/ Send(m) \/ SendRefused(m) \/ Reuse(m) \/ Spawn(m)
  \/ \E p \in Processes : Written(m, p) \/ WriteFails(m, p)

Handling(p) ==
  \/ Streams(p) \/ Result(p) \/ Exits(p) \/ ClosesToRetry(p) \/ ClosesTurn(p)
  \/ ClosesIdle(p) \/ Relaunches(p) \/ Abandons(p) \/ Asks(p) \/ Answered(p)

Next ==
  \/ \E m \in Messages : Sending(m)
  \/ \E p \in Processes : Handling(p)
  \/ Interrupt \/ IdleCloses

\* The runtime calls back: awaited calls return, a killed process exits, its
\* close event fires, a backoff ends.  Nothing makes a live CLI answer.
Fairness ==
  /\ \A m \in Messages :
       /\ WF_vars(Reuse(m) \/ Spawn(m))
       /\ WF_vars(\E p \in Processes : Written(m, p) \/ WriteFails(m, p))
  /\ \A p \in Processes :
       /\ WF_vars(process[p].child = "dying" /\ Exits(p))
       /\ WF_vars(ClosesToRetry(p) \/ ClosesTurn(p) \/ ClosesIdle(p))
       /\ WF_vars(Relaunches(p) \/ Abandons(p))

Spec == Init /\ [][Next]_vars /\ Fairness

-----------------------------------------------------------------------------
\* A message ends once: an answer, a dead process, a failed write and a Stop
\* do not settle the same turn twice (`settled`, and `turn` set to null).
SettledOnce == \A m \in Messages : ends[m] <= 1

\* claude.ts: "The `active` entry STAYS - it is what makes an interrupt during
\* the backoff reach this turn's stop() and cancel the retry."  A turn that a
\* process works on, or that waits for its relaunch, is the one Stop reaches.
StopFindsTheTurn ==
  \A p \in Processes :
    /\ process[p].turn # None =>
         active.turn = process[p].turn /\ active.process = p /\ current = p
    /\ process[p].child = "waiting" => active.process = p /\ active.cancels

\* A request a person can still answer is of the turn the thread is at
\* (claude.ts: "which can never be answered - the zombie card").
NoZombieCard ==
  \A p \in Processes :
    pending[p] > 0 => p = current /\ process[p].turn # None

\* claude.ts: "the old child's later close event must never unlink a new
\* broker."  The broker of a session is the one its socket path leads to.
SocketIsCurrent ==
  \A p \in Processes : process[p].broker => p = socket

\* A stopped turn ends: its process dies with it, and a backoff that was under
\* way is not followed by a relaunch (claude.ts: "no zombie relaunch happens").
Stopped(m) ==
  LET p == active.process IN
  /\ active.turn = m
  /\ \/ process[p].child = "dying"
     \/ active.cancels /\ retry[process[p].retry].cancelled

StopEnds == \A m \in Messages : Stopped(m) ~> ends[m] > 0

\* claude.ts, in the close handler: "the CLI is gone but the TURN continues".
\* The turn a relaunch is prepared for is the one that was under way.
RetryIsOfTheTurn ==
  [][\A p \in Processes :
       process[p].child # "waiting" /\ process'[p].child = "waiting"
       => process[p].turn = process[p].made]_vars
=============================================================================
