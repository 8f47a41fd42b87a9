----------------------------- MODULE RoomClock ------------------------------
(***************************************************************************)
(* The two clocks over one room turn (server/room-turn-timeout.ts,         *)
(* turn-watchdog.ts, runGroupMemberTurn in index.ts).  The deadline counts *)
(* work and stands still while a request waits for a person; the watchdog  *)
(* counts silence.  Whichever ends the turn first must put the other away. *)
(* Time passes in units; a timer that is due may be late, as in a busy     *)
(* event loop, but is never early.  An event runs the watchdog's           *)
(* subscriber first and the turn's own last, in one step.                  *)
(* Its names are its own, so that its proofs can stand beside those of     *)
(* TurnEngine in one module.                                               *)
(***************************************************************************)
EXTENDS Integers, FiniteSets

CONSTANTS
  Requests,   \* the requests the turn may have open at once
  NoEntry,    \* no entry in the watchdog
  Budget,     \* roomTurnTimeoutMs, in units
  StallAfter, \* TURN_STALL_MS, in units
  MaxTime     \* bound on the clock

ASSUME RoomClockAssumption ==
  /\ IsFiniteSet(Requests)
  /\ Budget \in Nat \ {0} /\ StallAfter \in Nat \ {0} /\ MaxTime \in Nat
  /\ NoEntry \notin [lastEventAt : 0 .. MaxTime, waiting : BOOLEAN]

VARIABLES
  now,        \* Date.now()
  deadline,   \* the turn's RoomTurnDeadline
  entry,      \* the watchdog's entry of the thread
  asked,      \* the requests of the turn a person has not answered
  provider,   \* whether the provider's turn has completed
  outcome,    \* what the awaited promise resolved to
  worked,     \* units passed, up to the outcome, with no request open
  strayed     \* whether a stray request.resolved came while a request was open

clockVars == <<now, deadline, entry, asked, provider, outcome, worked, strayed>>

Outcomes == {"settled", "dispatch_failed", "stalled", "timed_out"}

ClockTypeOK ==
  /\ now \in 0 .. MaxTime /\ worked \in 0 .. MaxTime
  /\ deadline \in [remaining : Int, timer : BOOLEAN, armedAt : 0 .. MaxTime,
                   open : Nat, stopped : BOOLEAN, fired : BOOLEAN]
  /\ entry = NoEntry \/ entry \in [lastEventAt : 0 .. MaxTime, waiting : BOOLEAN]
  /\ asked \subseteq Requests
  /\ provider \in {"running", "over"}
  /\ outcome \in Outcomes \cup {"pending"}
  /\ strayed \in BOOLEAN

-----------------------------------------------------------------------------
(* RoomTurnDeadline: its methods on the record.                            *)

Expired(d) == [d EXCEPT !.fired = ~d.stopped]

Armed(d) ==
  IF d.stopped \/ d.fired \/ d.open > 0 THEN d
  ELSE IF d.remaining <= 0 THEN Expired(d)
  ELSE [d EXCEPT !.timer = TRUE, !.armedAt = now]

\* Fault: an exhausted budget waits for the person.
HeldPatiently(d) ==
  IF d.timer THEN [d EXCEPT !.remaining = @ - (now - d.armedAt), !.timer = FALSE]
  ELSE d

HeldBack(d) ==
  LET left == d.remaining - (now - d.armedAt)
      held == [d EXCEPT !.remaining = left, !.timer = FALSE] IN
  IF ~d.timer THEN d ELSE IF left <= 0 THEN Expired(held) ELSE held

\* Fault: only the first request is counted.
ParkedOnce(d) == IF d.open = 0 THEN HeldBack([d EXCEPT !.open = 1]) ELSE d

\* setWaitingOnHuman(true)
Parked(d) ==
  LET counted == [d EXCEPT !.open = @ + 1] IN
  IF d.stopped \/ d.fired THEN d
  ELSE IF d.open = 0 THEN HeldBack(counted) ELSE counted

\* setWaitingOnHuman(false)
Resumed(d) ==
  IF d.stopped \/ d.fired \/ d.open = 0 THEN d
  ELSE Armed([d EXCEPT !.open = @ - 1])

Stopped(d) == [d EXCEPT !.stopped = TRUE, !.timer = FALSE]

\* Fault: the turn settles and its timer stays.
ConcludesWithTimer(value, d) ==
  /\ outcome' = IF outcome = "pending" THEN value ELSE outcome
  /\ deadline' = d

\* finish
Concludes(value, d) ==
  IF outcome = "pending" THEN outcome' = value /\ deadline' = Stopped(d)
  ELSE UNCHANGED <<outcome, deadline>>

\* The turn's subscriber heard about a request, and the deadline is now d.
Hears(d) ==
  IF outcome # "pending" THEN UNCHANGED <<outcome, deadline>>
  ELSE IF d.fired THEN Concludes("timed_out", d)
  ELSE deadline' = d /\ UNCHANGED outcome

-----------------------------------------------------------------------------
\* The deadline is started, the stall handler registered, the thread watched.
ClockInit ==
  /\ now = 0 /\ worked = 0 /\ asked = {} /\ strayed = FALSE
  /\ deadline = [remaining |-> Budget, timer |-> TRUE, armedAt |-> 0,
                 open |-> 0, stopped |-> FALSE, fired |-> FALSE]
  /\ entry = [lastEventAt |-> 0, waiting |-> FALSE]
  /\ provider = "running" /\ outcome = "pending"

Tick ==
  /\ now < MaxTime /\ now' = now + 1
  /\ worked' = IF outcome = "pending" /\ asked = {} THEN worked + 1 ELSE worked
  /\ UNCHANGED <<deadline, entry, asked, provider, outcome, strayed>>

\* The watchdog's setWaitingOnHuman.
Waits(waiting) ==
  entry' = IF entry = NoEntry THEN NoEntry
           ELSE [lastEventAt |-> now, waiting |-> waiting]

OpensRequest(q) ==
  /\ provider = "running" /\ q \notin asked
  /\ asked' = asked \cup {q}
  /\ Waits(TRUE)
  /\ Hears(Parked(deadline))
  /\ UNCHANGED <<now, provider, worked, strayed>>

Resolves(q) ==
  /\ provider = "running" /\ q \in asked
  /\ asked' = asked \ {q}
  /\ Waits(FALSE)
  /\ Hears(Resumed(deadline))
  /\ UNCHANGED <<now, provider, worked, strayed>>

\* A request.resolved for a card this turn never opened.
StrayResolves ==
  /\ provider = "running"
  /\ strayed' = (strayed \/ asked # {})
  /\ Waits(FALSE)
  /\ Hears(Resumed(deadline))
  /\ UNCHANGED <<now, asked, provider, worked>>

\* Any other event of the thread: the watchdog's touch.
Emits ==
  /\ provider = "running"
  /\ entry' = IF entry = NoEntry THEN NoEntry ELSE [entry EXCEPT !.lastEventAt = now]
  /\ UNCHANGED <<now, deadline, asked, provider, outcome, worked, strayed>>

\* turn.completed; or sendTurn was rejected, which no event follows.
Finishes(value) ==
  /\ provider = "running"
  /\ provider' = "over" /\ asked' = {} /\ entry' = NoEntry
  /\ Concludes(value, deadline)
  /\ UNCHANGED <<now, worked, strayed>>

Completes == Finishes("settled")
DispatchFails == Finishes("dispatch_failed")

\* The deadline's timer.
TimerFires ==
  /\ deadline.timer /\ now >= deadline.armedAt + deadline.remaining
  /\ Concludes("timed_out", Expired([deadline EXCEPT !.timer = FALSE]))
  /\ UNCHANGED <<now, entry, asked, provider, worked, strayed>>

\* TurnWatchdog.sweep finds the thread stalled: onStall, and through
\* RoomTurnStallRegistry.stall the turn's handler.
Sweeps ==
  /\ entry # NoEntry /\ ~entry.waiting /\ now - entry.lastEventAt >= StallAfter
  /\ entry' = NoEntry
  /\ Concludes("stalled", deadline)
  /\ UNCHANGED <<now, asked, provider, worked, strayed>>

ClockNext ==
  \/ Tick \/ Emits \/ StrayResolves \/ TimerFires \/ Sweeps
  \/ Completes \/ DispatchFails
  \/ \E q \in Requests : OpensRequest(q) \/ Resolves(q)

\* A timer that is due is run in the end; a provider or a person may be silent.
ClockSpec == ClockInit /\ [][ClockNext]_clockVars /\ WF_clockVars(TimerFires)

-----------------------------------------------------------------------------
\* room-turn-timeout.ts: "waiting on a person is not work".  A turn is stopped
\* at the ceiling only after it had its whole budget with no request open.
WaitingNeverCounts == outcome = "timed_out" => worked >= Budget

\* However often and however long a turn waited, that holds, unless a late
\* resolve of another turn's card came while a card of this one was open.
WaitingIsFree == ~strayed => WaitingNeverCounts

\* The two clocks follow the turn.  While the room waits for it the watchdog
\* knows it, and unless it has asked something its ceiling is armed, for no
\* later than its budget lasts, whatever strays came; once it is over, no timer
\* is left to interrupt whoever speaks next.
ClocksFollowTheTurn ==
  IF outcome = "pending"
  THEN /\ entry # NoEntry
       /\ asked = {} =>
            /\ deadline.timer
            /\ deadline.armedAt + deadline.remaining - now <= Budget - worked
  ELSE ~deadline.timer

\* room-turn-timeout.ts: "a person's wait must not extend an exhausted budget".
\* A turn whose budget is used up ends, even if it asks something first.
EndsAtCeiling == worked >= Budget ~> outcome # "pending"

\* turn-watchdog.ts: "Turns parked on a human approval are exempt."
ParkedIsNotStalled ==
  [][outcome = "pending" /\ outcome' = "stalled" => asked = {}]_clockVars

=============================================================================
