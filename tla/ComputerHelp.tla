---------------------------- MODULE ComputerHelp -----------------------------
(***************************************************************************)
(* The help protocol: computer_request_help calls running in a bot's       *)
(* computer proxy (server/computer-proxy.ts, through the client of         *)
(* server/control-client.ts), the loopback route that serves them, and the *)
(* person's three moves in the panel, all over the registry of             *)
(* ComputerControl.  The proxy starts every JSON-RPC request without       *)
(* waiting for the previous one, so several calls of one bot can be open   *)
(* at the same time, and each of their HTTP requests can be lost.          *)
(***************************************************************************)
EXTENDS ComputerControl

CONSTANTS
  Calls,        \* computer_request_help calls; each runs once
  MaxPleas      \* bound: pleas ever opened

ASSUME HelpAssumption == MaxPleas \in Nat

VARIABLES
  live,         \* the bots in the store
  taking,       \* POST .../control {take} past its bot check, body unread
  calls,        \* the help calls
  lost          \* whether a loopback request or its response was ever lost

vars == <<entries, requestSequence, live, taking, calls, lost>>

Phases == {"idle", "read", "posted", "waiting", "expiring",
           "unpaged", "finished", "dismissed", "timed_out"}
Over == {"unpaged", "finished", "dismissed", "timed_out"}

Idle(b) == [bot |-> b, phase |-> "idle", lease |-> 0, sawHold |-> FALSE]

TypeOK ==
  /\ ControlTypeOK
  /\ live \subseteq Bots
  /\ taking \subseteq Bots
  /\ calls \in [Calls -> [bot : Bots, phase : Phases,
                          lease : Nat, sawHold : BOOLEAN]]
  /\ lost \in BOOLEAN

Init ==
  /\ ControlInit
  /\ live = Bots
  /\ taking = {}
  /\ calls \in [Calls -> {Idle(b) : b \in Bots}]
  /\ lost = FALSE

-----------------------------------------------------------------------------
\* What the route's GET answers: 404, taken for DISENGAGED, for a bot that is
\* gone.
Arrived(b) == IF b \in live THEN entries[b] ELSE NoControl

\* client.state(true): the entry (who holds, and whether a plea is open), or
\* DISENGAGED when the request is lost.
Reads(b, s) ==
  \/ s = Arrived(b) /\ UNCHANGED lost
  \/ s = NoControl /\ lost' = TRUE

Answers(b) == {entries[b], NoControl}

Go(c, phase) == calls' = [calls EXCEPT ![c].phase = phase]

\* The call's first read: a person already driving is waited for without a plea.
Begin(c) ==
  /\ calls[c].phase = "idle"
  /\ \E s \in Answers(calls[c].bot) :
       /\ Reads(calls[c].bot, s)
       /\ calls' = [calls EXCEPT ![c].sawHold = s.held,
                                 ![c].phase = IF s.held THEN "waiting" ELSE "read"]
  /\ UNCHANGED <<controlVars, live, taking>>

\* The POST reaches the route: the bot exists, the body is still to be read.
PostArrives(c) ==
  /\ calls[c].phase = "read"
  /\ calls[c].bot \in live
  /\ Go(c, "posted")
  /\ UNCHANGED <<controlVars, live, taking, lost>>

\* 404, or the request never arrived: client.requestHelp answers null.
PostFails(c) ==
  /\ calls[c].phase = "read"
  /\ \/ calls[c].bot \notin live /\ UNCHANGED lost
     \/ lost' = TRUE
  /\ Go(c, "unpaged")
  /\ UNCHANGED <<controlVars, live, taking>>

\* After `await readBody` the route opens (or joins) the plea; a response that
\* is lost leaves the caller "unpaged" and the plea open.
PostApplies(c) ==
  LET b == calls[c].bot IN
  /\ calls[c].phase = "posted"
  /\ requestSequence < MaxPleas \/ entries[b].help # 0
  /\ RequestHelpLease(b)
  /\ \/ /\ calls' = [calls EXCEPT ![c].phase = "waiting",
                                  ![c].lease = entries'[b].help]
        /\ UNCHANGED lost
     \/ Go(c, "unpaged") /\ lost' = TRUE
  /\ UNCHANGED <<live, taking>>

\* One turn of the wait loop: what was read decides.
Polls(c, s) ==
  /\ calls[c].phase = "waiting"
  /\ \/ s.held /\ calls' = [calls EXCEPT ![c].sawHold = TRUE]
     \/ ~s.held /\ s.help # 0 /\ UNCHANGED calls
     \/ /\ ~s.held /\ s.help = 0
        /\ Go(c, IF calls[c].sawHold THEN "finished" ELSE "dismissed")
  /\ UNCHANGED <<controlVars, live, taking>>

Poll(c) ==
  \E s \in Answers(calls[c].bot) : Reads(calls[c].bot, s) /\ Polls(c, s)

\* Fault: the call gives up without taking its plea down.
DeadlineLeavesPlea(c) ==
  /\ calls[c].phase = "waiting"
  /\ Go(c, "timed_out")
  /\ UNCHANGED <<controlVars, live, taking, lost>>

\* CONTROL_WAIT_MS is over: only a call that opened a plea expires it.
Deadline(c) ==
  /\ calls[c].phase = "waiting"
  /\ Go(c, IF calls[c].lease = 0 THEN "timed_out" ELSE "expiring")
  /\ UNCHANGED <<controlVars, live, taking, lost>>

\* The DELETE, best effort.
Expire(c) ==
  LET b == calls[c].bot IN
  /\ calls[c].phase = "expiring"
  /\ \/ b \in live /\ ExpireHelp(b, calls[c].lease) /\ UNCHANGED lost
     \/ b \notin live /\ UNCHANGED <<controlVars, lost>>
     \/ lost' = TRUE /\ UNCHANGED controlVars
  /\ Go(c, "timed_out")
  /\ UNCHANGED <<live, taking>>

-----------------------------------------------------------------------------
\* The person's moves.  The route checks the bot, then awaits the body: a take
\* can land after the bot was deleted.
TakeArrives(b) ==
  /\ b \in live
  /\ taking' = taking \cup {b}
  /\ UNCHANGED <<controlVars, live, calls, lost>>

TakeApplies(b) ==
  /\ b \in taking
  /\ taking' = taking \ {b}
  /\ Take(b)
  /\ UNCHANGED <<live, calls, lost>>

PersonReleases(b) ==
  /\ b \in live
  /\ Release(b)
  /\ UNCHANGED <<live, taking, calls, lost>>

PersonDismisses(b) ==
  /\ b \in live
  /\ DismissHelp(b)
  /\ UNCHANGED <<live, taking, calls, lost>>

\* DELETE /api/bots/:id, the part that touches this registry.
DeleteBot(b) ==
  /\ b \in live
  /\ live' = live \ {b}
  /\ Release(b)
  /\ UNCHANGED <<taking, calls, lost>>

CallStep(c) ==
  \/ Begin(c) \/ PostArrives(c) \/ PostFails(c) \/ PostApplies(c)
  \/ Poll(c) \/ Deadline(c) \/ Expire(c)

PersonStep(b) ==
  \/ TakeArrives(b) \/ TakeApplies(b) \/ PersonReleases(b)
  \/ PersonDismisses(b) \/ DeleteBot(b)

Next == (\E c \in Calls : CallStep(c)) \/ (\E b \in Bots : PersonStep(b))

\* setTimeout keeps the wait loop polling, and a read that is not lost arrives.
\* Nothing obliges the person to act or a request to get lost, and the
\* ten-minute deadline is left unfair: none of these must be what resumes a bot
\* whose person handed the wheel back.
Fairness ==
  \A c \in Calls : WF_vars(UNCHANGED lost /\ Polls(c, Arrived(calls[c].bot)))

Spec == Init /\ [][Next]_vars /\ Fairness

-----------------------------------------------------------------------------
WaitsOn(c, b) == calls[c].bot = b /\ calls[c].phase \in {"waiting", "expiring"}

\* A plea on the person's screen has a call behind it that will either see it
\* answered or take it down, as long as no request was lost: requestHelpLease
\* hands the id to the caller, expireHelp closes it.
PleaHasWaiter ==
  ~lost => \A b \in live : entries[b].help # 0 =>
    \E c \in Calls : WaitsOn(c, b) /\ calls[c].lease = entries[b].help

\* The id comparison of expireHelp: of two calls that were given different
\* leases, the one that times out never takes down the plea the other waits on.
\* Two calls that share one plea share its lease (requestHelpLease answers the
\* second with the open one), and the first to time out does close it.
StaleExpiryHarmless ==
  [][\A c, d \in Calls :
       /\ calls[c].phase = "expiring" /\ calls'[c].phase = "timed_out"
       /\ WaitsOn(d, calls[c].bot)
       /\ calls[d].lease # calls[c].lease
       /\ calls[d].lease = entries[calls[d].bot].help
       => entries'[calls[d].bot].help = calls[d].lease]_vars

\* The bot has no verb that starts or ends a hold: a step of one of its calls
\* (a plea, an expiry) never changes who is driving.
HoldIsThePersons ==
  [][calls' # calls => \A b \in Bots : entries'[b].held = entries[b].held]_vars

\* Handing the wheel back resumes the bot: a call that saw the person drive,
\* and whose bot is free again, returns unless the person drives again or a
\* newer plea of the same bot is open.
HandBackResumes ==
  \A c \in Calls :
    (/\ calls[c].phase = "waiting" /\ calls[c].sawHold
     /\ ~entries[calls[c].bot].held)
    ~> (\/ calls[c].phase \in Over \cup {"expiring"}
        \/ entries[calls[c].bot].held
        \/ entries[calls[c].bot].help > calls[c].lease)

\* What computer-control.ts says of the lease: "A proxy uses this id to expire
\* only its own unanswered plea when its wait ends."  The plea another call is
\* still waiting on stays open.
ExpiresOnlyOwnPlea ==
  [][\A c, d \in Calls :
       /\ c # d
       /\ calls[c].phase = "expiring" /\ calls'[c].phase = "timed_out"
       /\ calls[d].bot = calls[c].bot /\ calls[d].phase = "waiting"
       /\ calls[d].lease # 0
       /\ calls[d].lease = entries[calls[d].bot].help
       => entries'[calls[d].bot].help = calls[d].lease]_vars
=============================================================================
