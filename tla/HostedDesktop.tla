--------------------------- MODULE HostedDesktop ----------------------------
(***************************************************************************)
(* One bot's hosted (E2B) desktop (server/index.ts, hosted-desktop.ts):    *)
(* turns that mount it, agent actions that come in over the loopback       *)
(* endpoint, the person who takes the wheel, acts, starts and stops it,    *)
(* and changes of the bot's cloud backend.  Every request to the provider  *)
(* is awaited under one mark per bot, hostedDesktopActions.                *)
(* An action is the code between two awaits.                               *)
(***************************************************************************)
EXTENDS FiniteSets

CONSTANTS
  Threads,   \* the bot's chat and tasks
  Erring,    \* threads whose engine may go silent, or answer late
  Calls,     \* agent requests the server may have under way
  None       \* null

ASSUME HostedDesktopAssumption ==
  /\ Threads \cap Calls = {} /\ None \notin Threads \cup Calls
  /\ Erring \subseteq Threads

VARIABLES
  busy,     \* the bot's `busy`
  turn,     \* how far each thread's turn is
  stalled,  \* the threads whose turn the watchdog has stopped
  owed,     \* ends of turns that are still to come, the turns being over or not
  active,   \* activeE2bThreads of the bot
  backend,  \* whether the bot's cloud backend is E2B
  held,     \* the person's hold (ComputerControl)
  flight,   \* hostedDesktopActions: the awaited request, and who awaits it
  call,     \* how far each agent request is
  desktop,  \* the provider's desktop
  loose,    \* requests given up that may still take effect
  mishaps   \* what has gone wrong so far

late == <<stalled, owed>>

vars == <<busy, turn, late, active, backend, held, flight, call, desktop, loose,
          mishaps>>

\* away: the turn runs without this desktop.
Stages == {"none", "setup", "mounting", "running", "away"}
Whats == {"inspect", "status", "stop", "look", "act"}
Person == "person"
Patch == "patch"

\* The body of an agent's request arrives after something else happened; a
\* request that was given up may still take effect; the provider fleet is
\* reloaded under a turn; a late end of one turn idles the bot under another.
Mishaps == {"slow_body", "given_up", "reload", "stray"}

\* The watchdog's timer, six seconds after it stopped a turn; and what an engine
\* may say when its turn is over: turn.completed, or sendTurn rejects.
Ends == {"release", "answer"}

Flights == [who : Threads \cup Calls \cup {Person, Patch}, what : Whats]

ASSUME NamesAssumption ==
  {Person, Patch} \cap (Threads \cup Calls) = {} /\ None \notin Flights

TypeOK ==
  /\ {busy, held, backend} \subseteq BOOLEAN
  /\ turn \in [Threads -> Stages]
  /\ stalled \subseteq Threads /\ owed \subseteq Threads \X Ends
  /\ active \in Threads \cup {None}
  /\ flight = None \/ flight \in Flights
  /\ call \in [Calls -> {"none", "admitted", "acting", "looking"}]
  /\ \A c \in Calls : call[c] \in {"acting", "looking"} <=>
                        flight # None /\ flight.who = c
  /\ desktop \in {"stopped", "ready"} /\ loose \subseteq Flights
  /\ mishaps \subseteq Mishaps

Init ==
  /\ busy = FALSE /\ turn = [t \in Threads |-> "none"] /\ active = None
  /\ stalled = {} /\ owed = {}
  /\ backend = TRUE /\ held = FALSE /\ flight = None
  /\ call = [c \in Calls |-> "none"]
  /\ desktop \in {"stopped", "ready"} /\ loose = {} /\ mishaps = {}

Flies(w, what) == flight' = [who |-> w, what |-> what]
Awaits(w) == flight # None /\ flight.who = w

\* What a request that arrives does to the provider's desktop.
Done(what) ==
  desktop' = CASE what = "status" -> "ready"
               [] what = "stop" -> "stopped"
               [] OTHER -> desktop

-----------------------------------------------------------------------------
(* Turns.                                                                  *)

\* clearE2bTurn
Clears(t) == active' = IF active = t THEN None ELSE active

Start(t) ==
  /\ ~busy /\ turn[t] = "none"
  /\ busy' = TRUE /\ turn' = [turn EXCEPT ![t] = "setup"]
  /\ UNCHANGED <<active, late, backend, held, flight, call, desktop, loose>>

\* The turn mounts no hosted desktop.
RunsElsewhere(t) ==
  /\ turn[t] = "setup" /\ turn' = [turn EXCEPT ![t] = "away"]
  /\ UNCHANGED <<busy, active, late, backend, held, flight, call, desktop, loose>>

\* Fault: a turn that fails leaves its mark.
RejectsKeepingMark(t) ==
  /\ UNCHANGED active /\ busy' = FALSE /\ turn' = [turn EXCEPT ![t] = "none"]

\* startTurn's catch.
Rejects(t) ==
  /\ Clears(t) /\ busy' = FALSE /\ turn' = [turn EXCEPT ![t] = "none"]

\* A turn rejected anywhere else in its setup.
SetupFails(t) ==
  /\ turn[t] = "setup"
  /\ Rejects(t)
  /\ UNCHANGED <<late, backend, held, flight, call, desktop, loose>>

\* runHostedDesktop throws because an action is running: the mark was set to
\* this thread before, and is cleared.
MountRefused(t) ==
  /\ turn[t] = "setup" /\ backend /\ flight # None
  /\ active' = None /\ busy' = FALSE /\ turn' = [turn EXCEPT ![t] = "none"]
  /\ UNCHANGED <<late, backend, held, flight, call, desktop, loose>>

\* Fault: a turn does not wait for the action that is running.
MountsAnyway(t) ==
  /\ turn[t] = "setup" /\ backend
  /\ active' = t /\ turn' = [turn EXCEPT ![t] = "running"]
  /\ UNCHANGED <<busy, late, backend, held, flight, call, desktop, loose>>

\* The mark is set, and the desktop is asked to start or is inspected.
Mounts(t) ==
  /\ turn[t] = "setup" /\ backend /\ flight = None
  /\ active' = t /\ turn' = [turn EXCEPT ![t] = "mounting"]
  /\ \E what \in {"status", "inspect"} : Flies(t, what)
  /\ UNCHANGED <<busy, late, backend, held, call, desktop, loose>>

\* The answer.  The turn is dispatched if the desktop is ready; what follows
\* may still reject it.
Mounted(t) ==
  /\ turn[t] = "mounting" /\ Awaits(t)
  /\ flight' = None
  /\ Done(flight.what)
  /\ \/ /\ desktop' = "ready"
        /\ turn' = [turn EXCEPT ![t] = "running"] /\ UNCHANGED <<busy, active>>
     \/ Rejects(t)
  /\ UNCHANGED <<late, backend, held, call, loose>>

\* turn.completed, of a stopped turn too.  The promise of sendTurn may be open
\* still, and the timer of the watchdog goes on.
Completes(t) ==
  /\ turn[t] \in {"running", "away"}
  /\ Rejects(t)
  /\ stalled' = stalled \ {t}
  /\ \/ UNCHANGED owed
     \/ t \in Erring /\ owed' = owed \cup {<<t, "answer">>}
  /\ UNCHANGED <<backend, held, flight, call, desktop, loose>>

\* The watchdog's onStall: the engine is told to stop, and a timer is set.
Stalls(t) ==
  /\ turn[t] \in {"running", "away"} /\ t \in Erring \ stalled
  /\ stalled' = stalled \cup {t} /\ owed' = owed \cup {<<t, "release">>}
  /\ UNCHANGED <<busy, turn, active, backend, held, flight, call, desktop, loose>>

\* The timer: a bot that is busy is idled, whatever it is busy with.  The turn
\* that was stopped is over then; its engine may still report that.
TimerReleases(t) ==
  /\ <<t, "release">> \in owed
  /\ IF ~busy
     THEN owed' = owed \ {<<t, "release">>} /\ UNCHANGED <<busy, turn, active, stalled>>
     ELSE /\ Clears(t) /\ busy' = FALSE
          /\ turn' = [turn EXCEPT ![t] = IF t \in stalled THEN "none" ELSE @]
          /\ stalled' = stalled \ {t}
          /\ owed' = (owed \ {<<t, "release">>})
                       \cup (IF t \in stalled THEN {<<t, "answer">>} ELSE {})
  /\ UNCHANGED <<backend, held, flight, call, desktop, loose>>

\* An end that comes when its turn is over: it clears the thread's mark and
\* idles the bot all the same.
EndsLate(t) ==
  /\ <<t, "answer">> \in owed /\ owed' = owed \ {<<t, "answer">>}
  /\ Clears(t) /\ busy' = FALSE
  /\ UNCHANGED <<turn, stalled, backend, held, flight, call, desktop, loose>>

\* reloadProviders: the turns under way die without an event, unless they are
\* dispatched while it runs, and the bot is idled.
Reload ==
  /\ busy /\ busy' = FALSE
  /\ \E killed \in SUBSET {t \in Threads : turn[t] \in {"running", "away"}} :
       /\ turn' = [t \in Threads |-> IF t \in killed THEN "none" ELSE turn[t]]
       /\ stalled' = stalled \ killed
       /\ owed' = owed \cup (killed \cap Erring) \X {"answer"}
  /\ UNCHANGED <<active, backend, held, flight, call, desktop, loose>>

-----------------------------------------------------------------------------
(* The agent: POST /api/internal/hosted-desktop, sent by a turn's proxy.   *)

\* The head of the request, of an engine that runs or does not stop: the mark
\* and the hold are checked.
AgentAsks(c) ==
  /\ call[c] = "none"
  /\ \E t \in Threads : turn[t] = "running" \/ <<t, "answer">> \in owed
  /\ backend /\ active # None /\ ~held
  /\ call' = [call EXCEPT ![c] = "admitted"]
  /\ UNCHANGED <<busy, turn, active, late, backend, held, flight, desktop, loose>>

\* The body: the action is run, or refused while another is.
AgentActs(c) ==
  /\ call[c] = "admitted"
  /\ IF flight # None
     THEN call' = [call EXCEPT ![c] = "none"] /\ UNCHANGED flight
     ELSE \/ Flies(c, "look") /\ call' = [call EXCEPT ![c] = "looking"]
          \/ Flies(c, "act") /\ call' = [call EXCEPT ![c] = "acting"]
  /\ UNCHANGED <<busy, turn, active, late, backend, held, desktop, loose>>

\* An action that succeeded is followed by a screenshot, unless the person
\* took the wheel meanwhile.
AgentAnswered(c) ==
  /\ Awaits(c) /\ call[c] \in {"acting", "looking"}
  /\ IF call[c] = "acting" /\ ~held
     THEN Flies(c, "look") /\ call' = [call EXCEPT ![c] = "looking"]
     ELSE flight' = None /\ call' = [call EXCEPT ![c] = "none"]
  /\ UNCHANGED <<busy, turn, active, late, backend, held, desktop, loose>>

-----------------------------------------------------------------------------
(* The person.                                                             *)

\* Fault: the wheel can be taken while an action is running.
TakesAnyway ==
  /\ ~held /\ held' = TRUE
  /\ UNCHANGED <<busy, turn, active, late, backend, flight, call, desktop, loose>>

\* POST .../computer/control with "take" and with "release".
Takes ==
  /\ ~held /\ ~(backend /\ flight # None)
  /\ held' = TRUE
  /\ UNCHANGED <<busy, turn, active, late, backend, flight, call, desktop, loose>>

Releases ==
  /\ held /\ held' = FALSE
  /\ UNCHANGED <<busy, turn, active, late, backend, flight, call, desktop, loose>>

\* What POST .../hosted-computer lets the person do.
May(what) ==
  CASE what \in {"status", "stop"} -> ~busy /\ active = None
    [] what = "act" -> held
    [] OTHER -> TRUE

\* POST and GET .../hosted-computer.
PersonActs(what) ==
  /\ backend /\ flight = None /\ May(what)
  /\ Flies(Person, what)
  /\ UNCHANGED <<busy, turn, active, late, backend, held, call, desktop, loose>>

PersonAnswered ==
  /\ Awaits(Person)
  /\ flight' = None /\ Done(flight.what)
  /\ UNCHANGED <<busy, turn, active, late, backend, held, call, loose>>

\* PATCH /api/bots/:id away from E2B first asks whether the desktop is up.
PatchAsks ==
  /\ backend /\ flight = None /\ Flies(Patch, "inspect")
  /\ UNCHANGED <<busy, turn, active, late, backend, held, call, desktop, loose>>

\* The answer; then cloudBackendChangeError, and the change.
PatchAnswered ==
  /\ Awaits(Patch) /\ flight' = None
  /\ backend' = (desktop = "ready" \/ busy \/ active # None)
  /\ UNCHANGED <<busy, turn, active, late, held, call, desktop, loose>>

\* PATCH back to E2B.
PatchBack ==
  /\ ~backend /\ ~busy /\ active = None /\ flight = None
  /\ backend' = TRUE
  /\ UNCHANGED <<busy, turn, active, late, held, flight, call, desktop, loose>>

-----------------------------------------------------------------------------
(* The provider.                                                           *)

\* Requests whose late arrival makes a difference.
Effects == {"status", "stop", "act"}

\* runHostedDesktop throws: the provider refused, or was given up after 45
\* seconds, when it may still do what was asked.
Fails ==
  /\ flight # None
  /\ flight' = None
  /\ \/ UNCHANGED loose
     \/ flight.what \in Effects /\ loose' = loose \cup {flight}
  /\ call' = [c \in Calls |-> IF flight.who = c THEN "none" ELSE call[c]]
  /\ IF flight.who \in Threads THEN Rejects(flight.who)
     ELSE UNCHANGED <<busy, turn, active>>
  /\ UNCHANGED <<late, backend, held, desktop>>

LateEffect ==
  /\ \E f \in loose : Done(f.what) /\ loose' = loose \ {f}
  /\ UNCHANGED <<busy, turn, active, late, backend, held, flight, call>>

\* A desktop expires after fifteen minutes.
Expires ==
  /\ desktop = "ready" /\ desktop' = "stopped"
  /\ UNCHANGED <<busy, turn, active, late, backend, held, flight, call, loose>>

-----------------------------------------------------------------------------
Answered ==
  \/ PersonAnswered \/ PatchAnswered
  \/ \E t \in Threads : Mounted(t)
  \/ \E c \in Calls : AgentAnswered(c)

Happens ==
  \/ \E t \in Threads :
       \/ Start(t) \/ RunsElsewhere(t) \/ SetupFails(t) \/ Mounts(t)
       \/ MountRefused(t) \/ Completes(t) \/ Stalls(t) \/ TimerReleases(t)
       \/ EndsLate(t)
  \/ \E c \in Calls : AgentAsks(c) \/ AgentActs(c)
  \/ \E what \in Whats : PersonActs(what)
  \/ Takes \/ Releases \/ PatchAsks \/ PatchBack
  \/ Answered \/ Fails \/ LateEffect \/ Expires

\* The record of what has gone wrong: a step between the head and the body of
\* a request, a request that leaves something loose, and an end that idles the
\* bot while it has another turn.
Noted ==
  mishaps' = mishaps
    \cup (IF \E c \in Calls : call[c] = "admitted" /\ call'[c] = "admitted"
          THEN {"slow_body"} ELSE {})
    \cup (IF busy /\ ~busy' /\ \E t \in Threads : turn'[t] # "none"
          THEN {"stray"} ELSE {})
    \cup (IF loose' \ loose # {} THEN {"given_up"} ELSE {})

Next ==
  \/ Happens /\ Noted
  \/ Reload /\ mishaps' = mishaps \cup {"reload"}

Spec == Init /\ [][Next]_vars

-----------------------------------------------------------------------------
\* What the provider is doing or may yet do, and for whom.
Upstream == (IF flight # None THEN {flight} ELSE {}) \cup loose

\* computer-control.ts: "While the person holds control, the bot's computer
\* actions are REFUSED by the proxies, not queued."
Refused == held => ~\E f \in Upstream : f.who \in Calls /\ f.what = "act"

\* That holds while every body arrives with its head and no request that was
\* given up takes effect: the wheel is not handed over under an action.
HandsOff == mishaps \cap {"slow_body", "given_up"} = {} => Refused

\* The desktop of a running turn is not being stopped: the person's stop looks
\* for a turn, and a turn that starts during it is refused.  Not kept when the
\* bot is idled under its turn, by a fleet reload or by what an earlier turn of
\* the thread left to come, nor when a stop that was given up takes effect late.
StopsNothingInUse ==
  /\ mishaps \cap {"given_up", "reload", "stray"} = {}
  /\ \E t \in Threads : turn[t] \in {"mounting", "running"}
  => \A f \in Upstream : f.what # "stop"

\* A turn that mounted the desktop can use it until it ends: the bot's backend
\* is still E2B, and the endpoint finds the turn.
TurnKeepsDesktop ==
  \A t \in Threads : turn[t] \in {"mounting", "running"} =>
    backend /\ active = t

\* index.ts on the mark: "No active E2B turn for this bot".  A mark that stays
\* behind keeps the person from starting and stopping the desktop and from
\* changing the backend.
ActiveIsATurn ==
  active # None => turn[active] \in {"mounting", "running"}

\* Mark and turn come and go together, through every rejection, stall and change
\* of backend and through ends that come late but find the bot idle.  Not kept
\* by a fleet reload, which leaves marks, nor by an end that falls on a later turn.
MarkFollowsTheTurn ==
  mishaps \cap {"reload", "stray"} = {} => TurnKeepsDesktop /\ ActiveIsATurn

-----------------------------------------------------------------------------
\* For TLC: where no property says anything any more, nothing need be explored
\* (mishaps are never forgotten).
SomethingToSay ==
  mishaps \cap {"slow_body", "given_up"} = {} \/ mishaps \cap {"reload", "stray"} = {}

=============================================================================
