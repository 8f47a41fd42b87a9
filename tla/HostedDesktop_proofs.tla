------------------------ MODULE HostedDesktop_proofs ------------------------
(***************************************************************************)
(* Proofs about one bot's hosted desktop, for any threads and any number   *)
(* of agent requests.                                                      *)
(***************************************************************************)
EXTENDS HostedDesktop, TLAPS

-----------------------------------------------------------------------------
(* Who waits for what under the bot's one mark.                            *)

\* A turn mounts while its own request is awaited; turns and the patch ask
\* for what does not stop the desktop, and an agent's request is what it was
\* admitted for.  What the watchdog stopped had been dispatched.
FlightIsAsked ==
  /\ \A t \in Threads : turn[t] = "mounting" <=> Awaits(t)
  /\ flight # None /\ flight.who \in Threads => flight.what \in {"status", "inspect"}
  /\ flight # None /\ flight.who = Patch => flight.what = "inspect"
  /\ \A t \in stalled : turn[t] \in {"running", "away"}
  /\ \A c \in Calls : /\ call[c] = "acting" => flight.what = "act"
                      /\ call[c] = "looking" => flight.what = "look"

UsesDesktop(t) == turn[t] \in {"mounting", "running"}

\* One turn at a time, and `busy` says whether there is one.
OneTurn ==
  /\ busy <=> \E t \in Threads : turn[t] # "none"
  /\ \A s, t \in Threads : turn[s] # "none" /\ turn[t] # "none" => s = t

\* The desktop that is being stopped has no turn.
StopIsAlone ==
  flight # None /\ flight.what = "stop" => \A t \in Threads : ~UsesDesktop(t)

\* What holds as long as no bot is idled under its turn, by a reload or by an
\* end that comes late.
TurnsAreTold == OneTurn /\ TurnKeepsDesktop /\ ActiveIsATurn /\ StopIsAlone

\* What holds as long as a body arrives with its head: the check of the head
\* is still true when the action is run, and the wheel is not taken under it.
ChecksAreFresh ==
  /\ \A c \in Calls : call[c] = "admitted" => backend /\ ~held
  /\ flight # None /\ flight.who \in Calls =>
       backend /\ (held => flight.what # "act")

DesktopInv ==
  /\ TypeOK /\ FlightIsAsked
  /\ "given_up" \notin mishaps => loose = {}
  /\ mishaps \cap {"reload", "stray"} = {} => TurnsAreTold
  /\ "slow_body" \notin mishaps => ChecksAreFresh

-----------------------------------------------------------------------------
(* What the record of mishaps says of a step.                              *)

LEMMA NotedType ==
  ASSUME mishaps \subseteq Mishaps, Noted
  PROVE  mishaps' \subseteq Mishaps
BY DEF Noted, Mishaps

LEMMA NotedKeeps ==
  ASSUME Noted
  PROVE  /\ mishaps \subseteq mishaps'
         /\ "given_up" \notin mishaps' => loose' \subseteq loose
         /\ "slow_body" \notin mishaps' =>
              \A c \in Calls : ~(call[c] = "admitted" /\ call'[c] = "admitted")
         /\ "stray" \notin mishaps' =>
              ~(busy /\ ~busy' /\ \E t \in Threads : turn'[t] # "none")
BY DEF Noted

\* What is asked under the mark is a request, never the mark's absence.
LEMMA FliesType ==
  ASSUME NEW w \in Threads \cup Calls \cup {Person, Patch}, NEW what \in Whats,
         Flies(w, what)
  PROVE  /\ flight' # None /\ flight' \in Flights
         /\ flight'.who = w /\ flight'.what = what
<1>1. [who |-> w, what |-> what] \in Flights
  BY DEF Flights
<1> QED
  BY <1>1, NamesAssumption DEF Flies

-----------------------------------------------------------------------------
(* Typing.                                                                 *)

CallStages == {"none", "admitted", "acting", "looking"}

\* What a turn does to its own state and the bot's is well typed.
LEMMA TypingTurn ==
  ASSUME TypeOK, NEW t \in Threads, Noted,
         \/ Start(t) \/ RunsElsewhere(t) \/ SetupFails(t) \/ Mounts(t)
         \/ MountRefused(t) \/ Mounted(t)
         \/ Completes(t) \/ Stalls(t) \/ TimerReleases(t) \/ EndsLate(t)
  PROVE  TypeOK'
<1>1. mishaps' \subseteq Mishaps
  BY NotedType DEF TypeOK
<1>2. CASE Start(t)
  BY <1>1, <1>2 DEF Start, late, TypeOK, Stages
<1>3. CASE RunsElsewhere(t)
  BY <1>1, <1>3 DEF RunsElsewhere, late, TypeOK, Stages
<1>4. CASE SetupFails(t)
  BY <1>1, <1>4 DEF SetupFails, Rejects, Clears, late, TypeOK, Stages
<1>5. CASE Mounts(t)
  <2>1. PICK what \in {"status", "inspect"} : Flies(t, what)
    BY <1>5 DEF Mounts
  <2>2. /\ flight' # None /\ flight' \in Flights /\ flight'.who = t
    BY <2>1, FliesType DEF Whats
  <2>3. \A c \in Calls : c # t
    BY HostedDesktopAssumption
  <2> QED
    BY <1>1, <1>5, <2>2, <2>3 DEF Mounts, late, TypeOK, Stages
<1>6. CASE MountRefused(t)
  BY <1>1, <1>6 DEF MountRefused, late, TypeOK, Stages
<1>7. CASE Completes(t)
  <2>1. owed' \subseteq Threads \X Ends
    BY <1>7 DEF Completes, Ends, TypeOK
  <2>2. turn' \in [Threads -> Stages] /\ active' \in Threads \cup {None} /\ busy' = FALSE
    BY <1>7 DEF Completes, Rejects, Clears, TypeOK, Stages
  <2> QED
    BY <1>1, <1>7, <2>1, <2>2 DEF Completes, TypeOK
<1>9. CASE Stalls(t)
  <2>1. owed' \subseteq Threads \X Ends
    BY <1>9 DEF Stalls, Ends, TypeOK
  <2> QED
    BY <1>1, <1>9, <2>1 DEF Stalls, TypeOK
<1>10. CASE TimerReleases(t)
  <2>1. owed' \subseteq Threads \X Ends
    BY <1>10 DEF TimerReleases, Ends, TypeOK
  <2>2. turn' \in [Threads -> Stages] /\ stalled' \subseteq Threads
    BY <1>10 DEF TimerReleases, TypeOK, Stages
  <2>3. active' \in Threads \cup {None} /\ busy' \in BOOLEAN
    BY <1>10 DEF TimerReleases, Clears, TypeOK
  <2> QED
    BY <1>1, <1>10, <2>1, <2>2, <2>3 DEF TimerReleases, TypeOK
<1>11. CASE EndsLate(t)
  BY <1>1, <1>11 DEF EndsLate, Clears, TypeOK
<1>8. CASE Mounted(t)
  <2>1. \A c \in Calls : c # t
    BY HostedDesktopAssumption
  <2>2. turn' \in [Threads -> Stages] /\ active' \in Threads \cup {None} /\ busy' \in BOOLEAN
    BY <1>8 DEF Mounted, Rejects, Clears, TypeOK, Stages
  <2>3. desktop' \in {"stopped", "ready"}
    BY <1>8 DEF Mounted, Done, TypeOK
  <2> QED
    BY <1>1, <1>8, <2>1, <2>2, <2>3 DEF Mounted, Awaits, late, TypeOK
<1> QED
  BY <1>2, <1>3, <1>4, <1>5, <1>6, <1>7, <1>8, <1>9, <1>10, <1>11

LEMMA TypingCall ==
  ASSUME TypeOK, NEW c \in Calls, Noted,
         AgentAsks(c) \/ AgentActs(c) \/ AgentAnswered(c)
  PROVE  TypeOK'
<1>1. mishaps' \subseteq Mishaps
  BY NotedType DEF TypeOK
<1>2. CASE AgentAsks(c)
  BY <1>1, <1>2 DEF AgentAsks, late, TypeOK
<1>3. CASE AgentActs(c)
  <2>1. CASE flight # None
    BY <1>1, <1>3, <2>1 DEF AgentActs, late, TypeOK
  <2>2. CASE flight = None /\ Flies(c, "look") /\ call' = [call EXCEPT ![c] = "looking"]
    BY <1>1, <1>3, <2>2, FliesType DEF AgentActs, late, TypeOK, Whats
  <2>3. CASE flight = None /\ Flies(c, "act") /\ call' = [call EXCEPT ![c] = "acting"]
    BY <1>1, <1>3, <2>3, FliesType DEF AgentActs, late, TypeOK, Whats
  <2> QED
    BY <1>3, <2>1, <2>2, <2>3 DEF AgentActs
<1>4. CASE AgentAnswered(c)
  <2>1. CASE call[c] = "acting" /\ ~held
    <3>1. Flies(c, "look") /\ call' = [call EXCEPT ![c] = "looking"]
      BY <1>4, <2>1 DEF AgentAnswered
    <3> QED
      BY <1>1, <1>4, <3>1, FliesType DEF AgentAnswered, Awaits, late, TypeOK, Whats
  <2>2. CASE ~(call[c] = "acting" /\ ~held)
    BY <1>1, <1>4, <2>2 DEF AgentAnswered, Awaits, late, TypeOK
  <2> QED
    BY <2>1, <2>2
<1> QED
  BY <1>2, <1>3, <1>4

LEMMA TypingRest ==
  ASSUME TypeOK, Noted,
         \/ \E what \in Whats : PersonActs(what)
         \/ Takes \/ Releases \/ PatchAsks \/ PatchBack
         \/ PersonAnswered \/ PatchAnswered \/ Fails \/ LateEffect \/ Expires
  PROVE  TypeOK'
<1>1. mishaps' \subseteq Mishaps
  BY NotedType DEF TypeOK
<1>2. \A c \in Calls : c # Person /\ c # Patch
  BY NamesAssumption
<1>3. ASSUME NEW what \in Whats, PersonActs(what) PROVE TypeOK'
  <2>1. flight' # None /\ flight' \in Flights /\ flight'.who = Person
    BY <1>3, FliesType DEF PersonActs
  <2> QED
    BY <1>1, <1>2, <1>3, <2>1 DEF PersonActs, late, TypeOK
<1>4. CASE Takes \/ Releases \/ PatchBack \/ Expires
  BY <1>1, <1>4 DEF Takes, Releases, PatchBack, Expires, late, TypeOK
<1>5. CASE PatchAsks
  <2>1. flight' # None /\ flight' \in Flights /\ flight'.who = Patch
    BY <1>5, FliesType DEF PatchAsks, Whats
  <2> QED
    BY <1>1, <1>2, <1>5, <2>1 DEF PatchAsks, late, TypeOK
<1>6. CASE PersonAnswered
  BY <1>1, <1>2, <1>6 DEF PersonAnswered, Awaits, Done, late, TypeOK
<1>7. CASE PatchAnswered
  BY <1>1, <1>2, <1>7 DEF PatchAnswered, Awaits, late, TypeOK
<1>8. CASE Fails
  <2>1. flight \in Flights /\ flight # None
    BY <1>8 DEF Fails, late, TypeOK
  <2>2. loose' \subseteq Flights
    BY <1>8, <2>1 DEF Fails, late, TypeOK
  <2>3. busy' \in BOOLEAN /\ turn' \in [Threads -> Stages] /\ active' \in Threads \cup {None}
    BY <1>8 DEF Fails, Rejects, Clears, late, TypeOK, Stages
  <2>4. /\ call' \in [Calls -> CallStages] /\ flight' = None
        /\ \A c \in Calls : call'[c] \notin {"acting", "looking"}
    BY <1>8, <2>1 DEF Fails, late, TypeOK, CallStages
  <2> QED
    BY <1>1, <1>8, <2>2, <2>3, <2>4 DEF Fails, late, TypeOK, CallStages
<1>9. CASE LateEffect
  BY <1>1, <1>9 DEF LateEffect, Done, late, TypeOK
<1> QED
  BY <1>3, <1>4, <1>5, <1>6, <1>7, <1>8, <1>9

\* Every reachable state is well typed; a request of the agent is under way
\* exactly while it holds the bot's mark (hostedDesktopActions).
THEOREM Typing == Spec => []TypeOK
<1>1. Init => TypeOK
  BY DEF Init, TypeOK, Stages
<1>2. TypeOK /\ [Next]_vars => TypeOK'
  <2> SUFFICES ASSUME TypeOK, [Next]_vars PROVE TypeOK'
    OBVIOUS
  <2>1. CASE Happens /\ Noted
    BY <2>1, TypingTurn, TypingCall, TypingRest DEF Happens, Answered
  <2>2. CASE Reload /\ mishaps' = mishaps \cup {"reload"}
    <3>1. PICK killed \in SUBSET {t \in Threads : turn[t] \in {"running", "away"}} :
            /\ turn' = [t \in Threads |-> IF t \in killed THEN "none" ELSE turn[t]]
            /\ stalled' = stalled \ killed
            /\ owed' = owed \cup (killed \cap Erring) \X {"answer"}
      BY <2>2 DEF Reload
    <3>2. turn' \in [Threads -> Stages] /\ stalled' \subseteq Threads
      BY <3>1 DEF TypeOK, Stages
    <3>3. owed' \subseteq Threads \X Ends
      BY <3>1 DEF TypeOK, Ends
    <3> QED
      BY <2>2, <3>2, <3>3 DEF Reload, TypeOK, Mishaps
  <2>3. CASE UNCHANGED vars
    BY <2>3 DEF vars, late, TypeOK
  <2> QED
    BY <2>1, <2>2, <2>3 DEF Next
<1> QED
  BY <1>1, <1>2, PTL DEF Spec

-----------------------------------------------------------------------------
(* Every request is awaited by whoever asked for it.                       *)

LEMMA AskedByTurn ==
  ASSUME TypeOK, FlightIsAsked, NEW t \in Threads,
         \/ Start(t) \/ RunsElsewhere(t) \/ SetupFails(t) \/ Mounts(t)
         \/ MountRefused(t) \/ Mounted(t)
         \/ Completes(t) \/ Stalls(t) \/ TimerReleases(t) \/ EndsLate(t)
  PROVE  FlightIsAsked'
<1>1. \A c \in Calls : c # t
  BY HostedDesktopAssumption
<1>2. CASE Start(t) \/ RunsElsewhere(t) \/ SetupFails(t)
  BY <1>2 DEF Start, RunsElsewhere, SetupFails, Rejects, FlightIsAsked, late, Awaits, TypeOK
<1>6. CASE Completes(t) \/ Stalls(t) \/ EndsLate(t)
  BY <1>6 DEF Completes, Stalls, EndsLate, Rejects, FlightIsAsked, late, Awaits, TypeOK
<1>7. CASE TimerReleases(t)
  <2>1. turn[t] # "mounting" \/ t \notin stalled
    BY DEF FlightIsAsked
  <2>2. \A s \in Threads : turn'[s] = "mounting" <=> turn[s] = "mounting"
    BY <1>7, <2>1 DEF TimerReleases, TypeOK
  <2>3. \A s \in stalled' : turn'[s] \in {"running", "away"}
    BY <1>7 DEF TimerReleases, FlightIsAsked, TypeOK
  <2>4. UNCHANGED <<flight, call>>
    BY <1>7 DEF TimerReleases
  <2> QED
    BY <2>2, <2>3, <2>4 DEF FlightIsAsked, Awaits
<1>3. CASE MountRefused(t)
  BY <1>3 DEF MountRefused, FlightIsAsked, late, Awaits, TypeOK
<1>4. CASE Mounts(t)
  <2>1. PICK what \in {"status", "inspect"} : Flies(t, what)
    BY <1>4 DEF Mounts
  <2>2. flight' # None /\ flight'.who = t /\ flight'.what = what
    BY <2>1, FliesType DEF Whats
  <2>3. t # Patch
    BY NamesAssumption
  <2>4. flight = None /\ \A c \in Calls : call[c] \notin {"acting", "looking"}
    BY <1>4 DEF Mounts, TypeOK
  <2> QED
    BY <1>1, <1>4, <2>2, <2>3, <2>4 DEF Mounts, FlightIsAsked, late, Awaits, TypeOK
<1>5. CASE Mounted(t)
  <2>1. \A c \in Calls : call[c] \notin {"acting", "looking"}
    BY <1>1, <1>5 DEF Mounted, Awaits, TypeOK
  <2>2. turn'[t] # "mounting" /\ \A s \in Threads : s # t => turn'[s] = turn[s]
    BY <1>5 DEF Mounted, Rejects, TypeOK
  <2>3. \A s \in stalled' : turn'[s] \in {"running", "away"}
    BY <1>5, <2>2 DEF Mounted, late, FlightIsAsked, TypeOK
  <2>4. flight # None /\ flight.who = t /\ flight' = None /\ call' = call
    BY <1>5 DEF Mounted, Awaits
  <2>5. \A s \in Threads : turn'[s] # "mounting"
    BY <2>2, <2>4 DEF FlightIsAsked, Awaits
  <2> QED
    BY <2>1, <2>3, <2>4, <2>5 DEF FlightIsAsked, Awaits
<1> QED
  BY <1>2, <1>3, <1>4, <1>5, <1>6, <1>7

LEMMA AskedByCall ==
  ASSUME TypeOK, FlightIsAsked, NEW c \in Calls,
         AgentAsks(c) \/ AgentActs(c) \/ AgentAnswered(c)
  PROVE  FlightIsAsked'
<1>1. c # Patch /\ c \notin Threads
  BY HostedDesktopAssumption, NamesAssumption
<1>2. CASE AgentAsks(c)
  BY <1>2 DEF AgentAsks, FlightIsAsked, late, Awaits, TypeOK
<1>3. ASSUME NEW what \in {"look", "act"}, Flies(c, what), UNCHANGED <<turn, stalled>>,
             call' = [call EXCEPT ![c] = IF what = "act" THEN "acting" ELSE "looking"],
             flight = None \/ flight.who = c
      PROVE  FlightIsAsked'
  <2>1. flight' # None /\ flight'.who = c /\ flight'.what = what
    BY <1>3, FliesType DEF Whats
  <2>2. \A d \in Calls : d # c => call[d] \notin {"acting", "looking"}
    BY <1>3 DEF TypeOK
  <2>3. \A t \in Threads : turn[t] # "mounting"
    BY <1>1, <1>3 DEF FlightIsAsked, late, Awaits
  <2> QED
    BY <1>1, <1>3, <2>1, <2>2, <2>3 DEF FlightIsAsked, late, Awaits, TypeOK
<1>4. CASE AgentActs(c)
  BY <1>3, <1>4 DEF AgentActs, FlightIsAsked, late, Awaits, TypeOK
<1>5. CASE AgentAnswered(c)
  <2>1. flight.who = c /\ flight # None
    BY <1>5 DEF AgentAnswered, Awaits
  <2>2. CASE call[c] = "acting" /\ ~held
    BY <1>3, <1>5, <2>1, <2>2 DEF AgentAnswered, late
  <2>3. CASE ~(call[c] = "acting" /\ ~held)
    <3>1. \A d \in Calls : d # c => call[d] \notin {"acting", "looking"}
      BY <2>1 DEF TypeOK
    <3> QED
      BY <1>1, <1>5, <2>1, <2>3, <3>1 DEF AgentAnswered, FlightIsAsked, late, Awaits, TypeOK
  <2> QED
    BY <2>2, <2>3
<1> QED
  BY <1>2, <1>4, <1>5

LEMMA AskedByRest ==
  ASSUME TypeOK, FlightIsAsked,
         \/ \E what \in Whats : PersonActs(what)
         \/ Takes \/ Releases \/ PatchAsks \/ PatchBack
         \/ PersonAnswered \/ PatchAnswered \/ Fails \/ LateEffect \/ Expires
  PROVE  FlightIsAsked'
<1>1. Person \notin Threads \cup Calls /\ Patch \notin Threads \cup Calls /\ Person # Patch
  BY NamesAssumption DEF Person, Patch
<1>2. ASSUME NEW w \in {Person, Patch}, NEW what \in Whats, Flies(w, what),
             w = Patch => what = "inspect",
             flight = None, UNCHANGED <<turn, call, stalled>>
      PROVE  FlightIsAsked'
  <2>1. flight' # None /\ flight'.who = w /\ flight'.what = what
    BY <1>2, FliesType
  <2>2. \A c \in Calls : call[c] \notin {"acting", "looking"}
    BY <1>2 DEF TypeOK
  <2> QED
    BY <1>1, <1>2, <2>1, <2>2 DEF FlightIsAsked, late, Awaits
<1>3. ASSUME NEW what \in Whats, PersonActs(what) PROVE FlightIsAsked'
  BY <1>1, <1>2, <1>3 DEF PersonActs, late
<1>4. CASE PatchAsks
  BY <1>2, <1>4 DEF PatchAsks, late, Whats
<1>5. CASE Takes \/ Releases \/ PatchBack \/ LateEffect \/ Expires
  BY <1>5 DEF Takes, Releases, PatchBack, LateEffect, Expires, FlightIsAsked, late, Awaits
<1>6. CASE PersonAnswered \/ PatchAnswered
  <2>1. \A c \in Calls : call[c] \notin {"acting", "looking"}
    BY <1>1, <1>6 DEF PersonAnswered, PatchAnswered, Awaits, TypeOK
  <2>2. \A t \in Threads : turn[t] # "mounting"
    BY <1>1, <1>6 DEF PersonAnswered, PatchAnswered, Awaits, FlightIsAsked, late
  <2> QED
    BY <1>6, <2>1, <2>2 DEF PersonAnswered, PatchAnswered, FlightIsAsked, late, Awaits
<1>7. CASE Fails
  <2>1. flight # None /\ flight' = None
    BY <1>7 DEF Fails
  <2>2. \A c \in Calls : call'[c] \notin {"acting", "looking"}
    BY <1>7 DEF Fails, TypeOK
  <2>3. \A t \in Threads : turn'[t] # "mounting"
    BY <1>7, <2>1 DEF Fails, Rejects, TypeOK, FlightIsAsked, Awaits
  <2>4. \A t \in stalled' : turn'[t] \in {"running", "away"}
    BY <1>7, <2>1 DEF Fails, Rejects, late, TypeOK, FlightIsAsked, Awaits
  <2> QED
    BY <1>7, <2>1, <2>2, <2>3, <2>4 DEF FlightIsAsked, Awaits
<1> QED
  BY <1>3, <1>4, <1>5, <1>6, <1>7

-----------------------------------------------------------------------------
(* Mark, turn and `busy` tell the same, as long as no bot is idled under   *)
(* its turn.                                                               *)

\* What a rejected turn and a turn that is over leave.
LEMMA GoneIsTold ==
  ASSUME TypeOK, TurnsAreTold, NEW t \in Threads, turn[t] # "none",
         turn' = [turn EXCEPT ![t] = "none"], busy' = FALSE,
         active' = None \/ Clears(t),
         backend' = backend, flight' = flight \/ flight' = None
  PROVE  TurnsAreTold'
<1>1. \A s \in Threads : turn'[s] = "none"
  BY DEF TurnsAreTold, OneTurn, TypeOK
<1>2. active' = None
  <2>1. active # None => active = t
    BY DEF TurnsAreTold, ActiveIsATurn, OneTurn, TypeOK
  <2> QED
    BY <2>1 DEF Clears
<1> QED
  BY <1>1, <1>2 DEF TurnsAreTold, OneTurn, TurnKeepsDesktop, ActiveIsATurn,
                    StopIsAlone, UsesDesktop

LEMMA ToldByTurn ==
  ASSUME TypeOK, FlightIsAsked, TurnsAreTold, NEW t \in Threads,
         ~(busy /\ ~busy' /\ \E s \in Threads : turn'[s] # "none"),
         \/ Start(t) \/ RunsElsewhere(t) \/ SetupFails(t) \/ Mounts(t)
         \/ MountRefused(t) \/ Mounted(t)
         \/ Completes(t) \/ Stalls(t) \/ TimerReleases(t) \/ EndsLate(t)
  PROVE  TurnsAreTold'
<1> USE DEF TurnsAreTold, OneTurn, TurnKeepsDesktop, ActiveIsATurn, StopIsAlone,
            UsesDesktop, TypeOK
<1>1. CASE Start(t)
  <2>1. \A s \in Threads : turn[s] = "none"
    BY <1>1 DEF Start
  <2> QED
    BY <1>1, <2>1, HostedDesktopAssumption DEF Start
<1>2. CASE RunsElsewhere(t)
  BY <1>2, HostedDesktopAssumption DEF RunsElsewhere
<1>3. CASE SetupFails(t) \/ MountRefused(t) \/ Completes(t)
  <2> HIDE DEF TurnsAreTold, TypeOK
  <2> QED
    BY <1>3, GoneIsTold DEF SetupFails, Rejects, MountRefused, Completes
<1>6. CASE Stalls(t)
  BY <1>6 DEF Stalls
<1>7. CASE TimerReleases(t)
  <2>1. CASE ~busy
    BY <1>7, <2>1 DEF TimerReleases
  <2>2. CASE busy /\ t \in stalled
    <3>1. turn[t] # "none"
      BY <2>2 DEF FlightIsAsked
    <3> HIDE DEF TurnsAreTold, TypeOK
    <3> QED
      BY <1>7, <2>2, <3>1, GoneIsTold DEF TimerReleases
  <2>3. CASE busy /\ t \notin stalled
    BY <1>7, <2>3 DEF TimerReleases
  <2> QED
    BY <2>1, <2>2, <2>3
<1>8. CASE EndsLate(t)
  <2>1. ~busy /\ \A s \in Threads : turn[s] = "none"
    BY <1>8 DEF EndsLate
  <2>2. active = None /\ active' = None
    BY <1>8, <2>1 DEF EndsLate, Clears
  <2> QED
    BY <1>8, <2>1, <2>2 DEF EndsLate
<1>4. CASE Mounts(t)
  <2>1. flight' # None /\ flight'.what # "stop"
    BY <1>4, FliesType DEF Mounts, Whats
  <2>2. \A s \in Threads : s # t => turn[s] = "none"
    BY <1>4 DEF Mounts
  <2> QED
    BY <1>4, <2>1, <2>2, HostedDesktopAssumption DEF Mounts
<1>5. CASE Mounted(t)
  <2>1. CASE Rejects(t)
    <3> HIDE DEF TurnsAreTold, TypeOK
    <3> QED
      BY <1>5, <2>1, GoneIsTold DEF Mounted, Rejects
  <2>2. CASE turn' = [turn EXCEPT ![t] = "running"] /\ UNCHANGED <<busy, active>>
    BY <1>5, <2>2 DEF Mounted
  <2> QED
    BY <1>5, <2>1, <2>2 DEF Mounted
<1> QED
  BY <1>1, <1>2, <1>3, <1>4, <1>5, <1>6, <1>7, <1>8

LEMMA ToldByCall ==
  ASSUME TypeOK, TurnsAreTold, NEW c \in Calls,
         AgentAsks(c) \/ AgentActs(c) \/ AgentAnswered(c)
  PROVE  TurnsAreTold'
<1>1. UNCHANGED <<busy, turn, active, backend>>
  BY DEF AgentAsks, AgentActs, AgentAnswered
<1>2. flight' = flight \/ flight' = None \/ flight'.what # "stop"
  BY FliesType DEF AgentAsks, AgentActs, AgentAnswered, Whats
<1> QED
  BY <1>1, <1>2 DEF TurnsAreTold, OneTurn, TurnKeepsDesktop, ActiveIsATurn,
                    StopIsAlone, UsesDesktop

LEMMA ToldByRest ==
  ASSUME TypeOK, FlightIsAsked, TurnsAreTold,
         \/ \E what \in Whats : PersonActs(what)
         \/ Takes \/ Releases \/ PatchAsks \/ PatchBack
         \/ PersonAnswered \/ PatchAnswered \/ Fails \/ LateEffect \/ Expires
  PROVE  TurnsAreTold'
<1> USE DEF TurnsAreTold, OneTurn, TurnKeepsDesktop, ActiveIsATurn, StopIsAlone,
            UsesDesktop
<1>1. ASSUME NEW what \in Whats, PersonActs(what) PROVE TurnsAreTold'
  <2>1. flight' # None /\ flight'.what = what
    BY <1>1, FliesType DEF PersonActs
  <2>2. what = "stop" => ~busy
    BY <1>1 DEF PersonActs, May
  <2> QED
    BY <1>1, <2>1, <2>2 DEF PersonActs
<1>2. CASE PatchAsks
  <2>1. flight' # None /\ flight'.what = "inspect"
    BY <1>2, FliesType DEF PatchAsks, Whats
  <2> QED
    BY <1>2, <2>1 DEF PatchAsks
<1>3. CASE Takes \/ Releases \/ PatchBack \/ LateEffect \/ Expires \/ PersonAnswered
  BY <1>3 DEF Takes, Releases, PatchBack, LateEffect, Expires, PersonAnswered
<1>4. CASE PatchAnswered
  BY <1>4 DEF PatchAnswered
<1>5. CASE Fails
  <2>1. CASE flight.who \in Threads
    <3>1. turn[flight.who] # "none"
      BY <1>5, <2>1 DEF Fails, FlightIsAsked, Awaits
    <3> HIDE DEF TurnsAreTold
    <3> QED
      BY <1>5, <2>1, <3>1, GoneIsTold DEF Fails, Rejects
  <2>2. CASE flight.who \notin Threads
    BY <1>5, <2>2 DEF Fails
  <2> QED
    BY <2>1, <2>2
<1> QED
  BY <1>1, <1>2, <1>3, <1>4, <1>5

-----------------------------------------------------------------------------
(* As long as a body arrives with its head, what the head checked still    *)
(* holds: whatever else happens leaves no request admitted behind.         *)

LEMMA FreshStep ==
  ASSUME TypeOK, ChecksAreFresh, Happens,
         \A c \in Calls : ~(call[c] = "admitted" /\ call'[c] = "admitted")
  PROVE  ChecksAreFresh'
<1> USE DEF ChecksAreFresh
<1>1. (Threads \cup {Person, Patch}) \cap Calls = {}
  BY HostedDesktopAssumption, NamesAssumption
<1>2. ASSUME call' = call, flight' = None \/ flight'.who \notin Calls
      PROVE  ChecksAreFresh'
  BY <1>2
<1>3. ASSUME call' = call, flight' = flight, backend => backend', held' => held
      PROVE  ChecksAreFresh'
  BY <1>3 DEF TypeOK
<1>4. ASSUME NEW t \in Threads,
             \/ Start(t) \/ RunsElsewhere(t) \/ SetupFails(t) \/ Mounts(t)
             \/ MountRefused(t) \/ Mounted(t)
             \/ Completes(t) \/ Stalls(t) \/ TimerReleases(t) \/ EndsLate(t)
      PROVE  ChecksAreFresh'
  <2>1. CASE Start(t) \/ RunsElsewhere(t) \/ SetupFails(t) \/ MountRefused(t)
    BY <1>3, <2>1 DEF Start, RunsElsewhere, SetupFails, MountRefused
  <2>4. CASE Completes(t) \/ Stalls(t) \/ TimerReleases(t) \/ EndsLate(t)
    BY <1>3, <2>4 DEF Completes, Stalls, TimerReleases, EndsLate
  <2>2. CASE Mounts(t)
    BY <1>1, <1>2, <2>2, FliesType DEF Mounts, Whats
  <2>3. CASE Mounted(t)
    BY <1>2, <2>3 DEF Mounted
  <2> QED
    BY <1>4, <2>1, <2>2, <2>3, <2>4
<1>5. ASSUME NEW c \in Calls, AgentAsks(c) \/ AgentActs(c) PROVE ChecksAreFresh'
  <2>1. CASE AgentAsks(c)
    BY <2>1 DEF AgentAsks, TypeOK
  <2>2. CASE AgentActs(c) /\ flight # None
    BY <2>2 DEF AgentActs, TypeOK
  <2>3. CASE AgentActs(c) /\ flight = None
    <3>1. backend' /\ ~held' /\ call' \in [Calls -> {"none", "admitted", "acting", "looking"}]
          /\ \A d \in Calls : d # c => call'[d] = call[d]
      BY <2>3 DEF AgentActs, TypeOK
    <3>2. call'[c] # "admitted"
      BY <2>3 DEF AgentActs, TypeOK
    <3> QED
      BY <3>1, <3>2
  <2> QED
    BY <1>5, <2>1, <2>2, <2>3
<1>6. ASSUME NEW c \in Calls, AgentAnswered(c) PROVE ChecksAreFresh'
  <2>1. flight # None /\ flight.who = c /\ backend' = backend /\ held' = held
    BY <1>6 DEF AgentAnswered, Awaits
  <2>2. flight' = None \/ Flies(c, "look")
    BY <1>6 DEF AgentAnswered
  <2>3. flight' # None => flight'.what = "look"
    BY <2>2, FliesType DEF Whats
  <2>4. \A d \in Calls : call'[d] # "admitted"
    BY <1>6 DEF AgentAnswered, TypeOK
  <2> QED
    BY <2>1, <2>3, <2>4
<1>7. ASSUME NEW what \in Whats, PersonActs(what) PROVE ChecksAreFresh'
  BY <1>1, <1>2, <1>7, FliesType DEF PersonActs
<1>8. CASE PatchAsks
  BY <1>1, <1>2, <1>8, FliesType DEF PatchAsks, Whats
<1>9. CASE Takes
  <2>1. \A c \in Calls : call'[c] # "admitted"
    BY <1>9 DEF Takes
  <2> QED
    BY <1>9, <2>1 DEF Takes
<1>10. CASE Releases \/ PatchBack \/ LateEffect \/ Expires
  BY <1>3, <1>10 DEF Releases, PatchBack, LateEffect, Expires
<1>11. CASE PersonAnswered
  BY <1>2, <1>11 DEF PersonAnswered
<1>12. CASE PatchAnswered
  <2>1. flight' = None /\ call' = call
    BY <1>12 DEF PatchAnswered
  <2> QED
    BY <1>2, <2>1
<1>13. CASE Fails
  <2>1. flight' = None /\ \A c \in Calls : call'[c] # "admitted"
    BY <1>13 DEF Fails
  <2> QED
    BY <2>1
<1> QED
  BY <1>4, <1>5, <1>6, <1>7, <1>8, <1>9, <1>10, <1>11, <1>12, <1>13
     DEF Happens, Answered

-----------------------------------------------------------------------------
\* The invariant under the three properties: every part of it survives
\* every step, the reload included.
THEOREM Desktop == Spec => []DesktopInv
<1>1. Init => DesktopInv
  BY DEF Init, DesktopInv, TypeOK, Stages, FlightIsAsked, Awaits, TurnsAreTold,
         OneTurn, TurnKeepsDesktop, ActiveIsATurn, StopIsAlone, ChecksAreFresh
<1>2. TypeOK' /\ DesktopInv /\ [Next]_vars => DesktopInv'
  <2> SUFFICES ASSUME TypeOK', DesktopInv, [Next]_vars PROVE DesktopInv'
    OBVIOUS
  <2>0. TypeOK /\ FlightIsAsked
    BY DEF DesktopInv
  <2>1. CASE Happens /\ Noted
    <3>1. FlightIsAsked'
      BY <2>0, <2>1, AskedByTurn, AskedByCall, AskedByRest DEF Happens, Answered
    <3>2. ASSUME "given_up" \notin mishaps' PROVE loose' = {}
      BY <2>1, <3>2, NotedKeeps DEF DesktopInv
    <3>3. ASSUME mishaps' \cap {"reload", "stray"} = {} PROVE TurnsAreTold'
      <4>1. TurnsAreTold
        BY <2>1, <3>3, NotedKeeps DEF DesktopInv
      <4>2. ~(busy /\ ~busy' /\ \E s \in Threads : turn'[s] # "none")
        BY <2>1, <3>3, NotedKeeps
      <4> QED
        BY <2>0, <2>1, <4>1, <4>2, ToldByTurn, ToldByCall, ToldByRest DEF Happens, Answered
    <3>4. ASSUME "slow_body" \notin mishaps' PROVE ChecksAreFresh'
      BY <2>0, <2>1, <3>4, NotedKeeps, FreshStep DEF DesktopInv
    <3> QED
      BY <3>1, <3>2, <3>3, <3>4 DEF DesktopInv
  <2>2. CASE Reload /\ mishaps' = mishaps \cup {"reload"}
    <3>1. FlightIsAsked'
      BY <2>0, <2>2 DEF Reload, FlightIsAsked, Awaits, TypeOK
    <3>2. ChecksAreFresh => ChecksAreFresh'
      BY <2>2 DEF Reload, ChecksAreFresh
    <3> QED
      BY <2>2, <3>1, <3>2 DEF DesktopInv, Reload
  <2>3. CASE UNCHANGED vars
    BY <2>3 DEF vars, late, DesktopInv, TypeOK, FlightIsAsked, Awaits, TurnsAreTold,
                OneTurn, TurnKeepsDesktop, ActiveIsATurn, StopIsAlone, UsesDesktop,
                ChecksAreFresh
  <2> QED
    BY <2>1, <2>2, <2>3 DEF Next
<1> QED
  BY <1>1, <1>2, Typing, PTL DEF Spec

\* computer-control.ts, "While the person holds control, the bot's computer
\* actions are REFUSED": no action of the agent is under way, or may yet take
\* effect, while the person holds the wheel, for any number of requests, unless
\* a body came late or a request was given up.
THEOREM WheelIsFree == Spec => []HandsOff
<1>1. DesktopInv => HandsOff
  BY DEF DesktopInv, ChecksAreFresh, HandsOff, Refused, Upstream
<1> QED
  BY <1>1, Desktop, PTL

\* The desktop of a turn is not being stopped, whatever ends when, unless a stop
\* was given up or the bot was idled under a turn: by a fleet reload, or by what
\* an earlier turn left to come (the watchdog's timer, a late answer).
THEOREM NoStopUnderATurn == Spec => []StopsNothingInUse
<1>1. DesktopInv => StopsNothingInUse
  BY DEF DesktopInv, TurnsAreTold, StopIsAlone, UsesDesktop, StopsNothingInUse,
         Upstream
<1> QED
  BY <1>1, Desktop, PTL

\* activeE2bThreads: the mark is there exactly while a turn uses the desktop, and
\* the backend stays under it, until a reload or a late end idles the bot under
\* a turn.
THEOREM MarkAndTurn == Spec => []MarkFollowsTheTurn
<1>1. DesktopInv => MarkFollowsTheTurn
  BY DEF DesktopInv, TurnsAreTold, MarkFollowsTheTurn
<1> QED
  BY <1>1, Desktop, PTL

=============================================================================
