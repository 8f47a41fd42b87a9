------------------------- MODULE ComputerHelp_proofs -------------------------
(***************************************************************************)
(* Proofs about the help protocol, for any number of bots and of           *)
(* concurrent calls.                                                       *)
(***************************************************************************)
EXTENDS ComputerHelp, TLAPS

-----------------------------------------------------------------------------
(* The registry (class ComputerControl).                                   *)

\* Every method of class ComputerControl keeps the registry well typed and its
\* open pleas within the ids it has handed out.
LEMMA RegistryTyping ==
  ASSUME ControlTypeOK, NEW b \in Bots, NEW id,
         \/ Take(b) \/ Release(b) \/ RequestHelpLease(b)
         \/ DismissHelp(b) \/ ExpireHelp(b, id) \/ UNCHANGED controlVars
  PROVE  ControlTypeOK'
<1> USE DEF ControlTypeOK
<1>1. CASE Take(b)
  BY <1>1 DEF Take
<1>2. CASE Release(b)
  <2>1. NoControl \in [held : BOOLEAN, help : Nat] /\ NoControl.help = 0
    BY DEF NoControl
  <2> QED
    BY <1>2, <2>1 DEF Release
<1>3. CASE RequestHelpLease(b)
  <2>1. CASE entries[b].help = 0
    <3>1. requestSequence' = requestSequence + 1
      BY <1>3, <2>1 DEF RequestHelpLease
    <3>2. entries' = [entries EXCEPT ![b].help = requestSequence + 1]
      BY <1>3, <2>1, <3>1 DEF RequestHelpLease
    <3>3. entries' \in [Bots -> [held : BOOLEAN, help : Nat]]
      BY <3>2
    <3>4. \A x \in Bots : entries'[x].help = entries[x].help
                          \/ entries'[x].help = requestSequence + 1
      BY <3>2
    <3>5. \A x \in Bots : entries[x].help \in Nat
      OBVIOUS
    <3> QED
      BY <3>1, <3>3, <3>4, <3>5
  <2>2. CASE entries[b].help # 0
    BY <1>3, <2>2 DEF RequestHelpLease, controlVars
  <2> QED
    BY <2>1, <2>2
<1>4. CASE DismissHelp(b)
  <2>1. entries' \in [Bots -> [held : BOOLEAN, help : Nat]]
    BY <1>4 DEF DismissHelp
  <2>2. \A x \in Bots : entries'[x].help = entries[x].help \/ entries'[x].help = 0
    BY <1>4 DEF DismissHelp
  <2> QED
    BY <1>4, <2>1, <2>2 DEF DismissHelp
<1>5. CASE ExpireHelp(b, id)
  <2>1. entries' \in [Bots -> [held : BOOLEAN, help : Nat]]
    BY <1>5 DEF ExpireHelp
  <2>2. \A x \in Bots : entries'[x].help = entries[x].help \/ entries'[x].help = 0
    BY <1>5 DEF ExpireHelp
  <2> QED
    BY <1>5, <2>1, <2>2 DEF ExpireHelp
<1>6. CASE UNCHANGED controlVars
  BY <1>6 DEF controlVars
<1> QED
  BY <1>1, <1>2, <1>3, <1>4, <1>5, <1>6

-----------------------------------------------------------------------------
(* The protocol.                                                           *)

\* Every reachable state is well typed: pleas and leases only name ids the
\* registry has handed out (class ComputerControl, the loopback route).
THEOREM Typing == Spec => []TypeOK
<1>1. Init => TypeOK
  <2> SUFFICES ASSUME Init PROVE TypeOK
    OBVIOUS
  <2>1. ControlTypeOK
    BY DEF Init, ControlInit, ControlTypeOK, NoControl
  <2>2. \A b \in Bots : Idle(b) \in [bot : Bots, phase : Phases,
                                    lease : Nat, sawHold : BOOLEAN]
    BY DEF Idle, Phases
  <2>3. live \subseteq Bots /\ taking \subseteq Bots /\ lost \in BOOLEAN
    BY DEF Init
  <2>4. calls \in [Calls -> [bot : Bots, phase : Phases,
                            lease : Nat, sawHold : BOOLEAN]]
    BY <2>2 DEF Init
  <2> QED
    BY <2>1, <2>3, <2>4 DEF TypeOK
<1>2. TypeOK /\ [Next]_vars => TypeOK'
  <2> SUFFICES ASSUME TypeOK, [Next]_vars PROVE TypeOK'
    OBVIOUS
  <2> DEFINE Kept == UNCHANGED controlVars
             CallType == [bot : Bots, phase : Phases, lease : Nat, sawHold : BOOLEAN]
  <2>0. ControlTypeOK /\ live \subseteq Bots /\ taking \subseteq Bots
        /\ calls \in [Calls -> CallType] /\ lost \in BOOLEAN
    BY DEF TypeOK
  <2>a. ASSUME NEW c \in Calls PROVE calls[c].bot \in Bots
    BY <2>0
  <2>b. Kept => ControlTypeOK'
    BY <2>0 DEF controlVars, ControlTypeOK
  <2>1. ASSUME NEW c \in Calls, Begin(c) PROVE TypeOK'
    <3>1. PICK s \in Answers(calls[c].bot) :
            calls' = [calls EXCEPT ![c].sawHold = s.held,
                                   ![c].phase = IF s.held THEN "waiting" ELSE "read"]
      BY <2>1 DEF Begin
    <3>2. s.held \in BOOLEAN
      <4>1. entries[calls[c].bot].held \in BOOLEAN
        BY <2>0, <2>a DEF ControlTypeOK
      <4>2. NoControl.held = FALSE
        BY DEF NoControl
      <4> QED
        BY <4>1, <4>2 DEF Answers
    <3>3. calls' \in [Calls -> CallType]
      BY <2>0, <3>1, <3>2 DEF Phases
    <3> QED
      BY <2>1, <2>0, <2>b, <3>3 DEF Begin, Reads, Arrived, TypeOK
  <2>2. ASSUME NEW c \in Calls, PostArrives(c) \/ PostFails(c) \/ Deadline(c)
        PROVE  TypeOK'
    <3>1. calls' \in [Calls -> CallType]
      BY <2>2, <2>0 DEF PostArrives, PostFails, Deadline, Go, Phases
    <3> QED
      BY <2>2, <2>0, <2>b, <3>1 DEF PostArrives, PostFails, Deadline, TypeOK
  <2>3. ASSUME NEW c \in Calls, PostApplies(c) PROVE TypeOK'
    <3>1. ControlTypeOK'
      BY <2>3, <2>0, <2>a, RegistryTyping DEF PostApplies
    <3>2. entries'[calls[c].bot].help \in Nat
      BY <3>1, <2>a DEF ControlTypeOK
    <3>3. calls' \in [Calls -> CallType]
      BY <2>3, <2>0, <3>2 DEF PostApplies, Go, Phases
    <3> QED
      BY <2>3, <2>0, <3>1, <3>3 DEF PostApplies, TypeOK
  <2>4. ASSUME NEW c \in Calls, Poll(c) PROVE TypeOK'
    <3>1. \/ calls' = [calls EXCEPT ![c].sawHold = TRUE]
          \/ calls' = calls
          \/ calls' = [calls EXCEPT ![c].phase = "finished"]
          \/ calls' = [calls EXCEPT ![c].phase = "dismissed"]
      BY <2>4 DEF Poll, Polls, Go
    <3>2. calls' \in [Calls -> CallType]
      <4>1. calls \in [Calls -> CallType]
        BY <2>0
      <4> QED
        BY <3>1, <4>1 DEF Phases
    <3> QED
      <4>1. lost' \in BOOLEAN
        BY <2>4, <2>0 DEF Poll, Polls, Reads, Arrived
      <4>2. UNCHANGED <<controlVars, live, taking>>
        BY <2>4 DEF Poll, Polls
      <4> QED
        BY <2>0, <2>b, <3>2, <4>1, <4>2 DEF TypeOK
  <2>5. ASSUME NEW c \in Calls, Expire(c) PROVE TypeOK'
    <3>1. calls' \in [Calls -> CallType]
      BY <2>5, <2>0 DEF Expire, Go, Phases
    <3>2. ControlTypeOK'
      BY <2>5, <2>0, <2>a, RegistryTyping DEF Expire
    <3> QED
      BY <2>5, <2>0, <3>1, <3>2 DEF Expire, TypeOK
  <2>6. ASSUME NEW b \in Bots, PersonStep(b) PROVE TypeOK'
    <3>1. ControlTypeOK'
      BY <2>6, <2>0, RegistryTyping DEF PersonStep, TakeArrives, TakeApplies,
           PersonReleases, PersonDismisses, DeleteBot
    <3> QED
      BY <2>6, <2>0, <3>1 DEF PersonStep, TakeArrives, TakeApplies,
           PersonReleases, PersonDismisses, DeleteBot, TypeOK
  <2>7. CASE UNCHANGED vars
    BY <2>7, <2>0, <2>b DEF vars, controlVars, TypeOK
  <2> QED
    BY <2>1, <2>2, <2>3, <2>4, <2>5, <2>6, <2>7 DEF Next, CallStep
<1> QED
  BY <1>1, <1>2, PTL DEF Spec

\* As long as no request was lost, a plea on the person's screen has a call
\* behind it that will take it down or see it answered (the request id that
\* requestHelpLease hands out, the DELETE of the wait loop's deadline).
THEOREM PleaOwned == Spec => []PleaHasWaiter
<1>1. Init => PleaHasWaiter
  BY DEF Init, ControlInit, NoControl, PleaHasWaiter
<1>2. TypeOK /\ PleaHasWaiter /\ [Next]_vars => PleaHasWaiter'
  <2> SUFFICES ASSUME TypeOK, PleaHasWaiter, [Next]_vars, ~lost',
                      NEW b \in live', entries'[b].help # 0
               PROVE  \E c \in Calls : /\ WaitsOn(c, b)'
                                       /\ calls'[c].lease = entries'[b].help
    BY DEF PleaHasWaiter
  <2> USE DEF TypeOK, ControlTypeOK, controlVars, WaitsOn, Go
  <2>a. live' \subseteq live /\ b \in Bots
    BY DEF Next, CallStep, PersonStep, Begin, PostArrives, PostFails, PostApplies,
           Poll, Polls, Deadline, Expire, TakeArrives, TakeApplies, PersonReleases,
           PersonDismisses, DeleteBot, vars
  <2>0. ~lost
    BY DEF Next, CallStep, PersonStep, Begin, Reads, Arrived, PostArrives, PostFails,
           PostApplies, Poll, Polls, Deadline, Expire, TakeArrives, TakeApplies,
           PersonReleases, PersonDismisses, DeleteBot, vars
  <2>b. ASSUME entries[b].help = entries'[b].help
        PROVE  \E d \in Calls : WaitsOn(d, b) /\ calls[d].lease = entries'[b].help
    BY <2>0, <2>a, <2>b DEF PleaHasWaiter
  <2>1. ASSUME NEW c \in Calls, Begin(c) \/ PostArrives(c) \/ PostFails(c)
        PROVE  \E d \in Calls : WaitsOn(d, b)' /\ calls'[d].lease = entries'[b].help
    <3>1. PICK d \in Calls : WaitsOn(d, b) /\ calls[d].lease = entries'[b].help
      BY <2>1, <2>b DEF Begin, PostArrives, PostFails
    <3>2. d # c
      BY <2>1, <3>1 DEF Begin, PostArrives, PostFails
    <3> QED
      BY <2>1, <3>1, <3>2 DEF Begin, PostArrives, PostFails
  <2>2. ASSUME NEW c \in Calls, PostApplies(c)
        PROVE  \E d \in Calls : WaitsOn(d, b)' /\ calls'[d].lease = entries'[b].help
    <3>1. calls' = [calls EXCEPT ![c].phase = "waiting",
                                 ![c].lease = entries'[calls[c].bot].help]
      BY <2>2 DEF PostApplies
    <3>2. CASE calls[c].bot = b
      BY <3>1, <3>2
    <3>3. CASE calls[c].bot # b
      <4>1. entries[b].help = entries'[b].help
        BY <2>2, <2>a, <3>3 DEF PostApplies, RequestHelpLease
      <4>2. PICK d \in Calls : WaitsOn(d, b) /\ calls[d].lease = entries'[b].help
        BY <4>1, <2>b
      <4> QED
        BY <3>1, <3>3, <4>2
    <3> QED
      BY <3>2, <3>3
  <2>3. ASSUME NEW c \in Calls, Poll(c)
        PROVE  \E d \in Calls : WaitsOn(d, b)' /\ calls'[d].lease = entries'[b].help
    <3>1. entries' = entries /\ live' = live
      BY <2>3 DEF Poll, Polls
    <3>2. PICK d \in Calls : WaitsOn(d, b) /\ calls[d].lease = entries'[b].help
      BY <2>b, <3>1
    <3>3. CASE d = c
      <4>1. \A s \in Answers(b) : Reads(b, s) => s.help # 0
        BY <3>1, <2>a DEF Reads, Arrived
      <4>2. \/ calls' = [calls EXCEPT ![c].sawHold = TRUE]
            \/ calls' = calls
        BY <2>3, <3>2, <3>3, <4>1 DEF Poll, Polls
      <4> QED
        BY <3>2, <3>3, <4>2
    <3>4. CASE d # c
      BY <2>3, <3>2, <3>4 DEF Poll, Polls
    <3> QED
      BY <3>3, <3>4
  <2>4. ASSUME NEW c \in Calls, Deadline(c)
        PROVE  \E d \in Calls : WaitsOn(d, b)' /\ calls'[d].lease = entries'[b].help
    <3>1. PICK d \in Calls : WaitsOn(d, b) /\ calls[d].lease = entries'[b].help
      BY <2>4, <2>b DEF Deadline
    <3> QED
      BY <2>4, <3>1 DEF Deadline
  <2>5. ASSUME NEW c \in Calls, Expire(c)
        PROVE  \E d \in Calls : WaitsOn(d, b)' /\ calls'[d].lease = entries'[b].help
    <3>1. /\ entries[b].help = entries'[b].help
          /\ calls[c].bot = b => calls[c].lease # entries[b].help
      BY <2>5, <2>a DEF Expire, ExpireHelp
    <3>2. PICK d \in Calls : WaitsOn(d, b) /\ calls[d].lease = entries'[b].help
      BY <2>b, <3>1
    <3>3. d # c
      BY <3>1, <3>2
    <3> QED
      BY <2>5, <3>2, <3>3 DEF Expire
  <2>6. ASSUME NEW a \in Bots, PersonStep(a)
        PROVE  \E d \in Calls : WaitsOn(d, b)' /\ calls'[d].lease = entries'[b].help
    <3>1. entries[b].help = entries'[b].help /\ calls' = calls
      BY <2>6, <2>a DEF PersonStep, TakeArrives, TakeApplies, PersonReleases,
           PersonDismisses, DeleteBot, Take, Release, DismissHelp, NoControl
    <3> QED
      BY <3>1, <2>b
  <2>7. CASE UNCHANGED vars
    BY <2>7, <2>b DEF vars
  <2> QED
    BY <2>1, <2>2, <2>3, <2>4, <2>5, <2>6, <2>7 DEF Next, CallStep
<1> QED
  BY <1>1, <1>2, Typing, PTL DEF Spec

\* No step of a help call (plea, wait, expiry) changes who is driving: the bot
\* has no verb of its own on the hold (the loopback route, expireHelp).
THEOREM BotNeverTakesTheWheel == Spec => HoldIsThePersons
<1>1. TypeOK /\ [Next]_vars =>
        [calls' # calls => \A b \in Bots : entries'[b].held = entries[b].held]_vars
  <2> SUFFICES ASSUME TypeOK, Next, calls' # calls, NEW b \in Bots
               PROVE  entries'[b].held = entries[b].held
    OBVIOUS
  <2> USE DEF TypeOK, ControlTypeOK, controlVars
  <2>1. PICK c \in Calls : CallStep(c)
    BY DEF Next, PersonStep, TakeArrives, TakeApplies, PersonReleases,
           PersonDismisses, DeleteBot
  <2> QED
    <3>1. CASE entries' = entries
      BY <3>1
    <3>2. CASE PostApplies(c)
      BY <3>2 DEF PostApplies, RequestHelpLease
    <3>3. CASE Expire(c)
      BY <3>3 DEF Expire, ExpireHelp
    <3> QED
      BY <2>1, <3>1, <3>2, <3>3 DEF CallStep, Begin, PostArrives, PostFails,
           Poll, Polls, Deadline
<1> QED
  BY <1>1, Typing, PTL DEF Spec, HoldIsThePersons
=============================================================================
