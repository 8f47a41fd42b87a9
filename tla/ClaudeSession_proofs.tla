------------------------ MODULE ClaudeSession_proofs -------------------------
(***************************************************************************)
(* Proofs about a Claude thread's turns, for any messages, processes and   *)
(* number of attempts.                                                     *)
(***************************************************************************)
EXTENDS ClaudeSession, TLAPS

-----------------------------------------------------------------------------
(* Types.                                                                  *)

Session == [child : Children, turn : Messages \cup {None}, streamed : BOOLEAN,
            closing : BOOLEAN, broker : BOOLEAN, made : Messages \cup {None},
            retry : Messages \cup {None}, used : BOOLEAN]

\* What the code writes over a session's record is one again.
LEMMA SessionTypes ==
  ASSUME NEW q \in Session
  PROVE  /\ \A c \in Children : [q EXCEPT !.child = c] \in Session
         /\ \A m \in Messages \cup {None} : [q EXCEPT !.turn = m] \in Session
         /\ \A b \in BOOLEAN : /\ [q EXCEPT !.streamed = b] \in Session
                               /\ [q EXCEPT !.closing = b] \in Session
                               /\ [q EXCEPT !.broker = b] \in Session
                               /\ [q EXCEPT !.used = b] \in Session
         /\ q.child \in Children /\ q.turn \in Messages \cup {None}
         /\ q.made \in Messages \cup {None} /\ q.retry \in Messages \cup {None}
         /\ NoProcess \in Session
  BY DEF Session, NoProcess, Children

\* Closing a session leaves records.
LEMMA ClosedTypes ==
  ASSUME NEW p, NEW ps \in [Processes -> Session]
  PROVE  Closed(p, ps) \in [Processes -> Session]
<1>1. \A q \in Session : \A c \in Children :
        [[[q EXCEPT !.closing = TRUE] EXCEPT !.broker = FALSE] EXCEPT !.child = c] \in Session
  BY SessionTypes
<1>2. \A q \in Session : (IF q.child = "alive" THEN "dying" ELSE q.child) \in Children
  BY DEF Session, Children
<1> QED BY <1>1, <1>2 DEF Closed

LEMMA SettledTypes ==
  ASSUME TypeOK, NEW m, Settled(m)
  PROVE  ends' \in [Messages -> Nat] /\ stage' \in [Messages -> Stages]
<1>1. "settled" \in Stages /\ stage \in [Messages -> Stages] /\ ends \in [Messages -> Nat]
  BY DEF TypeOK, Stages
<1>2. stage' \in [Messages -> Stages]
  BY <1>1 DEF Settled
<1>3. ends' = [x \in Messages |-> IF x = m THEN ends[x] + 1 ELSE ends[x]]
  BY <1>1 DEF Settled
<1>4. ends' \in [Messages -> Nat]
  BY <1>1, <1>3
<1> QED BY <1>2, <1>4

LEMMA TypeInit == Init => TypeOK
  BY ClaudeAssumption DEF Init, TypeOK, NoProcess, NotActive, NoRetry, Stages, Children

LEMMA EntersTypes ==
  ASSUME TypeOK, NEW m, Enters(m)
  PROVE  /\ retryState' \in Messages \cup {None} \cup {m}
         /\ holds' \in [Messages -> Messages \cup {None, m}]
         /\ retry' \in [Messages -> [attempt : 0 .. MaxAttempts - 1, cancelled : BOOLEAN]]
         /\ stage' \in [Messages -> Stages]
<1>1. NoRetry \in [attempt : 0 .. MaxAttempts - 1, cancelled : BOOLEAN]
  BY ClaudeAssumption DEF NoRetry
<1>2. \A r \in [attempt : 0 .. MaxAttempts - 1, cancelled : BOOLEAN] :
        [r EXCEPT !.cancelled = FALSE] \in [attempt : 0 .. MaxAttempts - 1, cancelled : BOOLEAN]
  OBVIOUS
<1> QED BY <1>1, <1>2 DEF Enters, TypeOK, Stages

LEMMA TypeStep == TypeOK /\ [Next]_vars => TypeOK'
<1> SUFFICES ASSUME TypeOK, [Next]_vars PROVE TypeOK'
  OBVIOUS
<1>0. process \in [Processes -> Session]
  BY DEF TypeOK, Session
<1>a. /\ \A b : BrokerCloses(b) => /\ socket' \in Processes \cup {None}
                                   /\ pending' \in [Processes -> 0 .. MaxAsks]
  BY ClaudeAssumption DEF TypeOK, BrokerCloses
<1>b. NotActive \in [turn : Messages \cup {None}, process : Processes \cup {None}, cancels : BOOLEAN]
  BY DEF NotActive
<1>1. ASSUME NEW m \in Messages, Sending(m) PROVE TypeOK'
  <2>1. CASE Send(m)
    BY <2>1, EntersTypes DEF Send, TypeOK
  <2>2. CASE SendRefused(m)
    BY <2>2 DEF SendRefused, Settled, TypeOK, Stages
  <2>3. CASE Reuse(m)
    <3>1. process' \in [Processes -> Session]
      <4>1. \A q \in Session : [[[q EXCEPT !.turn = m] EXCEPT !.streamed = FALSE] EXCEPT !.used = TRUE] \in Session
        BY SessionTypes
      <4> QED BY <1>0, <2>3, <4>1 DEF Reuse
    <3> QED BY <2>3, <3>1 DEF Reuse, Reusable, TypeOK, Session, Stages
  <2>4. CASE Spawn(m)
    <3> DEFINE p == CHOOSE q \in Processes : process[q].child = "none"
               new == [child |-> "alive", turn |-> m, streamed |-> FALSE,
                       closing |-> FALSE, broker |-> TRUE, made |-> m,
                       retry |-> holds[m], used |-> FALSE]
    <3>1. p \in Processes
      BY <2>4 DEF Spawn
    <3>2. new \in Session
      BY DEF Session, Children, TypeOK
    <3>3. process' = [Closed(current, process) EXCEPT ![p] = new]
      BY <2>4 DEF Spawn
    <3>4. process' \in [Processes -> Session]
      <4> HIDE DEF p, new
      <4> QED BY <1>0, <3>2, <3>3, ClosedTypes
    <3>5. current' = p /\ socket' = p /\ active' = [turn |-> m, process |-> p, cancels |-> TRUE]
      BY <2>4 DEF Spawn
    <3>6. /\ stage' \in [Messages -> Stages]
          /\ pending' \in [Processes -> 0 .. MaxAsks]
          /\ UNCHANGED <<ends, retry, holds, retryState>>
      BY <2>4, ClaudeAssumption DEF Spawn, TypeOK, Stages
    <3> HIDE DEF p
    <3> QED BY <3>1, <3>4, <3>5, <3>6 DEF TypeOK, Session
  <2>5. ASSUME NEW p \in Processes, Written(m, p) PROVE TypeOK'
    BY <2>5 DEF Written, TypeOK, Stages
  <2>6. ASSUME NEW p \in Processes, WriteFails(m, p) PROVE TypeOK'
    <3>1. [process EXCEPT ![p].turn = None] \in [Processes -> Session]
      BY <1>0, SessionTypes
    <3>2. process' \in [Processes -> Session]
      BY <2>6, <3>1, ClosedTypes DEF WriteFails
    <3>3. BrokerCloses(current)
      BY <2>6 DEF WriteFails
    <3>4. /\ retryState' \in Messages \cup {None}
          /\ active' = NotActive /\ UNCHANGED <<current, retry, holds>>
      BY <2>6 DEF WriteFails, TypeOK
    <3>5. ends' \in [Messages -> Nat] /\ stage' \in [Messages -> Stages]
      BY <2>6 DEF WriteFails, Settled, TypeOK, Stages
    <3> QED BY <1>a, <1>b, <3>2, <3>3, <3>4, <3>5 DEF TypeOK, Session
  <2> QED BY <1>1, <2>1, <2>2, <2>3, <2>4, <2>5, <2>6 DEF Sending
<1>2. ASSUME NEW p \in Processes, Handling(p) PROVE TypeOK'
  <2>0. ASSUME NEW ps \in [Processes -> Session], Settles(p, ps)
        PROVE  /\ process' \in [Processes -> Session] /\ active' = NotActive
               /\ retryState' = None
               /\ ends' \in [Messages -> Nat] /\ stage' \in [Messages -> Stages]
    <3>1. [ps EXCEPT ![p].turn = None] \in [Processes -> Session]
      BY SessionTypes
    <3>2. process' = [ps EXCEPT ![p].turn = None] /\ active' = NotActive /\ retryState' = None
          /\ Settled(process[p].turn)
      BY <2>0 DEF Settles
    <3>3. ends' \in [Messages -> Nat] /\ stage' \in [Messages -> Stages]
      BY <3>2, SettledTypes
    <3> QED BY <3>1, <3>2, <3>3
  <2>1. CASE Streams(p) \/ Exits(p)
    <3>1. process' \in [Processes -> Session]
      <4>1. CASE Streams(p)
        BY <1>0, <4>1, SessionTypes DEF Streams
      <4>2. "exited" \in Children
        BY DEF Children
      <4>3. CASE Exits(p)
        BY <1>0, <4>2, <4>3, SessionTypes DEF Exits
      <4> QED BY <2>1, <4>1, <4>3
    <3> QED BY <2>1, <3>1 DEF Streams, Exits, TypeOK, Session
  <2>2. CASE Result(p)
    <3>1. Settles(p, process) /\ UNCHANGED <<current, retry, socket, holds>>
      BY <2>2 DEF Result
    <3>2. pending' \in [Processes -> 0 .. MaxAsks]
      BY <2>2, ClaudeAssumption DEF Result, TypeOK
    <3> QED BY <1>0, <1>b, <2>0, <3>1, <3>2 DEF TypeOK, Session
  <2>3. CASE ClosesToRetry(p)
    <3>1. process' \in [Processes -> Session]
      <4>1. \A q \in Session : [[[q EXCEPT !.child = "waiting"] EXCEPT !.turn = None] EXCEPT !.broker = FALSE] \in Session
        BY SessionTypes DEF Children
      <4> QED BY <1>0, <2>3, <4>1 DEF ClosesToRetry
    <3>2. retry' \in [Messages -> [attempt : 0 .. MaxAttempts - 1, cancelled : BOOLEAN]]
      <4> DEFINE R == [attempt : 0 .. MaxAttempts - 1, cancelled : BOOLEAN]
                 r == process[p].retry
      <4>1. \A q \in R : q.attempt < MaxAttempts - 1 => [q EXCEPT !.attempt = @ + 1] \in R
        BY ClaudeAssumption
      <4>2. retry \in [Messages -> R] /\ retry[r].attempt < MaxAttempts - 1
            /\ retry' = [retry EXCEPT ![r].attempt = @ + 1]
        BY <2>3 DEF ClosesToRetry, Retryable, TypeOK
      <4> HIDE DEF R, r
      <4> QED BY <4>1, <4>2 DEF R
    <3>3. BrokerCloses(p) /\ current' = None /\ UNCHANGED <<stage, ends, active, retryState, holds>>
      BY <2>3 DEF ClosesToRetry
    <3> QED BY <1>a, <3>1, <3>2, <3>3 DEF TypeOK, Session
  <2>4. CASE ClosesTurn(p) \/ ClosesIdle(p)
    <3>1. [process EXCEPT ![p] = NoProcess] \in [Processes -> Session]
      BY <1>0, SessionTypes
    <3>2. BrokerCloses(p) /\ current' \in Processes \cup {None} /\ UNCHANGED <<retry, holds>>
      BY <2>4 DEF ClosesTurn, ClosesIdle, TypeOK
    <3>3. CASE ClosesTurn(p)
      BY <1>a, <1>b, <2>0, <3>1, <3>2, <3>3 DEF ClosesTurn, TypeOK, Session
    <3>4. CASE ClosesIdle(p)
      BY <1>a, <3>1, <3>2, <3>4 DEF ClosesIdle, TypeOK, Session
    <3> QED BY <2>4, <3>3, <3>4
  <2>5. CASE Relaunches(p) \/ Abandons(p)
    <3>1. process' \in [Processes -> Session] /\ process[p].made \in Messages \cup {None}
      BY <1>0, <2>5, SessionTypes DEF Relaunches, Abandons
    <3>2. CASE Relaunches(p)
      <4>1. Enters(process[p].made) /\ active' = NotActive /\ UNCHANGED <<ends, current, socket, pending>>
        BY <3>2 DEF Relaunches
      <4> QED BY <1>b, <3>1, <4>1, EntersTypes DEF TypeOK, Session
    <3>3. CASE Abandons(p)
      <4>1. ends' \in [Messages -> Nat] /\ stage' \in [Messages -> Stages]
        BY <3>3, SettledTypes DEF Abandons
      <4>2. active' = NotActive /\ retryState' = None
            /\ UNCHANGED <<current, retry, socket, pending, holds>>
        BY <3>3 DEF Abandons
      <4> QED BY <1>b, <3>1, <4>1, <4>2 DEF TypeOK, Session
    <3> QED BY <2>5, <3>2, <3>3
  <2>6. CASE Asks(p) \/ Answered(p)
    <3>1. pending' \in [Processes -> 0 .. MaxAsks]
      BY <2>6, ClaudeAssumption DEF Asks, Answered, TypeOK
    <3> QED BY <2>6, <3>1 DEF Asks, Answered, TypeOK
  <2> QED BY <1>2, <2>1, <2>2, <2>3, <2>4, <2>5, <2>6 DEF Handling
<1>3. CASE Interrupt
  <2>1. process' \in [Processes -> Session]
    <3>1. \A q \in Session : [q EXCEPT !.child = IF @ = "alive" THEN "dying" ELSE @] \in Session
      BY DEF Session, Children
    <3> QED BY <1>0, <1>3, <3>1 DEF Interrupt, Killed
  <2>2. retry' \in [Messages -> [attempt : 0 .. MaxAttempts - 1, cancelled : BOOLEAN]]
    <3> DEFINE R == [attempt : 0 .. MaxAttempts - 1, cancelled : BOOLEAN]
    <3>1. \A q \in R : [q EXCEPT !.cancelled = TRUE] \in R
      OBVIOUS
    <3>2. /\ retry \in [Messages -> R]
          /\ \/ retry' = retry
             \/ \E r : retry' = [retry EXCEPT ![r].cancelled = TRUE]
      BY <1>3 DEF Interrupt, TypeOK
    <3> HIDE DEF R
    <3> QED BY <3>1, <3>2 DEF R
  <2> QED BY <1>3, <2>1, <2>2 DEF Interrupt, TypeOK, Session
<1>4. CASE IdleCloses
  <2>1. process' \in [Processes -> Session] /\ BrokerCloses(current)
        /\ UNCHANGED <<stage, ends, current, active, retry, holds, retryState>>
    BY <1>0, <1>4, ClosedTypes DEF IdleCloses
  <2> QED BY <1>a, <2>1 DEF TypeOK, Session
<1>5. CASE UNCHANGED vars
  BY <1>5 DEF vars, TypeOK
<1> QED BY <1>1, <1>2, <1>3, <1>4, <1>5 DEF Next

\* The type invariant of a Claude thread (server/drivers/claude.ts), for any
\* messages, processes and number of attempts.
THEOREM Typing == Spec => []TypeOK
  BY TypeInit, TypeStep, PTL DEF Spec

-----------------------------------------------------------------------------
(* One message at a time, on processes that are not relaunched once reused. *)

OneMessage == ~Overlaps /\ "reused" \notin Flaky

AtHand(m) == stage[m] \in {"resolving", "writing", "open"}

\* At most one message is at hand; while it resolves its model nobody works.
OneAtHand ==
  /\ \A m, n \in Messages : AtHand(m) /\ AtHand(n) => m = n
  /\ \A m \in Messages : stage[m] = "resolving" => active = NotActive

Ended == \A m \in Messages : ends[m] = (IF stage[m] = "settled" THEN 1 ELSE 0)

\* The thread's maps lead to a process with a turn ...
Works(p) ==
  /\ active.turn = process[p].turn /\ active.process = p /\ current = p
  /\ stage[active.turn] \in {"writing", "open"}
  /\ process[p].child \notin {"none", "waiting"}
  /\ ~process[p].used => process[p].made = active.turn /\ active.cancels

\* ... and to one whose turn waits for a relaunch.
Waits(p) ==
  /\ active = [turn |-> process[p].made, process |-> p, cancels |-> TRUE]
  /\ active.turn # None /\ stage[active.turn] = "open"

Reached ==
  \A p \in Processes : /\ process[p].turn # None => Works(p)
                       /\ process[p].child = "waiting" => Waits(p)

\* The one open broker is the current session's, and holds requests for a turn.
Listens ==
  \A p \in Processes :
    /\ process[p].broker => p = current /\ p = socket
    /\ pending[p] > 0 => process[p].broker /\ process[p].turn # None

Sound == OneAtHand /\ Ended /\ Reached /\ Listens

\* Two processes never share a turn, and a turn keeps the thread busy.
LEMMA Alone ==
  ASSUME TypeOK, Sound, NEW p \in Processes,
         process[p].turn # None \/ process[p].child = "waiting"
  PROVE  /\ active # NotActive /\ active.turn \in Messages /\ AtHand(active.turn)
         /\ active.process = p
         /\ process[p].child = "waiting" =>
              process[p].turn = None /\ process[p].made = active.turn
         /\ \A q \in Processes : q # p => /\ process[q].turn = None
                                          /\ process[q].child # "waiting"
         /\ \A m \in Messages : AtHand(m) => m = active.turn
<1>1. active.turn # None /\ active.process = p /\ AtHand(active.turn)
  BY DEF Sound, Reached, Works, Waits, AtHand
<1>2. active.turn \in Messages
  BY <1>1 DEF TypeOK
<1>3. active # NotActive
  BY <1>1 DEF NotActive
<1>4. \A q \in Processes : process[q].turn # None \/ process[q].child = "waiting" => active.process = q
  BY DEF Sound, Reached, Works, Waits
<1>5. process[p].child = "waiting" => process[p].turn = None /\ process[p].made = active.turn
  BY DEF Sound, Reached, Works, Waits
<1>6. \A m \in Messages : AtHand(m) => m = active.turn
  BY <1>1, <1>2 DEF Sound, OneAtHand
<1> QED BY <1>1, <1>2, <1>3, <1>4, <1>5, <1>6

LEMMA Free ==
  ASSUME TypeOK, Sound, active = NotActive, NEW p \in Processes
  PROVE  /\ process[p].turn = None /\ process[p].child # "waiting"
         /\ pending[p] = 0
<1>1. process[p].turn = None /\ process[p].child # "waiting"
  BY Alone
<1> QED BY <1>1 DEF Sound, Listens, TypeOK

\* What closing a session does to the records.
LEMMA Closing ==
  ASSUME NEW p, NEW ps \in [Processes -> Session], NEW q \in Processes, p # None,
         NEW r, r = Closed(p, ps)[q]
  PROVE  /\ r.turn = ps[q].turn /\ r.made = ps[q].made /\ r.used = ps[q].used
         /\ r.broker => ps[q].broker /\ q # p
         /\ q # p => r.broker = ps[q].broker
         /\ r.child \in {ps[q].child, "dying"}
         /\ r.child # ps[q].child => ps[q].child = "alive"
<1>1. CASE q = p
  <2>1. \A s \in Session : \A c \in Children :
          LET e == [[[s EXCEPT !.closing = TRUE] EXCEPT !.broker = FALSE] EXCEPT !.child = c] IN
          /\ e.turn = s.turn /\ e.made = s.made /\ e.used = s.used
          /\ ~e.broker /\ e.child = c
    BY DEF Session
  <2>2. PICK c \in Children : c = IF ps[q].child = "alive" THEN "dying" ELSE ps[q].child
    BY DEF Session, Children
  <2>3. r = [[[ps[q] EXCEPT !.closing = TRUE] EXCEPT !.broker = FALSE] EXCEPT !.child = c]
    BY <1>1, <2>2, SessionTypes DEF Closed
  <2>4. /\ r.turn = ps[q].turn /\ r.made = ps[q].made /\ r.used = ps[q].used
        /\ ~r.broker /\ r.child = c
    BY <2>1, <2>3
  <2> QED BY <1>1, <2>2, <2>4
<1>2. CASE q # p
  <2>1. r = ps[q]
    BY <1>2 DEF Closed
  <2> QED BY <1>2, <2>1
<1> QED BY <1>1, <1>2

\* Steps that start and end no turn.
Quiet ==
  /\ UNCHANGED <<stage, ends, active, current>>
  /\ \A q \in Processes :
       /\ process'[q].turn = process[q].turn
       /\ process'[q].made = process[q].made /\ process'[q].used = process[q].used
       /\ \/ process'[q].child = process[q].child
          \/ /\ process'[q].child \in {"dying", "exited"}
             /\ process[q].child # "waiting"
       /\ process'[q].broker => process[q].broker /\ socket' = socket
       /\ pending'[q] > 0 => process'[q].broker /\ process[q].turn # None

LEMMA QuietStep == ASSUME TypeOK, Sound, Quiet PROVE Sound'
<1>1. OneAtHand' /\ Ended'
  BY DEF Quiet, Sound, OneAtHand, Ended, AtHand
<1>2. ASSUME NEW q \in Processes, process'[q].turn # None PROVE Works(q)'
  BY <1>2 DEF Quiet, Sound, Reached, Works
<1>3. ASSUME NEW q \in Processes, process'[q].child = "waiting" PROVE Waits(q)'
  <2>1. process[q].child = "waiting" /\ process'[q].made = process[q].made
    BY <1>3 DEF Quiet
  <2> QED BY <2>1 DEF Quiet, Sound, Reached, Waits
<1>4. Listens'
  BY DEF Quiet, Sound, Listens
<1> QED BY <1>1, <1>2, <1>3, <1>4 DEF Sound, Reached

\* Steps that end the turn at hand.
Finishes(m) ==
  /\ Settled(m) /\ active' = NotActive
  /\ \A q \in Processes :
       /\ process'[q].turn = None /\ process'[q].child # "waiting"
       /\ process'[q].broker => q = current' /\ q = socket'
       /\ pending'[q] = 0

LEMMA FinishStep ==
  ASSUME TypeOK, Sound, NEW m \in Messages, AtHand(m), Finishes(m)
  PROVE  Sound'
<1>1. /\ stage' = [n \in Messages |-> IF n = m THEN "settled" ELSE stage[n]]
      /\ ends' = [n \in Messages |-> IF n = m THEN ends[n] + 1 ELSE ends[n]]
  BY DEF Finishes, Settled, TypeOK
<1>2. \A n \in Messages : AtHand(n) => n = m
  BY DEF Sound, OneAtHand
<1>3. OneAtHand'
  BY <1>1, <1>2 DEF OneAtHand, AtHand, Finishes
<1>4. Ended'
  BY <1>1 DEF Sound, Ended, AtHand
<1>5. Reached' /\ Listens'
  BY DEF Finishes, Reached, Listens
<1> QED BY <1>3, <1>4, <1>5 DEF Sound

LEMMA SoundInit == Init => Sound
<1> SUFFICES ASSUME Init PROVE Sound
  OBVIOUS
<1>1. \A p \in Processes : process[p] = NoProcess /\ pending[p] = 0
  BY DEF Init
<1> QED BY <1>1 DEF Init, Sound, OneAtHand, Ended, AtHand, Reached, Listens, NoProcess

LEMMA SendingStep ==
  ASSUME TypeOK, Sound, OneMessage, NEW m \in Messages, Sending(m)
  PROVE  Sound'
<1>0. process \in [Processes -> Session]
  BY DEF TypeOK, Session
<1>1. CASE Send(m)
  <2>1. /\ stage' = [n \in Messages |-> IF n = m THEN "resolving" ELSE stage[n]]
        /\ UNCHANGED <<ends, process, current, active, socket, pending>>
        /\ active = NotActive /\ stage[m] = "unsent"
    BY <1>1 DEF Send, Enters, TypeOK
  <2>2. \A n \in Messages : ~AtHand(n)
    BY <1>1 DEF Send, OneMessage, AtHand
  <2>3. OneAtHand' /\ Ended'
    BY <2>1, <2>2 DEF Sound, OneAtHand, Ended, AtHand
  <2>4. Reached' /\ Listens'
    BY <2>1, Free DEF Sound, Reached, Listens
  <2> QED BY <2>3, <2>4 DEF Sound
<1>2. CASE SendRefused(m)
  <2>1. /\ stage' = [n \in Messages |-> IF n = m THEN "settled" ELSE stage[n]]
        /\ ends' = [n \in Messages |-> IF n = m THEN ends[n] + 1 ELSE ends[n]]
        /\ UNCHANGED <<process, current, active, socket, pending>>
        /\ stage[m] = "unsent"
    BY <1>2 DEF SendRefused, Settled, TypeOK
  <2>2. OneAtHand' /\ Ended'
    BY <2>1 DEF Sound, OneAtHand, Ended, AtHand
  <2>3. Reached'
    BY <2>1, Alone DEF Sound, Reached, Works, Waits, TypeOK
  <2>4. Listens'
    BY <2>1 DEF Sound, Listens
  <2> QED BY <2>2, <2>3, <2>4 DEF Sound
<1>3. CASE Reuse(m)
  <2>1. /\ active = NotActive /\ current \in Processes /\ Running(current)
        /\ stage[m] = "resolving"
    BY <1>3 DEF Reuse, Reusable, Sound, OneAtHand, TypeOK
  <2>2. /\ stage' = [n \in Messages |-> IF n = m THEN "writing" ELSE stage[n]]
        /\ active' = [turn |-> m, process |-> current, cancels |-> FALSE]
        /\ UNCHANGED <<ends, current, socket, pending>>
    BY <1>3 DEF Reuse, TypeOK
  <2>3. /\ process'[current].turn = m /\ process'[current].used
        /\ process'[current].child = process[current].child
        /\ process'[current].broker = process[current].broker
        /\ \A q \in Processes : q # current => process'[q] = process[q]
    BY <1>0, <1>3, <2>1 DEF Reuse, Session
  <2>4. OneAtHand' /\ Ended'
    BY <2>1, <2>2 DEF Sound, OneAtHand, Ended, AtHand
  <2>5. Reached'
    BY <2>1, <2>2, <2>3, Free DEF Reached, Works, Running
  <2>6. Listens'
    BY <2>1, <2>2, <2>3, Free, ClaudeAssumption DEF Sound, Listens
  <2> QED BY <2>4, <2>5, <2>6 DEF Sound
<1>4. CASE Spawn(m)
  <2> DEFINE p == CHOOSE q \in Processes : process[q].child = "none"
             new == [child |-> "alive", turn |-> m, streamed |-> FALSE,
                     closing |-> FALSE, broker |-> TRUE, made |-> m,
                     retry |-> holds[m], used |-> FALSE]
  <2>1. p \in Processes /\ process[p].child = "none"
    BY <1>4 DEF Spawn
  <2>2. /\ process' = [Closed(current, process) EXCEPT ![p] = new]
        /\ pending' = [q \in Processes |-> IF q = current THEN 0 ELSE pending[q]]
        /\ current' = p /\ socket' = p
        /\ active' = [turn |-> m, process |-> p, cancels |-> TRUE]
        /\ stage[m] = "resolving" /\ UNCHANGED ends
    BY <1>4 DEF Spawn
  <2>3. active = NotActive /\ stage' = [n \in Messages |-> IF n = m THEN "writing" ELSE stage[n]]
    BY <1>4 DEF Spawn, Sound, OneAtHand, TypeOK
  <2>4. /\ new.turn = m /\ new.made = m /\ new.child = "alive" /\ new.broker /\ ~new.used
    OBVIOUS
  <2> HIDE DEF p, new
  <2>5. Closed(current, process) \in [Processes -> Session]
    BY <1>0, ClosedTypes
  <2>6. process'[p] = new /\ \A q \in Processes : q # p => process'[q] = Closed(current, process)[q]
    BY <2>1, <2>2, <2>5
  <2>7. ASSUME NEW q \in Processes, q # p
        PROVE  process'[q].turn = None /\ process'[q].child # "waiting" /\ ~process'[q].broker
    <3>1. process[q].turn = None /\ process[q].child # "waiting"
      BY <2>3, Free
    <3>2. CASE current = None
      BY <2>6, <2>7, <3>1, <3>2, ClaudeAssumption DEF Closed, Sound, Listens
    <3>3. CASE current # None
      BY <1>0, <2>6, <2>7, <3>1, <3>3, Closing DEF Sound, Listens
    <3> QED BY <3>2, <3>3
  <2>8. \A q \in Processes : ~(pending'[q] > 0)
    BY <2>2, <2>3, Free
  <2>9. OneAtHand' /\ Ended'
    BY <2>2, <2>3 DEF Sound, OneAtHand, Ended, AtHand
  <2>10. Reached'
    BY <2>1, <2>2, <2>3, <2>4, <2>6, <2>7 DEF Reached, Works, TypeOK
  <2>11. Listens'
    BY <2>1, <2>2, <2>6, <2>7, <2>8 DEF Listens
  <2> QED BY <2>9, <2>10, <2>11 DEF Sound
<1>5. ASSUME NEW p \in Processes, Written(m, p) PROVE Sound'
  <2>1. /\ stage' = [n \in Messages |-> IF n = m THEN "open" ELSE stage[n]]
        /\ UNCHANGED <<ends, process, current, active, socket, pending>>
        /\ stage[m] = "writing"
    BY <1>5 DEF Written, Writing, TypeOK
  <2>2. OneAtHand' /\ Ended' /\ Listens'
    BY <2>1 DEF Sound, OneAtHand, Ended, AtHand, Listens
  <2>3. Reached'
    BY <2>1, Alone DEF Sound, Reached, Works, Waits
  <2> QED BY <2>2, <2>3 DEF Sound
<1>6. ASSUME NEW p \in Processes, WriteFails(m, p) PROVE Sound'
  <2> DEFINE ps == [process EXCEPT ![p].turn = None]
  <2>1. /\ stage[m] = "writing" /\ process[p].turn = m /\ m # None
        /\ Settled(m) /\ active' = NotActive
        /\ process' = Closed(current, ps) /\ BrokerCloses(current) /\ current' = current
    BY <1>6, ClaudeAssumption DEF WriteFails, Writing
  <2>2. current = p /\ \A q \in Processes : q # p => process[q].turn = None /\ process[q].child # "waiting"
    BY <2>1, Alone DEF Sound, Reached, Works
  <2>3. process[p].child # "waiting"
    BY <2>1 DEF Sound, Reached, Works
  <2>4. ps \in [Processes -> Session] /\ ps[p].turn = None /\ ps[p].child = process[p].child
        /\ \A q \in Processes : q # p => ps[q] = process[q]
    <3>1. ps \in [Processes -> Session]
      BY <1>0, SessionTypes
    <3>2. ps[p].turn = None /\ ps[p].child = process[p].child
      BY <1>0 DEF Session
    <3>3. \A q \in Processes : q # p => ps[q] = process[q]
      BY <1>0
    <3> QED BY <3>1, <3>2, <3>3
  <2> HIDE DEF ps
  <2>5. \A q \in Processes : /\ process'[q].turn = None /\ process'[q].child # "waiting"
                             /\ process'[q].broker => process[q].broker /\ q # p
    BY <2>1, <2>2, <2>3, <2>4, Closing, ClaudeAssumption
  <2>6. \A q \in Processes : pending'[q] = 0 /\ ~process'[q].broker
    <3>1. \A q \in Processes : q # p => pending[q] = 0 /\ ~process[q].broker
      BY <2>2 DEF Sound, Listens, TypeOK
    <3>2. pending'[p] = 0 /\ \A q \in Processes : q # p => pending'[q] = pending[q]
      BY <2>1, <2>2, ClaudeAssumption DEF BrokerCloses, Sound, Listens, TypeOK
    <3> QED BY <2>5, <3>1, <3>2
  <2>7. Finishes(m)
    BY <2>1, <2>5, <2>6 DEF Finishes
  <2> QED BY <2>1, <2>7, FinishStep DEF AtHand
<1> QED BY <1>1, <1>2, <1>3, <1>4, <1>5, <1>6 DEF Sending

LEMMA HandlingStep ==
  ASSUME TypeOK, Sound, OneMessage, NEW p \in Processes, Handling(p)
  PROVE  Sound'
<1>0. process \in [Processes -> Session] /\ NoProcess \in Session
      /\ NoProcess.turn = None /\ NoProcess.child = "none" /\ ~NoProcess.broker
  BY SessionTypes DEF TypeOK, Session, NoProcess
\* While p is at work, or waits, nobody else holds a broker or a request.
<1>1. ASSUME process[p].turn # None
      PROVE  /\ active.turn = process[p].turn /\ current = p
             /\ \A q \in Processes : q # p => ~process[q].broker /\ pending[q] = 0
  BY <1>1 DEF Sound, Reached, Works, Listens, TypeOK
<1>2. CASE Streams(p) \/ Exits(p)
  <2>1. \A q \in Processes :
          /\ process'[q].turn = process[q].turn /\ process'[q].broker = process[q].broker
          /\ process'[q].made = process[q].made /\ process'[q].used = process[q].used
          /\ \/ process'[q].child = process[q].child
             \/ process'[q].child = "exited" /\ process[q].child \in {"alive", "dying"}
    BY <1>0, <1>2 DEF Streams, Exits, Running, Session
  <2>2. UNCHANGED <<stage, ends, active, current, socket, pending>>
    BY <1>2 DEF Streams, Exits
  <2>3. Quiet
    BY <2>1, <2>2 DEF Quiet, Sound, Listens
  <2> QED BY <2>3, QuietStep
<1>3. CASE Result(p)
  <2>1. /\ process[p].turn # None /\ Settled(process[p].turn) /\ active' = NotActive
        /\ process' = [process EXCEPT ![p].turn = None]
        /\ pending' = [pending EXCEPT ![p] = 0] /\ UNCHANGED <<current, socket>>
    BY <1>3 DEF Result, Settles
  <2>2. process[p].child # "waiting"
    BY <2>1 DEF Sound, Reached, Works
  <2>3. \A q \in Processes :
          /\ process'[q].turn = (IF q = p THEN None ELSE process[q].turn)
          /\ process'[q].child = process[q].child /\ process'[q].broker = process[q].broker
    BY <1>0, <2>1 DEF Session
  <2>4. \A q \in Processes : pending'[q] = 0
    BY <1>1, <2>1 DEF TypeOK
  <2>5. Finishes(process[p].turn)
    BY <2>1, <2>2, <2>3, <2>4, Alone DEF Finishes, Sound, Listens
  <2> QED BY <1>1, <2>1, <2>5, Alone, FinishStep
<1>4. CASE ClosesToRetry(p)
  <2>1. /\ process[p].child = "exited" /\ process[p].turn # None
        /\ stage[process[p].turn] # "writing" /\ ~process[p].used
    BY <1>4 DEF ClosesToRetry, Writing, Retryable, OneMessage
  <2>2. /\ BrokerCloses(p) /\ current' = None
        /\ process' = [process EXCEPT ![p].child = "waiting", ![p].turn = None,
                                      ![p].broker = FALSE]
        /\ UNCHANGED <<stage, ends, active>>
    BY <1>4 DEF ClosesToRetry
  <2>3. /\ process'[p].child = "waiting" /\ process'[p].turn = None /\ ~process'[p].broker
        /\ process'[p].made = process[p].made
        /\ \A q \in Processes : q # p => process'[q] = process[q]
    BY <1>0, <2>2 DEF Session
  <2>4. \A q \in Processes : q # p => /\ process'[q].turn = None
                                      /\ process'[q].child # "waiting"
                                      /\ ~process'[q].broker
    BY <1>1, <2>1, <2>3, Alone
  <2>5. OneAtHand' /\ Ended'
    BY <2>2 DEF Sound, OneAtHand, Ended, AtHand
  <2>6. Waits(p)'
    <3>1. /\ active.turn = process[p].made /\ active.process = p /\ active.cancels
          /\ active.turn # None /\ stage[active.turn] = "open"
      BY <2>1 DEF Sound, Reached, Works
    <3>2. active = [turn |-> process[p].made, process |-> p, cancels |-> TRUE]
      BY <3>1 DEF TypeOK
    <3> QED BY <2>2, <2>3, <3>1, <3>2 DEF Waits
  <2>7. \A q \in Processes : pending'[q] = 0
    BY <1>1, <2>1, <2>2, ClaudeAssumption DEF BrokerCloses, Sound, Listens, TypeOK
  <2>8. Reached' /\ Listens'
    BY <2>3, <2>4, <2>6, <2>7 DEF Reached, Listens
  <2> QED BY <2>5, <2>8 DEF Sound
<1>5. CASE ClosesTurn(p)
  <2> DEFINE ps == [process EXCEPT ![p] = NoProcess]
  <2>1. /\ process[p].turn # None /\ Settled(process[p].turn) /\ active' = NotActive
        /\ process' = [ps EXCEPT ![p].turn = None] /\ BrokerCloses(p)
    BY <1>5 DEF ClosesTurn, Settles
  <2>2. /\ process'[p].turn = None /\ process'[p].child = "none" /\ ~process'[p].broker
        /\ \A q \in Processes : q # p => process'[q] = process[q]
    BY <1>0, <2>1 DEF Session
  <2>3. \A q \in Processes : pending'[q] = 0
    BY <1>1, <2>1, ClaudeAssumption DEF BrokerCloses, Sound, Listens, TypeOK
  <2>4. Finishes(process[p].turn)
    <3> HIDE DEF ps
    <3>0. \A q \in Processes : q # p => process[q].turn = None /\ process[q].child # "waiting"
      BY <2>1, Alone
    <3>1. \A q \in Processes : q # p => /\ process'[q].turn = None
                                        /\ process'[q].child # "waiting"
                                        /\ ~process'[q].broker
      BY <1>1, <2>1, <2>2, <3>0
    <3> QED BY <2>1, <2>2, <2>3, <3>1 DEF Finishes
  <2> QED BY <1>1, <2>1, <2>4, Alone, FinishStep
<1>6. CASE ClosesIdle(p)
  <2>1. /\ process[p].child = "exited" /\ process[p].turn = None /\ BrokerCloses(p)
        /\ process' = [process EXCEPT ![p] = NoProcess]
        /\ current' = IF current = p THEN None ELSE current
        /\ UNCHANGED <<stage, ends, active>>
    BY <1>6 DEF ClosesIdle
  <2>2. process'[p] = NoProcess /\ \A q \in Processes : q # p => process'[q] = process[q]
    BY <1>0, <2>1
  <2>3. OneAtHand' /\ Ended'
    BY <2>1 DEF Sound, OneAtHand, Ended, AtHand
  <2>4. Reached'
    BY <1>0, <2>1, <2>2 DEF Sound, Reached, Works, Waits
  <2>5. pending[p] = 0 /\ pending' = pending
    BY <2>1, ClaudeAssumption DEF BrokerCloses, Sound, Listens, TypeOK
  <2>6. ASSUME NEW q \in Processes, q # p, process[q].broker
        PROVE  q = current' /\ q = socket'
    BY <2>1, <2>6 DEF BrokerCloses, Sound, Listens
  <2>7. Listens'
    BY <1>0, <2>2, <2>5, <2>6 DEF Sound, Listens
  <2> QED BY <2>3, <2>4, <2>7 DEF Sound
<1>7. CASE Relaunches(p)
  <2> DEFINE m == process[p].made
  <2>1. /\ process[p].child = "waiting" /\ active' = NotActive /\ Enters(m)
        /\ process' = [process EXCEPT ![p] = NoProcess]
        /\ UNCHANGED <<ends, current, socket, pending>>
    BY <1>7 DEF Relaunches
  <2>2. /\ m \in Messages /\ stage[m] = "open"
        /\ \A n \in Messages : AtHand(n) => n = m
    BY <2>1, Alone DEF Sound, Reached, Waits
  <2>3. stage' = [n \in Messages |-> IF n = m THEN "resolving" ELSE stage[n]]
    BY <2>1 DEF Enters, TypeOK
  <2>4. process'[p] = NoProcess /\ \A q \in Processes : q # p => process'[q] = process[q]
    BY <1>0, <2>1
  <2> HIDE DEF m
  <2>5. OneAtHand' /\ Ended'
    BY <2>1, <2>2, <2>3 DEF Sound, OneAtHand, Ended, AtHand
  <2>6. \A q \in Processes : process'[q].turn = None /\ process'[q].child # "waiting"
    BY <1>0, <2>1, <2>4, Alone
  <2>7. Reached'
    BY <2>6 DEF Reached
  <2>8. process[p].turn = None
    BY <2>1, Alone
  <2>9. Listens'
    BY <1>0, <2>1, <2>4, <2>8 DEF Sound, Listens
  <2> QED BY <2>5, <2>7, <2>9 DEF Sound
<1>8. CASE Abandons(p)
  <2> DEFINE m == process[p].made
  <2>1. /\ process[p].child = "waiting" /\ active' = NotActive /\ Settled(m)
        /\ process' = [process EXCEPT ![p] = NoProcess]
        /\ UNCHANGED <<current, socket, pending>>
    BY <1>8 DEF Abandons
  <2>2. m \in Messages /\ AtHand(m)
    BY <2>1, Alone
  <2>3. process'[p] = NoProcess /\ \A q \in Processes : q # p => process'[q] = process[q]
    BY <1>0, <2>1
  <2> HIDE DEF m
  <2>4. \A q \in Processes : process[q].turn = None /\ pending[q] = 0
    <3>1. \A q \in Processes : process[q].turn = None
      BY <2>1, Alone
    <3> QED BY <3>1 DEF Sound, Listens, TypeOK
  <2>5. Finishes(m)
    BY <1>0, <2>1, <2>3, <2>4, Alone DEF Finishes, Sound, Listens
  <2> QED BY <2>2, <2>5, FinishStep
<1>9. CASE Asks(p) \/ Answered(p)
  <2>1. UNCHANGED <<stage, ends, process, current, active, socket>>
    BY <1>9 DEF Asks, Answered
  <2>2. \A q \in Processes : pending'[q] > 0 => process[q].broker /\ process[q].turn # None
    <3>1. CASE Asks(p)
      <4>1. process[p].broker /\ process[p].turn # None
        BY <3>1 DEF Asks, Sound, Listens
      <4> QED BY <3>1, <4>1 DEF Asks, Sound, Listens, TypeOK
    <3>2. CASE Answered(p)
      BY <3>2 DEF Answered, Sound, Listens, TypeOK
    <3> QED BY <1>9, <3>1, <3>2
  <2>3. Quiet
    BY <2>1, <2>2 DEF Quiet
  <2> QED BY <2>3, QuietStep
<1> QED BY <1>2, <1>3, <1>4, <1>5, <1>6, <1>7, <1>8, <1>9 DEF Handling

LEMMA SoundStep == TypeOK /\ Sound /\ OneMessage /\ [Next]_vars => Sound'
<1> SUFFICES ASSUME TypeOK, Sound, OneMessage, [Next]_vars PROVE Sound'
  OBVIOUS
<1>0. process \in [Processes -> Session]
  BY DEF TypeOK, Session
<1>1. CASE Interrupt
  <2>1. \A q \in Processes :
          /\ process'[q].turn = process[q].turn /\ process'[q].broker = process[q].broker
          /\ process'[q].made = process[q].made /\ process'[q].used = process[q].used
          /\ \/ process'[q].child = process[q].child
             \/ process'[q].child = "dying" /\ process[q].child = "alive"
    BY <1>0, <1>1 DEF Interrupt, Killed, Session
  <2>2. UNCHANGED <<stage, ends, active, current, socket, pending>>
    BY <1>1 DEF Interrupt
  <2>3. Quiet
    BY <2>1, <2>2 DEF Quiet, Sound, Listens
  <2> QED BY <2>3, QuietStep
<1>2. CASE IdleCloses
  <2>1. /\ current \in Processes /\ process[current].turn = None
        /\ process' = Closed(current, process) /\ BrokerCloses(current)
        /\ UNCHANGED <<stage, ends, current, active>>
    BY <1>2 DEF IdleCloses, TypeOK
  <2>2. ASSUME NEW q \in Processes
        PROVE  /\ process'[q].turn = process[q].turn
               /\ process'[q].made = process[q].made /\ process'[q].used = process[q].used
               /\ ~process'[q].broker
               /\ process'[q].child \in {process[q].child, "dying"}
               /\ process[q].child = "waiting" => process'[q].child = "waiting"
    <3>1. current # None
      BY <2>1, ClaudeAssumption
    <3> QED BY <1>0, <2>1, <3>1, Closing DEF Sound, Listens
  <2>3. \A q \in Processes : pending[q] = 0
    BY <2>1 DEF Sound, Listens, TypeOK
  <2>4. \A q \in Processes : pending'[q] = 0
    BY <2>1, <2>3 DEF BrokerCloses, TypeOK
  <2>5. Quiet
    BY <2>1, <2>2, <2>4 DEF Quiet
  <2> QED BY <2>5, QuietStep
<1>3. CASE UNCHANGED vars
  <2>1. Quiet
    BY <1>3 DEF vars, Quiet, Sound, Listens
  <2> QED BY <2>1, QuietStep
<1> QED BY <1>1, <1>2, <1>3, SendingStep, HandlingStep DEF Next

LEMMA Soundness == ASSUME OneMessage PROVE Spec => [](TypeOK /\ Sound)
<1>1. OneMessage
  OBVIOUS
<1>2. Init => TypeOK /\ Sound
  BY TypeInit, SoundInit
<1>3. TypeOK /\ Sound /\ [Next]_vars => (TypeOK /\ Sound)'
  BY <1>1, TypeStep, SoundStep
<1> QED BY <1>2, <1>3, PTL DEF Spec

\* SettledOnce, for any messages and processes: when the caller sends one
\* message at a time, none is settled twice (server/drivers/claude.ts).
THEOREM OnceSettled == ASSUME OneMessage PROVE Spec => []SettledOnce
<1>1. Sound => SettledOnce
  BY DEF Sound, Ended, SettledOnce
<1> QED BY <1>1, Soundness, PTL

\* StopFindsTheTurn: `active` leads to the process that has the turn, during
\* the backoff too.
THEOREM StopReaches == ASSUME OneMessage PROVE Spec => []StopFindsTheTurn
<1>1. Sound => StopFindsTheTurn
  BY DEF Sound, Reached, Works, Waits, StopFindsTheTurn
<1> QED BY <1>1, Soundness, PTL

\* NoZombieCard: a request that is open is of the turn under way.
THEOREM NoZombies == ASSUME OneMessage PROVE Spec => []NoZombieCard
<1>1. Sound => NoZombieCard
  BY DEF Sound, Listens, NoZombieCard
<1> QED BY <1>1, Soundness, PTL

\* SocketIsCurrent: no close event of an old process unlinks a new broker.
THEOREM SocketHolds == ASSUME OneMessage PROVE Spec => []SocketIsCurrent
<1>1. Sound => SocketIsCurrent
  BY DEF Sound, Listens, SocketIsCurrent
<1> QED BY <1>1, Soundness, PTL
=============================================================================
