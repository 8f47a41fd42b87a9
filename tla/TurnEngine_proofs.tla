-------------------------- MODULE TurnEngine_proofs --------------------------
(***************************************************************************)
(* Proofs about the turn engine, for any number of bots, rooms, held       *)
(* messages and open requests.                                             *)
(***************************************************************************)
EXTENDS TurnOwnership, RoomClock, FiniteSetTheorems, TLAPS

WatchRecords == [bot : Bots \cup {None}, parked : BOOLEAN]

\* The slot of a new turn belongs to its bot and was free.
LEMMA FreeSlot ==
  ASSUME NEW tu, NEW b \in Bots, HasSlot(tu, b)
  PROVE  /\ NextTurn(tu, b) \in Turns /\ NextTurn(tu, b)[1] = b
         /\ tu[NextTurn(tu, b)].stage = "none"
BY DEF HasSlot, NextTurn, TurnsOf

\* What a thread, a turn's bot and a record constructor belong to.
LEMMA Constructors ==
  ASSUME NEW t \in Threads, NEW stage \in Stages
  PROVE  Opened(t, stage) \in TurnRecords /\ NoTurn \in TurnRecords
BY TurnAssumption DEF Opened, NoTurn, TurnRecords, Stages

LEMMA CalledType ==
  ASSUME NEW t \in Threads
  PROVE  Called(t) \in TurnRecords
BY TurnAssumption DEF Called, TurnRecords, Stages

LEMMA TurnBot ==
  ASSUME NEW k \in Turns
  PROVE  k[1] \in Bots /\ k[1] \in Threads
BY DEF Turns, Threads

LEMMA ClosedType ==
  ASSUME NEW tu \in [Turns -> TurnRecords], NEW k \in Turns
  PROVE  Closed(tu, k) \in [Turns -> TurnRecords]
<1>1. NoTurn \in TurnRecords
  BY TurnAssumption DEF NoTurn, TurnRecords, Stages
<1>2. ASSUME NEW r \in TurnRecords
      PROVE  [r EXCEPT !.stage = "over", !.asks = 0] \in TurnRecords
  <2>1. [r EXCEPT !.stage = "over"] \in TurnRecords
    BY DEF TurnRecords, Stages
  <2>2. 0 \in 0 .. MaxAsks
    BY TurnAssumption
  <2> QED
    BY <2>1, <2>2 DEF TurnRecords
<1> QED
  BY <1>1, <1>2 DEF Closed

LEMMA InterruptedType ==
  ASSUME NEW tu \in [Turns -> TurnRecords], NEW t
  PROVE  Interrupted(tu, t) \in [Turns -> TurnRecords]
<1>1. ASSUME NEW r \in TurnRecords
      PROVE  [r EXCEPT !.stage = "ending"] \in TurnRecords
  BY DEF TurnRecords, Stages
<1> QED
  BY <1>1 DEF Interrupted

\* Draining the queues keeps activities, turns and queues well typed.
LEMMA DrainedType ==
  ASSUME NEW a \in [Bots -> Activities], NEW tu \in [Turns -> TurnRecords],
         queue \in [Bots -> 0 .. MaxQueue], Drained(a, tu)
  PROVE  /\ activity' \in [Bots -> Activities]
         /\ turn' \in [Turns -> TurnRecords]
         /\ queue' \in [Bots -> 0 .. MaxQueue]
<1> DEFINE free == {b \in Bots : queue[b] > 0 /\ a[b] \notin Busy}
<1>1. activity' = [b \in Bots |-> IF b \in free THEN "working" ELSE a[b]]
  BY DEF Drained
<1>2. turn' = [k \in Turns |->
                 IF k[1] \in free /\ k = NextTurn(tu, k[1])
                 THEN Opened(k[1], "setup") ELSE tu[k]]
  BY DEF Drained
<1>3. queue' = [b \in Bots |-> IF b \in free THEN 0 ELSE queue[b]]
  BY DEF Drained
<1>4. \A k \in Turns : Opened(k[1], "setup") \in TurnRecords
  BY Constructors, TurnBot DEF Stages
<1>5. activity' \in [Bots -> Activities]
  BY <1>1 DEF Activities
<1>6. turn' \in [Turns -> TurnRecords]
  BY <1>2, <1>4
<1>7. queue' \in [Bots -> 0 .. MaxQueue]
  BY <1>3, TurnAssumption
<1> QED
  BY <1>5, <1>6, <1>7

\* A turn record whose thread, stage or requests change stays one.
LEMMA UpdatedTurn ==
  ASSUME NEW r \in TurnRecords, NEW stage \in Stages, NEW n \in 0 .. MaxAsks
  PROVE  /\ [r EXCEPT !.stage = stage] \in TurnRecords
         /\ [r EXCEPT !.asks = n] \in TurnRecords
         /\ [r EXCEPT !.sending = FALSE] \in TurnRecords
         /\ [r EXCEPT !.sending = TRUE] \in TurnRecords
BY DEF TurnRecords

LEMMA UpdatedRoom ==
  ASSUME NEW q \in RoomRecords, NEW b \in Bots \cup {None},
         NEW S \in SUBSET Bots, NEW n \in 0 .. MaxQueue, NEW h \in 0 .. 1
  PROVE  /\ [q EXCEPT !.current = b] \in RoomRecords
         /\ [q EXCEPT !.chained = S] \in RoomRecords
         /\ [q EXCEPT !.direct = S] \in RoomRecords
         /\ [q EXCEPT !.spoken = S] \in RoomRecords
         /\ [q EXCEPT !.waiting = n] \in RoomRecords
         /\ [q EXCEPT !.hop = h] \in RoomRecords
         /\ [q EXCEPT !.active = TRUE] \in RoomRecords
BY DEF RoomRecords

LEMMA IdleRoomType == IdleRoom \in RoomRecords
BY TurnAssumption DEF IdleRoom, RoomRecords

LEMMA ChosenType ==
  ASSUME TypeOK, NEW r \in Rooms, NEW b \in Bots
  PROVE  Chosen(r, b) \in RoomRecords
<1>1. room[r] \in RoomRecords
  BY DEF TypeOK
<1>2. [room[r] EXCEPT !.spoken = @ \cup {b}, !.chained = @ \ {b}] \in RoomRecords
  BY <1>1 DEF RoomRecords
<1>3. (IF b \in room[r].chained THEN 1 ELSE 0) \in 0 .. 1
  OBVIOUS
<1> QED
  BY <1>2, <1>3 DEF Chosen, RoomRecords

LEMMA GivesUpType ==
  ASSUME TypeOK, NEW r \in Rooms
  PROVE  GivesUp(r) \in RoomRecords
<1>1. room[r] \in RoomRecords
  BY DEF TypeOK
<1> QED
  BY <1>1 DEF GivesUp, RoomRecords

LEMMA SettlesType ==
  ASSUME TypeOK, NEW r \in Rooms, Settles(r)
  PROVE  room' \in [Rooms -> RoomRecords]
<1>1. PICK next \in SUBSET (Bots \ room[r].spoken) :
        room' = [room EXCEPT ![r].current = None,
                             ![r].chained = (@ \ room[r].spoken) \cup next]
  BY DEF Settles
<1>2. room[r] \in RoomRecords /\ room \in [Rooms -> RoomRecords]
  BY DEF TypeOK
<1>3. [room[r] EXCEPT !.current = None,
                      !.chained = (@ \ room[r].spoken) \cup next] \in RoomRecords
  BY <1>2 DEF RoomRecords
<1> QED
  BY <1>1, <1>2, <1>3

LEMMA TakesType ==
  ASSUME TypeOK, NEW r \in Rooms, NEW b \in Bots, NEW k \in Turns, Takes(r, b, k)
  PROVE  /\ activity' \in [Bots -> Activities]
         /\ owner' \in [Rooms -> Bots \cup {None}]
         /\ watch' \in [Threads -> WatchRecords]
         /\ turn' \in [Turns -> TurnRecords]
<1>1. r \in Threads
  BY DEF Threads
<1>2. Called(r) \in TurnRecords
  BY <1>1, CalledType
<1> QED
  BY <1>2 DEF Takes, TypeOK, Activities, WatchRecords

LEMMA UnwatchedType ==
  ASSUME TypeOK, NEW t, Unwatched(t)
  PROVE  watch' \in [Threads -> WatchRecords]
BY DEF TypeOK, Unwatched, NoWatch, WatchRecords

LEMMA ParksType ==
  ASSUME TypeOK, NEW t, NEW p \in BOOLEAN, Parks(t, p)
  PROVE  watch' \in [Threads -> WatchRecords]
<1>1. CASE watch[t].bot = None
  BY <1>1 DEF TypeOK, Parks, WatchRecords
<1>2. CASE watch[t].bot # None
  BY <1>2 DEF TypeOK, Parks, WatchRecords
<1> QED
  BY <1>1, <1>2

LEMMA TypingChat ==
  ASSUME TypeOK, NEW b \in Bots, BotStep(b)
  PROVE  TypeOK'
<1>1. CASE Send(b)
  <2>1. Opened(b, "setup") \in TurnRecords
    BY Constructors DEF Threads, Stages
  <2> QED
    BY <1>1, <2>1 DEF Send, TypeOK, Activities
<1>2. CASE SendBusy(b)
  <2>1. Held(b) => queue' \in [Bots -> 0 .. MaxQueue]
    BY TurnAssumption DEF TypeOK, Held
  <2> QED
    BY <1>2, <2>1 DEF SendBusy, TypeOK
<1>3. CASE SteerAnswers(b)
  <2>1. Held(b) => queue' \in [Bots -> 0 .. MaxQueue]
    BY TurnAssumption DEF TypeOK, Held
  <2> QED
    BY <1>3, <2>1 DEF SteerAnswers, TypeOK
<1>4. CASE Interrupt(b)
  <2>1. \A k \in Turns : [turn[k] EXCEPT !.stage = "ending"] \in TurnRecords
    BY DEF TypeOK, TurnRecords, Stages
  <2> QED
    BY <1>4, <2>1 DEF Interrupt, TypeOK
<1>5. ASSUME NEW t \in Threads, Released(b, t) PROVE TypeOK'
  <2>1. [activity EXCEPT ![b] = "idle"] \in [Bots -> Activities]
    BY DEF TypeOK, Activities
  <2>2. /\ activity' \in [Bots -> Activities]
        /\ turn' \in [Turns -> TurnRecords]
        /\ queue' \in [Bots -> 0 .. MaxQueue]
    BY <1>5, <2>1, DrainedType DEF Released, TypeOK
  <2> QED
    BY <1>5, <2>2 DEF Released, TypeOK
<1> QED
  BY <1>1, <1>2, <1>3, <1>4, <1>5 DEF BotStep

LEMMA TypingRoom ==
  ASSUME TypeOK, NEW r \in Rooms, RoomStep(r)
  PROVE  TypeOK'
<1>0. room[r] \in RoomRecords /\ None \in Bots \cup {None}
  BY DEF TypeOK
<1>1. CASE RoomSend(r)
  <2>1. room[r].waiting + 1 \in 0 .. MaxQueue
    BY <1>0, <1>1, TurnAssumption DEF RoomSend, RoomRecords
  <2>2. room' \in [Rooms -> RoomRecords]
    BY <1>1, <2>1, <1>0, UpdatedRoom DEF RoomSend, TypeOK, RoomRecords
  <2> QED
    BY <1>1, <2>2 DEF RoomSend, TypeOK
<1>2. CASE RoomNext(r)
  <2>0. room[r].waiting > 0 /\ room[r].waiting \in 0 .. MaxQueue
    BY <1>0, <1>2 DEF RoomNext, RoomRecords
  <2>1. room[r].waiting - 1 \in 0 .. MaxQueue
    BY <2>0, TurnAssumption
  <2>2. ASSUME NEW S \in SUBSET Bots
        PROVE  [IdleRoom EXCEPT !.waiting = room[r].waiting - 1,
                                !.active = TRUE, !.direct = S] \in RoomRecords
    BY <2>1, IdleRoomType DEF RoomRecords, IdleRoom
  <2>3. [room[r] EXCEPT !.waiting = @ - 1] \in RoomRecords
    BY <2>1, <1>0 DEF RoomRecords
  <2>4. room' \in [Rooms -> RoomRecords]
    <3>1. CASE room' = [room EXCEPT ![r].waiting = @ - 1]
      BY <2>3, <3>1 DEF TypeOK
    <3>2. ASSUME NEW S \in SUBSET Bots,
                 room' = [room EXCEPT ![r] =
                   [IdleRoom EXCEPT !.waiting = room[r].waiting - 1,
                                    !.active = TRUE, !.direct = S]]
          PROVE  room' \in [Rooms -> RoomRecords]
      BY <2>2, <3>2 DEF TypeOK
    <3> QED
      BY <1>2, <3>1, <3>2 DEF RoomNext
  <2> QED
    BY <1>2, <2>4 DEF RoomNext, TypeOK
<1>3. CASE RoomDone(r)
  <2>1. room[r].waiting \in 0 .. MaxQueue
    BY <1>0 DEF RoomRecords
  <2>2. [IdleRoom EXCEPT !.waiting = room[r].waiting] \in RoomRecords
    BY <2>1, IdleRoomType DEF RoomRecords
  <2> QED
    BY <1>3, <2>2 DEF RoomDone, TypeOK
<1>4. CASE RoomTimesOut(r)
  <2>1. Interrupted(turn, r) \in [Turns -> TurnRecords]
    BY InterruptedType DEF TypeOK
  <2>2. GivesUp(r) \in RoomRecords
    BY GivesUpType
  <2> QED
    BY <1>4, <2>1, <2>2 DEF RoomTimesOut, TypeOK
<1>5. ASSUME NEW b \in Bots, MemberSkipped(r, b) PROVE TypeOK'
  <2>1. Chosen(r, b) \in RoomRecords
    BY ChosenType
  <2> QED
    BY <1>5, <2>1 DEF MemberSkipped, TypeOK
<1>6. ASSUME NEW b \in Bots, MemberBegins(r, b) PROVE TypeOK'
  <2> DEFINE k == NextTurn(turn, b)
  <2>1. Chosen(r, b) \in RoomRecords
    BY ChosenType
  <2>2. [Chosen(r, b) EXCEPT !.current = b] \in RoomRecords
    BY <2>1 DEF RoomRecords
  <2>3. k \in Turns
    BY <1>6, FreeSlot DEF MemberBegins
  <2>4. room' \in [Rooms -> RoomRecords]
    BY <1>6, <2>2 DEF MemberBegins, TypeOK
  <2>5. CASE ConnectedApps
    <3>1. Opened(r, "connecting") \in TurnRecords
      BY Constructors DEF Threads, Stages
    <3> QED
      BY <1>6, <2>4, <2>5, <3>1 DEF MemberBegins, TypeOK
  <2>6. CASE ~ConnectedApps
    <3>1. Takes(r, b, k)
      BY <1>6, <2>6 DEF MemberBegins
    <3>2. /\ activity' \in [Bots -> Activities]
          /\ owner' \in [Rooms -> Bots \cup {None}]
          /\ watch' \in [Threads -> WatchRecords]
          /\ turn' \in [Turns -> TurnRecords]
      BY <2>3, <3>1, TakesType
    <3> QED
      BY <1>6, <2>4, <3>2 DEF MemberBegins, TypeOK, WatchRecords
  <2> QED
    BY <2>5, <2>6
<1> QED
  BY <1>1, <1>2, <1>3, <1>4, <1>5, <1>6 DEF RoomStep

LEMMA ChatRejectedType ==
  ASSUME TypeOK, NEW k \in Turns, ChatRejected(k)
  PROVE  TypeOK'
<1>1. k[1] \in Bots /\ k[1] \in Threads
  BY TurnBot
<1>2. [activity EXCEPT ![k[1]] = "idle"] \in [Bots -> Activities]
  BY DEF TypeOK, Activities
<1>3. NoTurn \in TurnRecords
  BY TurnAssumption DEF NoTurn, TurnRecords, Stages
<1>4. [turn EXCEPT ![k] = NoTurn] \in [Turns -> TurnRecords]
  BY <1>3 DEF TypeOK
<1>5. /\ activity' \in [Bots -> Activities]
      /\ turn' \in [Turns -> TurnRecords]
      /\ queue' \in [Bots -> 0 .. MaxQueue]
  BY <1>2, <1>4, DrainedType DEF ChatRejected, TypeOK
<1>6. watch' \in [Threads -> WatchRecords]
  BY UnwatchedType DEF ChatRejected
<1> QED
  BY <1>5, <1>6 DEF ChatRejected, TypeOK, WatchRecords

LEMMA TypingTurn ==
  ASSUME TypeOK, NEW k \in Turns, TurnStep(k)
  PROVE  TypeOK'
<1> DEFINE t == turn[k].thread
<1>0. /\ k[1] \in Bots /\ k[1] \in Threads
      /\ turn[k] \in TurnRecords /\ turn \in [Turns -> TurnRecords]
      /\ NoTurn \in TurnRecords
  BY TurnBot, TurnAssumption DEF TypeOK, NoTurn, TurnRecords, Stages
<1>1. CASE SetupFails(k) \/ SendRejected(k)
  BY <1>1, ChatRejectedType DEF SetupFails, SendRejected
<1>2. CASE Launch(k)
  <2>1. Called(k[1]) \in TurnRecords
    BY <1>0, CalledType
  <2> QED
    BY <1>2, <1>0, <2>1 DEF Launch, TypeOK
<1>3. CASE Starts(k)
  <2>1. PICK pending \in {FALSE, LateRejects} :
          turn' = [turn EXCEPT ![k].stage = "running", ![k].sending = pending]
    BY <1>3 DEF Starts
  <2>2. [turn[k] EXCEPT !.stage = "running"] \in TurnRecords
    BY <1>0 DEF TurnRecords, Stages
  <2>3. pending \in BOOLEAN
    BY TurnAssumption
  <2>4. [turn[k] EXCEPT !.stage = "running", !.sending = pending] \in TurnRecords
    BY <2>2, <2>3 DEF TurnRecords
  <2> QED
    BY <1>3, <1>0, <2>1, <2>4 DEF Starts, TypeOK
<1>4. CASE SendReturns(k)
  <2>1. [turn[k] EXCEPT !.sending = FALSE] \in TurnRecords
    BY <1>0 DEF TurnRecords
  <2> QED
    BY <1>4, <1>0, <2>1 DEF SendReturns, TypeOK
<1>5. CASE MemberConnected(k)
  <2>1. t \in Rooms
    BY <1>5 DEF MemberConnected
  <2> QED
    BY <1>5, <1>0, <2>1, TakesType DEF MemberConnected, TypeOK, WatchRecords
<1>6. CASE ConnectFails(k)
  <2>1. t \in Rooms
    BY <1>6 DEF ConnectFails
  <2>2. [room[t] EXCEPT !.current = None] \in RoomRecords
    BY <2>1 DEF TypeOK, RoomRecords
  <2> QED
    BY <1>6, <1>0, <2>2 DEF ConnectFails, TypeOK
<1>7. CASE RoomRejected(k)
  <2>0. t \in Rooms
    BY <1>7 DEF RoomRejected
  <2>1. watch' \in [Threads -> WatchRecords]
    BY <1>7, UnwatchedType DEF RoomRejected
  <2>2. [turn EXCEPT ![k] = NoTurn] \in [Turns -> TurnRecords]
    BY <1>0
  <2>3. CASE room[t].current = k[1]
    <3> DEFINE a == IF owner[t] = k[1] /\ activity[k[1]] \in Busy
                    THEN [activity EXCEPT ![k[1]] = "idle"] ELSE activity
    <3>1. a \in [Bots -> Activities]
      BY DEF TypeOK, Activities
    <3>2. Drained(a, [turn EXCEPT ![k] = NoTurn])
      BY <1>7, <2>3 DEF RoomRejected
    <3>3. /\ activity' \in [Bots -> Activities]
          /\ turn' \in [Turns -> TurnRecords]
          /\ queue' \in [Bots -> 0 .. MaxQueue]
      BY <2>2, <3>1, <3>2, DrainedType DEF TypeOK
    <3>4. Settles(t) /\ owner' = [owner EXCEPT ![t] = IF @ = k[1] THEN None ELSE @]
      BY <1>7, <2>3 DEF RoomRejected
    <3>5. room' \in [Rooms -> RoomRecords]
      BY <2>0, <3>4, SettlesType
    <3> QED
      BY <1>7, <2>1, <3>3, <3>4, <3>5 DEF RoomRejected, TypeOK, WatchRecords
  <2>4. CASE room[t].current # k[1]
    BY <1>7, <2>1, <2>2, <2>4 DEF RoomRejected, TypeOK, WatchRecords
  <2> QED
    BY <2>3, <2>4
<1>8. CASE AskOpens(k) \/ AskResolves(k) \/ AskAutoAnswered(k)
  <2>0. turn[k].asks \in 0 .. MaxAsks /\ MaxAsks \in Nat
    BY <1>0, TurnAssumption DEF TurnRecords
  <2>1. turn' \in [Turns -> TurnRecords]
    <3>1. CASE AskOpens(k)
      <4>1. turn[k].asks + 1 \in 0 .. MaxAsks
        BY <2>0, <3>1 DEF AskOpens
      <4>2. [turn[k] EXCEPT !.asks = @ + 1] \in TurnRecords
        BY <1>0, <4>1 DEF TurnRecords
      <4> QED
        BY <1>0, <3>1, <4>2 DEF AskOpens
    <3>2. CASE AskResolves(k)
      <4>1. turn[k].asks - 1 \in 0 .. MaxAsks
        BY <2>0, <3>2 DEF AskResolves
      <4>2. [turn[k] EXCEPT !.asks = @ - 1] \in TurnRecords
        BY <1>0, <4>1 DEF TurnRecords
      <4> QED
        BY <1>0, <3>2, <4>2 DEF AskResolves
    <3>3. CASE AskAutoAnswered(k)
      BY <1>0, <3>3 DEF AskAutoAnswered
    <3> QED
      BY <1>8, <3>1, <3>2, <3>3
  <2>2. \E p \in BOOLEAN : Parks(t, p)
    BY <1>8 DEF AskOpens, AskResolves, AskAutoAnswered, Resumes
  <2>3. watch' \in [Threads -> WatchRecords]
    BY <2>2, ParksType
  <2>4. activity' \in [Bots -> Activities]
    BY <1>8 DEF AskOpens, AskResolves, AskAutoAnswered, Resumes, TypeOK, Activities
  <2> QED
    BY <1>8, <2>1, <2>3, <2>4
       DEF AskOpens, AskResolves, AskAutoAnswered, Resumes, TypeOK, WatchRecords
<1>9. CASE ChatCompletes(k)
  <2>0. t \in Bots
    BY <1>9 DEF ChatCompletes
  <2>1. PICK failed \in BOOLEAN :
          Drained([activity EXCEPT ![t] = IF failed \/ @ = "dead" THEN "dead"
                                          ELSE "idle"], Closed(turn, k))
    BY <1>9 DEF ChatCompletes
  <2>2. [activity EXCEPT ![t] = IF failed \/ @ = "dead" THEN "dead"
                                ELSE "idle"] \in [Bots -> Activities]
    BY DEF TypeOK, Activities
  <2>3. /\ activity' \in [Bots -> Activities]
        /\ turn' \in [Turns -> TurnRecords]
        /\ queue' \in [Bots -> 0 .. MaxQueue]
    BY <1>0, <2>1, <2>2, ClosedType, DrainedType DEF TypeOK
  <2>4. watch' \in [Threads -> WatchRecords]
    BY <1>9, UnwatchedType DEF ChatCompletes
  <2> QED
    BY <1>9, <2>3, <2>4 DEF ChatCompletes, TypeOK, WatchRecords
<1>10. CASE RoomCompletes(k)
  <2>0. t \in Rooms
    BY <1>10 DEF RoomCompletes
  <2> DEFINE a == [x \in Bots |-> IF x = owner[t] /\ activity[x] \in Busy
                                  THEN "idle" ELSE activity[x]]
  <2>1. a \in [Bots -> Activities]
    BY DEF TypeOK, Activities
  <2>2. Drained(a, Closed(turn, k))
    BY <1>10 DEF RoomCompletes
  <2>3. /\ activity' \in [Bots -> Activities]
        /\ turn' \in [Turns -> TurnRecords]
        /\ queue' \in [Bots -> 0 .. MaxQueue]
    BY <1>0, <2>1, <2>2, ClosedType, DrainedType DEF TypeOK
  <2>4. watch' \in [Threads -> WatchRecords]
    BY <1>10, UnwatchedType DEF RoomCompletes
  <2>5. room' \in [Rooms -> RoomRecords]
    BY <1>10, <2>0, SettlesType DEF RoomCompletes, TypeOK
  <2> QED
    BY <1>10, <2>0, <2>3, <2>4, <2>5 DEF RoomCompletes, TypeOK, WatchRecords
<1>11. CASE Dies(k)
  BY <1>11, <1>0, ClosedType DEF Dies, TypeOK
<1> QED
  BY <1>1, <1>2, <1>3, <1>4, <1>5, <1>6, <1>7, <1>8, <1>9, <1>10, <1>11 DEF TurnStep

LEMMA TypingStall ==
  ASSUME TypeOK, NEW t \in Threads, Stall(t)
  PROVE  TypeOK'
<1>1. Interrupted(turn, t) \in [Turns -> TurnRecords]
  BY InterruptedType DEF TypeOK
<1>2. t \in Rooms => GivesUp(t) \in RoomRecords
  BY GivesUpType
<1>3. room' \in [Rooms -> RoomRecords]
  BY <1>2 DEF Stall, TypeOK
<1>4. watch' \in [Threads -> WatchRecords]
  BY UnwatchedType DEF Stall
<1>5. watch[t].bot \in Bots
  BY DEF TypeOK, Stall
<1> QED
  BY <1>1, <1>3, <1>4, <1>5 DEF Stall, TypeOK, WatchRecords

\* Every reachable state of the turn engine is well typed: no handler leaves a
\* bot, a turn, a watchdog entry or a room in a state its type does not allow.
THEOREM Typing == Spec => []TypeOK
<1>1. Init => TypeOK
  <2> SUFFICES ASSUME Init PROVE TypeOK
    OBVIOUS
  <2>1. NoTurn \in TurnRecords
    BY TurnAssumption DEF NoTurn, TurnRecords, Stages
  <2> QED
    BY <2>1, IdleRoomType, TurnAssumption DEF Init, TypeOK, Activities, NoWatch
<1>2. TypeOK /\ [Next]_vars => TypeOK'
  <2> SUFFICES ASSUME TypeOK, [Next]_vars PROVE TypeOK'
    OBVIOUS
  <2>1. CASE UNCHANGED vars
    BY <2>1 DEF vars, TypeOK
  <2> QED
    BY <2>1, TypingChat, TypingRoom, TypingTurn, TypingStall DEF Next
<1> QED
  BY <1>1, <1>2, PTL DEF Spec

-----------------------------------------------------------------------------
(* Nothing held is left behind.  Every handler that makes a bot idle drains *)
(* the queues in the same step; the only other way to leave a message with  *)
(* an idle bot is the steer that answers late, which the assumption removes.*)

LEMMA DrainedStrandsNothing ==
  ASSUME TypeOK, NEW a \in [Bots -> Activities], NEW tu, Drained(a, tu)
  PROVE  NothingStranded'
<1> SUFFICES ASSUME NEW b \in Bots, queue'[b] > 0
             PROVE  activity'[b] \in Busy
  BY DEF NothingStranded
<1> DEFINE free == {x \in Bots : queue[x] > 0 /\ a[x] \notin Busy}
<1>1. activity'[b] = IF b \in free THEN "working" ELSE a[b]
  BY DEF Drained
<1>2. queue'[b] = IF b \in free THEN 0 ELSE queue[b]
  BY DEF Drained
<1>3. b \notin free
  BY <1>2
<1> QED
  BY <1>1, <1>2, <1>3

LEMMA BusyStrandsNothing ==
  ASSUME TypeOK, NothingStranded, queue' = queue,
         \A b \in Bots : activity[b] \in Busy => activity'[b] \in Busy
  PROVE  NothingStranded'
BY DEF NothingStranded

LEMMA ChatRejectedStrandsNothing ==
  ASSUME TypeOK, NEW k \in Turns, ChatRejected(k)
  PROVE  NothingStranded'
<1>1. [activity EXCEPT ![k[1]] = "idle"] \in [Bots -> Activities]
  BY DEF TypeOK, Activities
<1> QED
  BY <1>1, DrainedStrandsNothing DEF ChatRejected

\* steer-queue.ts: a message held for a busy bot is run when the bot settles,
\* whichever way it settles: with a provider that cannot steer, no fault of
\* provider, connected apps or watchdog leaves a message with an idle bot.
THEOREM NoMessageStranded ==
  ASSUME Steering = {}
  PROVE  Spec => []NothingStranded
<1> DEFINE Rest == steering = {} /\ NothingStranded
<1>1. Init => Rest
  BY DEF Init, NothingStranded
<1>2. TypeOK /\ Rest /\ [Next]_vars => Rest'
  <2> SUFFICES ASSUME TypeOK, Rest, [Next]_vars PROVE Rest'
    OBVIOUS
  <2>1. ASSUME NEW b \in Bots, BotStep(b) PROVE Rest'
    <3>1. CASE Send(b)
      BY <3>1, BusyStrandsNothing DEF Send, TypeOK, Busy
    <3>2. CASE SendBusy(b)
      BY <3>2 DEF SendBusy, Held, TypeOK, NothingStranded
    <3>3. CASE SteerAnswers(b)
      BY <3>3 DEF SteerAnswers
    <3>4. CASE Interrupt(b)
      BY <3>4, BusyStrandsNothing DEF Interrupt
    <3>5. ASSUME NEW t \in Threads, Released(b, t)
          PROVE  Rest'
      <4>1. [activity EXCEPT ![b] = "idle"] \in [Bots -> Activities]
        BY DEF TypeOK, Activities
      <4> QED
        BY <3>5, <4>1, DrainedStrandsNothing, BusyStrandsNothing DEF Released
    <3> QED
      BY <2>1, <3>1, <3>2, <3>3, <3>4, <3>5 DEF BotStep
  <2>2. ASSUME NEW r \in Rooms, RoomStep(r) PROVE Rest'
    <3>1. CASE RoomSend(r) \/ RoomNext(r) \/ RoomDone(r) \/ RoomTimesOut(r)
      BY <3>1, BusyStrandsNothing DEF RoomSend, RoomNext, RoomDone, RoomTimesOut
    <3>2. ASSUME NEW b \in Bots, MemberSkipped(r, b) \/ MemberBegins(r, b)
          PROVE  Rest'
      BY <3>2, BusyStrandsNothing
         DEF MemberSkipped, MemberBegins, Takes, TypeOK, Busy
    <3> QED
      BY <2>2, <3>1, <3>2 DEF RoomStep
  <2>3. ASSUME NEW k \in Turns, TurnStep(k) PROVE Rest'
    <3>0. k[1] \in Bots /\ turn[k].thread \in Threads \cup {None}
      BY TurnBot DEF TypeOK, TurnRecords
    <3>1. CASE SetupFails(k) \/ SendRejected(k)
      BY <3>1, ChatRejectedStrandsNothing DEF SetupFails, SendRejected, ChatRejected
    <3>2. CASE Launch(k) \/ Starts(k) \/ SendReturns(k) \/ ConnectFails(k) \/ Dies(k)
      BY <3>2, BusyStrandsNothing DEF Launch, Starts, SendReturns, ConnectFails, Dies
    <3>3. CASE MemberConnected(k)
      BY <3>3, BusyStrandsNothing DEF MemberConnected, Takes, TypeOK, Busy
    <3>4. CASE RoomRejected(k)
      <4> DEFINE r == turn[k].thread
                 a == IF owner[r] = k[1] /\ activity[k[1]] \in Busy
                      THEN [activity EXCEPT ![k[1]] = "idle"] ELSE activity
      <4>1. CASE room[r].current = k[1]
        <5>1. a \in [Bots -> Activities]
          BY DEF TypeOK, Activities
        <5>2. Drained(a, [turn EXCEPT ![k] = NoTurn])
          BY <3>4, <4>1 DEF RoomRejected
        <5> QED
          BY <3>4, <5>1, <5>2, DrainedStrandsNothing DEF RoomRejected
      <4>2. CASE room[r].current # k[1]
        BY <3>4, <4>2, BusyStrandsNothing DEF RoomRejected
      <4> QED
        BY <4>1, <4>2
    <3>5. CASE AskOpens(k) \/ AskResolves(k) \/ AskAutoAnswered(k)
      <4>1. \A b \in Bots : activity[b] \in Busy => activity'[b] \in Busy
        BY <3>5 DEF AskOpens, AskResolves, AskAutoAnswered, Resumes, Busy
      <4> QED
        BY <3>5, <4>1, BusyStrandsNothing
           DEF AskOpens, AskResolves, AskAutoAnswered, Resumes
    <3>6. CASE ChatCompletes(k)
      <4> DEFINE b == turn[k].thread
      <4>1. PICK failed \in BOOLEAN :
              Drained([activity EXCEPT ![b] = IF failed \/ @ = "dead" THEN "dead"
                                              ELSE "idle"], Closed(turn, k))
        BY <3>6 DEF ChatCompletes
      <4>2. [activity EXCEPT ![b] = IF failed \/ @ = "dead" THEN "dead"
                                    ELSE "idle"] \in [Bots -> Activities]
        BY DEF TypeOK, Activities
      <4> QED
        BY <3>6, <4>1, <4>2, DrainedStrandsNothing DEF ChatCompletes
    <3>7. CASE RoomCompletes(k)
      <4> DEFINE b == owner[turn[k].thread]
                 a == [x \in Bots |-> IF x = b /\ activity[x] \in Busy
                                      THEN "idle" ELSE activity[x]]
      <4>1. a \in [Bots -> Activities]
        BY DEF TypeOK, Activities
      <4>2. Drained(a, Closed(turn, k))
        BY <3>7 DEF RoomCompletes
      <4> QED
        BY <3>7, <4>1, <4>2, DrainedStrandsNothing DEF RoomCompletes
    <3> QED
      BY <2>3, <3>1, <3>2, <3>3, <3>4, <3>5, <3>6, <3>7 DEF TurnStep
  <2>4. ASSUME NEW t \in Threads, Stall(t) PROVE Rest'
    BY <2>4, BusyStrandsNothing DEF Stall
  <2>5. CASE UNCHANGED vars
    BY <2>5, BusyStrandsNothing DEF vars
  <2> QED
    BY <2>1, <2>2, <2>3, <2>4, <2>5 DEF Next
<1>3. Rest => NothingStranded
  OBVIOUS
<1> HIDE DEF Rest
<1> QED
  BY <1>1, <1>2, <1>3, Typing, PTL DEF Spec

-----------------------------------------------------------------------------
(* One turn per bot (TurnOwnership): what a live turn owns, kept by every  *)
(* handler as long as the providers are prompt.                            *)

\* A live turn owns its thread for its bot.
LEMMA LiveOwns ==
  ASSUME NEW a, NEW tu, NEW w, NEW g, NEW o, NEW rm, Ownership(a, tu, w, g, o, rm),
         NEW k \in Turns, tu[k].stage \in Live
  PROVE  /\ tu[k].thread \in Threads
         /\ OwnsIn(tu, g, k[1], tu[k].thread)
         /\ a[k[1]] \in Busy
<1>1. k[1] \in Bots
  BY TurnBot
<1>2. tu[k].thread \in Threads
  BY <1>1 DEF Ownership, StagesIn, Threads, Live, AtAdapter
<1>3. OwnsIn(tu, g, k[1], tu[k].thread)
  BY DEF OwnsIn, HasLive
<1> QED
  BY <1>1, <1>2, <1>3 DEF Ownership, BusyIn

\* Turns keep their threads, and which of them are live: whose they are, and
\* what they own, does not change.
LEMMA SameLive ==
  ASSUME NEW a, NEW a2, NEW tu, NEW tu2, NEW g, NEW o,
         OneTurnIn(tu), BusyIn(a, tu, g), OwnerIn(tu, g, o),
         \A k \in Turns : /\ tu2[k].thread = tu[k].thread
                          /\ tu2[k].stage \in Live <=> tu[k].stage \in Live,
         \A b \in Bots : a2[b] \in Busy <=> a[b] \in Busy
  PROVE  OneTurnIn(tu2) /\ BusyIn(a2, tu2, g) /\ OwnerIn(tu2, g, o)
<1>1. OneTurnIn(tu2)
  BY DEF OneTurnIn
<1>2. \A b, t : OwnsIn(tu2, g, b, t) <=> OwnsIn(tu, g, b, t)
  BY DEF OwnsIn, HasLive
<1>3. BusyIn(a2, tu2, g)
  BY <1>2 DEF BusyIn
<1>4. OwnerIn(tu2, g, o)
  BY <1>2 DEF OwnerIn
<1> QED
  BY <1>1, <1>3, <1>4

\* Starting a chat turn for bots that are not busy.
Opens(free, a, tu, a2, tu2) ==
  /\ \A b \in free : a[b] \notin Busy /\ HasSlot(tu, b)
  /\ \A b \in Bots : a2[b] = IF b \in free THEN "working" ELSE a[b]
  /\ \A k \in Turns : tu2[k] = IF k[1] \in free /\ k = NextTurn(tu, k[1])
                               THEN Opened(k[1], "setup") ELSE tu[k]

LEMMA StartKeeps ==
  ASSUME NEW a, NEW tu, NEW w, NEW g \in SUBSET (Bots \X Threads), NEW o, NEW rm,
         Ownership(a, tu, w, g, o, rm),
         NEW free \in SUBSET Bots, NEW a2, NEW tu2, Opens(free, a, tu, a2, tu2)
  PROVE  Ownership(a2, tu2, w, g, o, rm)
<1> USE DEF Opens
<1> DEFINE S(k) == k[1] \in free /\ k = NextTurn(tu, k[1])
<1>1. ASSUME NEW k \in Turns
      PROVE  /\ ~S(k) => tu2[k] = tu[k]
             /\ S(k) => /\ tu2[k].thread = k[1] /\ tu2[k].stage = "setup"
                        /\ tu2[k].sending = FALSE /\ tu[k].stage = "none"
  <2>1. CASE S(k)
    <3>1. tu2[k] = Opened(k[1], "setup")
      BY <2>1
    <3>2. HasSlot(tu, k[1]) /\ k[1] \in Bots
      BY <2>1, TurnBot
    <3>3. tu[k].stage = "none"
      BY <2>1, <3>2, FreeSlot
    <3> QED
      BY <2>1, <3>1, <3>3 DEF Opened
  <2>2. CASE ~S(k)
    BY <2>2
  <2> QED
    BY <2>1, <2>2
<1>2. ASSUME NEW k \in Turns, k[1] \in free
      PROVE  tu[k].stage \notin Live
  BY <1>2, LiveOwns
<1>3. ASSUME NEW b \in free
      PROVE  /\ NextTurn(tu, b) \in Turns /\ NextTurn(tu, b)[1] = b
             /\ S(NextTurn(tu, b))
             /\ \A x \in g : x[1] # b
  <2>1. \A x \in g : x[1] = b => a[b] \in Busy
    BY DEF Ownership, BusyIn, OwnsIn
  <2> QED
    BY <2>1, FreeSlot
<1>4. OneTurnIn(tu2)
  BY <1>1, <1>2 DEF Ownership, OneTurnIn
<1>5. ASSUME NEW b \in Bots, NEW t
      PROVE  OwnsIn(tu2, g, b, t) <=> OwnsIn(tu, g, b, t) \/ (b \in free /\ t = b)
  <2>1. CASE b \in free
    <3> DEFINE n == NextTurn(tu, b)
    <3>0. /\ n \in Turns /\ n[1] = b /\ S(n)
      BY <2>1, <1>3
    <3>n. tu2[n].thread = b /\ tu2[n].stage \in Live
      BY <3>0, <1>1 DEF Live
    <3>1. HasLive(tu2, b, b)
      BY <3>0, <3>n DEF HasLive
    <3>2. HasLive(tu2, b, t) => t = b
      BY <2>1, <1>1, <1>2 DEF HasLive
    <3>3. ~HasLive(tu, b, t)
      BY <2>1, <1>2 DEF HasLive
    <3> QED
      BY <2>1, <3>1, <3>2, <3>3 DEF OwnsIn
  <2>2. CASE b \notin free
    BY <2>2, <1>1 DEF OwnsIn, HasLive
  <2> QED
    BY <2>1, <2>2
<1>6. BusyIn(a2, tu2, g)
  <2> SUFFICES ASSUME NEW b \in Bots
               PROVE  a2[b] \in Busy <=> \E t \in Threads : OwnsIn(tu2, g, b, t)
    BY DEF BusyIn
  <2>1. a[b] \in Busy <=> \E t \in Threads : OwnsIn(tu, g, b, t)
    BY DEF Ownership, BusyIn
  <2>2. CASE b \in free
    BY <2>2, <1>5 DEF Busy, Threads
  <2>3. CASE b \notin free
    BY <2>1, <2>3, <1>5
  <2> QED
    BY <2>2, <2>3
<1>7. OwnerIn(tu2, g, o)
  BY <1>5, TurnAssumption DEF Ownership, OwnerIn
<1>8. StagesIn(tu2)
  <2> SUFFICES ASSUME NEW k \in Turns
               PROVE  /\ tu2[k].stage \notin {"connecting", "refused", "over"}
                      /\ tu2[k].sending => tu2[k].stage = "launching"
                      /\ tu2[k].stage # "none"
                         => tu2[k].thread = k[1] \/ tu2[k].thread \in Rooms
                      /\ tu2[k].stage = "setup" => tu2[k].thread = k[1]
    BY DEF StagesIn
  <2>1. CASE S(k)
    BY <2>1, <1>1
  <2>2. CASE ~S(k)
    BY <2>2, <1>1 DEF Ownership, StagesIn
  <2> QED
    BY <2>1, <2>2
<1>9. GraceIn(tu2, w, g, rm)
  BY <1>1, <1>3 DEF Ownership, GraceIn
<1>10. WatchIn(tu2, w)
  <2> HIDE DEF S
  <2>1. \A k \in Turns :
          \/ tu2[k] = tu[k]
          \/ tu[k].stage = "none" /\ tu2[k].stage = "setup"
    BY <1>1
  <2> QED
    BY <2>1 DEF Ownership, WatchIn
<1>11. RoomIn(tu2, o, rm)
  BY <1>1 DEF Ownership, RoomIn
<1> QED
  BY <1>4, <1>6, <1>7, <1>8, <1>9, <1>10, <1>11 DEF Ownership

LEMMA DrainKeeps ==
  ASSUME NEW a, NEW tu, NEW w, NEW g \in SUBSET (Bots \X Threads), NEW o, NEW rm,
         Ownership(a, tu, w, g, o, rm), Drained(a, tu)
  PROVE  Ownership(activity', turn', w, g, o, rm)
<1> SUFFICES ASSUME NEW a2, a2 = activity', NEW tu2, tu2 = turn'
             PROVE  Ownership(a2, tu2, w, g, o, rm)
  OBVIOUS
<1>0. PICK free \in SUBSET Bots :
        free = {b \in Bots : queue[b] > 0 /\ a[b] \notin Busy}
  OBVIOUS
<1>1. \A b \in free : a[b] \notin Busy /\ HasSlot(tu, b)
  BY <1>0 DEF Drained
<1>2. \A b \in Bots : a2[b] = IF b \in free THEN "working" ELSE a[b]
  BY <1>0 DEF Drained
<1>3. \A k \in Turns :
        tu2[k] = IF k[1] \in free /\ k = NextTurn(tu, k[1])
                 THEN Opened(k[1], "setup") ELSE tu[k]
  BY <1>0 DEF Drained
<1>4. Opens(free, a, tu, a2, tu2)
  BY <1>1, <1>2, <1>3 DEF Opens
<1> QED
  BY <1>4, StartKeeps

\* A turn ends: the bot is free, its thread is unwatched, and a room it spoke
\* in has no owner and waits for nobody.
Ends(k, a, tu, w, o, rm, a2, tu2, w2, o2, rm2) ==
  /\ a2[k[1]] \notin Busy
  /\ \A b \in Bots : b # k[1] => a2[b] = a[b]
  /\ tu2 = [tu EXCEPT ![k] = NoTurn]
  /\ w2 = [w EXCEPT ![tu[k].thread] = NoWatch]
  /\ \A r \in Rooms : o2[r] = IF r = tu[k].thread THEN None ELSE o[r]
  /\ \A r \in Rooms : r # tu[k].thread => rm2[r] = rm[r]
  /\ \A r \in Rooms : r = tu[k].thread => rm2[r].current = None

LEMMA FinishKeeps ==
  ASSUME NEW a, NEW tu \in [Turns -> TurnRecords], NEW w \in [Threads -> WatchRecords],
         NEW g \in SUBSET (Bots \X Threads),
         NEW o \in [Rooms -> Bots \cup {None}], NEW rm,
         Ownership(a, tu, w, g, o, rm),
         NEW k \in Turns, tu[k].stage \in Live, \A x \in g : x[1] # k[1],
         NEW a2, NEW tu2, NEW w2, NEW o2, NEW rm2,
         Ends(k, a, tu, w, o, rm, a2, tu2, w2, o2, rm2)
  PROVE  Ownership(a2, tu2, w2, g, o2, rm2)
<1> USE DEF Ends
<1> DEFINE t == tu[k].thread
<1>0. /\ t \in Threads /\ k[1] \in Bots
      /\ tu2[k] = NoTurn /\ \A j \in Turns : j # k => tu2[j] = tu[j]
  BY LiveOwns, TurnBot
<1>n. /\ NoTurn.stage = "none" /\ NoTurn.stage \notin Live /\ ~NoTurn.sending
      /\ NoWatch.bot = None /\ None \notin Bots /\ None \notin Rooms
  BY TurnAssumption DEF NoTurn, Live, AtAdapter, NoWatch
<1>1. ASSUME NEW j \in Turns, tu[j].stage \in Live, j # k
      PROVE  j[1] # k[1] /\ tu[j].thread # t
  <2>1. j[1] # k[1]
    BY <1>1 DEF Ownership, OneTurnIn
  <2>2. CASE t \in Rooms
    <3>1. o[t] = k[1]
      BY <1>0, <2>2, LiveOwns DEF Ownership, OwnerIn
    <3>2. tu[j].thread = t => o[t] = j[1]
      BY <1>1, <2>2, LiveOwns, TurnBot DEF Ownership, OwnerIn
    <3> QED
      BY <2>1, <3>1, <3>2
  <2>3. CASE t \notin Rooms
    <3>1. t = k[1] /\ (tu[j].thread = j[1] \/ tu[j].thread \in Rooms)
      BY <1>1, <2>3 DEF Ownership, StagesIn, Live, AtAdapter
    <3> QED
      BY <2>1, <2>3, <3>1
  <2> QED
    BY <2>2, <2>3
<1>2. OneTurnIn(tu2)
  BY <1>0, <1>n DEF Ownership, OneTurnIn
<1>3. ASSUME NEW b \in Bots, NEW x
      PROVE  OwnsIn(tu2, g, b, x) <=> b # k[1] /\ OwnsIn(tu, g, b, x)
  <2>1. CASE b = k[1]
    <3>1. ~HasLive(tu2, b, x)
      BY <1>0, <1>n, <1>1, <2>1 DEF HasLive
    <3>2. <<b, x>> \notin g
      BY <2>1
    <3> QED
      BY <2>1, <3>1, <3>2 DEF OwnsIn
  <2>2. CASE b # k[1]
    BY <1>0, <1>n, <2>2 DEF OwnsIn, HasLive
  <2> QED
    BY <2>1, <2>2
<1>4. BusyIn(a2, tu2, g)
  <2> SUFFICES ASSUME NEW b \in Bots
               PROVE  a2[b] \in Busy <=> \E x \in Threads : OwnsIn(tu2, g, b, x)
    BY DEF BusyIn
  <2>1. a[b] \in Busy <=> \E x \in Threads : OwnsIn(tu, g, b, x)
    BY DEF Ownership, BusyIn
  <2> QED
    BY <1>3, <2>1
<1>5. OwnerIn(tu2, g, o2)
  <2> SUFFICES ASSUME NEW r \in Rooms, NEW b \in Bots
               PROVE  o2[r] = b <=> OwnsIn(tu2, g, b, r)
    BY DEF OwnerIn
  <2>0. r \in Threads
    BY DEF Threads
  <2>1. o[r] = b <=> OwnsIn(tu, g, b, r)
    BY DEF Ownership, OwnerIn
  <2>2. CASE r = t
    <3>1. o[r] = k[1]
      BY <1>0, <2>2, LiveOwns DEF Ownership, OwnerIn
    <3> QED
      BY <1>n, <1>3, <2>1, <2>2, <3>1
  <2>3. CASE r # t
    <3>1. o[r] # k[1]
      <4>1. ~HasLive(tu, k[1], r)
        BY <1>1, <2>3 DEF HasLive
      <4>2. ~OwnsIn(tu, g, k[1], r)
        BY <4>1 DEF OwnsIn
      <4> QED
        BY <1>0, <4>2 DEF Ownership, OwnerIn
    <3> QED
      BY <1>3, <2>1, <2>3, <3>1
  <2> QED
    BY <2>2, <2>3
<1>6. StagesIn(tu2)
  BY <1>0, <1>n DEF Ownership, StagesIn
<1>7. GraceIn(tu2, w2, g, rm2)
  <2> SUFFICES ASSUME NEW x \in g
               PROVE  /\ x[2] = x[1] \/ x[2] \in Rooms
                      /\ w2[x[2]].bot = None
                      /\ x[2] \in Rooms => rm2[x[2]].current = None
                      /\ \A y \in g : y[1] = x[1] => y = x
                      /\ \A j \in Turns : j[1] = x[1] /\ tu2[j].stage \in Live
                            => tu2[j].stage = "ending" /\ tu2[j].thread = x[2]
    BY DEF GraceIn
  <2>1. w[x[2]].bot = None /\ (x[2] \in Rooms => rm[x[2]].current = None)
    BY DEF Ownership, GraceIn
  <2>2. w2[x[2]].bot = None
    BY <2>1, <1>n
  <2>3. x[2] \in Rooms => rm2[x[2]].current = None
    BY <2>1
  <2> QED
    BY <1>0, <1>n, <2>2, <2>3 DEF Ownership, GraceIn
<1>8. WatchIn(tu2, w2)
  <2>1. ASSUME NEW x \in Threads, w2[x].bot # None
        PROVE  \E j \in Turns : /\ j[1] = w2[x].bot /\ tu2[j].thread = x
                               /\ tu2[j].stage \in {"launching", "running", "ending"}
    <3>1. x # t /\ w2[x] = w[x]
      BY <1>0, <1>n, <2>1
    <3>2. PICK j \in Turns : /\ j[1] = w[x].bot /\ tu[j].thread = x
                            /\ tu[j].stage \in {"launching", "running", "ending"}
      BY <2>1, <3>1 DEF Ownership, WatchIn
    <3> QED
      BY <1>0, <3>1, <3>2
  <2>2. ASSUME NEW j \in Turns, tu2[j].stage \in {"launching", "running"}
        PROVE  w2[tu2[j].thread].bot = j[1]
    <3>1. j # k /\ tu2[j] = tu[j]
      BY <1>0, <1>n, <2>2
    <3>2. tu[j].thread # t
      BY <1>1, <2>2, <3>1 DEF Live, AtAdapter
    <3>3. tu[j].thread \in Threads
      BY <2>2, <3>1, LiveOwns DEF Live, AtAdapter
    <3>4. w[tu[j].thread].bot = j[1]
      BY <2>2, <3>1 DEF Ownership, WatchIn
    <3> QED
      BY <3>1, <3>2, <3>3, <3>4
  <2> QED
    BY <2>1, <2>2 DEF WatchIn
<1>9. RoomIn(tu2, o2, rm2)
  <2>1. ASSUME NEW r \in Rooms
        PROVE  /\ o2[r] # None => \/ rm2[r].current = o2[r]
                                  \/ rm2[r].direct = {} /\ rm2[r].chained = {}
               /\ rm2[r].current # None => o2[r] = rm2[r].current
    BY DEF Ownership, RoomIn
  <2>2. ASSUME NEW j \in Turns, tu2[j].stage = "launching", tu2[j].thread \in Rooms
        PROVE  rm2[tu2[j].thread].current = j[1]
    <3>1. j # k /\ tu2[j] = tu[j]
      BY <1>0, <1>n, <2>2
    <3>2. tu[j].thread # t
      BY <1>1, <2>2, <3>1 DEF Live
    <3> QED
      BY <2>2, <3>1, <3>2 DEF Ownership, RoomIn
  <2> QED
    BY <2>1, <2>2 DEF RoomIn
<1> QED
  BY <1>2, <1>4, <1>5, <1>6, <1>7, <1>8, <1>9 DEF Ownership

\* At most one live turn is on a thread.
LEMMA ThreadUnique ==
  ASSUME NEW a, NEW tu, NEW w, NEW g, NEW o, NEW rm, Ownership(a, tu, w, g, o, rm),
         NEW j \in Turns, NEW k \in Turns,
         tu[j].stage \in Live, tu[k].stage \in Live, tu[j].thread = tu[k].thread
  PROVE  j = k
<1>1. k[1] \in Bots /\ j[1] \in Bots
  BY TurnBot
<1>2. /\ OwnsIn(tu, g, k[1], tu[k].thread)
      /\ OwnsIn(tu, g, j[1], tu[k].thread)
  BY LiveOwns
<1>3. j[1] = k[1]
  <2>1. CASE tu[k].thread \in Rooms
    <3>1. o[tu[k].thread] = k[1] /\ o[tu[k].thread] = j[1]
      BY <1>1, <1>2, <2>1 DEF Ownership, OwnerIn
    <3> QED
      BY <3>1
  <2>2. CASE tu[k].thread \notin Rooms
    BY <2>2 DEF Ownership, StagesIn, Live, AtAdapter
  <2> QED
    BY <2>1, <2>2
<1> QED
  BY <1>3 DEF Ownership, OneTurnIn

\* Running turns are told to stop, and rooms with nothing in the launch give
\* their message up.
Stops(tu, tu2, rm, rm2) ==
  /\ \A k \in Turns : \/ tu2[k] = tu[k]
                      \/ /\ tu[k].stage = "running"
                         /\ tu2[k] = [tu[k] EXCEPT !.stage = "ending"]
  /\ \A r \in Rooms :
       \/ rm2[r] = rm[r]
       \/ /\ rm2[r].current = None /\ rm2[r].direct = {} /\ rm2[r].chained = {}
          /\ \A k \in Turns : tu[k].thread = r => tu[k].stage # "launching"

LEMMA StopKeeps ==
  ASSUME NEW a, NEW tu \in [Turns -> TurnRecords], NEW w, NEW g, NEW o, NEW rm,
         Ownership(a, tu, w, g, o, rm),
         NEW tu2, NEW rm2, Stops(tu, tu2, rm, rm2)
  PROVE  Ownership(a, tu2, w, g, o, rm2)
<1> USE DEF Stops
<1>1. ASSUME NEW k \in Turns
      PROVE  /\ tu2[k].thread = tu[k].thread /\ tu2[k].sending = tu[k].sending
             /\ \/ tu2[k].stage = tu[k].stage
                \/ tu[k].stage = "running" /\ tu2[k].stage = "ending"
  <2>1. [tu[k] EXCEPT !.stage = "ending"].thread = tu[k].thread
        /\ [tu[k] EXCEPT !.stage = "ending"].sending = tu[k].sending
        /\ [tu[k] EXCEPT !.stage = "ending"].stage = "ending"
    BY DEF TurnRecords
  <2> QED
    BY <2>1
<1>2. \A k \in Turns : tu2[k].stage \in Live <=> tu[k].stage \in Live
  BY <1>1 DEF Live, AtAdapter
<1>3. OneTurnIn(tu2) /\ BusyIn(a, tu2, g) /\ OwnerIn(tu2, g, o)
  BY <1>1, <1>2, SameLive DEF Ownership
<1>4. StagesIn(tu2)
  BY <1>1 DEF Ownership, StagesIn
<1>5. GraceIn(tu2, w, g, rm2)
  BY <1>1, <1>2 DEF Ownership, GraceIn
<1>6. WatchIn(tu2, w)
  <2>1. \A k \in Turns : tu[k].stage \in {"launching", "running", "ending"}
                         => tu2[k].stage \in {"launching", "running", "ending"}
    BY <1>1
  <2>2. ASSUME NEW t \in Threads, w[t].bot # None
        PROVE  \E k \in Turns : /\ k[1] = w[t].bot /\ tu2[k].thread = t
                                /\ tu2[k].stage \in {"launching", "running", "ending"}
    <3>1. PICK k \in Turns : /\ k[1] = w[t].bot /\ tu[k].thread = t
                            /\ tu[k].stage \in {"launching", "running", "ending"}
      BY <2>2 DEF Ownership, WatchIn
    <3> QED
      BY <1>1, <2>1, <3>1
  <2>3. \A k \in Turns : tu2[k].stage \in {"launching", "running"}
                         => w[tu2[k].thread].bot = k[1]
    BY <1>1 DEF Ownership, WatchIn
  <2> QED
    BY <2>2, <2>3 DEF WatchIn
<1>7. RoomIn(tu2, o, rm2)
  <2>1. ASSUME NEW r \in Rooms
        PROVE  /\ o[r] # None => \/ rm2[r].current = o[r]
                                 \/ rm2[r].direct = {} /\ rm2[r].chained = {}
               /\ rm2[r].current # None => o[r] = rm2[r].current
    BY DEF Ownership, RoomIn
  <2>2. ASSUME NEW k \in Turns, tu2[k].stage = "launching", tu2[k].thread \in Rooms
        PROVE  rm2[tu2[k].thread].current = k[1]
    <3>1. tu[k].stage = "launching" /\ tu2[k].thread = tu[k].thread
      BY <1>1, <2>2
    <3>2. rm2[tu[k].thread] = rm[tu[k].thread]
      BY <2>2, <3>1
    <3> QED
      BY <2>2, <3>1, <3>2 DEF Ownership, RoomIn
  <2> QED
    BY <2>1, <2>2 DEF RoomIn
<1> QED
  BY <1>3, <1>4, <1>5, <1>6, <1>7 DEF Ownership

\* The release timer of a turn that was told to stop is armed.
Arms(k, tu, w, g, rm, w2, g2) ==
  /\ tu[k].stage = "ending"
  /\ \A x \in g : x[1] # k[1] /\ x[2] # tu[k].thread
  /\ tu[k].thread \in Rooms => rm[tu[k].thread].current = None
  /\ w2 = [w EXCEPT ![tu[k].thread] = NoWatch]
  /\ g2 = g \cup {<<k[1], tu[k].thread>>}

LEMMA ArmKeeps ==
  ASSUME NEW a, NEW tu, NEW w \in [Threads -> WatchRecords],
         NEW g \in SUBSET (Bots \X Threads), NEW o, NEW rm,
         Ownership(a, tu, w, g, o, rm),
         NEW k \in Turns, NEW w2, NEW g2, Arms(k, tu, w, g, rm, w2, g2)
  PROVE  Ownership(a, tu, w2, g2, o, rm)
<1> USE DEF Arms
<1> DEFINE t == tu[k].thread
<1>0. /\ t \in Threads /\ k[1] \in Bots /\ NoWatch.bot = None
      /\ tu[k].stage \in Live
      /\ t = k[1] \/ t \in Rooms
  BY LiveOwns, TurnBot DEF Live, AtAdapter, NoWatch, Ownership, StagesIn
<1>1. ASSUME NEW j \in Turns, tu[j].stage \in Live, j # k
      PROVE  j[1] # k[1] /\ tu[j].thread # t
  BY <1>0, <1>1, ThreadUnique DEF Ownership, OneTurnIn
<1>2. \A b, x : OwnsIn(tu, g2, b, x) <=> OwnsIn(tu, g, b, x)
  <2>1. HasLive(tu, k[1], t)
    BY <1>0 DEF HasLive
  <2> QED
    BY <2>1 DEF OwnsIn
<1>3. BusyIn(a, tu, g2) /\ OwnerIn(tu, g2, o)
  BY <1>2 DEF Ownership, BusyIn, OwnerIn
<1>4. GraceIn(tu, w2, g2, rm)
  <2> SUFFICES ASSUME NEW x \in g2
               PROVE  /\ x[2] = x[1] \/ x[2] \in Rooms
                      /\ w2[x[2]].bot = None
                      /\ x[2] \in Rooms => rm[x[2]].current = None
                      /\ \A y \in g2 : y[1] = x[1] => y = x
                      /\ \A j \in Turns : j[1] = x[1] /\ tu[j].stage \in Live
                            => tu[j].stage = "ending" /\ tu[j].thread = x[2]
    BY DEF GraceIn
  <2>1. CASE x = <<k[1], t>>
    <3>1. \A j \in Turns : j[1] = x[1] /\ tu[j].stage \in Live
            => tu[j].stage = "ending" /\ tu[j].thread = x[2]
      BY <1>1, <2>1
    <3> QED
      BY <1>0, <2>1, <3>1
  <2>2. CASE x \in g
    <3>1. x[2] # t /\ w[x[2]].bot = None
      BY <2>2 DEF Ownership, GraceIn
    <3>2. w2[x[2]].bot = None
      BY <2>2, <3>1
    <3>3. \A y \in g2 : y[1] = x[1] => y = x
      BY <2>2 DEF Ownership, GraceIn
    <3> QED
      BY <2>2, <3>2, <3>3 DEF Ownership, GraceIn
  <2> QED
    BY <2>1, <2>2
<1>5. WatchIn(tu, w2)
  <2>1. ASSUME NEW x \in Threads, w2[x].bot # None
        PROVE  \E j \in Turns : /\ j[1] = w2[x].bot /\ tu[j].thread = x
                               /\ tu[j].stage \in {"launching", "running", "ending"}
    <3>1. w2[x] = w[x]
      BY <1>0, <2>1
    <3> QED
      BY <2>1, <3>1 DEF Ownership, WatchIn
  <2>2. ASSUME NEW j \in Turns, tu[j].stage \in {"launching", "running"}
        PROVE  w2[tu[j].thread].bot = j[1]
    <3>1. tu[j].thread # t /\ tu[j].thread \in Threads
      BY <1>1, <2>2, LiveOwns DEF Live, AtAdapter
    <3>2. w[tu[j].thread].bot = j[1]
      BY <2>2 DEF Ownership, WatchIn
    <3> QED
      BY <3>1, <3>2
  <2> QED
    BY <2>1, <2>2 DEF WatchIn
<1> QED
  BY <1>3, <1>4, <1>5 DEF Ownership

\* A step that leaves threads, stages, owners and what rooms wait for alone.
Still(a, a2, tu, tu2, w, w2) ==
  /\ \A b \in Bots : a2[b] \in Busy <=> a[b] \in Busy
  /\ \A k \in Turns : /\ tu2[k].thread = tu[k].thread
                      /\ tu2[k].stage = tu[k].stage
                      /\ tu2[k].sending = tu[k].sending
  /\ \A t \in Threads : w2[t].bot = w[t].bot

LEMMA StillKeeps ==
  ASSUME NEW a, NEW tu, NEW w, NEW g, NEW o, NEW rm, Ownership(a, tu, w, g, o, rm),
         NEW a2, NEW tu2, NEW w2, Still(a, a2, tu, tu2, w, w2),
         g \in SUBSET (Bots \X Threads)
  PROVE  Ownership(a2, tu2, w2, g, o, rm)
<1> USE DEF Still
<1>1. OneTurnIn(tu2) /\ BusyIn(a2, tu2, g) /\ OwnerIn(tu2, g, o)
  BY SameLive DEF Ownership
<1>2. StagesIn(tu2)
  BY DEF Ownership, StagesIn
<1>3. GraceIn(tu2, w2, g, rm)
  <2>1. \A x \in g : w2[x[2]].bot = w[x[2]].bot
    OBVIOUS
  <2> QED
    BY <2>1 DEF Ownership, GraceIn
<1>4. WatchIn(tu2, w2)
  <2>1. ASSUME NEW t \in Threads, w2[t].bot # None
        PROVE  \E k \in Turns : /\ k[1] = w2[t].bot /\ tu2[k].thread = t
                                /\ tu2[k].stage \in {"launching", "running", "ending"}
    <3>1. PICK k \in Turns : /\ k[1] = w[t].bot /\ tu[k].thread = t
                            /\ tu[k].stage \in {"launching", "running", "ending"}
      BY <2>1 DEF Ownership, WatchIn
    <3> QED
      BY <3>1
  <2>2. ASSUME NEW k \in Turns, tu2[k].stage \in {"launching", "running"}
        PROVE  w2[tu2[k].thread].bot = k[1]
    <3>1. tu[k].thread \in Threads /\ w[tu[k].thread].bot = k[1]
      BY <2>2, LiveOwns DEF Ownership, WatchIn, Live, AtAdapter
    <3> QED
      BY <3>1
  <2> QED
    BY <2>1, <2>2 DEF WatchIn
<1>5. RoomIn(tu2, o, rm)
  BY DEF Ownership, RoomIn
<1> QED
  BY <1>1, <1>2, <1>3, <1>4, <1>5 DEF Ownership

\* A step of a room's chain that changes neither whom it waits for nor, while
\* it has an owner, revives a message it gave up.
LEMMA ChainKeeps ==
  ASSUME NEW a, NEW tu, NEW w, NEW g, NEW o, NEW rm, Ownership(a, tu, w, g, o, rm),
         g \in SUBSET (Bots \X Threads),
         NEW rm2,
         \A r \in Rooms : rm2[r].current = rm[r].current,
         \A r \in Rooms :
           \/ o[r] = None
           \/ ~(rm[r].direct = {} /\ rm[r].chained = {})
           \/ rm2[r].direct = {} /\ rm2[r].chained = {}
  PROVE  Ownership(a, tu, w, g, o, rm2)
<1>1. GraceIn(tu, w, g, rm2)
  BY DEF Ownership, GraceIn
<1>2. RoomIn(tu, o, rm2)
  BY DEF Ownership, RoomIn
<1> QED
  BY <1>1, <1>2 DEF Ownership

\* The finish of a turn and the drain behind it, which together end most
\* handlers.
LEMMA FinishDrainKeeps ==
  ASSUME TypeOK, Owned,
         NEW k \in Turns, turn[k].stage \in Live, \A x \in grace : x[1] # k[1],
         NEW a2, a2[k[1]] \notin Busy,
         \A b \in Bots : b # k[1] => a2[b] = activity[b],
         Drained(a2, [turn EXCEPT ![k] = NoTurn]),
         Unwatched(turn[k].thread),
         NEW o2, \A r \in Rooms : o2[r] = IF r = turn[k].thread THEN None ELSE owner[r],
         NEW rm2, \A r \in Rooms : r # turn[k].thread => rm2[r] = room[r],
         \A r \in Rooms : r = turn[k].thread => rm2[r].current = None
  PROVE  Ownership(activity', turn', watch', grace, o2, rm2)
<1> SUFFICES ASSUME NEW w2, w2 = watch'
             PROVE  Ownership(activity', turn', w2, grace, o2, rm2)
  OBVIOUS
<1>1. /\ turn \in [Turns -> TurnRecords]
      /\ watch \in [Threads -> WatchRecords]
      /\ grace \in SUBSET (Bots \X Threads)
      /\ owner \in [Rooms -> Bots \cup {None}]
  BY DEF TypeOK, WatchRecords
<1>2. w2 = [watch EXCEPT ![turn[k].thread] = NoWatch]
  BY DEF Unwatched
<1>3. PICK tu2 : tu2 = [turn EXCEPT ![k] = NoTurn]
  OBVIOUS
<1>e. Ends(k, activity, turn, watch, owner, room, a2, tu2, w2, o2, rm2)
  BY <1>2, <1>3 DEF Ends
<1>4. Ownership(a2, tu2, w2, grace, o2, rm2)
  BY <1>1, <1>e, FinishKeeps DEF Owned
<1> QED
  BY <1>1, <1>3, <1>4, DrainKeeps

\* A chat turn that could not be dispatched.
LEMMA OwnedRejected ==
  ASSUME TypeOK, Owned, NEW k \in Turns, ChatRejected(k),
         turn[k].stage \in {"setup", "launching"}, turn[k].thread = k[1]
  PROVE  Owned'
<1>0. k[1] \in Bots /\ k[1] \notin Rooms /\ turn[k].stage \in Live
  BY TurnBot, TurnAssumption DEF Live
<1>1. \A x \in grace : x[1] # k[1]
  BY <1>0 DEF Owned, Ownership, GraceIn
<1>2. PICK a2 : a2 = [activity EXCEPT ![k[1]] = "idle"]
  OBVIOUS
<1>3. a2[k[1]] \notin Busy /\ \A b \in Bots : b # k[1] => a2[b] = activity[b]
  BY <1>0, <1>2 DEF TypeOK, Busy
<1>4. /\ Drained(a2, [turn EXCEPT ![k] = NoTurn]) /\ Unwatched(turn[k].thread)
      /\ grace' = grace /\ owner' = owner /\ room' = room
  BY <1>2 DEF ChatRejected
<1>5. \A r \in Rooms : owner[r] = IF r = turn[k].thread THEN None ELSE owner[r]
  BY <1>0
<1>6. Ownership(activity', turn', watch', grace, owner, room)
  BY <1>0, <1>1, <1>3, <1>4, <1>5, FinishDrainKeeps
<1> QED
  BY <1>4, <1>6 DEF Owned

\* A release timer fires: the stopped turn is gone, so its bot owns nothing.
LEMMA ReleasedKeeps ==
  ASSUME TypeOK, Owned, NEW b \in Bots, NEW t \in Threads, Released(b, t)
  PROVE  Owned'
<1> DEFINE g2 == grace \ {<<b, t>>}
<1>0. /\ <<b, t>> \in grace /\ grace \in SUBSET (Bots \X Threads)
      /\ OneTurnIn(turn) /\ BusyIn(activity, turn, grace) /\ OwnerIn(turn, grace, owner)
      /\ StagesIn(turn) /\ GraceIn(turn, watch, grace, room)
      /\ WatchIn(turn, watch) /\ RoomIn(turn, owner, room)
  BY DEF Released, TypeOK, Owned, Ownership
<1>1. \A k \in Turns : k[1] = b => turn[k].stage \notin Live
  BY <1>0 DEF Released, TurnsOf, GraceIn
<1>2. \A x \in grace : x[1] = b => x = <<b, t>>
  BY <1>0 DEF GraceIn
<1>3. ASSUME NEW x \in Bots, NEW y
      PROVE  OwnsIn(turn, g2, x, y) <=> x # b /\ OwnsIn(turn, grace, x, y)
  BY <1>1, <1>2 DEF OwnsIn, HasLive
<1>4. activity[b] \in Busy
  BY <1>0 DEF BusyIn, OwnsIn
<1>5. PICK a2 : a2 = [activity EXCEPT ![b] = "idle"]
  OBVIOUS
<1>6. PICK o2 : o2 = owner'
  OBVIOUS
<1>7. \A r \in Rooms : o2[r] = IF r = t /\ owner[r] = b THEN None ELSE owner[r]
  BY <1>6 DEF Released
<1>8. BusyIn(a2, turn, g2)
  <2> SUFFICES ASSUME NEW x \in Bots
               PROVE  a2[x] \in Busy <=> \E y \in Threads : OwnsIn(turn, g2, x, y)
    BY DEF BusyIn
  <2>1. activity[x] \in Busy <=> \E y \in Threads : OwnsIn(turn, grace, x, y)
    BY <1>0 DEF BusyIn
  <2>2. a2[x] = IF x = b THEN "idle" ELSE activity[x]
    BY <1>5 DEF TypeOK
  <2> HIDE DEF g2
  <2> QED
    BY <1>3, <2>1, <2>2 DEF Busy
<1>9. OwnerIn(turn, g2, o2)
  <2> SUFFICES ASSUME NEW r \in Rooms, NEW x \in Bots
               PROVE  o2[r] = x <=> OwnsIn(turn, g2, x, r)
    BY DEF OwnerIn
  <2>1. owner[r] = x <=> OwnsIn(turn, grace, x, r)
    BY <1>0 DEF OwnerIn
  <2>2. owner[r] = b => r = t
    <3>1. owner[r] = b => <<b, r>> \in grace
      BY <1>0, <1>1 DEF OwnerIn, OwnsIn, HasLive
    <3> QED
      BY <1>2, <3>1
  <2> HIDE DEF g2
  <2> QED
    BY <1>3, <1>7, <2>1, <2>2, TurnAssumption
<1>10. GraceIn(turn, watch, g2, room)
  BY <1>0 DEF GraceIn
<1>11. RoomIn(turn, o2, room)
  <2>1. t \in Rooms => room[t].current = None
    BY <1>0 DEF GraceIn
  <2> QED
    BY <1>0, <1>7, <2>1 DEF RoomIn
<1>12. Ownership(a2, turn, watch, g2, o2, room)
  BY <1>0, <1>8, <1>9, <1>10, <1>11 DEF Ownership
<1>13. Drained(a2, turn) /\ g2 \in SUBSET (Bots \X Threads)
  BY <1>0, <1>4, <1>5 DEF Released
<1>14. Ownership(activity', turn', watch, g2, o2, room)
  <2> HIDE DEF g2
  <2> QED
    BY <1>12, <1>13, DrainKeeps
<1> QED
  BY <1>6, <1>14 DEF Owned, Released

\* What a person does to a bot.
LEMMA OwnedBot ==
  ASSUME TypeOK, Owned, NEW b \in Bots, BotStep(b)
  PROVE  Owned'
<1>1. CASE Send(b)
  <2> SUFFICES ASSUME NEW a2, a2 = activity', NEW tu2, tu2 = turn'
               PROVE  Ownership(a2, tu2, watch, grace, owner, room)
    BY <1>1 DEF Send, Owned
  <2>0. PICK free \in SUBSET Bots : free = {b}
    OBVIOUS
  <2>1. \A x \in free : activity[x] \notin Busy /\ HasSlot(turn, x)
    BY <1>1, <2>0 DEF Send
  <2>2. \A x \in Bots : a2[x] = IF x \in free THEN "working" ELSE activity[x]
    BY <1>1, <2>0 DEF Send, TypeOK
  <2>3. \A k \in Turns :
          tu2[k] = IF k[1] \in free /\ k = NextTurn(turn, k[1])
                   THEN Opened(k[1], "setup") ELSE turn[k]
    <3>1. NextTurn(turn, b) \in Turns /\ NextTurn(turn, b)[1] = b
      BY <1>1, FreeSlot DEF Send
    <3> QED
      BY <1>1, <2>0, <3>1 DEF Send, TypeOK
  <2>4. grace \in SUBSET (Bots \X Threads)
    BY DEF TypeOK
  <2>5. Opens(free, activity, turn, a2, tu2)
    BY <2>1, <2>2, <2>3 DEF Opens
  <2> QED
    BY <2>4, <2>5, StartKeeps DEF Owned
<1>2. CASE SendBusy(b) \/ SteerAnswers(b)
  BY <1>2 DEF SendBusy, SteerAnswers, Owned
<1>3. CASE Interrupt(b)
  <2> SUFFICES ASSUME NEW tu2, tu2 = turn'
               PROVE  Ownership(activity, tu2, watch, grace, owner, room)
    BY <1>3 DEF Interrupt, Owned
  <2>1. \A k \in Turns : \/ tu2[k] = turn[k]
                         \/ /\ turn[k].stage = "running"
                            /\ tu2[k] = [turn[k] EXCEPT !.stage = "ending"]
    BY <1>3 DEF Interrupt
  <2>2. turn \in [Turns -> TurnRecords] /\ \A r \in Rooms : room[r] = room[r]
    BY DEF TypeOK
  <2>3. Stops(turn, tu2, room, room)
    BY <2>1, <2>2 DEF Stops
  <2> QED
    BY <2>2, <2>3, StopKeeps DEF Owned
<1>4. ASSUME NEW t \in Threads, Released(b, t) PROVE Owned'
  BY <1>4, ReleasedKeeps
<1> QED
  BY <1>1, <1>2, <1>3, <1>4 DEF BotStep

\* A step of a room's chain, other than a member's turn.
LEMMA OwnedChain ==
  ASSUME TypeOK, Owned, NEW r \in Rooms,
         \/ RoomSend(r) \/ RoomNext(r) \/ RoomDone(r)
         \/ \E b \in Bots : MemberSkipped(r, b)
  PROVE  Owned'
<1>0. /\ \A x \in Rooms : owner[x] = None => room[x].current = None
      /\ grace \in SUBSET (Bots \X Threads)
      /\ room \in [Rooms -> RoomRecords]
  BY DEF TypeOK, Owned, Ownership, RoomIn
<1>1. /\ \A x \in Rooms : x # r => room'[x] = room[x]
      /\ room'[r].current = room[r].current
      /\ \/ owner[r] = None
         \/ room'[r].direct \subseteq room[r].direct
            /\ room'[r].chained \subseteq room[r].chained
  <2>1. CASE RoomSend(r)
    BY <1>0, <2>1 DEF RoomSend, RoomRecords
  <2>2. CASE RoomNext(r)
    BY <1>0, <2>2 DEF RoomNext, RoomRecords, IdleRoom
  <2>3. CASE RoomDone(r)
    BY <1>0, <2>3 DEF RoomDone, Between, RoomRecords, IdleRoom
  <2>4. ASSUME NEW b \in Bots, MemberSkipped(r, b)
        PROVE  /\ \A x \in Rooms : x # r => room'[x] = room[x]
               /\ room'[r].current = room[r].current
               /\ room'[r].direct \subseteq room[r].direct
               /\ room'[r].chained \subseteq room[r].chained
    <3>1. \A q \in RoomRecords : \A S, T, n :
            LET p == [q EXCEPT !.spoken = S, !.chained = T, !.hop = n]
            IN  p.current = q.current /\ p.direct = q.direct /\ p.chained = T
      BY DEF RoomRecords
    <3>2. /\ Chosen(r, b).current = room[r].current
          /\ Chosen(r, b).direct = room[r].direct
          /\ Chosen(r, b).chained = room[r].chained \ {b}
      BY <1>0, <3>1 DEF Chosen
    <3>3. room' = [room EXCEPT ![r] = Chosen(r, b)]
      BY <2>4 DEF MemberSkipped
    <3> QED
      BY <1>0, <3>2, <3>3
  <2> QED
    BY <2>1, <2>2, <2>3, <2>4
<1>2. UNCHANGED <<activity, turn, watch, grace, owner>>
  BY DEF RoomSend, RoomNext, RoomDone, MemberSkipped
<1> SUFFICES ASSUME NEW rm2, rm2 = room'
             PROVE  Ownership(activity, turn, watch, grace, owner, rm2)
  BY <1>2 DEF Owned
<1>3. \A x \in Rooms : rm2[x].current = room[x].current
  BY <1>1
<1>4. \A x \in Rooms :
        \/ owner[x] = None
        \/ ~(room[x].direct = {} /\ room[x].chained = {})
        \/ rm2[x].direct = {} /\ rm2[x].chained = {}
  BY <1>1
<1> QED
  BY <1>0, <1>3, <1>4, ChainKeeps DEF Owned

\* The room's deadline: its member is told to stop and keeps the room.
LEMMA OwnedTimeout ==
  ASSUME TypeOK, Owned, NEW r \in Rooms, RoomTimesOut(r)
  PROVE  Owned'
<1> SUFFICES ASSUME NEW tu2, tu2 = turn', NEW rm2, rm2 = room'
             PROVE  Ownership(activity, tu2, watch, grace, owner, rm2)
  BY DEF RoomTimesOut, Owned
<1>1. \A k \in Turns : \/ tu2[k] = turn[k]
                       \/ /\ turn[k].stage = "running"
                          /\ tu2[k] = [turn[k] EXCEPT !.stage = "ending"]
  BY DEF RoomTimesOut, Interrupted
<1>2. turn \in [Turns -> TurnRecords] /\ room \in [Rooms -> RoomRecords]
  BY DEF TypeOK
<1>3. \A k \in Turns : turn[k].thread = r => turn[k].stage # "launching"
  <2>1. PICK k \in Turns : turn[k].thread = r /\ turn[k].stage \in AtAdapter
    BY DEF RoomTimesOut
  <2>2. ASSUME NEW j \in Turns, turn[j].thread = r, turn[j].stage = "launching"
        PROVE  FALSE
    <3>1. j = k
      BY <2>1, <2>2, ThreadUnique DEF Owned, Live
    <3> QED
      BY <2>1, <2>2, <3>1 DEF AtAdapter
  <2> QED
    BY <2>2
<1>4. rm2 = [room EXCEPT ![r] = GivesUp(r)]
  BY DEF RoomTimesOut
<1>5. GivesUp(r).current = None /\ GivesUp(r).direct = {} /\ GivesUp(r).chained = {}
  BY <1>2 DEF GivesUp, RoomRecords
<1>6. \A x \in Rooms :
        \/ rm2[x] = room[x]
        \/ /\ rm2[x].current = None /\ rm2[x].direct = {} /\ rm2[x].chained = {}
           /\ \A k \in Turns : turn[k].thread = x => turn[k].stage # "launching"
  BY <1>2, <1>3, <1>4, <1>5
<1>7. Stops(turn, tu2, room, rm2)
  BY <1>1, <1>6 DEF Stops
<1> QED
  BY <1>2, <1>7, StopKeeps DEF Owned

\* A member takes an unowned room: a free bot b gets a launching turn n there.
Begins(r, b, n, a, tu, w, o, rm, a2, tu2, w2, o2, rm2) ==
  /\ a2[b] = "working" /\ \A x \in Bots : x # b => a2[x] = a[x]
  /\ tu2[n].thread = r /\ tu2[n].stage = "launching"
  /\ \A j \in Turns : j # n => tu2[j] = tu[j]
  /\ w2[r].bot = b /\ \A t \in Threads : t # r => w2[t] = w[t]
  /\ \A x \in Rooms : o2[x] = IF x = r THEN b ELSE o[x]
  /\ rm2[r].current = b /\ \A x \in Rooms : x # r => rm2[x] = rm[x]

LEMMA BeginKeeps ==
  ASSUME NEW a, NEW tu, NEW w, NEW g \in SUBSET (Bots \X Threads), NEW o, NEW rm,
         Ownership(a, tu, w, g, o, rm),
         NEW r \in Rooms, NEW b \in Bots, NEW n \in Turns, n[1] = b,
         tu[n].stage = "none", a[b] \notin Busy, o[r] = None, w[r].bot = None,
         NEW a2, NEW tu2, NEW w2, NEW o2, NEW rm2,
         Begins(r, b, n, a, tu, w, o, rm, a2, tu2, w2, o2, rm2)
  PROVE  Ownership(a2, tu2, w2, g, o2, rm2)
<1> USE DEF Begins
<1>0. r \in Threads /\ r # b /\ None \notin Bots /\ r # None
  BY TurnAssumption DEF Threads
<1>1. \A j \in Turns : tu[j].stage \in Live => j[1] # b /\ tu[j].thread # r
  <2>1. ASSUME NEW j \in Turns, tu[j].stage \in Live
        PROVE  j[1] # b /\ tu[j].thread # r
    <3>1. a[j[1]] \in Busy /\ OwnsIn(tu, g, j[1], tu[j].thread) /\ j[1] \in Bots
      BY <2>1, LiveOwns, TurnBot
    <3>2. tu[j].thread = r => o[r] = j[1]
      BY <3>1 DEF Ownership, OwnerIn
    <3> QED
      BY <1>0, <3>1, <3>2
  <2> QED
    BY <2>1
<1>2. \A x \in g : x[1] # b /\ x[2] # r
  <2>1. ASSUME NEW x \in g
        PROVE  x[1] # b /\ x[2] # r
    <3>1. x[1] \in Bots /\ x[2] \in Threads /\ OwnsIn(tu, g, x[1], x[2])
      BY DEF OwnsIn
    <3>2. a[x[1]] \in Busy
      BY <3>1 DEF Ownership, BusyIn
    <3>3. x[2] = r => o[r] = x[1]
      BY <3>1 DEF Ownership, OwnerIn
    <3> QED
      BY <1>0, <3>1, <3>2, <3>3
  <2> QED
    BY <2>1
<1>3. ASSUME NEW x \in Bots, NEW y
      PROVE  OwnsIn(tu2, g, x, y) <=> OwnsIn(tu, g, x, y) \/ (x = b /\ y = r)
  <2>1. HasLive(tu2, b, r)
    BY DEF HasLive, Live
  <2>2. CASE x = b
    <3>1. HasLive(tu2, b, y) => y = r
      BY <1>1 DEF HasLive
    <3>2. ~OwnsIn(tu, g, b, y)
      BY <1>1, <1>2 DEF OwnsIn, HasLive
    <3> QED
      BY <1>2, <2>1, <2>2, <3>1, <3>2 DEF OwnsIn
  <2>3. CASE x # b
    <3>1. HasLive(tu2, x, y) <=> HasLive(tu, x, y)
      BY <2>3 DEF HasLive
    <3> QED
      BY <2>3, <3>1 DEF OwnsIn
  <2> QED
    BY <2>2, <2>3
<1>4. OneTurnIn(tu2)
  BY <1>1 DEF Ownership, OneTurnIn
<1>5. BusyIn(a2, tu2, g)
  <2> SUFFICES ASSUME NEW x \in Bots
               PROVE  a2[x] \in Busy <=> \E t \in Threads : OwnsIn(tu2, g, x, t)
    BY DEF BusyIn
  <2>1. a[x] \in Busy <=> \E t \in Threads : OwnsIn(tu, g, x, t)
    BY DEF Ownership, BusyIn
  <2>2. CASE x = b
    BY <1>0, <1>3, <2>2 DEF Busy
  <2>3. CASE x # b
    BY <1>3, <2>1, <2>3
  <2> QED
    BY <2>2, <2>3
<1>6. OwnerIn(tu2, g, o2)
  <2> SUFFICES ASSUME NEW x \in Rooms, NEW y \in Bots
               PROVE  o2[x] = y <=> OwnsIn(tu2, g, y, x)
    BY DEF OwnerIn
  <2>1. o[x] = y <=> OwnsIn(tu, g, y, x)
    BY DEF Ownership, OwnerIn
  <2> QED
    BY <1>0, <1>3, <2>1
<1>7. ~tu2[n].sending \/ tu2[n].stage = "launching"
  OBVIOUS
<1>8. StagesIn(tu2)
  <2> SUFFICES ASSUME NEW k \in Turns
               PROVE  /\ tu2[k].stage \notin {"connecting", "refused", "over"}
                      /\ tu2[k].sending => tu2[k].stage = "launching"
                      /\ tu2[k].stage # "none"
                         => tu2[k].thread = k[1] \/ tu2[k].thread \in Rooms
                      /\ tu2[k].stage = "setup" => tu2[k].thread = k[1]
    BY DEF StagesIn
  <2> QED
    BY DEF Ownership, StagesIn
<1>9. GraceIn(tu2, w2, g, rm2)
  <2> SUFFICES ASSUME NEW x \in g
               PROVE  /\ x[2] = x[1] \/ x[2] \in Rooms
                      /\ w2[x[2]].bot = None
                      /\ x[2] \in Rooms => rm2[x[2]].current = None
                      /\ \A y \in g : y[1] = x[1] => y = x
                      /\ \A j \in Turns : j[1] = x[1] /\ tu2[j].stage \in Live
                            => tu2[j].stage = "ending" /\ tu2[j].thread = x[2]
    BY DEF GraceIn
  <2>1. x[1] # b /\ x[2] # r /\ x[2] \in Threads
    BY <1>2
  <2> QED
    BY <2>1 DEF Ownership, GraceIn
<1>10. WatchIn(tu2, w2)
  <2>1. ASSUME NEW x \in Threads, w2[x].bot # None
        PROVE  \E j \in Turns : /\ j[1] = w2[x].bot /\ tu2[j].thread = x
                                /\ tu2[j].stage \in {"launching", "running", "ending"}
    <3>1. CASE x = r
      BY <3>1
    <3>2. CASE x # r
      <4>1. PICK j \in Turns : /\ j[1] = w[x].bot /\ tu[j].thread = x
                               /\ tu[j].stage \in {"launching", "running", "ending"}
        BY <2>1, <3>2 DEF Ownership, WatchIn
      <4> QED
        BY <3>2, <4>1
    <3> QED
      BY <3>1, <3>2
  <2>2. ASSUME NEW j \in Turns, tu2[j].stage \in {"launching", "running"}
        PROVE  w2[tu2[j].thread].bot = j[1]
    <3>1. CASE j = n
      BY <3>1
    <3>2. CASE j # n
      <4>1. tu[j].thread \in Threads /\ tu[j].thread # r
        BY <1>1, <2>2, <3>2, LiveOwns DEF Live, AtAdapter
      <4> QED
        BY <2>2, <3>2, <4>1 DEF Ownership, WatchIn
    <3> QED
      BY <3>1, <3>2
  <2> QED
    BY <2>1, <2>2 DEF WatchIn
<1>11. RoomIn(tu2, o2, rm2)
  <2>1. ASSUME NEW x \in Rooms
        PROVE  /\ o2[x] # None => \/ rm2[x].current = o2[x]
                                  \/ rm2[x].direct = {} /\ rm2[x].chained = {}
               /\ rm2[x].current # None => o2[x] = rm2[x].current
    BY DEF Ownership, RoomIn
  <2>2. ASSUME NEW j \in Turns, tu2[j].stage = "launching", tu2[j].thread \in Rooms
        PROVE  rm2[tu2[j].thread].current = j[1]
    <3>1. CASE j = n
      BY <3>1
    <3>2. CASE j # n
      <4>1. tu[j].thread # r
        BY <1>1, <2>2, <3>2 DEF Live
      <4> QED
        BY <2>2, <3>2, <4>1 DEF Ownership, RoomIn
    <3> QED
      BY <3>1, <3>2
  <2> QED
    BY <2>1, <2>2 DEF RoomIn
<1> QED
  BY <1>4, <1>5, <1>6, <1>8, <1>9, <1>10, <1>11 DEF Ownership

\* A member is dispatched in a room that waits for nobody.
LEMMA OwnedBegins ==
  ASSUME TypeOK, Owned, Prompt, NEW r \in Rooms, NEW b \in Bots, MemberBegins(r, b)
  PROVE  Owned'
<1> SUFFICES ASSUME NEW a2, a2 = activity', NEW tu2, tu2 = turn', NEW w2, w2 = watch',
                    NEW o2, o2 = owner', NEW rm2, rm2 = room'
             PROVE  Ownership(a2, tu2, w2, grace, o2, rm2)
  BY DEF MemberBegins, Owned
<1> DEFINE n == NextTurn(turn, b)
<1>0. n \in Turns /\ n[1] = b /\ turn[n].stage = "none"
  BY FreeSlot DEF MemberBegins
<1>1. /\ grace \in SUBSET (Bots \X Threads) /\ r \in Threads
      /\ activity \in [Bots -> Activities] /\ turn \in [Turns -> TurnRecords]
      /\ watch \in [Threads -> WatchRecords] /\ owner \in [Rooms -> Bots \cup {None}]
      /\ room \in [Rooms -> RoomRecords]
  BY DEF TypeOK, WatchRecords, Threads
<1>2. activity[b] \notin Busy /\ Takes(r, b, n)
  BY DEF MemberBegins, Prompt
<1>3. owner[r] = None
  <2>1. room[r].current = None /\ (room[r].direct # {} \/ room[r].chained # {})
    BY DEF MemberBegins, Between, Speakers
  <2> QED
    BY <1>1, <2>1 DEF Owned, Ownership, RoomIn
<1>4. \A j \in Turns : turn[j].stage \in Live => turn[j].thread # r
  <2>1. ASSUME NEW j \in Turns, turn[j].stage \in Live, turn[j].thread = r
        PROVE  FALSE
    <3>1. OwnsIn(turn, grace, j[1], r) /\ j[1] \in Bots
      BY <2>1, LiveOwns, TurnBot DEF Owned
    <3>2. owner[r] = j[1]
      BY <3>1 DEF Owned, Ownership, OwnerIn
    <3> QED
      BY <1>3, <3>1, <3>2, TurnAssumption
  <2> QED
    BY <2>1
<1>5. watch[r].bot = None
  BY <1>1, <1>4 DEF Owned, Ownership, WatchIn, Live, AtAdapter
<1>6. ~AdapterHas(r)
  BY <1>4 DEF AdapterHas, Live
<1>7. Called(r).thread = r /\ Called(r).stage = "launching"
  BY <1>6 DEF Called
<1>8. rm2 = [room EXCEPT ![r] = [Chosen(r, b) EXCEPT !.current = b]]
  BY DEF MemberBegins
<1>9. [Chosen(r, b) EXCEPT !.current = b].current = b
  BY ChosenType DEF RoomRecords
<1>10. Begins(r, b, n, activity, turn, watch, owner, room, a2, tu2, w2, o2, rm2)
  <2> HIDE DEF n
  <2> QED
    BY <1>0, <1>1, <1>2, <1>7, <1>8, <1>9 DEF Begins, Takes
<1> QED
  <2> HIDE DEF n
  <2> QED
    BY <1>0, <1>1, <1>2, <1>3, <1>5, <1>10, BeginKeeps DEF Owned

\* A chat turn leaves its setup for the adapter, or the adapter takes a turn.
Moves(k, tu, w, tu2, w2) ==
  /\ tu2[k].thread = tu[k].thread
  /\ \/ /\ tu[k].stage = "setup" /\ tu2[k].stage = "launching"
        /\ w2[tu[k].thread].bot = k[1]
     \/ /\ tu[k].stage = "launching" /\ tu2[k].stage = "running"
        /\ ~tu2[k].sending
        /\ w2[tu[k].thread] = w[tu[k].thread]
  /\ \A j \in Turns : j # k => tu2[j] = tu[j]
  /\ \A t \in Threads : t # tu[k].thread => w2[t] = w[t]

LEMMA MoveKeeps ==
  ASSUME NEW a, NEW tu, NEW w, NEW g \in SUBSET (Bots \X Threads), NEW o, NEW rm,
         Ownership(a, tu, w, g, o, rm),
         NEW k \in Turns, NEW tu2, NEW w2, Moves(k, tu, w, tu2, w2)
  PROVE  Ownership(a, tu2, w2, g, o, rm)
<1> USE DEF Moves
<1> DEFINE t == tu[k].thread
<1>0. /\ tu[k].stage \in Live /\ tu2[k].stage \in Live
      /\ k[1] \in Bots /\ t \in Threads
  BY LiveOwns, TurnBot DEF Live, AtAdapter
<1>1. \A j \in Turns : tu[j].stage \in Live /\ j # k
                       => j[1] # k[1] /\ tu[j].thread # t
  BY <1>0, ThreadUnique DEF Ownership, OneTurnIn
<1>2. \A j \in Turns : /\ tu2[j].thread = tu[j].thread
                       /\ tu2[j].stage \in Live <=> tu[j].stage \in Live
  BY <1>0
<1>3. OneTurnIn(tu2) /\ BusyIn(a, tu2, g) /\ OwnerIn(tu2, g, o)
  BY <1>2, SameLive DEF Ownership
<1>4. \A x \in g : x[1] # k[1] /\ x[2] # t
  <2>1. ASSUME NEW x \in g
        PROVE  x[1] # k[1] /\ x[2] # t
    <3>1. x[1] # k[1]
      BY <1>0 DEF Ownership, GraceIn
    <3>2. x[1] \in Bots /\ x[2] \in Threads /\ OwnsIn(tu, g, x[1], x[2])
      BY DEF OwnsIn
    <3>3. OwnsIn(tu, g, k[1], t)
      BY <1>0, LiveOwns
    <3>4. CASE t \in Rooms
      BY <1>0, <3>1, <3>2, <3>3, <3>4 DEF Ownership, OwnerIn
    <3>5. CASE t \notin Rooms
      <4>1. t = k[1] /\ (x[2] = x[1] \/ x[2] \in Rooms)
        BY <1>0, <3>5 DEF Ownership, StagesIn, GraceIn, Live, AtAdapter
      <4> QED
        BY <3>1, <3>5, <4>1
    <3> QED
      BY <3>1, <3>4, <3>5
  <2> QED
    BY <2>1
<1>5. StagesIn(tu2)
  <2> SUFFICES ASSUME NEW j \in Turns
               PROVE  /\ tu2[j].stage \notin {"connecting", "refused", "over"}
                      /\ tu2[j].sending => tu2[j].stage = "launching"
                      /\ tu2[j].stage # "none"
                         => tu2[j].thread = j[1] \/ tu2[j].thread \in Rooms
                      /\ tu2[j].stage = "setup" => tu2[j].thread = j[1]
    BY DEF StagesIn
  <2> QED
    BY DEF Ownership, StagesIn
<1>6. GraceIn(tu2, w2, g, rm)
  <2> SUFFICES ASSUME NEW x \in g
               PROVE  /\ x[2] = x[1] \/ x[2] \in Rooms
                      /\ w2[x[2]].bot = None
                      /\ x[2] \in Rooms => rm[x[2]].current = None
                      /\ \A y \in g : y[1] = x[1] => y = x
                      /\ \A j \in Turns : j[1] = x[1] /\ tu2[j].stage \in Live
                            => tu2[j].stage = "ending" /\ tu2[j].thread = x[2]
    BY DEF GraceIn
  <2>1. x[1] # k[1] /\ x[2] # t /\ x[2] \in Threads
    BY <1>4
  <2> QED
    BY <2>1 DEF Ownership, GraceIn
<1>7. WatchIn(tu2, w2)
  <2>1. ASSUME NEW x \in Threads, w2[x].bot # None
        PROVE  \E j \in Turns : /\ j[1] = w2[x].bot /\ tu2[j].thread = x
                                /\ tu2[j].stage \in {"launching", "running", "ending"}
    <3>1. CASE x = t
      <4>1. w2[x].bot = k[1]
        BY <3>1 DEF Ownership, WatchIn
      <4> QED
        BY <3>1, <4>1
    <3>2. CASE x # t
      <4>1. PICK j \in Turns : /\ j[1] = w[x].bot /\ tu[j].thread = x
                               /\ tu[j].stage \in {"launching", "running", "ending"}
        BY <2>1, <3>2 DEF Ownership, WatchIn
      <4> QED
        BY <3>2, <4>1
    <3> QED
      BY <3>1, <3>2
  <2>2. ASSUME NEW j \in Turns, tu2[j].stage \in {"launching", "running"}
        PROVE  w2[tu2[j].thread].bot = j[1]
    <3>1. CASE j = k
      BY <3>1 DEF Ownership, WatchIn
    <3>2. CASE j # k
      <4>1. tu[j].thread \in Threads /\ tu[j].thread # t
        BY <1>1, <2>2, <3>2, LiveOwns DEF Live, AtAdapter
      <4> QED
        BY <2>2, <3>2, <4>1 DEF Ownership, WatchIn
    <3> QED
      BY <3>1, <3>2
  <2> QED
    BY <2>1, <2>2 DEF WatchIn
<1>8. RoomIn(tu2, o, rm)
  <2>1. ASSUME NEW j \in Turns, tu2[j].stage = "launching", tu2[j].thread \in Rooms
        PROVE  rm[tu2[j].thread].current = j[1]
    <3>1. CASE j = k
      <4>1. tu[k].stage = "setup" /\ tu[k].thread = k[1]
        BY <2>1, <3>1 DEF Ownership, StagesIn
      <4> QED
        BY <1>0, <2>1, <3>1, <4>1, TurnAssumption
    <3>2. CASE j # k
      BY <2>1, <3>2 DEF Ownership, RoomIn
    <3> QED
      BY <3>1, <3>2
  <2> QED
    BY <2>1 DEF Ownership, RoomIn
<1> QED
  BY <1>3, <1>5, <1>6, <1>7, <1>8 DEF Ownership

LEMMA OwnedMoves ==
  ASSUME TypeOK, Owned, Prompt, NEW k \in Turns, Launch(k) \/ Starts(k)
  PROVE  Owned'
<1> SUFFICES ASSUME NEW tu2, tu2 = turn', NEW w2, w2 = watch'
             PROVE  Ownership(activity, tu2, w2, grace, owner, room)
  BY DEF Launch, Starts, Owned
<1>0. /\ grace \in SUBSET (Bots \X Threads) /\ turn \in [Turns -> TurnRecords]
      /\ watch \in [Threads -> WatchRecords] /\ k[1] \in Threads
  BY TurnBot DEF TypeOK, WatchRecords
<1>1. CASE Launch(k)
  <2>1. turn[k].stage = "setup" /\ turn[k].thread = k[1]
    BY <1>1 DEF Launch, Owned, Ownership, StagesIn
  <2>2. ~AdapterHas(k[1])
    <3>1. ASSUME NEW j \in Turns, turn[j].thread = k[1], turn[j].stage \in AtAdapter
          PROVE  FALSE
      <4>1. j = k
        BY <2>1, <3>1, ThreadUnique DEF Owned, Live
      <4> QED
        BY <2>1, <3>1, <4>1 DEF AtAdapter
    <3> QED
      BY <3>1 DEF AdapterHas
  <2>3. Called(k[1]).thread = k[1] /\ Called(k[1]).stage = "launching"
    BY <2>2 DEF Called
  <2>4. Moves(k, turn, watch, tu2, w2)
    BY <1>0, <1>1, <2>1, <2>3 DEF Moves, Launch
  <2> QED
    BY <1>0, <2>4, MoveKeeps DEF Owned
<1>2. CASE Starts(k)
  <2>1. turn' = [turn EXCEPT ![k].stage = "running", ![k].sending = FALSE]
    BY <1>2 DEF Starts, Prompt
  <2>2. \A q \in TurnRecords :
          LET p == [[q EXCEPT !.stage = "running"] EXCEPT !.sending = FALSE]
          IN  p.thread = q.thread /\ p.stage = "running" /\ p.sending = FALSE
    BY DEF TurnRecords
  <2>3. /\ tu2[k] = [[turn[k] EXCEPT !.stage = "running"] EXCEPT !.sending = FALSE]
        /\ \A j \in Turns : j # k => tu2[j] = turn[j]
    BY <1>0, <2>1
  <2>5. turn[k] \in TurnRecords
    BY <1>0
  <2>6. /\ tu2[k].thread = turn[k].thread /\ tu2[k].stage = "running"
        /\ tu2[k].sending = FALSE
    BY <2>2, <2>3, <2>5
  <2>7. turn[k].stage = "launching" /\ w2 = watch
    BY <1>2 DEF Starts
  <2>4. Moves(k, turn, watch, tu2, w2)
    BY <2>3, <2>6, <2>7 DEF Moves
  <2> QED
    BY <1>0, <2>4, MoveKeeps DEF Owned
<1> QED
  BY <1>1, <1>2

\* The last event of a turn, or the rejection of a room's: the bot is freed.
LEMMA OwnedCompletes ==
  ASSUME TypeOK, Owned, Prompt, NEW k \in Turns,
         RoomRejected(k) \/ ChatCompletes(k) \/ RoomCompletes(k)
  PROVE  Owned'
<1> DEFINE t == turn[k].thread
<1>0. /\ turn[k].stage \in {"launching", "running", "ending"}
      /\ turn[k].stage \in Live /\ ~(turn[k].stage = "launching" /\ ~turn[k].sending)
  <2>1. CASE RoomRejected(k)
    BY <2>1 DEF RoomRejected, Owned, Ownership, StagesIn, Live
  <2>2. CASE ChatCompletes(k) \/ RoomCompletes(k)
    BY <2>2 DEF ChatCompletes, RoomCompletes, Answers, Live, AtAdapter
  <2> QED
    BY <2>1, <2>2
<1>1. /\ t \in Threads /\ k[1] \in Bots /\ activity[k[1]] \in Busy
      /\ t = k[1] \/ t \in Rooms
      /\ t \in Rooms => owner[t] = k[1]
  <2>1. /\ t \in Threads /\ k[1] \in Bots /\ activity[k[1]] \in Busy
        /\ OwnsIn(turn, grace, k[1], t)
    BY <1>0, LiveOwns, TurnBot DEF Owned
  <2>2. t = k[1] \/ t \in Rooms
    BY <1>0 DEF Owned, Ownership, StagesIn, Live
  <2> QED
    BY <2>1, <2>2 DEF Owned, Ownership, OwnerIn
<1>2. /\ activity \in [Bots -> Activities] /\ turn \in [Turns -> TurnRecords]
      /\ owner \in [Rooms -> Bots \cup {None}] /\ room \in [Rooms -> RoomRecords]
      /\ grace \in SUBSET (Bots \X Threads)
  BY DEF TypeOK
<1>3. \A x \in grace : x[1] # k[1]
  <2>1. ASSUME NEW x \in grace, x[1] = k[1]
        PROVE  FALSE
    <3>1. turn[k].stage = "ending" /\ t = x[2]
      BY <1>0, <2>1 DEF Owned, Ownership, GraceIn
    <3>2. <<k[1], t>> \in grace
      BY <1>2, <2>1, <3>1
    <3> QED
      BY <3>1, <3>2 DEF RoomRejected, ChatCompletes, RoomCompletes, Answers, Prompt
  <2> QED
    BY <2>1
<1>4. turn[k].stage \in AtAdapter => Closed(turn, k) = [turn EXCEPT ![k] = NoTurn]
  <2>1. turn[k].stage \in AtAdapter => turn[k].sending = FALSE
    BY <1>2 DEF AtAdapter, Owned, Ownership, StagesIn, TurnRecords
  <2> QED
    BY <1>2, <2>1 DEF Closed
<1> SUFFICES ASSUME NEW o2, o2 = owner', NEW rm2, rm2 = room'
             PROVE  Ownership(activity', turn', watch', grace, o2, rm2)
  BY DEF Owned, RoomRejected, ChatCompletes, RoomCompletes
<1>5. CASE RoomRejected(k)
  <2>1. room[t].current = k[1] /\ t \in Rooms
    BY <1>0, <1>5 DEF RoomRejected, Owned, Ownership, RoomIn, StagesIn
  <2>2. PICK a2 : a2 = [activity EXCEPT ![k[1]] = "idle"]
    OBVIOUS
  <2>3. a2[k[1]] \notin Busy /\ \A b \in Bots : b # k[1] => a2[b] = activity[b]
    BY <1>1, <1>2, <2>2 DEF Busy
  <2>4. Drained(a2, [turn EXCEPT ![k] = NoTurn]) /\ Unwatched(t)
    BY <1>1, <1>5, <2>1, <2>2 DEF RoomRejected
  <2>5. \A r \in Rooms : o2[r] = IF r = t THEN None ELSE owner[r]
    BY <1>1, <1>2, <1>5, <2>1 DEF RoomRejected
  <2>6. Settles(t)
    BY <1>5, <2>1 DEF RoomRejected
  <2>7. /\ \A r \in Rooms : r # t => rm2[r] = room[r]
        /\ \A r \in Rooms : r = t => rm2[r].current = None
    BY <1>2, <2>6 DEF Settles, RoomRecords
  <2> QED
    BY <1>0, <1>3, <2>3, <2>4, <2>5, <2>7, FinishDrainKeeps
<1>6. CASE ChatCompletes(k)
  <2>1. t = k[1] /\ t \notin Rooms
    BY <1>1, <1>6, TurnAssumption DEF ChatCompletes
  <2>2. PICK a2 : /\ a2 = [activity EXCEPT ![k[1]] = a2[k[1]]]
                  /\ a2[k[1]] \in {"idle", "dead"}
                  /\ Drained(a2, [turn EXCEPT ![k] = NoTurn])
    <3>1. PICK failed \in BOOLEAN :
            Drained([activity EXCEPT ![t] = IF failed \/ @ = "dead" THEN "dead"
                                            ELSE "idle"], Closed(turn, k))
      BY <1>6 DEF ChatCompletes
    <3>2. PICK a2 : a2 = [activity EXCEPT ![t] = IF failed \/ @ = "dead" THEN "dead"
                                                 ELSE "idle"]
      OBVIOUS
    <3>3. a2 = [activity EXCEPT ![t] = a2[t]] /\ a2[t] \in {"idle", "dead"}
      BY <1>1, <1>2, <2>1, <3>2
    <3>4. Drained(a2, [turn EXCEPT ![k] = NoTurn])
      BY <1>4, <1>6, <3>1, <3>2 DEF ChatCompletes, Answers
    <3> QED
      BY <2>1, <3>3, <3>4
  <2>3. a2[k[1]] \notin Busy /\ \A b \in Bots : b # k[1] => a2[b] = activity[b]
    BY <1>1, <1>2, <2>2 DEF Busy
  <2>4. Unwatched(t) /\ o2 = owner /\ rm2 = room
    BY <1>6 DEF ChatCompletes
  <2>5. /\ \A r \in Rooms : o2[r] = IF r = t THEN None ELSE owner[r]
        /\ \A r \in Rooms : r # t => rm2[r] = room[r]
        /\ \A r \in Rooms : r = t => rm2[r].current = None
    BY <2>1, <2>4
  <2> QED
    BY <1>0, <1>3, <2>2, <2>3, <2>4, <2>5, FinishDrainKeeps
<1>7. CASE RoomCompletes(k)
  <2>1. t \in Rooms /\ owner[t] = k[1]
    BY <1>1, <1>7 DEF RoomCompletes
  <2>2. PICK a2 : a2 = [x \in Bots |-> IF x = owner[t] /\ activity[x] \in Busy
                                       THEN "idle" ELSE activity[x]]
    OBVIOUS
  <2>3. a2[k[1]] \notin Busy /\ \A b \in Bots : b # k[1] => a2[b] = activity[b]
    BY <1>1, <2>1, <2>2 DEF Busy
  <2>4. Drained(a2, [turn EXCEPT ![k] = NoTurn]) /\ Unwatched(t)
    BY <1>4, <1>7, <2>2 DEF RoomCompletes, Answers
  <2>5. \A r \in Rooms : o2[r] = IF r = t THEN None ELSE owner[r]
    BY <1>2, <1>7 DEF RoomCompletes
  <2>6. /\ \A r \in Rooms : r # t => rm2[r] = room[r]
        /\ \A r \in Rooms : r = t => rm2[r].current = None
    <3>1. CASE room[t].current = None
      BY <1>7, <3>1 DEF RoomCompletes
    <3>2. CASE room[t].current # None
      <4>1. PICK S : rm2 = [room EXCEPT ![t].current = None, ![t].chained = S]
        BY <1>2, <1>7, <2>1, <3>2 DEF RoomCompletes, Settles
      <4>2. \A q \in RoomRecords :
              [[q EXCEPT !.current = None] EXCEPT !.chained = S].current = None
        BY DEF RoomRecords
      <4>3. /\ \A r \in Rooms : r # t => rm2[r] = room[r]
            /\ rm2[t] = [[room[t] EXCEPT !.current = None] EXCEPT !.chained = S]
        BY <1>2, <2>1, <4>1
      <4> QED
        BY <1>2, <2>1, <4>2, <4>3
    <3> QED
      BY <3>1, <3>2
  <2> QED
    BY <1>0, <1>3, <2>3, <2>4, <2>5, <2>6, FinishDrainKeeps
<1> QED
  BY <1>5, <1>6, <1>7

\* A stopped process dies in silence: its release timer keeps what it owned.
LEMMA OwnedDies ==
  ASSUME TypeOK, Owned, NEW k \in Turns, Dies(k)
  PROVE  Owned'
<1> SUFFICES ASSUME NEW tu2, tu2 = turn'
             PROVE  Ownership(activity, tu2, watch, grace, owner, room)
  BY DEF Dies, Owned
<1> DEFINE t == turn[k].thread
<1>0. /\ turn[k].stage = "ending" /\ <<k[1], t>> \in grace
      /\ turn \in [Turns -> TurnRecords] /\ turn[k].stage \in Live
      /\ watch[t].bot = None
  BY DEF Dies, TypeOK, Live, AtAdapter, Owned, Ownership, GraceIn
<1>1. tu2 = [turn EXCEPT ![k] = NoTurn]
  <2>1. turn[k].sending = FALSE
    BY <1>0 DEF Owned, Ownership, StagesIn, TurnRecords
  <2> QED
    BY <1>0, <2>1 DEF Dies, Closed
<1>2. /\ tu2[k].stage = "none" /\ tu2[k].stage \notin Live /\ ~tu2[k].sending
      /\ \A j \in Turns : j # k => tu2[j] = turn[j]
  BY <1>0, <1>1 DEF NoTurn, Live, AtAdapter
<1>3. \A b, x : OwnsIn(tu2, grace, b, x) <=> OwnsIn(turn, grace, b, x)
  BY <1>0, <1>2 DEF OwnsIn, HasLive
<1>4. OneTurnIn(tu2) /\ BusyIn(activity, tu2, grace) /\ OwnerIn(tu2, grace, owner)
  BY <1>2, <1>3 DEF Owned, Ownership, OneTurnIn, BusyIn, OwnerIn
<1>5. StagesIn(tu2)
  BY <1>2 DEF Owned, Ownership, StagesIn
<1>6. GraceIn(tu2, watch, grace, room)
  BY <1>2 DEF Owned, Ownership, GraceIn
<1>7. WatchIn(tu2, watch)
  <2>1. ASSUME NEW x \in Threads, watch[x].bot # None
        PROVE  \E j \in Turns : /\ j[1] = watch[x].bot /\ tu2[j].thread = x
                                /\ tu2[j].stage \in {"launching", "running", "ending"}
    <3>1. PICK j \in Turns : /\ j[1] = watch[x].bot /\ turn[j].thread = x
                             /\ turn[j].stage \in {"launching", "running", "ending"}
      BY <2>1 DEF Owned, Ownership, WatchIn
    <3>2. j # k
      BY <1>0, <2>1, <3>1
    <3> QED
      BY <1>2, <3>1, <3>2
  <2>2. \A j \in Turns : tu2[j].stage \in {"launching", "running"}
                         => watch[tu2[j].thread].bot = j[1]
    BY <1>2 DEF Owned, Ownership, WatchIn
  <2> QED
    BY <2>1, <2>2 DEF WatchIn
<1>8. RoomIn(tu2, owner, room)
  BY <1>2 DEF Owned, Ownership, RoomIn
<1> QED
  BY <1>4, <1>5, <1>6, <1>7, <1>8 DEF Owned, Ownership

\* Requests open and close inside a turn.
LEMMA OwnedAsks ==
  ASSUME TypeOK, Owned, NEW k \in Turns,
         AskOpens(k) \/ AskResolves(k) \/ AskAutoAnswered(k)
  PROVE  Owned'
<1> SUFFICES ASSUME NEW a2, a2 = activity', NEW tu2, tu2 = turn', NEW w2, w2 = watch'
             PROVE  Ownership(a2, tu2, w2, grace, owner, room)
  BY DEF AskOpens, AskResolves, AskAutoAnswered, Owned
<1>0. /\ turn \in [Turns -> TurnRecords] /\ watch \in [Threads -> WatchRecords]
      /\ grace \in SUBSET (Bots \X Threads)
  BY DEF TypeOK, WatchRecords
<1>1. \A b \in Bots : a2[b] \in Busy <=> activity[b] \in Busy
  BY DEF AskOpens, AskResolves, AskAutoAnswered, Resumes, Busy
<1>2. \A j \in Turns : /\ tu2[j].thread = turn[j].thread
                       /\ tu2[j].stage = turn[j].stage
                       /\ tu2[j].sending = turn[j].sending
  <2>1. \A q \in TurnRecords : \A n :
          LET p == [q EXCEPT !.asks = n]
          IN  p.thread = q.thread /\ p.stage = q.stage /\ p.sending = q.sending
    BY DEF TurnRecords
  <2>2. \/ tu2 = turn
        \/ \E n : tu2 = [turn EXCEPT ![k] = [@ EXCEPT !.asks = n]]
    BY DEF AskOpens, AskResolves, AskAutoAnswered
  <2>3. CASE tu2 = turn
    BY <2>3
  <2>4. ASSUME NEW n, tu2 = [turn EXCEPT ![k] = [@ EXCEPT !.asks = n]]
        PROVE  \A j \in Turns : /\ tu2[j].thread = turn[j].thread
                               /\ tu2[j].stage = turn[j].stage
                               /\ tu2[j].sending = turn[j].sending
    <3>1. /\ turn[k] \in TurnRecords /\ tu2[k] = [turn[k] EXCEPT !.asks = n]
          /\ \A j \in Turns : j # k => tu2[j] = turn[j]
      BY <1>0, <2>4
    <3>2. /\ tu2[k].thread = turn[k].thread /\ tu2[k].stage = turn[k].stage
          /\ tu2[k].sending = turn[k].sending
      BY <2>1, <3>1
    <3> QED
      BY <3>1, <3>2
  <2> QED
    BY <2>2, <2>3, <2>4
<1>3. \A t \in Threads : w2[t].bot = watch[t].bot
  <2>1. \A q \in WatchRecords : \A p : [q EXCEPT !.parked = p].bot = q.bot
    BY DEF WatchRecords
  <2>2. PICK t, p : w2 = [watch EXCEPT ![t] = [@ EXCEPT !.parked = p]]
    <3>1. Parks(turn[k].thread, TRUE) \/ Parks(turn[k].thread, FALSE)
      BY DEF AskOpens, AskResolves, AskAutoAnswered, Resumes
    <3> QED
      BY <3>1 DEF Parks
  <2> QED
    BY <1>0, <2>1, <2>2
<1>4. Still(activity, a2, turn, tu2, watch, w2)
  BY <1>1, <1>2, <1>3 DEF Still
<1> QED
  BY <1>0, <1>4, StillKeeps DEF Owned

LEMMA OwnedTurn ==
  ASSUME TypeOK, Owned, Prompt, NEW k \in Turns, TurnStep(k)
  PROVE  Owned'
<1>0. /\ turn[k].stage \notin {"connecting", "refused", "over"}
      /\ turn[k].sending => turn[k].stage = "launching"
      /\ turn[k].stage = "setup" => turn[k].thread = k[1]
  BY DEF Owned, Ownership, StagesIn
<1>1. CASE SetupFails(k)
  BY <1>0, <1>1, OwnedRejected DEF SetupFails
<1>2. CASE SendRejected(k)
  BY <1>0, <1>2, OwnedRejected DEF SendRejected
<1>3. CASE SendReturns(k) \/ MemberConnected(k) \/ ConnectFails(k)
  BY <1>0, <1>3 DEF SendReturns, MemberConnected, ConnectFails
<1>4. CASE Launch(k) \/ Starts(k)
  BY <1>4, OwnedMoves
<1>5. CASE RoomRejected(k) \/ ChatCompletes(k) \/ RoomCompletes(k)
  BY <1>5, OwnedCompletes
<1>6. CASE Dies(k)
  BY <1>6, OwnedDies
<1>7. CASE AskOpens(k) \/ AskResolves(k) \/ AskAutoAnswered(k)
  BY <1>7, OwnedAsks
<1> QED
  BY <1>1, <1>2, <1>3, <1>4, <1>5, <1>6, <1>7 DEF TurnStep

\* The watchdog stops the one turn it watches and arms its release timer.
LEMMA OwnedStall ==
  ASSUME TypeOK, Owned, NEW t \in Threads, Stall(t)
  PROVE  Owned'
<1>0. /\ turn \in [Turns -> TurnRecords] /\ room \in [Rooms -> RoomRecords]
      /\ watch \in [Threads -> WatchRecords] /\ grace \in SUBSET (Bots \X Threads)
  BY DEF TypeOK, WatchRecords
<1>1. PICK k \in Turns : /\ k[1] = watch[t].bot /\ turn[k].thread = t
                         /\ turn[k].stage = "running"
  BY DEF Stall, Quiet, Owned, Ownership, WatchIn
<1> SUFFICES ASSUME NEW tu2, tu2 = turn', NEW w2, w2 = watch', NEW g2, g2 = grace',
                    NEW rm2, rm2 = room'
             PROVE  Ownership(activity, tu2, w2, g2, owner, rm2)
  BY DEF Stall, Owned
<1>2. Stops(turn, tu2, room, rm2)
  <2>1. \A j \in Turns : \/ tu2[j] = turn[j]
                         \/ /\ turn[j].stage = "running"
                            /\ tu2[j] = [turn[j] EXCEPT !.stage = "ending"]
    BY DEF Stall, Interrupted
  <2>2. \A j \in Turns : turn[j].thread = t => turn[j].stage # "launching"
    BY DEF Stall, Quiet
  <2>3. \/ t \notin Rooms
        \/ /\ GivesUp(t).current = None
           /\ GivesUp(t).direct = {} /\ GivesUp(t).chained = {}
    BY <1>0 DEF GivesUp, RoomRecords
  <2>4. rm2 = room \/ (t \in Rooms /\ rm2 = [room EXCEPT ![t] = GivesUp(t)])
    BY DEF Stall
  <2>5. \A r \in Rooms :
          \/ rm2[r] = room[r]
          \/ /\ rm2[r].current = None /\ rm2[r].direct = {} /\ rm2[r].chained = {}
             /\ \A j \in Turns : turn[j].thread = r => turn[j].stage # "launching"
    BY <1>0, <2>2, <2>3, <2>4
  <2> QED
    BY <2>1, <2>5 DEF Stops
<1>3. Ownership(activity, tu2, watch, grace, owner, rm2)
  BY <1>0, <1>2, StopKeeps DEF Owned
<1>4. tu2[k].stage = "ending" /\ tu2[k].thread = t
  <2>1. tu2[k] = [turn[k] EXCEPT !.stage = "ending"]
    BY <1>1 DEF Stall, Interrupted
  <2>2. turn[k] \in TurnRecords
    BY <1>0
  <2> QED
    BY <1>1, <2>1, <2>2 DEF TurnRecords
<1>5. \A x \in grace : x[1] # k[1] /\ x[2] # tu2[k].thread
  BY <1>1, <1>4 DEF Stall, Quiet
<1>6. t \in Rooms => rm2[t].current = None
  <2>1. t \in Rooms => GivesUp(t).current = None
    BY <1>0 DEF GivesUp, RoomRecords
  <2> QED
    BY <1>0, <2>1 DEF Stall
<1>7. w2 = [watch EXCEPT ![tu2[k].thread] = NoWatch]
  BY <1>4 DEF Stall, Unwatched
<1>8. g2 = grace \cup {<<k[1], tu2[k].thread>>}
  BY <1>1, <1>4 DEF Stall
<1>9. Arms(k, tu2, watch, grace, rm2, w2, g2)
  BY <1>4, <1>5, <1>6, <1>7, <1>8 DEF Arms
<1> QED
  BY <1>0, <1>3, <1>9, ArmKeeps

\* index.ts: "One turn per bot at a time, across BOTH engines."  With prompt
\* providers, for any number of bots, rooms and messages: a bot has one live
\* turn at most, it is busy exactly while it owns one, and a room's owner is the
\* bot whose turn is on its thread.
THEOREM OneTurn ==
  ASSUME Prompt
  PROVE  Spec => [](Owned /\ OneTurnPerBot /\ BusyIsALiveTurn /\ OwnerIsTheSpeaker)
<1>1. Init => Owned
  <2> SUFFICES ASSUME Init PROVE Owned
    OBVIOUS
  <2>1. /\ \A k \in Turns : /\ turn[k].stage = "none" /\ turn[k].stage \notin Live
                            /\ turn[k].sending = FALSE
        /\ grace = {}
        /\ \A b \in Bots : activity[b] \notin Busy
        /\ \A r \in Rooms : owner[r] = None /\ room[r].current = None
        /\ \A t \in Threads : watch[t].bot = None
    BY DEF Init, NoTurn, Live, AtAdapter, Busy, IdleRoom, NoWatch
  <2>2. \A b, t : ~OwnsIn(turn, grace, b, t)
    BY <2>1 DEF OwnsIn, HasLive
  <2>3. OneTurnIn(turn) /\ BusyIn(activity, turn, grace)
    BY <2>1, <2>2 DEF OneTurnIn, BusyIn
  <2>4. OwnerIn(turn, grace, owner)
    BY <2>1, <2>2, TurnAssumption DEF OwnerIn
  <2>5. StagesIn(turn) /\ GraceIn(turn, watch, grace, room)
    BY <2>1 DEF StagesIn, GraceIn
  <2>6. WatchIn(turn, watch) /\ RoomIn(turn, owner, room)
    BY <2>1 DEF WatchIn, RoomIn
  <2> QED
    BY <2>3, <2>4, <2>5, <2>6 DEF Owned, Ownership
<1>2. TypeOK /\ Owned /\ [Next]_vars => Owned'
  <2> SUFFICES ASSUME TypeOK, Owned, [Next]_vars PROVE Owned'
    OBVIOUS
  <2>1. ASSUME NEW k \in Turns, TurnStep(k) PROVE Owned'
    BY <2>1, OwnedTurn
  <2>2. ASSUME NEW b \in Bots, BotStep(b) PROVE Owned'
    BY <2>2, OwnedBot
  <2>3. ASSUME NEW r \in Rooms, RoomStep(r) PROVE Owned'
    BY <2>3, OwnedChain, OwnedTimeout, OwnedBegins DEF RoomStep
  <2>4. ASSUME NEW t \in Threads, Stall(t) PROVE Owned'
    BY <2>4, OwnedStall
  <2>5. CASE UNCHANGED vars
    BY <2>5 DEF vars, Owned
  <2> QED
    BY <2>1, <2>2, <2>3, <2>4, <2>5 DEF Next
<1>3. Owned => OneTurnPerBot /\ BusyIsALiveTurn /\ OwnerIsTheSpeaker
  <2> SUFFICES ASSUME Owned
               PROVE  OneTurnPerBot /\ BusyIsALiveTurn /\ OwnerIsTheSpeaker
    OBVIOUS
  <2>1. \A b, t : Owns(b, t) <=> OwnsIn(turn, grace, b, t)
    BY DEF Owns, OwnsIn, HasLive, TurnsOf
  <2>2. OneTurnPerBot
    BY DEF Owned, Ownership, OneTurnIn, OneTurnPerBot
  <2>3. BusyIsALiveTurn
    BY <2>1 DEF Owned, Ownership, BusyIn, BusyIsALiveTurn
  <2>4. OwnerIsTheSpeaker
    BY <2>1 DEF Owned, Ownership, OwnerIn, OwnerIsTheSpeaker
  <2> QED
    BY <2>2, <2>3, <2>4
<1> QED
  BY <1>1, <1>2, <1>3, Typing, PTL DEF Spec

-----------------------------------------------------------------------------
(* The two clocks over one room turn: RoomClock.                           *)

\* The object RoomTurnDeadline.
Deadlines ==
  [remaining : Int, timer : BOOLEAN, armedAt : 0 .. MaxTime, open : Nat,
   stopped : BOOLEAN, fired : BOOLEAN]

\* What is left of the budget at time n.
Spare(d, n) == IF d.timer THEN d.remaining - (n - d.armedAt) ELSE d.remaining

\* Deadline d of a turn that has the requests in S open and has worked for w
\* units by time n: it counts the open ones, is armed while it counts none, and
\* has no more left than the work leaves; exactly that, if no stray resolve came.
Fits(d, S, n, w, s) ==
  /\ d.open <= Cardinality(S) /\ (~s => d.open = Cardinality(S))
  /\ d.timer <=> d.open = 0
  /\ Spare(d, n) <= Budget - w /\ (~s => Spare(d, n) = Budget - w)

ClockInv ==
  /\ ClockTypeOK /\ worked <= now
  /\ outcome = "pending" =>
       /\ ~deadline.stopped /\ ~deadline.fired
       /\ entry # NoEntry /\ provider = "running"
       /\ Fits(deadline, asked, now, worked, strayed)
  /\ outcome # "pending" => ~deadline.timer
  /\ WaitingIsFree

\* What an event leaves of a deadline that fits: one that fits, or one that has
\* run out.
Fired(d, w, s) == d.fired /\ (~s => w >= Budget)

\* How many requests are open.
LEMMA RequestsCounted ==
  ASSUME NEW S \in SUBSET Requests
  PROVE  /\ Cardinality(S) \in Nat /\ (Cardinality(S) = 0 <=> S = {})
         /\ \A q \in Requests \ S : Cardinality(S \cup {q}) = Cardinality(S) + 1
         /\ \A q \in S : Cardinality(S \ {q}) = Cardinality(S) - 1
<1>0. IsFiniteSet(Requests)
  BY RoomClockAssumption
<1>1. IsFiniteSet(S)
  BY <1>0, FS_Subset
<1> QED
  BY <1>1, FS_CardinalityType, FS_EmptySet, FS_AddElement, FS_RemoveElement

\* The methods set fields of the record.
LEMMA DeadlineFired ==
  ASSUME NEW d \in Deadlines, NEW h, h = [d EXCEPT !.fired = TRUE]
  PROVE  /\ h \in Deadlines /\ h.remaining = d.remaining /\ h.timer = d.timer
         /\ h.open = d.open /\ h.stopped = d.stopped /\ h.fired
BY DEF Deadlines

LEMMA DeadlineArmed ==
  ASSUME NEW d \in Deadlines, now \in 0 .. MaxTime, NEW h,
         h = [d EXCEPT !.timer = TRUE, !.armedAt = now]
  PROVE  /\ h \in Deadlines /\ h.remaining = d.remaining /\ h.timer
         /\ h.armedAt = now /\ h.open = d.open
         /\ h.stopped = d.stopped /\ h.fired = d.fired
BY DEF Deadlines

\* A request: the count goes up, and the first one holds the deadline.
LEMMA ParkedFits ==
  ASSUME NEW d \in Deadlines, NEW S \in SUBSET Requests,
         NEW q \in Requests \ S, NEW s \in BOOLEAN,
         now \in 0 .. MaxTime, worked \in 0 .. MaxTime,
         ~d.stopped, ~d.fired, Fits(d, S, now, worked, s)
  PROVE  /\ Parked(d) \in Deadlines
         /\ \/ Fired(Parked(d), worked, s)
            \/ /\ ~Parked(d).stopped /\ ~Parked(d).fired
               /\ Fits(Parked(d), S \cup {q}, now, worked, s)
<1> DEFINE c == [d EXCEPT !.open = @ + 1]
           left == d.remaining - (now - d.armedAt)
           h == [c EXCEPT !.remaining = left, !.timer = FALSE]
<1>0. /\ Cardinality(S) \in Nat /\ Cardinality(S \cup {q}) = Cardinality(S) + 1
      /\ Budget \in Nat /\ MaxTime \in Nat
  BY RequestsCounted, RoomClockAssumption
<1>1. /\ c \in Deadlines /\ c.remaining = d.remaining /\ c.timer = d.timer
      /\ c.armedAt = d.armedAt /\ c.open = d.open + 1
      /\ c.stopped = d.stopped /\ c.fired = d.fired
  BY DEF Deadlines
<1>2. CASE d.open = 0
  <2>1. d.timer
    BY <1>2 DEF Fits
  <2>2. Parked(d) = IF left <= 0
                          THEN [h EXCEPT !.fired = TRUE] ELSE h
    BY <1>1, <1>2, <2>1 DEF Parked, HeldBack, Expired, Deadlines
  <2>3. Spare(d, now) = left /\ left \in Int
    BY <2>1 DEF Spare, Deadlines
  <2> HIDE DEF c, left
  <2> DEFINE p == Parked(d)
  <2>4. h = [c EXCEPT !.remaining = left, !.timer = FALSE]
    OBVIOUS
  <2> HIDE DEF h
  <2>5. /\ h \in Deadlines /\ h.remaining = left /\ ~h.timer
        /\ h.open = c.open /\ h.stopped = c.stopped /\ h.fired = c.fired
    <3>1. c \in Deadlines /\ left \in Int
      BY <1>1, <2>3
    <3> QED
      BY <2>4, <3>1 DEF Deadlines
  <2>6. h.open = 1 /\ ~h.stopped /\ ~h.fired
    BY <1>1, <1>2, <2>5
  <2>7. /\ p \in Deadlines /\ p.remaining = left /\ ~p.timer /\ p.open = 1
        /\ ~p.stopped /\ (p.fired <=> left <= 0)
    <3>1. CASE left <= 0
      <4>1. p = [h EXCEPT !.fired = TRUE]
        BY <2>2, <3>1
      <4> HIDE DEF p
      <4> QED
        BY <2>6, <2>5, <2>3, <3>1, <4>1, DeadlineFired
    <3>2. CASE ~(left <= 0)
      BY <2>2, <2>6, <2>5, <3>2
    <3> QED
      BY <3>1, <3>2
  <2> HIDE DEF p
  <2>8. Spare(p, now) = left
    BY <2>7 DEF Spare
  <2>9. /\ left <= Budget - worked /\ (~s => left = Budget - worked)
        /\ ~s => Cardinality(S) = 0
    BY <1>2, <2>3 DEF Fits
  <2>10. CASE left <= 0
    BY <1>0, <2>3, <2>7, <2>9, <2>10 DEF Fired, p
  <2>11. CASE ~(left <= 0)
    <3>1. Fits(p, S \cup {q}, now, worked, s)
      BY <1>0, <2>3, <2>7, <2>8, <2>9, <2>11 DEF Fits
    <3> QED
      BY <2>7, <2>11, <3>1 DEF p
  <2> QED
    BY <2>10, <2>11
<1>3. CASE d.open # 0
  <2>1. Parked(d) = c
    BY <1>3 DEF Parked
  <2> HIDE DEF c
  <2> QED
    BY <1>0, <1>1, <1>3, <2>1 DEF Fits, Spare, Deadlines
<1> QED
  BY <1>2, <1>3

\* An answer; with no request counted it does nothing.
LEMMA ResumedFits ==
  ASSUME NEW d \in Deadlines, NEW S \in SUBSET Requests,
         NEW T \in SUBSET Requests, NEW s \in BOOLEAN, NEW t \in BOOLEAN,
         now \in 0 .. MaxTime, worked \in 0 .. MaxTime,
         ~d.stopped, ~d.fired, Fits(d, S, now, worked, s), s => t,
         \/ T = S /\ (S # {} => t)
         \/ \E q \in S : T = S \ {q}
  PROVE  /\ Resumed(d) \in Deadlines
         /\ \/ Fired(Resumed(d), worked, t)
            \/ /\ ~Resumed(d).stopped /\ ~Resumed(d).fired
               /\ Fits(Resumed(d), T, now, worked, t)
<1> DEFINE c == [d EXCEPT !.open = @ - 1]
<1>0. /\ Cardinality(S) \in Nat /\ Cardinality(T) \in Nat
      /\ \/ T = S /\ (Cardinality(S) # 0 => t)
         \/ Cardinality(T) = Cardinality(S) - 1
      /\ Budget \in Nat /\ MaxTime \in Nat
  BY RequestsCounted, RoomClockAssumption
<1>2. CASE d.open = 0
  <2>1. Resumed(d) = d
    BY <1>2 DEF Resumed
  <2> QED
    BY <1>0, <1>2, <2>1 DEF Fits, Spare, Deadlines
<1>3. CASE d.open # 0
  <2>1. /\ c \in Deadlines /\ c.remaining = d.remaining /\ c.timer = d.timer
        /\ c.armedAt = d.armedAt /\ c.open = d.open - 1
        /\ c.stopped = d.stopped /\ c.fired = d.fired
    BY <1>3 DEF Deadlines
  <2>2. ~d.timer /\ Spare(d, now) = d.remaining
    BY <1>3 DEF Fits, Spare
  <2>3. Resumed(d) = Armed(c)
    BY <1>3 DEF Resumed
  <2>4. Armed(c) = IF c.open > 0 THEN c
                         ELSE IF c.remaining <= 0 THEN [c EXCEPT !.fired = TRUE]
                         ELSE [c EXCEPT !.timer = TRUE, !.armedAt = now]
    BY <2>1 DEF Armed, Expired
  <2> HIDE DEF c
  <2> DEFINE p == Resumed(d)
  <2>5. CASE c.open > 0
    BY <1>0, <1>3, <2>1, <2>2, <2>3, <2>4, <2>5 DEF Fits, Spare, Deadlines
  <2>6. CASE ~(c.open > 0)
    <3>1. /\ p \in Deadlines /\ p.remaining = d.remaining /\ p.open = 0 /\ ~p.stopped
          /\ p.fired <=> d.remaining <= 0
          /\ d.remaining > 0 => p.timer /\ p.armedAt = now
      <4>0. c.remaining \in Int /\ c.open = 0
        BY <2>1, <2>6, <1>3 DEF Deadlines
      <4>1. CASE d.remaining <= 0
        <5>1. p = [c EXCEPT !.fired = TRUE]
          BY <2>1, <2>3, <2>4, <2>6, <4>1
        <5> HIDE DEF p
        <5> QED
          BY <2>1, <4>0, <4>1, <5>1, DeadlineFired
      <4>2. CASE ~(d.remaining <= 0)
        <5>1. p = [c EXCEPT !.timer = TRUE, !.armedAt = now]
          BY <2>1, <2>3, <2>4, <2>6, <4>2
        <5> HIDE DEF p
        <5> QED
          BY <2>1, <4>0, <4>2, <5>1, DeadlineArmed
      <4> QED
        BY <4>1, <4>2
    <3> HIDE DEF p
    <3>2. /\ d.remaining \in Int
          /\ d.remaining <= Budget - worked /\ (~t => d.remaining = Budget - worked)
          /\ ~t => Cardinality(T) = 0
      BY <1>0, <1>3, <2>1, <2>2, <2>6 DEF Fits, Deadlines
    <3>3. CASE d.remaining <= 0
      BY <1>0, <3>1, <3>2, <3>3 DEF Fired, p
    <3>4. CASE ~(d.remaining <= 0)
      <4>1. p.timer /\ p.armedAt = now
        BY <3>1, <3>2, <3>4
      <4>2. Spare(p, now) = d.remaining
        BY <3>1, <3>2, <4>1 DEF Spare
      <4>3. Fits(p, T, now, worked, t)
        BY <1>0, <3>1, <3>2, <4>1, <4>2 DEF Fits
      <4> QED
        BY <3>1, <3>4, <4>3 DEF p
    <3> QED
      BY <3>3, <3>4
  <2> QED
    BY <2>5, <2>6
<1> QED
  BY <1>2, <1>3

\* RoomTurnDeadline.stop.
LEMMA DeadlineStopped ==
  ASSUME NEW d \in Deadlines
  PROVE  Stopped(d) \in Deadlines /\ ~Stopped(d).timer
BY DEF Deadlines, Stopped

\* The turn's subscriber keeps the invariant's part about the turn, if what it
\* heard leaves a deadline d that fits or has run out.
LEMMA HearsKeeps ==
  ASSUME ClockInv, NEW d, Hears(d),
         UNCHANGED <<now, worked, provider>>, asked' \in SUBSET Requests,
         strayed' \in BOOLEAN, strayed => strayed',
         entry' \in [lastEventAt : 0 .. MaxTime, waiting : BOOLEAN] \/ entry' = NoEntry,
         entry' = NoEntry => entry = NoEntry,
         outcome = "pending" => d \in Deadlines,
         outcome = "pending" =>
           \/ Fired(d, worked, strayed')
           \/ ~d.stopped /\ ~d.fired /\ Fits(d, asked', now, worked, strayed')
  PROVE  ClockInv'
<1> USE DEF ClockInv
<1>1. CASE outcome # "pending"
  <2>1. UNCHANGED <<outcome, deadline>>
    BY <1>1 DEF Hears
  <2> QED
    BY <1>1, <2>1 DEF ClockTypeOK, WaitingIsFree, WaitingNeverCounts
<1>2. CASE outcome = "pending" /\ d.fired
  <2>1. outcome' = "timed_out" /\ deadline' = Stopped(d)
    BY <1>2 DEF Hears, Concludes
  <2>2. deadline' \in Deadlines /\ ~deadline'.timer
    BY <1>2, <2>1, DeadlineStopped
  <2>3. ~strayed' => worked >= Budget
    BY <1>2 DEF Fired
  <2>4. ClockTypeOK'
    BY <2>1, <2>2 DEF ClockTypeOK, Outcomes, Deadlines
  <2> QED
    BY <2>1, <2>2, <2>3, <2>4 DEF WaitingIsFree, WaitingNeverCounts
<1>3. CASE outcome = "pending" /\ ~d.fired
  <2>1. outcome' = outcome /\ deadline' = d
    BY <1>3 DEF Hears
  <2>2. ~d.stopped /\ Fits(d, asked', now, worked, strayed')
    BY <1>3 DEF Fired
  <2>3. ClockTypeOK'
    BY <1>3, <2>1 DEF ClockTypeOK, Outcomes, Deadlines
  <2>4. (Fits(deadline, asked, now, worked, strayed))'
    BY <2>1, <2>2 DEF Fits, Spare
  <2> QED
    BY <1>3, <2>1, <2>2, <2>3, <2>4
      DEF WaitingIsFree, WaitingNeverCounts
<1> QED
  BY <1>1, <1>2, <1>3

\* The watchdog's part of an event.
LEMMA WaitsEntry ==
  ASSUME ClockInv, NEW b \in BOOLEAN, Waits(b)
  PROVE  /\ \/ entry' \in [lastEventAt : 0 .. MaxTime, waiting : BOOLEAN]
            \/ entry' = NoEntry
         /\ entry' = NoEntry => entry = NoEntry
BY RoomClockAssumption DEF ClockInv, ClockTypeOK, Waits

\* Whatever ends the turn stops its deadline.
LEMMA EndsKeeps ==
  ASSUME ClockInv, NEW value \in Outcomes, NEW d \in Deadlines,
         Concludes(value, d), UNCHANGED <<now, worked, strayed>>,
         asked' \in SUBSET Requests, provider' \in {"running", "over"},
         entry' = entry \/ entry' = NoEntry,
         outcome = "pending" /\ value = "timed_out" /\ ~strayed => worked >= Budget
  PROVE  ClockInv'
<1>1. /\ outcome' # "pending" /\ outcome' \in Outcomes
      /\ deadline' \in Deadlines /\ ~deadline'.timer
  BY DeadlineStopped
    DEF ClockInv, ClockTypeOK, Deadlines, Concludes, Outcomes
<1>2. ClockTypeOK'
  BY <1>1 DEF ClockInv, ClockTypeOK, Deadlines
<1>3. WaitingIsFree'
  BY DEF ClockInv, Concludes, WaitingIsFree, WaitingNeverCounts
<1> QED
  BY <1>1, <1>2, <1>3 DEF ClockInv

-----------------------------------------------------------------------------
\* The invariant holds at the start.
LEMMA ClockInvStarts ==
  ASSUME ClockInit
  PROVE  ClockInv
<1>0. /\ Budget \in Nat \ {0} /\ MaxTime \in Nat
      /\ NoEntry \notin [lastEventAt : 0 .. MaxTime, waiting : BOOLEAN]
      /\ Cardinality({}) = 0
  BY FS_EmptySet, RoomClockAssumption
<1>1. /\ now = 0 /\ worked = 0 /\ asked = {} /\ strayed = FALSE
      /\ deadline = [remaining |-> Budget, timer |-> TRUE, armedAt |-> 0,
                     open |-> 0, stopped |-> FALSE, fired |-> FALSE]
      /\ entry = [lastEventAt |-> 0, waiting |-> FALSE]
      /\ provider = "running" /\ outcome = "pending"
  BY DEF ClockInit
<1>2. entry \in [lastEventAt : 0 .. MaxTime, waiting : BOOLEAN]
  BY <1>0, <1>1
<1>3. entry # NoEntry
  BY <1>0, <1>2
<1>5. deadline \in Deadlines /\ 0 \in 0 .. MaxTime
  BY <1>0, <1>1 DEF Deadlines
<1>6. ClockTypeOK
  BY <1>1, <1>2, <1>5 DEF ClockTypeOK, Deadlines
<1>4. Fits(deadline, asked, now, worked, strayed)
  BY <1>0, <1>1 DEF Fits, Spare
<1> QED
  BY <1>1, <1>3, <1>4, <1>6
    DEF ClockInv, WaitingIsFree, WaitingNeverCounts

\* A unit passes: it counts as work only if nothing is asked, and then the
\* deadline is armed and has a unit less.
LEMMA TickKeeps ==
  ASSUME ClockInv, Tick
  PROVE  ClockInv'
<1> USE DEF ClockInv
<1>0. Budget \in Nat /\ MaxTime \in Nat
  BY RoomClockAssumption
<1>1. /\ now < MaxTime /\ now' = now + 1
      /\ worked' = IF outcome = "pending" /\ asked = {} THEN worked + 1 ELSE worked
      /\ UNCHANGED <<deadline, entry, asked, provider, outcome, strayed>>
  BY DEF Tick
<1>2. /\ now \in 0 .. MaxTime /\ worked \in 0 .. MaxTime /\ worked <= now
      /\ deadline \in Deadlines /\ asked \in SUBSET Requests
  BY DEF ClockTypeOK, Deadlines
<1>3. /\ now' \in 0 .. MaxTime /\ worked' \in 0 .. MaxTime
      /\ worked' <= now' /\ worked' >= worked
  BY <1>0, <1>1, <1>2
<1>4. ClockTypeOK'
  BY <1>1, <1>3 DEF ClockTypeOK
<1>5. WaitingIsFree'
  BY <1>0, <1>1, <1>2, <1>3 DEF WaitingIsFree, WaitingNeverCounts
<1>6. ASSUME outcome = "pending"
      PROVE  Fits(deadline, asked, now, worked, strayed)'
  <2>1. Cardinality(asked) \in Nat /\ (Cardinality(asked) = 0 <=> asked = {})
    BY <1>2, RequestsCounted
  <2>2. Fits(deadline, asked, now, worked, strayed)
    BY <1>6
  <2>3. deadline' = deadline /\ asked' = asked /\ strayed' = strayed
    BY <1>1
  <2>4. worked' = IF asked = {} THEN worked + 1 ELSE worked
    BY <1>1, <1>6
  <2>5. /\ deadline.remaining \in Int /\ deadline.armedAt \in Int
        /\ deadline.open \in Nat /\ deadline.timer \in BOOLEAN
    BY <1>2 DEF Deadlines
  <2>6. CASE deadline.timer
    <3>1. Spare(deadline, now') = Spare(deadline, now) - 1 /\ Spare(deadline, now) \in Int
      BY <1>1, <1>2, <2>5, <2>6 DEF Spare
    <3>2. Fits(deadline, asked, now', worked', strayed)
      BY <1>0, <1>2, <2>1, <2>2, <2>4, <2>5, <2>6, <3>1 DEF Fits
    <3> QED
      BY <2>3, <3>2 DEF Fits, Spare
  <2>7. CASE ~deadline.timer
    <3>1. asked # {} /\ worked' = worked
      BY <2>1, <2>2, <2>4, <2>5, <2>7 DEF Fits
    <3> QED
      BY <2>2, <2>3, <2>7, <3>1 DEF Fits, Spare
  <2> QED
    BY <2>6, <2>7
<1> QED
  BY <1>1, <1>3, <1>4, <1>5, <1>6

\* A request opens.
LEMMA OpensKeeps ==
  ASSUME ClockInv, NEW q \in Requests, OpensRequest(q)
  PROVE  ClockInv'
<1>1. /\ q \notin asked /\ asked' = asked \cup {q} /\ Waits(TRUE)
      /\ Hears(Parked(deadline))
      /\ UNCHANGED <<now, provider, worked, strayed>>
  BY DEF OpensRequest
<1>2. /\ now \in 0 .. MaxTime /\ worked \in 0 .. MaxTime /\ strayed \in BOOLEAN
      /\ deadline \in Deadlines /\ asked \in SUBSET Requests
  BY DEF ClockInv, ClockTypeOK, Deadlines
<1>3. /\ entry' \in [lastEventAt : 0 .. MaxTime, waiting : BOOLEAN] \/ entry' = NoEntry
      /\ entry' = NoEntry => entry = NoEntry
  BY <1>1, WaitsEntry
<1>5. ASSUME outcome = "pending"
      PROVE  LET d == Parked(deadline) IN
             /\ d \in Deadlines
             /\ \/ Fired(d, worked, strayed)
                \/ ~d.stopped /\ ~d.fired /\ Fits(d, asked \cup {q}, now, worked, strayed)
  <2>1. /\ ~deadline.stopped /\ ~deadline.fired
        /\ Fits(deadline, asked, now, worked, strayed)
    BY <1>5 DEF ClockInv
  <2> QED
    BY <1>1, <1>2, <2>1, ParkedFits
<1> QED
  BY <1>1, <1>2, <1>3, <1>5, HearsKeeps

\* An answer that takes the open requests to those in T, or a stray one.
LEMMA AnswerKeeps ==
  ASSUME ClockInv, NEW T \in SUBSET Requests,
         NEW t \in BOOLEAN, asked' = T, strayed' = t, strayed => t,
         \/ T = asked /\ (asked # {} => t)
         \/ \E q \in asked : T = asked \ {q},
         Waits(FALSE), Hears(Resumed(deadline)),
         UNCHANGED <<now, provider, worked>>
  PROVE  ClockInv'
<1>2. /\ now \in 0 .. MaxTime /\ worked \in 0 .. MaxTime /\ strayed \in BOOLEAN
      /\ deadline \in Deadlines /\ asked \in SUBSET Requests
  BY DEF ClockInv, ClockTypeOK, Deadlines
<1>3. /\ entry' \in [lastEventAt : 0 .. MaxTime, waiting : BOOLEAN] \/ entry' = NoEntry
      /\ entry' = NoEntry => entry = NoEntry
  BY WaitsEntry
<1>5. ASSUME outcome = "pending"
      PROVE  LET d == Resumed(deadline) IN
             /\ d \in Deadlines
             /\ \/ Fired(d, worked, t)
                \/ ~d.stopped /\ ~d.fired /\ Fits(d, T, now, worked, t)
  <2>1. /\ ~deadline.stopped /\ ~deadline.fired
        /\ Fits(deadline, asked, now, worked, strayed)
    BY <1>5 DEF ClockInv
  <2> QED
    BY <1>2, <2>1, ResumedFits
<1> QED
  BY <1>2, <1>3, <1>5, HearsKeeps

\* The deadline's timer fires no earlier than the budget is worked.
LEMMA TimerKeeps ==
  ASSUME ClockInv, TimerFires
  PROVE  ClockInv'
<1> DEFINE d == Expired([deadline EXCEPT !.timer = FALSE])
<1>1. /\ deadline.timer /\ now >= deadline.armedAt + deadline.remaining
      /\ Concludes("timed_out", d)
      /\ UNCHANGED <<now, entry, asked, provider, worked, strayed>>
  BY DEF TimerFires
<1>2. /\ now \in 0 .. MaxTime /\ worked \in 0 .. MaxTime
      /\ deadline \in Deadlines /\ asked \in SUBSET Requests
      /\ provider \in {"running", "over"} /\ Budget \in Nat
  BY RoomClockAssumption DEF ClockInv, ClockTypeOK, Deadlines
<1>3. d \in Deadlines
  BY <1>2 DEF Expired, Deadlines
<1>4. outcome = "pending" /\ Fits(deadline, asked, now, worked, strayed)
  BY <1>1 DEF ClockInv
<1>5. deadline.remaining \in Int /\ deadline.armedAt \in Int
  BY <1>2 DEF Deadlines
<1>6. ~strayed => worked >= Budget
  BY <1>1, <1>2, <1>4, <1>5 DEF Fits, Spare
<1> HIDE DEF d
<1> QED
  BY <1>1, <1>2, <1>3, <1>6, EndsKeeps DEF Outcomes

\* Every step keeps the invariant.
LEMMA ClockInvKept ==
  ASSUME ClockInv, [ClockNext]_clockVars
  PROVE  ClockInv'
<1>0. /\ deadline \in Deadlines /\ asked \in SUBSET Requests
      /\ strayed \in BOOLEAN /\ provider \in {"running", "over"} /\ now \in 0 .. MaxTime
      /\ NoEntry \notin [lastEventAt : 0 .. MaxTime, waiting : BOOLEAN]
  BY RoomClockAssumption DEF ClockInv, ClockTypeOK, Deadlines
<1>1. CASE Tick
  BY <1>1, TickKeeps
<1>2. CASE Emits
  <2>1. /\ entry' = IF entry = NoEntry THEN NoEntry ELSE [entry EXCEPT !.lastEventAt = now]
        /\ UNCHANGED <<now, deadline, asked, provider, outcome, worked, strayed>>
    BY <1>2 DEF Emits
  <2>2. ClockTypeOK' /\ (entry # NoEntry => entry' # NoEntry)
    BY <1>0, <2>1 DEF ClockInv, ClockTypeOK
  <2> QED
    BY <2>1, <2>2
      DEF ClockInv, Fits, Spare, WaitingIsFree, WaitingNeverCounts
<1>3. CASE StrayResolves
  <2>1. /\ strayed' = (strayed \/ asked # {}) /\ asked' = asked
        /\ Waits(FALSE) /\ Hears(Resumed(deadline))
        /\ UNCHANGED <<now, provider, worked>>
    BY <1>3 DEF StrayResolves
  <2>2. /\ strayed' \in BOOLEAN /\ (strayed => strayed')
        /\ asked # {} => strayed'
    BY <2>1, <1>0
  <2> QED
    BY <1>0, <2>1, <2>2, AnswerKeeps
<1>4. CASE TimerFires
  BY <1>4, TimerKeeps
<1>5. CASE Sweeps
  <2>1. /\ entry' = NoEntry /\ Concludes("stalled", deadline)
        /\ UNCHANGED <<now, asked, provider, worked, strayed>>
    BY <1>5 DEF Sweeps
  <2> QED
    BY <1>0, <2>1, EndsKeeps DEF Outcomes
<1>6. ASSUME NEW value \in Outcomes, value # "timed_out", Finishes(value)
      PROVE  ClockInv'
  <2>1. /\ provider' = "over" /\ asked' = {} /\ entry' = NoEntry
        /\ Concludes(value, deadline) /\ UNCHANGED <<now, worked, strayed>>
    BY <1>6 DEF Finishes
  <2> QED
    BY <1>0, <1>6, <2>1, EndsKeeps
<1>7. CASE Completes \/ DispatchFails
  BY <1>6, <1>7 DEF Completes, DispatchFails, Outcomes
<1>8. ASSUME NEW q \in Requests, OpensRequest(q)
      PROVE  ClockInv'
  BY <1>8, OpensKeeps
<1>9. ASSUME NEW q \in Requests, Resolves(q)
      PROVE  ClockInv'
  <2>1. /\ q \in asked /\ asked' = asked \ {q} /\ strayed' = strayed
        /\ Waits(FALSE) /\ Hears(Resumed(deadline))
        /\ UNCHANGED <<now, provider, worked>>
    BY <1>9 DEF Resolves
  <2>2. asked \ {q} \in SUBSET Requests
    BY <1>0
  <2> QED
    BY <1>0, <2>1, <2>2, AnswerKeeps
<1>10. CASE UNCHANGED clockVars
  BY <1>10 DEF clockVars, ClockInv, ClockTypeOK, Fits, Spare,
    WaitingIsFree, WaitingNeverCounts
<1> QED
  BY <1>1, <1>2, <1>3, <1>4, <1>5, <1>7, <1>8, <1>9, <1>10 DEF ClockNext

\* The invariant says what the run checks.
LEMMA ClockShows ==
  ASSUME ClockInv
  PROVE  ClocksFollowTheTurn
<1>1. /\ deadline \in Deadlines /\ asked \in SUBSET Requests
      /\ now \in 0 .. MaxTime /\ worked \in 0 .. MaxTime /\ Budget \in Nat
  BY RoomClockAssumption DEF ClockInv, ClockTypeOK, Deadlines
<1>2. CASE outcome = "pending"
  <2>1. entry # NoEntry /\ Fits(deadline, asked, now, worked, strayed)
    BY <1>2 DEF ClockInv
  <2>2. ASSUME asked = {}
        PROVE  /\ deadline.timer
               /\ deadline.armedAt + deadline.remaining - now <= Budget - worked
    <3>1. deadline.open \in Nat /\ deadline.armedAt \in Int /\ deadline.remaining \in Int
      BY <1>1 DEF Deadlines
    <3>2. deadline.open = 0
      BY <1>1, <2>1, <2>2, <3>1, RequestsCounted DEF Fits
    <3> QED
      BY <1>1, <2>1, <3>1, <3>2 DEF Fits, Spare
  <2> QED
    BY <1>2, <2>1, <2>2 DEF ClocksFollowTheTurn
<1>3. CASE outcome # "pending"
  BY <1>3 DEF ClockInv, ClocksFollowTheTurn
<1> QED
  BY <1>2, <1>3

\* For any budget, any stall time and any set of requests: while the room waits
\* for the turn the watchdog knows it and its ceiling is armed whenever it has
\* nothing open, and a turn that is over leaves no timer (RoomTurnDeadline,
\* runGroupMemberTurn).
THEOREM ClocksInStep ==
  ClockSpec => []ClocksFollowTheTurn
<1>1. ClockInit => ClockInv
  BY ClockInvStarts
<1>2. ClockInv /\ [ClockNext]_clockVars => ClockInv'
  BY ClockInvKept
<1>3. ClockInv => ClocksFollowTheTurn
  BY ClockShows
<1> QED
  BY <1>1, <1>2, <1>3, PTL DEF ClockSpec

\* For any number of requests, opened and answered in any order and for however
\* long: a turn is timed out only after a whole budget of work, unless a stray
\* resolve came while one of its own requests was open.
THEOREM WaitsAreFree ==
  ClockSpec => []WaitingIsFree
<1>1. ClockInit => ClockInv
  BY ClockInvStarts
<1>2. ClockInv /\ [ClockNext]_clockVars => ClockInv'
  BY ClockInvKept
<1>3. ClockInv => WaitingIsFree
  BY DEF ClockInv
<1> QED
  BY <1>1, <1>2, <1>3, PTL DEF ClockSpec

=============================================================================
