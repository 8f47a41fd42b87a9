----------------------------- MODULE TurnEngine ------------------------------
(***************************************************************************)
(* Who owns a bot's turn (server/index.ts).  A bot works either in its own *)
(* chat (startTurn) or in a room (startGroupTurn, runGroupMemberTurn);     *)
(* both engines share the bot's `activity`, from which `busy` is derived.  *)
(* A turn lives in three places at once: the store (activity, busyBotId),  *)
(* the provider's adapter (which holds at most one turn per thread and     *)
(* tells the rest through events on the bus), and the stall watchdog.      *)
(* Node runs every handler to completion; what is modelled as one action   *)
(* is the code between two awaits, with every bus subscriber it runs.      *)
(*                                                                         *)
(* A turn is <<bot, slot>>; slots are reused once the turn is over.  The   *)
(* thread of a bot's chat is the bot itself, the thread of a room the room.*)
(***************************************************************************)
EXTENDS Naturals, FiniteSets

CONSTANTS
  Bots, Rooms,
  None,            \* null
  MaxTurns,        \* bound: unfinished turns of one bot
  MaxQueue,        \* bound: messages held for one bot, and for one room
  MaxAsks,         \* bound: requests one turn has open at once
  ConnectedApps,   \* a room turn awaits the connected-apps integration
  Steering,        \* bots whose provider takes a message inside its turn
  Stalls,          \* what a wedged provider may do when it is stopped
  LateRejects      \* sendTurn may reject after its turn was completed

ASSUME TurnAssumption ==
  /\ MaxTurns \in Nat \ {0} /\ MaxQueue \in Nat /\ MaxAsks \in Nat
  /\ Steering \subseteq Bots /\ {ConnectedApps, LateRejects} \subseteq BOOLEAN
  /\ Stalls \subseteq {"dies", "answers"}    \* {}: nothing ever wedges
  /\ Bots \cap Rooms = {} /\ None \notin Bots \cup Rooms

Threads == Bots \cup Rooms
Turns == Bots \X (1 .. MaxTurns)

VARIABLES
  activity,   \* BotRecord.activity
  turn,       \* every turn: its thread, stage, open asks, pending sendTurn
  watch,      \* TurnWatchdog.turns: whom a thread's turn belongs to
  grace,      \* the 6 s release timers armed by onStall, <<bot, thread>>
  queue,      \* steer-queue.ts: messages held for the bot's chat
  steering,   \* POST .../messages awaiting adapter.steer
  owner,      \* GroupRecord.busyBotId, and groupSpeakers with it
  room        \* the room's chain of queued messages (groupQueues)

vars == <<activity, turn, watch, grace, queue, steering, owner, room>>

Activities == {"idle", "working", "waiting-on-you", "dead"}
Busy == {"working", "waiting-on-you"}
\* connecting: a room turn before it marks the bot busy; setup: startTurn's
\* background work; launching: inside sendTurn, the adapter has no turn yet;
\* refused: sendTurn is about to reject, the thread has a turn; running: the
\* adapter has it; ending: the adapter was told to stop it;
\* over: completed, but its sendTurn call has not returned.
Stages == {"none", "connecting", "setup", "launching", "refused",
           "running", "ending", "over"}
AtAdapter == {"running", "ending"}
Live == {"setup", "launching", "refused"} \cup AtAdapter

NoTurn == [thread |-> None, stage |-> "none", asks |-> 0, sending |-> FALSE]
NoWatch == [bot |-> None, parked |-> FALSE]
IdleRoom == [waiting |-> 0, active |-> FALSE, current |-> None, hop |-> 0,
             direct |-> {}, chained |-> {}, spoken |-> {}]

TurnRecords == [thread : Threads \cup {None}, stage : Stages,
                asks : 0 .. MaxAsks, sending : BOOLEAN]
RoomRecords == [waiting : 0 .. MaxQueue, active : BOOLEAN,
                current : Bots \cup {None}, hop : 0 .. 1, direct : SUBSET Bots,
                chained : SUBSET Bots, spoken : SUBSET Bots]

TypeOK ==
  /\ activity \in [Bots -> Activities]
  /\ turn \in [Turns -> TurnRecords]
  /\ watch \in [Threads -> [bot : Bots \cup {None}, parked : BOOLEAN]]
  /\ grace \subseteq Bots \X Threads
  /\ queue \in [Bots -> 0 .. MaxQueue]
  /\ steering \subseteq Bots
  /\ owner \in [Rooms -> Bots \cup {None}]
  /\ room \in [Rooms -> RoomRecords]

Init ==
  /\ activity = [b \in Bots |-> "idle"]
  /\ turn = [k \in Turns |-> NoTurn]
  /\ watch = [t \in Threads |-> NoWatch]
  /\ grace = {} /\ steering = {}
  /\ queue = [b \in Bots |-> 0]
  /\ owner = [r \in Rooms |-> None]
  /\ room = [r \in Rooms |-> IdleRoom]

-----------------------------------------------------------------------------
\* Turns of bot b, and a slot for the next one.
TurnsOf(b) == {k \in Turns : k[1] = b}
HasSlot(tu, b) == \E k \in TurnsOf(b) : tu[k].stage = "none"
NextTurn(tu, b) == CHOOSE k \in TurnsOf(b) : tu[k].stage = "none"

Opened(t, stage) ==
  [thread |-> t, stage |-> stage, asks |-> 0, sending |-> FALSE]

\* A turn that is over gives its slot back unless its sendTurn is still pending.
Closed(tu, k) ==
  [tu EXCEPT ![k] = IF @.sending THEN [@ EXCEPT !.stage = "over", !.asks = 0]
                    ELSE NoTurn]

\* drainQueuedSends, from activity a and turns tu: every idle bot with held
\* messages starts one chat turn for all of them.  The entry leaves the queue
\* before anything runs, and startTurn marks the bot busy before it returns.
Drained(a, tu) ==
  LET free == {b \in Bots : queue[b] > 0 /\ a[b] \notin Busy} IN
  /\ \A b \in free : HasSlot(tu, b)
  /\ activity' = [b \in Bots |-> IF b \in free THEN "working" ELSE a[b]]
  /\ turn' = [k \in Turns |->
                IF k[1] \in free /\ k = NextTurn(tu, k[1])
                THEN Opened(k[1], "setup") ELSE tu[k]]
  /\ queue' = [b \in Bots |-> IF b \in free THEN 0 ELSE queue[b]]

Unwatched(t) == watch' = [watch EXCEPT ![t] = NoWatch]

\* interruptTurn: the adapter stops the turn it has on the thread, if any.
Interrupted(tu, t) ==
  [k \in Turns |-> IF tu[k].thread = t /\ tu[k].stage = "running"
                   THEN [tu[k] EXCEPT !.stage = "ending"] ELSE tu[k]]

-----------------------------------------------------------------------------
(* A message to the bot's chat: POST /api/bots/:id/messages.               *)

\* The bot is idle: startTurn, up to its first await.
Send(b) ==
  /\ activity[b] \notin Busy
  /\ HasSlot(turn, b)
  /\ turn' = [turn EXCEPT ![NextTurn(turn, b)] = Opened(b, "setup")]
  /\ activity' = [activity EXCEPT ![b] = "working"]
  /\ UNCHANGED <<watch, grace, queue, steering, owner, room>>

Held(b) ==
  /\ queue[b] < MaxQueue
  /\ queue' = [queue EXCEPT ![b] = @ + 1]

\* The bot is busy: the message is offered to its live turn, or held.
SendBusy(b) ==
  /\ activity[b] \in Busy
  /\ \/ b \in Steering \ steering /\ steering' = steering \cup {b} /\ UNCHANGED queue
     \/ b \notin Steering /\ Held(b) /\ UNCHANGED steering
  /\ UNCHANGED <<activity, turn, watch, grace, owner, room>>

\* adapter.steer answers: taken by a chat turn it has, or false, and then the
\* message is held without another look at `busy`.
SteerAnswers(b) ==
  /\ b \in steering
  /\ steering' = steering \ {b}
  /\ \/ /\ \E k \in TurnsOf(b) : turn[k].thread = b /\ turn[k].stage = "running"
        /\ UNCHANGED queue
     \/ Held(b)
  /\ UNCHANGED <<activity, turn, watch, grace, owner, room>>

-----------------------------------------------------------------------------
(* From the harness to the adapter.                                        *)

\* The catch of startTurn: the thread is no longer watched, the bot is idle
\* whatever it was doing, and the queues are drained.
ChatRejected(k) ==
  /\ Unwatched(k[1])
  /\ Drained([activity EXCEPT ![k[1]] = "idle"], [turn EXCEPT ![k] = NoTurn])
  /\ UNCHANGED <<grace, steering, owner, room>>

\* Setting up a chat turn fails before it is dispatched (a computer or an
\* integration is unavailable).
SetupFails(k) ==
  /\ turn[k].stage = "setup"
  /\ ChatRejected(k)

\* A sendTurn call: the watchdog watches the thread first, and the adapter
\* refuses a thread it has a turn on.
AdapterHas(t) ==
  \E j \in Turns : turn[j].thread = t /\ turn[j].stage \in AtAdapter

Called(t) ==
  [thread |-> t, stage |-> IF AdapterHas(t) THEN "refused" ELSE "launching",
   asks |-> 0, sending |-> TRUE]

\* startTurn dispatches a chat turn.
Launch(k) ==
  /\ turn[k].stage = "setup"
  /\ watch' = [watch EXCEPT ![k[1]] = [bot |-> k[1], parked |-> FALSE]]
  /\ turn' = [turn EXCEPT ![k] = Called(k[1])]
  /\ UNCHANGED <<activity, grace, queue, steering, owner, room>>

\* The adapter takes the turn (it looked for another one before its own first
\* await, and does not look again).
Starts(k) ==
  /\ turn[k].stage = "launching"
  /\ \E pending \in {FALSE, LateRejects} :
       turn' = [turn EXCEPT ![k].stage = "running", ![k].sending = pending]
  /\ UNCHANGED <<activity, watch, grace, queue, steering, owner, room>>

\* sendTurn of a chat turn rejects: before the adapter has the turn, or
\* (LateRejects) after the provider completed it.
SendRejected(k) ==
  /\ turn[k].sending
  /\ turn[k].stage \in {"launching", "refused", "over"}
  /\ turn[k].thread = k[1]
  /\ ChatRejected(k)

\* sendTurn returns although its turn was completed first.
SendReturns(k) ==
  /\ turn[k].sending
  /\ turn[k].stage \in {"running", "ending", "over"}
  /\ turn' = IF turn[k].stage = "over" THEN [turn EXCEPT ![k] = NoTurn]
             ELSE [turn EXCEPT ![k].sending = FALSE]
  /\ UNCHANGED <<activity, watch, grace, queue, steering, owner, room>>

-----------------------------------------------------------------------------
(* The room's chain.  A queued message runs after the previous one; each of *)
(* its responders speaks in turn, and a responder of hop 0 may summon       *)
(* members who have not spoken yet, who speak first.                        *)

\* startGroupTurn: the message joins the room's chain.
RoomSend(r) ==
  /\ room[r].waiting < MaxQueue
  /\ room' = [room EXCEPT ![r].waiting = @ + 1]
  /\ UNCHANGED <<activity, turn, watch, grace, queue, steering, owner>>

\* The next message: refused while a member is still stopping.
RoomNext(r) ==
  /\ ~room[r].active /\ room[r].waiting > 0
  /\ \/ /\ owner[r] # None
        /\ room' = [room EXCEPT ![r].waiting = @ - 1]
     \/ /\ owner[r] = None
        /\ \E S \in SUBSET Bots \ {{}} :
             room' = [room EXCEPT ![r] =
               [IdleRoom EXCEPT !.waiting = room[r].waiting - 1,
                                !.active = TRUE, !.direct = S]]
  /\ UNCHANGED <<activity, turn, watch, grace, queue, steering, owner>>

\* The bots that may speak next: whoever was summoned before the rest.
Speakers(r) ==
  (IF room[r].chained # {} THEN room[r].chained ELSE room[r].direct)
  \ room[r].spoken

Between(r) == room[r].active /\ room[r].current = None

\* Everyone has spoken.
RoomDone(r) ==
  /\ Between(r)
  /\ (room[r].direct \cup room[r].chained) \subseteq room[r].spoken
  /\ room' = [room EXCEPT ![r] = [IdleRoom EXCEPT !.waiting = room[r].waiting]]
  /\ UNCHANGED <<activity, turn, watch, grace, queue, steering, owner>>

\* Room r once b was chosen to speak (spoken.add).
Chosen(r, b) ==
  [room[r] EXCEPT !.spoken = @ \cup {b}, !.chained = @ \ {b},
                  !.hop = IF b \in room[r].chained THEN 1 ELSE 0]

\* runGroupMemberTurn, up to its first await: a busy member is skipped; with
\* connected apps the turn awaits them before it marks the member busy.
MemberSkipped(r, b) ==
  /\ Between(r) /\ b \in Speakers(r)
  /\ activity[b] \in Busy
  /\ room' = [room EXCEPT ![r] = Chosen(r, b)]
  /\ UNCHANGED <<activity, turn, watch, grace, queue, steering, owner>>

\* The member takes the room and is dispatched: watched, then sendTurn.
Takes(r, b, k) ==
  /\ activity' = [activity EXCEPT ![b] = "working"]
  /\ owner' = [owner EXCEPT ![r] = b]
  /\ watch' = [watch EXCEPT ![r] = [bot |-> b, parked |-> FALSE]]
  /\ turn' = [turn EXCEPT ![k] = Called(r)]

\* Fault: a room does not look whether the member is busy in its own chat.
MemberBeginsUnchecked(r, b) ==
  LET k == NextTurn(turn, b) IN
  /\ Between(r) /\ b \in Speakers(r)
  /\ HasSlot(turn, b)
  /\ room' = [room EXCEPT ![r] = [Chosen(r, b) EXCEPT !.current = b]]
  /\ Takes(r, b, k)
  /\ UNCHANGED <<grace, queue, steering>>

MemberBegins(r, b) ==
  LET k == NextTurn(turn, b) IN
  /\ Between(r) /\ b \in Speakers(r)
  /\ activity[b] \notin Busy
  /\ HasSlot(turn, b)
  /\ room' = [room EXCEPT ![r] = [Chosen(r, b) EXCEPT !.current = b]]
  /\ IF ConnectedApps
     THEN /\ turn' = [turn EXCEPT ![k] = Opened(r, "connecting")]
          /\ UNCHANGED <<activity, owner, watch>>
     ELSE Takes(r, b, k)
  /\ UNCHANGED <<grace, queue, steering>>

\* The connected apps answered: no second look at `busy`.
MemberConnected(k) ==
  /\ turn[k].stage = "connecting" /\ turn[k].thread \in Rooms
  /\ Takes(turn[k].thread, k[1], k)
  /\ UNCHANGED <<grace, queue, steering, room>>

\* They did not: an error chip, and the next responder.
ConnectFails(k) ==
  /\ turn[k].stage = "connecting" /\ turn[k].thread \in Rooms
  /\ turn' = [turn EXCEPT ![k] = NoTurn]
  /\ room' = [room EXCEPT ![turn[k].thread].current = None]
  /\ UNCHANGED <<activity, watch, grace, queue, steering, owner>>

\* finish("settled" | "dispatch_failed"): what there is of the reply may summon
\* members who have not spoken.
Settles(r) ==
  \E next \in SUBSET (Bots \ room[r].spoken) :
    /\ room[r].hop = 1 => next = {}
    /\ room' = [room EXCEPT ![r].current = None,
                            ![r].chained = (@ \ room[r].spoken) \cup next]

\* finish("stalled" | "timed_out"): the rest of this message is given up.
GivesUp(r) == [room[r] EXCEPT !.current = None, !.direct = {}, !.chained = {}]

\* Fault: a rejected room dispatch does not retry what was queued behind it.
RoomRejectedUndrained(k) ==
  LET r == turn[k].thread
      b == k[1] IN
  /\ turn[k].sending
  /\ turn[k].stage \in {"launching", "refused", "over"}
  /\ r \in Rooms
  /\ Unwatched(r)
  /\ turn' = [turn EXCEPT ![k] = NoTurn]
  /\ IF room[r].current = b
     THEN /\ Settles(r)
          /\ owner' = [owner EXCEPT ![r] = IF @ = b THEN None ELSE @]
          /\ activity' = [x \in Bots |-> IF x = b /\ owner[r] = b /\ activity[b] \in Busy
                                         THEN "idle" ELSE activity[x]]
     ELSE UNCHANGED <<room, owner, activity>>
  /\ UNCHANGED <<grace, steering, queue>>

\* sendTurn of a room turn rejects.  If the room still waits for the member:
\* finish("dispatch_failed"), ownership is dropped, and the queues are drained.
RoomRejected(k) ==
  LET r == turn[k].thread
      b == k[1]
      over == [turn EXCEPT ![k] = NoTurn] IN
  /\ turn[k].sending
  /\ turn[k].stage \in {"launching", "refused", "over"}
  /\ r \in Rooms
  /\ Unwatched(r)
  /\ IF room[r].current = b
     THEN /\ Settles(r)
          /\ owner' = [owner EXCEPT ![r] = IF @ = b THEN None ELSE @]
          /\ Drained(IF owner[r] = b /\ activity[b] \in Busy
                     THEN [activity EXCEPT ![b] = "idle"] ELSE activity, over)
     ELSE turn' = over /\ UNCHANGED <<room, owner, activity, queue>>
  /\ UNCHANGED <<grace, steering>>

\* RoomTurnDeadline fires (held while a request is open): the turn is
\* interrupted, and the member keeps the room until its turn completes.  It
\* starts with the call of sendTurn, but the shortest deadline is a minute, and
\* an adapter takes or refuses a turn within seconds: it has the turn by then.
RoomTimesOut(r) ==
  /\ room[r].current # None
  /\ \E k \in Turns : turn[k].thread = r /\ turn[k].stage \in AtAdapter
                      /\ turn[k].asks = 0
  /\ turn' = Interrupted(turn, r)
  /\ room' = [room EXCEPT ![r] = GivesUp(r)]
  /\ UNCHANGED <<activity, watch, grace, queue, steering, owner>>

-----------------------------------------------------------------------------
(* Provider events.  The bus runs its subscribers in order: the watchdog,  *)
(* the main fold, the queue drain, and last the room waiting for the turn. *)

\* Whose card a request on thread t is: the bot, or the room's speaker.
Asker(t) == IF t \in Rooms THEN owner[t] ELSE t

Parks(t, parked) ==
  watch' = [watch EXCEPT ![t].parked = IF watch[t].bot = None THEN @ ELSE parked]

\* request.opened reaches a person: a permission card or a question.
AskOpens(k) ==
  LET t == turn[k].thread IN
  /\ turn[k].stage = "running" /\ turn[k].asks < MaxAsks
  /\ turn' = [turn EXCEPT ![k].asks = @ + 1]
  /\ Parks(t, TRUE)
  /\ activity' = [b \in Bots |-> IF b = Asker(t) /\ activity[b] \in Busy
                                 THEN "waiting-on-you" ELSE activity[b]]
  /\ UNCHANGED <<grace, queue, steering, owner, room>>

\* What request.resolved does to the watchdog and to the activity.
Resumes(t) ==
  /\ Parks(t, FALSE)
  /\ activity' = [b \in Bots |->
                    IF b = Asker(t) /\ activity[b] = "waiting-on-you"
                    THEN "working" ELSE activity[b]]

\* request.resolved: answered by a person, or timed out at the provider.
AskResolves(k) ==
  /\ turn[k].stage \in AtAdapter /\ turn[k].asks > 0
  /\ turn' = [turn EXCEPT ![k].asks = @ - 1]
  /\ Resumes(turn[k].thread)
  /\ UNCHANGED <<grace, queue, steering, owner, room>>

\* A permission auto mode answers: opened and resolved with no card.
AskAutoAnswered(k) ==
  /\ turn[k].stage = "running" /\ turn[k].asks < MaxAsks
  /\ Resumes(turn[k].thread)
  /\ UNCHANGED <<turn, grace, queue, steering, owner, room>>

\* A wedged turn that was stopped may end without telling anyone.
Answers(k) ==
  /\ turn[k].stage \in AtAdapter
  /\ <<k[1], turn[k].thread>> \in grace => "answers" \in Stalls

\* turn.completed of a chat turn; `failed` when the engine could not start
\* (runtime.error with setup), which leaves the bot dead.
ChatCompletes(k) ==
  LET b == turn[k].thread IN
  /\ Answers(k) /\ b \in Bots
  /\ Unwatched(b)
  /\ \E failed \in BOOLEAN :
       Drained([activity EXCEPT ![b] = IF failed \/ @ = "dead" THEN "dead"
                                       ELSE "idle"], Closed(turn, k))
  /\ UNCHANGED <<grace, steering, owner, room>>

\* turn.completed of a room turn: the speaker is released, the queues are
\* drained, and the room goes on.
RoomCompletes(k) ==
  LET r == turn[k].thread
      b == owner[r] IN
  /\ Answers(k) /\ r \in Rooms
  /\ Unwatched(r)
  /\ owner' = [owner EXCEPT ![r] = None]
  /\ Drained([x \in Bots |-> IF x = b /\ activity[x] \in Busy THEN "idle"
                             ELSE activity[x]], Closed(turn, k))
  /\ IF room[r].current # None THEN Settles(r) ELSE UNCHANGED room
  /\ UNCHANGED <<grace, steering>>

\* A wedged process dies without a terminal event.
Dies(k) ==
  /\ "dies" \in Stalls
  /\ turn[k].stage = "ending" /\ turn[k].asks = 0
  /\ <<k[1], turn[k].thread>> \in grace
  /\ turn' = Closed(turn, k)
  /\ UNCHANGED <<activity, watch, grace, queue, steering, owner, room>>

-----------------------------------------------------------------------------
(* The person's Stop, and the watchdog's.                                  *)

\* POST /api/bots/:id/interrupt: the room's turn the bot is in, and its chat's.
\* Both adapters' interruptTurn return at once, so there is no step between.
Interrupt(b) ==
  LET in == {r \in Rooms : owner[r] = b} IN
  /\ turn' = [k \in Turns |->
               IF turn[k].thread \in in \cup {b} /\ turn[k].stage = "running"
               THEN [turn[k] EXCEPT !.stage = "ending"] ELSE turn[k]]
  /\ turn' # turn
  /\ UNCHANGED <<activity, watch, grace, queue, steering, owner, room>>

\* Twenty minutes without an event, against setups of seconds and processes
\* that die within five: when they are over on thread t nothing else of the
\* bot is starting, stopping, or waiting for its release timer.
Quiet(t) ==
  /\ \A k \in Turns :
       turn[k].thread = t \/ k[1] = watch[t].bot
       => turn[k].stage \in {"none", "running"}
  /\ \A g \in grace : g[1] # watch[t].bot /\ g[2] # t

\* Fault: the room is not told that its speaker stalled.
StallForgetsRoom(t) ==
  /\ Stalls # {}
  /\ watch[t].bot # None /\ ~watch[t].parked
  /\ Quiet(t)
  /\ turn' = Interrupted(turn, t)
  /\ Unwatched(t)
  /\ grace' = grace \cup {<<watch[t].bot, t>>}
  /\ UNCHANGED <<activity, queue, steering, owner, room>>

\* sweep and onStall: the entry goes first, then the turn is told to stop, a
\* room gives its message up, and the release timer is armed.
Stall(t) ==
  /\ Stalls # {}
  /\ watch[t].bot # None /\ ~watch[t].parked
  /\ Quiet(t)
  /\ turn' = Interrupted(turn, t)
  /\ Unwatched(t)
  /\ grace' = grace \cup {<<watch[t].bot, t>>}
  /\ room' = IF t \in Rooms /\ room[t].current # None
             THEN [room EXCEPT ![t] = GivesUp(t)] ELSE room
  /\ UNCHANGED <<activity, queue, steering, owner>>

\* Fault: the release timer does not release what queued behind the bot.
ReleasedUndrained(b, t) ==
  /\ <<b, t>> \in grace
  /\ \A k \in TurnsOf(b) : turn[k].thread = t => turn[k].stage # "ending"
  /\ grace' = grace \ {<<b, t>>}
  /\ owner' = [r \in Rooms |-> IF r = t /\ owner[r] = b THEN None ELSE owner[r]]
  /\ activity' = [activity EXCEPT ![b] = IF @ \in Busy THEN "idle" ELSE @]
  /\ UNCHANGED <<turn, queue, watch, steering, room>>

\* The release timer, whatever the bot is doing by now.  Six seconds are more
\* than the five in which the adapters end a turn they were told to stop.
Released(b, t) ==
  /\ <<b, t>> \in grace
  /\ \A k \in TurnsOf(b) : turn[k].thread = t => turn[k].stage # "ending"
  /\ grace' = grace \ {<<b, t>>}
  /\ owner' = [r \in Rooms |-> IF r = t /\ owner[r] = b THEN None ELSE owner[r]]
  /\ IF activity[b] \in Busy
     THEN Drained([activity EXCEPT ![b] = "idle"], turn)
     ELSE UNCHANGED <<activity, turn, queue>>
  /\ UNCHANGED <<watch, steering, room>>

-----------------------------------------------------------------------------
TurnStep(k) ==
  \/ SetupFails(k) \/ Launch(k) \/ Starts(k) \/ SendRejected(k) \/ SendReturns(k)
  \/ MemberConnected(k) \/ ConnectFails(k) \/ RoomRejected(k)
  \/ AskOpens(k) \/ AskResolves(k) \/ AskAutoAnswered(k)
  \/ ChatCompletes(k) \/ RoomCompletes(k) \/ Dies(k)

BotStep(b) ==
  \/ Send(b) \/ SendBusy(b) \/ SteerAnswers(b) \/ Interrupt(b)
  \/ \E t \in Threads : Released(b, t)

RoomStep(r) ==
  \/ RoomSend(r) \/ RoomNext(r) \/ RoomDone(r) \/ RoomTimesOut(r)
  \/ \E b \in Bots : MemberSkipped(r, b) \/ MemberBegins(r, b)

Next ==
  \/ \E k \in Turns : TurnStep(k)
  \/ \E b \in Bots : BotStep(b)
  \/ \E r \in Rooms : RoomStep(r)
  \/ \E t \in Threads : Stall(t)

\* What the process itself guarantees: its own timers and microtasks, an
\* adapter that answers sendTurn and steer, and a stopped process that ends and
\* has its requests resolved.  A turn need never complete, and a person need
\* never answer or stop anything.
Fairness ==
  /\ \A k \in Turns :
       /\ WF_vars(Launch(k) \/ SetupFails(k))
       /\ WF_vars(Starts(k) \/ SendRejected(k) \/ RoomRejected(k))
       /\ WF_vars(SendReturns(k) \/ SendRejected(k) \/ RoomRejected(k))
       /\ WF_vars(MemberConnected(k) \/ ConnectFails(k))
       /\ WF_vars(turn[k].stage = "ending" /\ AskResolves(k))
       /\ WF_vars(Dies(k) \/ (turn[k].stage = "ending"
                             /\ (ChatCompletes(k) \/ RoomCompletes(k))))
  /\ \A b \in Bots : WF_vars(SteerAnswers(b))
  /\ \A b \in Bots, t \in Threads : WF_vars(Released(b, t))
  /\ \A r \in Rooms :
       /\ WF_vars(RoomNext(r) \/ RoomDone(r))
       /\ WF_vars(\E b \in Bots : MemberSkipped(r, b) \/ MemberBegins(r, b))
  /\ \A t \in Threads : WF_vars(Stall(t))

Spec == Init /\ [][Next]_vars

FairSpec == Spec /\ Fairness

-----------------------------------------------------------------------------
(* Properties.                                                             *)

\* index.ts: "One turn per bot at a time, across BOTH engines."  A bot has at
\* most one turn between the step that marks it busy and its last event.
OneTurnPerBot ==
  \A j, k \in Turns :
    /\ j[1] = k[1]
    /\ turn[j].stage \in Live /\ turn[k].stage \in Live
    => j = k

\* Bot b owns thread t: a turn of it is there, or one that wedged was stopped
\* and its release timer is still to fire.
Owns(b, t) ==
  \/ \E k \in TurnsOf(b) : turn[k].thread = t /\ turn[k].stage \in Live
  \/ <<b, t>> \in grace

\* A bot is never left busy with nothing running, nor shown idle at work: the
\* composer's lock and the live turn are the same fact.
BusyIsALiveTurn ==
  \A b \in Bots : activity[b] \in Busy <=> \E t \in Threads : Owns(b, t)

\* A room's busyBotId and speaker name the one bot whose turn is on its thread.
OwnerIsTheSpeaker ==
  \A r \in Rooms, b \in Bots : owner[r] = b <=> Owns(b, r)

\* A message held for a bot waits for a turn that will drain it: the queue of
\* an idle bot is empty (steer-queue.ts: "the next settle tries again").
NothingStranded == \A b \in Bots : queue[b] > 0 => activity[b] \in Busy

\* turn-watchdog.ts: "Turns parked on a human approval are exempt."
ParkedIsExempt ==
  [][\A g \in grace' \ grace, k \in Turns :
       turn[k].stage = "running" /\ turn[k].thread = g[2] => turn[k].asks = 0]_vars

\* index.ts on the release timer: "Keep ownership during that grace period so
\* another turn cannot overlap the process we are stopping."  When the timer
\* frees the bot, no turn of it is running.
ReleaseFreesNoLiveTurn ==
  [][\A g \in grace \ grace', k \in Turns :
       k[1] = g[1] /\ turn[k].stage \in Live => activity'[g[1]] \in Busy]_vars

\* Some turn of bot b, or on thread t, waits for a person's answer.
AwaitsPerson(t) ==
  \E k \in Turns : turn[k].stage = "running" /\ turn[k].asks > 0
                   /\ (turn[k].thread = t \/ k[1] = t)

\* "A wedged CLI left its bot busy forever": with the watchdog a message held
\* behind a turn that never completes is run all the same, unless the bot
\* waits for a person.  (Not one that was first offered to the turn.)
HeldMessagesRun ==
  \A b \in Bots \ Steering : queue[b] > 0 ~> (queue[b] = 0 \/ AwaitsPerson(b))

\* And a room whose speaker never finishes goes on to its next message.
RoomGoesOn ==
  \A r \in Rooms : room[r].waiting > 0
    ~> (room[r].waiting = 0 \/ \E t \in Threads : AwaitsPerson(t))

=============================================================================
