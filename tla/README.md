# Clawd Bot in TLA+

A verification project for the Clawd Bot harness: the Node process in
`server/` that owns bots, their turns, the rooms they talk in and everything
that queues behind a busy bot. The modules are translated from the source; the
`map` in PROJECT.json names the lines each definition stands for.

## 1. The system

The repository holds the harness (`server/`, 60K lines), a React client
(`src/`), a desktop shell (`electron/`), a phone companion (`companion/`), two
Cloudflare workers, an iOS client, and sites, skills and packaging. The
harness carries the logic that is hard to get right: one process, one event
loop, many long-lived conversations with provider processes it does not
control. Everything between two awaits is atomic; everything across an await,
a timer or a crash is not.

| Component | State | Operations | Talks to |
|---|---|---|---|
| Turn engine (`index.ts`, `steer-queue.ts`, `turn-watchdog.ts`, `room-turn-timeout.ts`) | a bot's activity, a room's `busyBotId`, held messages, watched turns, room deadlines, release timers | send, steer, dispatch, room chain, requests, `turn.completed`, stop, stall, release | drivers (calls, event bus), every queue below |
| Peer handoff (`delegations.ts`, `peer-approval.ts`) | queue per source thread (on disk), draining threads, open cards, pending promises, channel watch | queue, drain, ask, answer, expire, acknowledge, drop, boot | turn engine (starts turns, hears them end), the person |
| Routines and webhooks (`routines.ts`, `webhooks.ts`) | definitions, receipts, accepted deliveries (two files) | tick, run now, deliver, pause, edit, delete, cancel, recover | turn engine, outside senders |
| Computer control (`computer-control.ts`, `control-client.ts`) | who drives a bot's screen, the open plea and its lease | take, release, ask for help, dismiss, expire | computer proxies over loopback HTTP, the person |
| Hosted desktop (`hosted-desktop.ts`, `index.ts`) | the thread that mounted it, the mark of the request under way, the bot's cloud backend | mount, act, take, release, start, stop, change of backend | turn engine, computer control, the E2B provider |
| Local VM (`local-vm-lease.ts`, `local-vm-idle.ts`, `index.ts`) | lease, active thread, lifecycle mark and idle timer per desktop; the mode | claim, touch, release, expire; create, stop, remove, suspend; change of mode | turn engine, container runtime, the person |
| Store (`store.ts`, `message-db.ts`) | bots, tasks, rooms, message trees | append, patch, branch, edit, delete | everything |
| Drivers (`drivers/`, `claude.ts` modelled) | sessions, active turns, retry records, a broker per process with its pending permissions | sendTurn, steer, interrupt, respond, retry | provider processes |
| Permission broker (`permission-proxy.ts`, `auto-approve.ts`) | pending permission requests | open, answer, time out | drivers, the person |
| Event stream and client store (`index.ts`, `store.tsx`, `bot-patch-queue.ts`) | numbered frames and the last of them; the client's copy, cursor, queued frames, edits in flight | broadcast, replay, hydrate, fold, edit | the client |
| Checkpoints (`checkpoints.ts`, `index.ts`) | a shadow repository per bot and folder and its queue, restore leases, bots it is disabled for | snapshot, restore, list | turn engine, git, whoever writes in the folder |
| Companion, control plane, connector broker | pairings; hosted computers; connections | pair, proxy; lease, stop | phone; D1 |

What makes it hard: a turn is recorded in four places (store, adapter,
watchdog, release timer) that are updated by different handlers; a provider may
reject late, wedge, die without a word, or answer after it was stopped; a
person answers a card minutes later, when the world has changed; a queue is
drained by the end of a turn, and some turns end without saying so; the process
may die between two writes.

What makes each part correct, in a line each: the turn engine runs one turn
per bot across both engines and strands no message; a handoff runs once, after
its turn, with consent, or its user is told why not; a receipt is true about
its turn and final once it is settled; a plea for help has a caller behind it
and no call takes the wheel; a desktop action happens in nobody's hold; a VM is
not stopped under its turn; a restore loses no file and shares the folder with no
turn; waiting for a person uses up no turn's time; a branch shows one path of its tree; a driver has
one turn per thread; a permission is answered once; a client shows what the
server has.

## 2. The modules

| Module | Models | Extends |
|---|---|---|
| `TurnEngine` | chat turns, room turns, held messages, watchdog and release | |
| `TurnOwnership` | the inductive invariant `Owned` about it | `TurnEngine` |
| `Handoff` | what a handoff promises: queued, then refused, or worked on and done | |
| `PeerHandoff` | queue, drain, cards, dispatch, ends of turns, deletion, crash and boot | instantiates `Handoff` |
| `MCPeerHandoff` | its instances for TLC | `PeerHandoff` |
| `Automations` | runs, ticks, deliveries, definitions, crash and boot | |
| `MCAutomations` | its instances for TLC | `Automations` |
| `LocalVm` | who may use, replace or remove a desktop: turns, setup actions, mode, deletion, idle timer | |
| `MCLocalVm` | its instance for TLC | `LocalVm` |
| `ClaudeSession` | the Claude driver's turns on one thread: reuse, close handlers, retries, Stop, brokers | |
| `EventStream` | frames, replay, snapshots and edits between the server and a window | |
| `RoomClock` | the deadline and the watchdog over one room turn, with time | |
| `HostedDesktop` | turns, agent requests and the person at one bot's E2B desktop | |
| `Checkpoints` | snapshots and restores of one project folder, git command by command | |
| `MCCheckpoints` | its instance for TLC | `Checkpoints` |
| `ComputerControl` | the control registry, as operators on its record | |
| `ComputerHelp` | the help call of a bot's computer tool against the registry | `ComputerControl` |
| `*_proofs` | the theorems | the module they are about; `TurnEngine_proofs` extends `TurnOwnership` and `RoomClock`, `Copies_proofs` extends `Checkpoints` and `EventStream` |

**How state and actions correspond to the code.** An action is the code
between two awaits, with every bus subscriber that code runs: `turn.completed`
is one action that settles the turn, tells the room, clears the watch and
starts what is queued. `TurnEngine` writes a turn as `<<bot, slot>>`; the
thread of a bot's chat is the bot, the thread of a room the room. A turn's
`stage` says where it is between startTurn and its end. `room` is the room's
promise chain: whom it still has to call, and whom it waits for. In
`PeerHandoff` a drain is a snapshot (`todo`) and the await it is at (`at`);
continuations that wait for nothing run before the next event (`Quiet`), but
interleave with each other and with a crash. In `Automations` a run is its
number in the list; the two files are told apart only where a crash can fall
between them (`TornReceive`). In `ComputerHelp` a call of the proxy is a small
program of its own that talks to the registry by requests that may be lost or
whose answers may be lost.

In `LocalVm` the record of a lease, the table of mounts, the table of active
threads, the lifecycle marks and the busy marks are variables of their own, as
in the code: that they agree is what is checked, not assumed. A lease that ran
out is `None`, because every reader of an expired record treats it so; the step
`Lapses` is possible where thirty minutes without an event are. A container
command is the step that ends it. In `ClaudeSession` a process carries its
`Session` record and what its close handler closed over (`made`, the call that
spawned it, and `retry`, that call's retry record); the maps of the thread are
`current`, `active` and `retryState`. In `EventStream` a frame carries the whole
record it is about, so a record is the number of its last write, and "in sync"
is equality.

In `RoomClock` the record `deadline` is the object `RoomTurnDeadline`, its
methods operators on it, and an event is one step with the watchdog's subscriber
first and the turn's own second, as they were subscribed. The ghost variable
`worked` counts the units in which the turn had no request open; the properties
compare it with the budget. `TurnEngine` has the same clocks without time. In
`HostedDesktop` `flight` is the one entry of `hostedDesktopActions` with the
request it stands for; a request ends with its answer or with `Fails`, which is
also where the 45 seconds run out, and `loose` keeps what the provider may still
do afterwards. The person's requests arrive whole; only an agent's body may be
slow. In `Checkpoints` a tree gives every path its content, so a commit, the
index and the work tree are of one type; `step` is the git command an operation
is at, `chain` the queue of `serialize`. Anyone may write to the folder between any
two commands: the person, the bot's turn, another bot's turn in the same folder.

A stall has two moments in the code, and in the modules that follow a bot's turns
(`TurnEngine`, `PeerHandoff`, `LocalVm`, `HostedDesktop`). First `onStall` tells
the engine to stop, drops the channel's watch, and sets a timer; six seconds
later the timer idles the bot if it is busy, whatever it is busy with by then
(`TimerReleases`). The engine may still report an end afterwards, a
`turn.completed` or the rejection of `sendTurn`, and the server takes it for the
end of whatever turn the thread or the bot has by then. `owed` and `astray` are
those ends to come; `stray`, `bereft` and `Forgotten` are what becomes of the
later turn they fall on.

Comments that begin with "Fault" mark operators nothing uses: each is a
definition as a plausible bug would have it, and PROJECT.json lists which
property such a bug would break.

## 3. The runs

| Run | Instance | Shows |
|---|---|---|
| `turn_engine` | two bots of which one can be steered, a room they share, requests, wedged turns that die, fairness | one turn per bot across both engines; a bot is busy exactly when it has a live turn or a release timer, a room's speaker owns the turn on its thread, the watchdog knows every running turn (all in `Owned`); a held message is run, a room goes on |
| `turn_engine_faults` | a bot, a room, every provider fault at once, two requests | no message is left behind an idle bot |
| `peer_handoff` | two handoffs of one bot, cards, late calls, stalls and the timer after them, ends that come late or twice, fleet reloads, a crash anywhere, fairness | none is lost, parked, run on top of a turn or without consent; no card without a promise; the channel watch stays with its turn until that ends or is found stalled; queue and drain implement `Handoff`, and none is run twice by one process |
| `automations` | a bot, a recurring routine, a webhook, a crash, fairness | an active receipt is its bot's turn; one run per delivery; every run ends |
| `automations_faults` | a one-off routine, a webhook with two deliveries, silent ends, torn saves | receipts are final, nothing runs for what was deleted |
| `computer_help` | three overlapping help calls, any request or answer may be lost | while none was lost an open plea has a waiting caller; whatever was, handing back resumes it, and of two calls with a plea each the older one's timeout leaves the newer plea open (two calls that share a plea are the row of `ExpiresOnlyOwnPlea`) |
| `local_vm` | two bots, both modes, one desktop allowed; one bot's turns may stall and end twice and its desktop may be misreported, the other's may wait for a person and it may be deleted; reloads at any moment | a desktop somebody holds is not created, stopped, removed or suspended, nor the mode changed; a turn that works keeps its desktop unless its bot was idled under it (`bereft`); no more desktops than the highest limit there has been, but for those the last count missed (`uncounted`); a running desktop has its idle timer, but for those the server did not see run (`blind`) |
| `claude_session` | three messages, three processes, two attempts, fresh processes that die of transient errors, fairness | a message ends once; Stop reaches the turn under way and ends it; no open request without a turn; a closing process never unlinks a newer broker |
| `room_clock` | one room turn, two requests, stray resolves at any time, late timers, eight units of time, fairness | neither clock outlives the turn, and a turn that may work is watched and has its ceiling armed; it is stopped there only after its whole budget of work, unless a stray resolve came under an open card; an exhausted budget ends it |
| `hosted_desktop` | two threads, an agent request, a hold, a change of backend; slow bodies, requests given up, reloads, stalls and late ends, each on record | the bot acts under the person's hold only after a slow body or a request given up; a stop reaches a desktop a turn is on only after a request given up, a reload or a late end that fell on a later turn (`stray`); mark and turn part only after a reload or a stray end |
| `checkpoints` | two files of two contents, some unreadable, three commits, failing commands (`git add` as a whole as well), writers at any moment, room turns, turns whose bot is idled under them | no chat or task turn that the bot is busy with runs while its folder is restored; a restore leaves exactly the checkpoint, loses nothing no checkpoint has, and a turn starts on what the last checkpoint has, each but for files touched after the operation's `git add`, or all of them when that failed (`excused`) |
| `event_stream` | a record, three writes, a buffer of two frames, two lost connections or restarts, an edit, fairness | what the client shows once everything is read is what the server has, and it gets there |

All of them pass. Statements that fail on these models, most of them of the
repository's own text, have no run of their own. Each is reproduced by taking the
configuration named, with the change named, and giving it the property alone.

| Property | Configuration and change | What happens |
|---|---|---|
| `OneTurnPerBot` | `TurnEngine.cfg`, `ConnectedApps = TRUE` | a room turn checks `busy`, awaits connected apps, and takes the bot without looking again (`index.ts:2052`: "One turn per bot at a time, across BOTH engines.") |
| `ReleaseFreesNoLiveTurn` | `TurnEngine.cfg`, `Stalls = {"answers"}` | the release timer is not cancelled by its turn's completion and idles the bot under its next turn (`index.ts:688`: "Keep ownership during that grace period") |
| `ParkedIsExempt` | `TurnEngine.cfg`, `MaxAsks = 2` | the same as `ParkedIsNotStalled` below, in a chat as well |
| `NothingStranded` | `TurnEngineFaults.cfg`, `Steering = {b1}` | a steer that loses to settlement leaves a message behind an idle bot (`index.ts:4535`) |
| `DroppedNeverRuns` | `PeerHandoff.cfg` | a handoff reported as dropped runs when its card is allowed (`delegations.ts:216`) |
| `RunsAfterItsTurn` | `PeerHandoff.cfg` | a drain that waited for a card takes what a running turn has queued (`delegations.ts:4`) |
| `StoppedNeverRuns` | `PeerHandoff.cfg` | the handoffs of a turn that was stopped for stalling run after the next turn (`index.ts:1266`) |
| `RunHasItsTurn` | `Automations.cfg`, `SilentEnds = TRUE` | the release timer and a provider reload idle the bot without telling the routine manager: its receipt says running until the next boot and keeps one of its webhook's places (`index.ts:704`) |
| `InOrder` | `Automations.cfg`, `Deliveries = {d1, d2}` | of two runs that wait for a bot the later starts first (`index.ts:1944`) |
| `OneRunPerDelivery` | `AutomationsFaults.cfg`, `MaxPending = 2` | a crash between two files lets a retried delivery run twice (`webhooks.test.ts:154`) |
| `ExpiresOnlyOwnPlea` | `ComputerHelp.cfg` | two calls share a plea and the first one's timeout closes it (`computer-control.ts:92`) |
| `OneWorkerPerDesktop` | `LocalVm.cfg` | a turn that waits for a person longer than its lease goes on beside the turn that took the desktop (`local-vm-lease.ts:50`: "each desktop remains a strict singleton") |
| `ActiveIsATurn` | `LocalVm.cfg` | the release of a stalled turn leaves its thread in `localVmActiveThreads`, and a reload may release another bot's thread instead: the desktop is not suspended and the mode cannot be changed until that thread's next turn (`index.ts:691`, `index.ts:2686`) |
| `NoOrphan` | `LocalVm.cfg` | a desktop whose creation overlaps the deletion of its bot is left behind: nothing lists, counts or suspends it (`index.ts:4294`) |
| `BackstopArmed` without `blind` | `LocalVm.cfg` | desktops the server does not see have no timer: at boot those of bots not set to use one or whose status cannot be read (`index.ts:830`, `833`: "A running VM may have survived an app/server restart. Start its idle backstop"); later those an inspection that failed reports as missing, which a suspend or a removal takes for done (`container-computer.ts:448`, `542`); and those of a create that fails after it took effect (`index.ts:4825`) |
| `WithinLimit` without `uncounted` | `LocalVm.cfg`, `Unreadable = {b1, b2}` | the count takes every failure for "no desktop" (`container-computer.ts:961`), so a create may pass the limit, and a change of mode leave desktops behind. A limit lowered below what exists (`PATCH /api/config`) removes nothing either: `MaxInstances` is the highest there has been |
| `WorkerHolds` without `bereft` | `LocalVm.cfg` | a reload releases the first thread whose desktop is leased to a bot that was busy, and the turn whose setup it met goes on without its desktop (`index.ts:2685`); a late `turn.completed` releases the desktop of the thread's next turn (`index.ts:844`) |
| `RetryIsOfTheTurn`, `StopFindsTheTurn`, `SettledOnce`, `StopEnds` | `ClaudeSession.cfg`, `Flaky = {"reused"}` | the close handler is a closure of the call that spawned the process: a reused process that dies of a transient error sends the first message of its life again, which then ends twice; the message under way is neither sent again nor settled (`claude.ts:893`: "the CLI is gone but the TURN continues") |
| `StopFindsTheTurn`, `NoZombieCard`, `SocketIsCurrent` | `ClaudeSession.cfg`, `Overlaps = TRUE` | two overlapping sends both pass the check of `active` (`claude.ts:437` calls that a caller's bug) |
| `WaitingNeverCounts` | `RoomClock.cfg` | a late resolve of an earlier turn's card restarts the clock under an open one (`room-turn-timeout.ts:16`) |
| `ParkedIsNotStalled` | `RoomClock.cfg` | of two open cards one is answered: the watchdog, which keeps one boolean for the thread, stalls the turn under the other (`turn-watchdog.ts:10`: "Turns parked on a human approval are exempt") |
| `Refused` | `HostedDesktop.cfg` | the endpoint looks at the hold, awaits the body and does not look again: the person takes the wheel meanwhile, and the action runs under the hold (`index.ts:3092`; `computer-control.ts:9`: "the bot's computer actions are REFUSED by the proxies, not queued"); a request given up after 45 seconds gives its mark back and still takes effect (`hosted-desktop.ts:16`) |
| `ActiveIsATurn` | `HostedDesktop.cfg` | a reload idles the bot and leaves the mark of its desktop, which the person can then neither start nor stop (`index.ts:2682`: "Settle anything still marked busy") |
| `TurnKeepsDesktop` | `HostedDesktop.cfg` | the release timer of a turn that stalled clears the mark of the thread's next turn and idles the bot under it (`index.ts:701`), and so does a rejection of `sendTurn` after the turn completed (`index.ts:1888`): the endpoint refuses the running turn, and the person may stop its desktop; a turn in its setup goes on after a reload idled its bot, beside the bot's next turn, whose mark replaces its own |
| `StopsNothingInUse` without its condition | `HostedDesktop.cfg` | that stop: it looks at `busy` and at the mark, and both are gone (`index.ts:5323`) |
| `FolderIsFree` | `Checkpoints.cfg` | a room turn looks at `busy` and not at the restore lease, and works in the folder while it is moved and cleaned (`index.ts:779`: "so a turn cannot start in that folder midway"); and the restore looks at `busy` alone (`index.ts:4481`), so it runs under a turn whose bot was idled by a release timer, a late end or a reload |
| `NothingUnsaved` without `excused` | `Checkpoints.cfg` | what is written after the safety point's `git add` is overwritten or removed and no checkpoint has it; the comment names it, "add races" (`checkpoints.ts:405`) |
| `TurnCanBeUndone` without `excused` | `Checkpoints.cfg` | a `git add` that fails as a whole (a timeout, a stale lock, a full disk) is taken for a skipped file: nothing is saved, the turn is dispatched, checkpoints stay on (`checkpoints.ts:17`: "Any git failure disables the feature for that bot") |
| `InSync` | `EventStream.cfg`, `Gaps = TRUE` | a connection lost while frames are queued: they are folded over the newer snapshot, or the load fails and the resumed stream hides it (`store.tsx:1523`) |
| `InSync` | `EventStream.cfg`, `LoadsFail = TRUE` | a snapshot that failed counts as hydrated (`store.tsx:1508`) |
| `InSync` | `EventStream.cfg`, `LateResponses = TRUE` | the answer to an edit, or the copy kept from before it when the re-read after a refusal fails as well, is folded over a newer frame (`bot-patch-queue.ts:83`, `118`) |

**Bounds.** Two turns of a bot (`MaxTurns`) are enough for a stopped turn and
its successor, which is what every ownership hazard needs; one held message
(`MaxQueue`) distinguishes empty from not; two bots and a room let a bot be
wanted by a room and by its own chat, and leave a member for the room to go on
to; that `Owned` holds for any rooms is a theorem. Two open requests (`MaxAsks`) only where
the question is about a second request. Two handoffs of one source give a
snapshot with a rest; two turns a person starts, with the turns of the handoffs,
give the queueing turn and one during or after the drain, and only the target's
turns stall. The queue's cap (`MaxQueued`) is not met in these
instances: a refusal for the cap is the step of a refusal for a deleted target.
Three runs give a finished, an active and a queued one; one delivery id repeated
at will is the sender's retry; `automations_faults` has a second one, and a
single place, so that the limit is met. Two bots and one allowed desktop let two
bots want the shared desktop and the one place; the first bot's turns may stall
and end twice and its desktop may be misreported, the second's may wait for a
person and it may be deleted, so every difference a bot can make is there once. Three processes give one that is
closing, one that waits for its relaunch and one at work; two attempts give a
retry and its limit. A buffer of two frames and four frames of a run put a
cursor before, at and behind the edge of the buffer; one record is enough
because frames of different records commute (safety was checked with two
records and a buffer of one as well). A budget of three units and a stall time of two let a turn be held, resumed and
held again before its budget is gone, and stall before and after; eight units
leave room for both limits and for a wait between them, and two requests are the
fewest whose answers can be out of balance. Two threads let one turn follow
another on the same desktop; a second agent request would only be refused while
the first is under way. Two files and two
contents give a file that is kept, changed, removed and resurrected; three
commits are the empty marker, a checkpoint and a later one; a safety point and a
record come on top, because the bound is on the history at which nobody asks for
more.
One crash suffices: state that survives
is the same after each. Each bound is a named constant and disables only a
person's, a sender's or an agent's next move, with these exceptions. A drain
needs a slot for the turn it starts (`HasSlot`). In `Checkpoints` a bot idled
under its turn starts the next only when the first is past its snapshot
(`Startable`); what the first does after that is among the writes anyone may do.
`LocalVm.cfg` bounds what is amiss at once by a constraint: one of a late end, a
timer of a stalled turn, a bereft turn, a desktop not seen or not counted
(`OneAmiss`), and two of the person's requests (`TwoRequests`, which also leaves
the shared desktop alone in per-bot mode: it is missing or runs); a preview is of
a desktop that runs. Each kind of amiss alone is enough to break the statements of the table above, and the theorems of
section 4 need neither constraint. `HostedDesktop.cfg` has the constraint
`SomethingToSay`, which cuts only where every property's condition is already
false, for good. `Checkpoints.cfg` is checked up to permutations of files and
contents (`Swaps`), which is sound for the invariants and the action properties
it checks. Without the provider faults a bot has
at most one live turn (`Owned`), so there is one; in `turn_engine_faults` a bot
may have two already, and a third is not explored.
Deadlock is not checked where the people and the bounds are exhausted: the
system may simply be idle.

**What the flags mean.** `ConnectedApps`, `LateRejects`, `Stalls`, `Steering`,
`SilentEnds`, `LateCalls`, `TornSaves`, `Patient`, `Silent`, `Stalling`,
`Unreadable`, `Erring`, `Flaky`, `Overlaps`, `Gaps`, `LoadsFail` and `LateResponses` switch on an environment, not
a feature of the code: a passing run that leaves one off says what holds without
it, and the table above what happens with it. Six modules keep besides, in history variables, what has gone
wrong so far: `lost` (`ComputerHelp`), `strayed` (`RoomClock`), `mishaps`
(`HostedDesktop`), `excused` (`Checkpoints`), `astray` (`PeerHandoff`), `bereft`,
`blind` and `uncounted` (`LocalVm`). A property that needs it not to have happened
says so, of the turn, the desktop or the file it happened to where it can. The
same statement without that condition is a definition of its own, and a row of
the table.

**Fairness.** `TurnEngine!FairSpec` is fair to the process's own timers and
continuations and to nothing the provider does: a turn that wedges is ended by
the watchdog's interval and the release timer. `PeerHandoff!FairSpec` is fair
to the steps of a drain (they wait for nothing), to the card's fifteen-minute
timer, and to a request already on its way. It is not fair to turns or people.
`ComputerHelp!Spec` is fair to the reads of the wait loop that
arrive, and to no loss, deadline or person. `Automations!FairSpec` is fair to the ten-second timer and to turns ending
with an event, which the watchdog's interrupt brings about unless the provider
is silent (the row of `RunHasItsTurn` shows that case). `ClaudeSession!Spec` is
fair to the runtime's callbacks: awaited calls return, a killed process exits,
its close event fires, a backoff ends. It is not fair to the CLI, to people or
to callers, so a turn may stay open for ever until it is stopped.
`EventStream!StreamSpec` is fair to a browser that reconnects and reads, to requests
that are answered and to timers; it is not fair to writes. `RoomClock!ClockSpec` is fair only
to a timer that is due: a provider and a person may be silent for ever.
`HostedDesktop` and `Checkpoints` are checked for safety only. `LocalVm` has no
liveness property: that a desktop is suspended in the end is false (see
`ActiveIsATurn`), so `BackstopArmed` says only that the timer is there.

## 4. The theorems

All proofs are checked by TLAPS for every value of the constants that the named
assumptions allow.

* `TurnEngine_proofs!Typing`: type correctness of the turn engine, under every
  provider fault.
* `TurnEngine_proofs!NoMessageStranded`: without steering, no message is held
  for a bot that is idle. Every action that makes a bot idle drains first, so
  the proof is about the drain: `Drained` from any activity and any turns
  leaves no idle bot with held messages.
* `TurnEngine_proofs!OneTurn`: with prompt providers (`Prompt`: no await in
  a room turn before it takes its bot, no rejection after the turn completed, no
  wedged turn that answers after it was stopped) a bot has at most one live
  turn, is busy exactly when it has one (or its release timer runs), and a
  room's speaker owns the turn on the room's thread. None of the three is
  inductive: a release timer may free a bot only because its turn is dead, which
  needs that nobody else started one meanwhile, which needs that the bot is
  busy, which needs the timer. `Owned` states them together with what a timer,
  a watchdog entry and a room each imply about the others. The assumption is
  needed: the rows of `OneTurnPerBot` and `ReleaseFreesNoLiveTurn` in section 3
  are the counterexamples without it.
* `TurnEngine_proofs!ClocksInStep`, `WaitsAreFree`, about `RoomClock`: for any
  finite set of requests, any budget, stall time and bound on the clock. A turn is timed out when its deadline's timer runs out or a
  request finds nothing left, so both properties are about what is left:
  `ClockInv` says that the deadline of a pending turn is armed exactly while it
  counts no request open (`Fits`), that it counts no more than are open, and that
  what is left of it is at most the budget less the work done. As long as no stray
  resolve came under an open request both bounds are equalities. Each method of
  `RoomTurnDeadline` either keeps `Fits` or leaves a deadline that has run out.
* `ComputerHelp_proofs!Typing`, `PleaOwned`, `BotNeverTakesTheWheel`: for any
  number of bots and calls; a plea's lease has been handed out, an open plea has
  a waiting caller as long as nothing was lost, and no step of a call changes who
  drives.
* `PeerHandoff_proofs`: `Typing`, `CardsAnswerable`, `AcceptedIsKept`,
  `ConsentFirst`, `TargetWasFree` and `WatchIsTheTurns`, for any bots, handoffs,
  bounds and settings, crashes at any step included. `HandoffInv` is what they
  rest on: a card and its promise agree because a bot's queue and snapshot hold
  only its own handoffs (`OwnQueue`), so that no two drains are at the same one;
  nothing is lost because a drain that settles an item has told its user
  (`Answered`), and because a deleted bot has no queue that a drain could forget
  (`GoneIsEmpty`); consent follows because a drain at "allowed" has a card that
  says so, or the pair's permission. `TargetWasFree` needs only that every step
  moves the turns in one of four ways (`TurnsMove`). `WatchIsTheTurns` needs that
  and that a timer set for the turn in hand has a turn (`TimersHaveTurns`); it
  says nothing of a bot with an end to come that is not its turn's (`astray`).
  `AcceptedIsKept` is about handoffs whose bots exist: one whose sender is deleted
  under its open card ends without a word (`delegations.ts:284`).
* `PeerHandoff_proofs!Refinement`: every step of the queues is a step of
  `Handoff` or leaves it where it is. What a handoff is abstractly
  (`HandoffStatus`) is read off the queue, the drain and the turns, so the
  invariant says which combinations there are (`CourseInv`): a handoff is queued
  once, one that was begun waits in a queue only until the drain that began it
  lets it go, one that was refused is in no queue (`QueuedOnce`, `Course`). Under
  it a step moves the handoffs in one of four ways (`HandoffsMove`): some end,
  one begins, some arrive, or the process restarts. The proof corrected the
  model: `Handoff` let one handoff leave at a time, and a step of the code can
  end the working handoff of a bot and refuse several it had queued, which two
  bots do not show. `OnceByAProcess` (`RunsOnce`) needs besides that a handoff
  that was begun is never again what a drain is at.
* `Automations_proofs`: for any bots, definitions, deliveries and bounds.
  `FinalReceipts` and `GoneStaysGone` hold under every fault of the model,
  `RunsAreTurns` when turns end with their event (`~SilentEnds`), `DeliveredOnce`
  when no crash falls between the two files (`~TornSaves`); section 3 shows both
  fail without. All rest on `Kept`: the receipts are the first `made` of the
  list, a due routine is on and has room, a queued receipt has its definition.
  Every handler either moves receipts forward or lets new ones join at the end
  (`Listing`); a tick does both, and is proved for every choice of what starts
  (`Ticked`). `DeliveredOnce` needs besides that a delivery with a run is
  remembered until its webhook is deleted (`Remembered`), and that a deleted
  webhook accepts nothing.
* `LocalVm_proofs`: for any finite set of bots, any threads and any limit.
  `Undisturbed` (`Held`): whoever may replace a desktop first made sure that
  nobody holds it, and every claim that follows looks at his mark. `WorkersHold`
  (`Seated`): a thread's mount and lease agree only because its bot is busy with
  no other thread, which is what ends when a bot is idled under a turn; so it
  speaks of turns that are `Going`, not `bereft`. `Backstop` (`Timed`) is about the
  desktops the server has seen run, `LimitHolds` (`Limited`) about those the last
  count saw (`Known`): only one create is past the limit's check at a time, in a
  mode that is not about to change.
* `ClaudeSession_proofs`: for any messages, processes and number of attempts.
  `OnceSettled`, `StopReaches`, `NoZombies` and `SocketHolds` assume
  `OneMessage`: the caller waits for its last message (the server does: a bot is
  busy), and a reused process does not die of a transient error; the second
  half is the row of `RetryIsOfTheTurn` in section 3. They rest on one invariant,
  `Sound`: at most one message is at hand; a process with a turn, or whose turn
  waits for its relaunch, is the one `active` names; only the current session
  has a broker, and requests only while it has a turn. Its steps are of three
  kinds: those that begin a message, those that end the one at hand
  (`Finishes`), and those that do neither (`Quiet`).
* `HostedDesktop_proofs`: for any threads, agent requests, patches and backends.
  `WheelIsFree`, `NoStopUnderATurn` and `MarkAndTurn` rest on one invariant,
  `DesktopInv`, with a part for each kind of mishap. The mark of the bot stands
  for one request and what was asked by whom (`FlightIsAsked`); unless a request
  was given up nothing is loose; until a reload or a stray end `busy` is right,
  mark and turn agree and a stop is asked for only while no turn uses the desktop
  (`TurnsAreTold`); without a slow body what an agent's request was admitted on
  still holds (`ChecksAreFresh`), because the wheel is not handed over under a
  mark. The first and the last alone are not inductive: a change of backend stops
  the desktop too, and must find no turn. A late end is stray only if the bot has
  another turn: one that finds it idle is harmless, and the proof shows it.
* `Copies_proofs`, about `Checkpoints`: for any files and contents, any number of
  commits, any command failing, and anyone writing between any two of them.
  `FolderIsTheRestores`, `ExactRestore`, `SafetyPoint` and `UndoPoint` rest on
  `CheckpointInv`: the queue of a shadow repository lists each operation on its way
  once, the snapshot its turn waits for and the restore the lease is for
  (`QueueIsTold`); a snapshot that is about to commit has every file it could read
  and that nobody touched since (`SnapshotIsStaged`); under the lease the bot is
  busy with a room turn at most (`LeaseIsAlone`); each command of a restore finds
  what the ones before have left, but for the excused paths
  (`RestoreIsOnItsWay`). `NoTurnMidRestore` says of a turn the bot was idled under
  only that the restore takes it for over.
* `Copies_proofs!StreamTyped`, `StreamShapes`, `StreamInvAlways`, `InSyncAlways`,
  about `EventStream`: for any bots, any size of the replay buffer, any number of
  writes, frames, lost connections and edits. `StreamShape` holds of every
  connection: the buffer is the tail of what the run has numbered, without a gap,
  and a client that has loaded nothing was told to by its greeting. `InSync` says
  something only when everything is read; what makes it inductive (`StreamInv`)
  says where a record the client does not show as it is may be. A frame on its
  way to the view names it (`Synced`); or the connection is down, and the buffer
  has a frame of it past the cursor, so that the replay will bring it (`Resumes`);
  or a snapshot is still to come. The last frame of a record tells what the
  server has, in the buffer and on the way (`Tells`), and a frame on the way is
  ahead of the cursor and still in the buffer if the buffer reaches so far
  (`UnreadIsAhead`), so that a frame read moves the cursor past nothing unread.
  `StreamInvAlways` and `InSyncAlways` assume `Orderly`, that none of the three
  races of section 3 is allowed: with any of them `InSync` fails. That is also
  the setting of `EventStream.cfg`. What the two loops compute (`FoldedAll`,
  `MissedSince`) is proved for lists of any length, from the least index at which
  a claim would fail, since the library's induction theorems cannot be cited:
  after the fold a record is as its last frame says, and the replay has the
  frames past the cursor in their order.

Each proof follows one pattern: `Init => Inv`, one lemma per action that moves
the invariant over that action, a step for `[Next]_vars` by cases, and a last
step by PTL. `Owned` is stated over values instead of variables, so that a
handler is proved in two halves: the effect of the event, and the drain.
Proved and not run: `BotNeverTakesTheWheel`, which says of every step of a help
call that it leaves the wheel alone, `OnceByAProcess`, and every `TypeOK` that a
`Typing` states.

The proofs need what the named assumptions of the modules say of the constants
and no more; `None` is a value apart, and `Routines` and the `Bots` of `LocalVm`
are finite because their number is compared with a limit.

Only model-checked: liveness under fairness and everything about `ENABLED`
(`HeldMessagesRun`, `RoomGoesOn`, `QueueMoves`, `RunsEnd`, `HandBackResumes`,
`StopEnds`, `EndsAtCeiling`, `EndsInSync`), which are out of the prover's reach,
and the action property `StaleExpiryHarmless`. Every invariant a run checks is stated by a theorem.

## 5. What is abstracted, and what is missing

Message texts, chips, channel mirroring and notifications are left out; a
message is a count, a card is its state. Providers are an environment that may
do what a driver can be seen to do from `index.ts`. Task threads (a bot's
detached contexts) are one thread per bot. In `PeerHandoff` the synchronous
`ask_bot`, task threads and unreadable queue rows are not modelled; a card of
a deleted bot's thread is outside `CardAndPromiseAgree`. In `Automations` the
rate window, webhook verification, event filters and the caps of 2000 receipts
and deliveries are not modelled. `LocalVm` leaves out what happens inside a
container runtime: a command is the step that ends it, with its outcomes.
`ClaudeSession` leaves out `steer`, `stopAll` and `dispose`, a child that cannot
be spawned, configuration files, the length of a backoff and the patterns that
call an error transient (`classifyError`): `Flaky` says which processes may die
so. `EventStream` follows the records of bots; the lists of bots and groups,
pages of messages, frames merged before they are drawn and the debounce of edits
are left out.

`RoomClock` follows one turn: the rooms, the release timer and the next
turn on the thread are `TurnEngine`'s. `HostedDesktop` leaves out the bot's
`computer` destination and the account's other bots, which the provider
answers "in use" for. `Checkpoints` leaves out the listing, ignored files, git's
configuration and the turns of a bot other than its latest, except for what they
write and the end they come to.

Not modelled at all: the message tree (planned below); the ACP and other
providers' drivers, whose behaviour towards the server is that of the provider
in `TurnEngine`; the companion, the cloud control plane and broker, systems of
their own that this server only calls; the desktop shell, the React client and
the packages for Solana, research, speech and avatars, which draw, fetch or sign
and keep little state that two actors share. `src/source/packages`
is three fifths of the lines, nearly all of it generated protocol code. PROJECT.json lists
every component with the reason, and the hazards no property covers yet.

## 6. Plan

In this order; each item names its abstract specification or invariant.

1. `TurnEngine`: provider reload, bot deletion, cancel during setup, detached
   task threads (runs of `Automations`), unattended marks. Then the composition
   of `TurnEngine` with the queues of `PeerHandoff` and `Automations`, which
   take the turn engine's ends of turns as given today, and with
   `ClaudeSession` as the provider: at most one turn per thread, one terminal
   event.
2. `MessageTree`: branches, the active leaf, edit and regenerate, and which
   provider session a rewound thread may resume.
3. `ClaudeSession`: `steer`, `stopAll` and `dispose`; the decision table of auto
   approval.
4. The companion's pairing, the control plane's leases.
