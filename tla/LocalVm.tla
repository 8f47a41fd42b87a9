------------------------------ MODULE LocalVm -------------------------------
(***************************************************************************)
(* Who may use, replace or remove a Local VM desktop (server/index.ts,     *)
(* local-vm-lease.ts, local-vm-idle.ts).  In shared mode one desktop       *)
(* serves every bot, in per-bot mode each bot has its own.  A turn claims  *)
(* the desktop's lease; the person's setup actions, the change of mode,    *)
(* the deletion of a bot and the idle timer each look at some of the       *)
(* lease, the table of active threads and the busy marks before they       *)
(* touch a container, and await the container runtime afterwards.          *)
(* An action is the code between two awaits.                               *)
(***************************************************************************)
EXTENDS Naturals, FiniteSets

CONSTANTS
  Bots, Threads,
  BotOf,         \* the bot whose chat or task a thread is
  None,          \* null
  Shared,        \* SHARED_LOCAL_VM_TARGET
  MaxInstances,  \* the highest localVmMaxInstances there has been
  Patient,       \* threads whose turns may wait for a person for 30 minutes
  Deletable,     \* bots the person may delete
  Stalling,      \* threads whose turns may stall, or end more than once
  Unreadable     \* desktops the container runtime may fail to report, or to make

ASSUME LocalVmAssumption ==
  /\ IsFiniteSet(Bots) /\ BotOf \in [Threads -> Bots] /\ Patient \subseteq Threads
  /\ Deletable \subseteq Bots /\ Stalling \subseteq Threads
  /\ Unreadable \subseteq Bots \cup {Shared}
  /\ MaxInstances \in Nat \ {0}
  /\ None \notin Bots \cup Threads \cup {Shared} /\ Shared \notin Bots

Targets == Bots \cup {Shared}

VARIABLES
  bots,       \* store.bots
  mode,       \* localVmMode(cfg)
  deletion,   \* DELETE /api/bots/:id requests past their first check
  busy,       \* the bots whose `busy` is set
  turn,       \* how far a thread's latest turn is
  timer,      \* the watchdog's: set for the turn of a thread, or one that is over
  owed,       \* threads with an end to come that is not their latest turn's
  bereft,     \* history: threads whose bot was idled while their turn went on
  lease,      \* LocalVmLease.record of each target; an expired one is None
  mounted,    \* localVmThreadTargets
  active,     \* localVmActiveThreads
  operation,  \* localVmLifecycleBusy, and which action is under way
  provision,  \* localVmProvisionBusy
  image,      \* localVmImageBusy
  change,     \* localVmModeChangeBusy, and how far the change is
  container,  \* the containers there are
  uncounted,  \* history: desktops missed by the last count that found room
  idle,       \* the targets whose idle timer is armed
  blind       \* history: desktops that ran when the server did not see it

people == <<bots, mode, deletion>>
late == <<timer, owed, bereft>>
turns == <<busy, turn, late>>
holds == <<lease, mounted, active>>
setup == <<operation, provision, image, change>>
desktops == <<container, uncounted>>
watched == <<idle, blind>>
vars == <<people, turns, holds, setup, desktops, watched>>

\* setup: before the claim; claimed: awaiting the container's status;
\* parked: the turn waits for a person and emits nothing.
Stages == {"none", "setup", "claimed", "running", "parked"}
AtWork == {"running", "parked"}
Operations == {"run", "creating", "start", "stop", "remove", "suspend"}
Replacing == Operations \ {"start"}

ASSUME NoneAssumption == None \notin Operations

NoLease == [thread |-> None, bot |-> None]
Leases == [thread : Threads, bot : Bots] \cup {NoLease}

TypeOK ==
  /\ bots \subseteq Bots /\ mode \in {"shared", "per-bot"}
  /\ busy \subseteq bots /\ turn \in [Threads -> Stages]
  /\ lease \in [Targets -> Leases]
  /\ mounted \in [Threads -> Targets \cup {None}]
  /\ active \in [Targets -> Threads \cup {None}]
  /\ operation \in [Targets -> Operations \cup {None}]
  /\ {provision, image} \subseteq BOOLEAN
  /\ change \in {"none", "counting", "saving"}
  /\ container \in [Targets -> {"missing", "stopped", "running"}]
  /\ idle \subseteq Targets
  /\ deletion \in [Bots -> {"none", "checking", "passed"}]
  /\ timer \in [Threads -> {"off", "turn", "late"}]
  /\ owed \subseteq Threads /\ bereft \subseteq Threads
  /\ uncounted \subseteq Bots /\ blind \subseteq Targets

TargetOf(b) == IF mode = "per-bot" THEN b ELSE Shared
InUse == IF mode = "per-bot" THEN bots ELSE {Shared}

Existing == {b \in bots : container[b] # "missing"}
Running == {x \in Targets : container[x] = "running"}

\* A restart loses every record but the containers.  The timer is armed of the
\* ones it finds running: of the mode's desktops, in per-bot mode of the bots
\* set to use one, and only where the status can be read.
Init ==
  /\ bots = Bots /\ busy = {} /\ mode \in {"shared", "per-bot"}
  /\ turn = [t \in Threads |-> "none"]
  /\ lease = [x \in Targets |-> NoLease]
  /\ mounted = [t \in Threads |-> None]
  /\ active = [x \in Targets |-> None]
  /\ operation = [x \in Targets |-> None]
  /\ provision = FALSE /\ image = FALSE /\ change = "none"
  /\ container \in [Targets -> {"missing", "stopped", "running"}]
  /\ uncounted \in SUBSET (Existing \cap Unreadable)
  /\ Cardinality(Existing \ uncounted) <= IF mode = "shared" THEN 0 ELSE MaxInstances
  /\ idle \in SUBSET (Running \cap InUse) /\ blind = Running \ idle
  /\ deletion = [b \in Bots |-> "none"]
  /\ timer = [t \in Threads |-> "off"] /\ owed = {} /\ bereft = {}

-----------------------------------------------------------------------------
\* The lease.  `current` forgets a record whose bot is not busy; what a
\* deletion or a later turn of the bot finds is what was last looked at.
Current(x) == IF lease[x].bot \in busy THEN lease[x] ELSE NoLease
Claimable(x, t) == Current(x).thread \in {None, t}
LookedAt(x) == lease' = [lease EXCEPT ![x] = Current(x)]

\* Fault: release does not look whose record it drops.
ReleasedByAnyone(t) ==
  LET x == mounted[t] IN
  /\ lease' = IF x = None THEN lease ELSE [lease EXCEPT ![x] = NoLease]
  /\ active' = IF x # None /\ active[x] = t
               THEN [active EXCEPT ![x] = None] ELSE active
  /\ mounted' = [mounted EXCEPT ![t] = None]

\* releaseLocalVmThread
Released(t) ==
  LET x == mounted[t] IN
  /\ lease' = IF x # None /\ lease[x].thread = t
              THEN [lease EXCEPT ![x] = NoLease] ELSE lease
  /\ active' = IF x # None /\ active[x] = t
               THEN [active EXCEPT ![x] = None] ELSE active
  /\ mounted' = [mounted EXCEPT ![t] = None]

\* The bots in B are idled, whatever turns of theirs go on.
Idles(B) ==
  /\ busy' = busy \ B
  /\ bereft' = {t \in Threads : turn'[t] # "none" /\ (t \in bereft \/ BotOf[t] \in B)}

\* A timer set for the turns of the threads in S outlives them.
Outlived(S) ==
  timer' = [t \in Threads |-> IF t \in S /\ timer[t] = "turn" THEN "late" ELSE timer[t]]

Arms(S) == idle' = idle \cup S /\ blind' = blind \ S

\* Fault: a turn ignores the action under way on its desktop.
SetupBusyElsewhere(x) == image \/ change # "none"

SetupBusy(x) == image \/ change # "none" \/ operation[x] # None

\* A bot that was idled may start a turn on a thread whose turn goes on; the
\* end of that one is then still to come.
Start(t) ==
  /\ BotOf[t] \in bots \ busy /\ turn[t] \in {"none"} \cup AtWork
  /\ busy' = busy \cup {BotOf[t]} /\ turn' = [turn EXCEPT ![t] = "setup"]
  /\ owed' = IF turn[t] = "none" THEN owed ELSE owed \cup {t}
  /\ bereft' = bereft \ {t} /\ Outlived({t})
  /\ UNCHANGED <<people, holds, setup, desktops, watched>>

\* startTurn's catch, before the turn reached its engine.
Rejects(t) ==
  /\ Released(t)
  /\ turn' = [turn EXCEPT ![t] = "none"] /\ Idles({BotOf[t]})
  /\ UNCHANGED <<people, timer, owed, setup, desktops, watched>>

MountRefused(t) ==
  LET x == TargetOf(BotOf[t]) IN
  /\ turn[t] = "setup" /\ (SetupBusy(x) \/ ~Claimable(x, t))
  /\ Rejects(t)

Mount(t) ==
  LET x == TargetOf(BotOf[t]) IN
  /\ turn[t] = "setup" /\ ~SetupBusy(x) /\ Claimable(x, t)
  /\ lease' = [lease EXCEPT ![x] = [thread |-> t, bot |-> BotOf[t]]]
  /\ mounted' = [mounted EXCEPT ![t] = x]
  /\ active' = [active EXCEPT ![x] = t]
  /\ Arms({x})
  /\ turn' = [turn EXCEPT ![t] = "claimed"]
  /\ UNCHANGED <<people, busy, late, setup, desktops>>

\* The status the turn awaited: a desktop that is not ready ends it, and so
\* may anything later in the dispatch.  (A provider reload may meanwhile have
\* let go of the desktop.)
Ready(t) ==
  /\ turn[t] = "claimed"
  /\ mounted[t] # None => container[mounted[t]] = "running"
  /\ turn' = [turn EXCEPT ![t] = "running"]
  /\ UNCHANGED <<people, busy, late, holds, setup, desktops, watched>>

NotReady(t) == turn[t] = "claimed" /\ Rejects(t)

-----------------------------------------------------------------------------
\* Events of a turn renew its lease and the idle window.
Touched(t) == Arms({mounted[t]} \ {None})

Parks(t) ==
  /\ turn[t] = "running" /\ t \in Patient
  /\ turn' = [turn EXCEPT ![t] = "parked"] /\ Touched(t)
  /\ UNCHANGED <<people, busy, late, holds, setup, desktops>>

Resumes(t) ==
  /\ turn[t] = "parked"
  /\ turn' = [turn EXCEPT ![t] = "running"] /\ Touched(t)
  /\ UNCHANGED <<people, busy, late, holds, setup, desktops>>

\* turn.completed, or a rejection of sendTurn; an engine may report both.
Completes(t) ==
  /\ turn[t] \in AtWork
  /\ Touched(t) /\ Released(t) /\ Outlived({t})
  /\ turn' = [turn EXCEPT ![t] = "none"] /\ Idles({BotOf[t]})
  /\ owed' \in {owed, owed \cup ({t} \cap Stalling)}
  /\ UNCHANGED <<people, setup, desktops>>

\* The end of a turn before the latest one of its thread, which the server
\* takes for the latest one's.
EndsLate(t) ==
  /\ t \in owed /\ owed' = owed \ {t}
  /\ UNCHANGED <<people, turn, timer, setup, desktops>>
  /\ Touched(t) /\ Released(t) /\ Idles({BotOf[t]})

\* watchdog.onStall: a turn silent for 20 minutes is told to stop, and a timer
\* set.  A waiting turn is exempt.
Stalls(t) ==
  /\ t \in Stalling /\ turn[t] = "running" /\ timer[t] = "off"
  /\ timer' = [timer EXCEPT ![t] = "turn"]
  /\ UNCHANGED <<people, busy, turn, owed, bereft, holds, setup, desktops, watched>>

\* The timer, 6 s later, idles the bot if it is busy, whatever it is busy with.
\* It does not let go of the desktop.
TimerReleases(t) ==
  /\ timer[t] # "off" /\ timer' = [timer EXCEPT ![t] = "off"]
  /\ LET over == {t} \cap {s \in Threads : timer[s] = "turn" /\ BotOf[s] \in busy} IN
     /\ turn' = [s \in Threads |-> IF s \in over THEN "none" ELSE turn[s]]
     /\ owed' = owed \cup over
  /\ Idles({BotOf[t]} \cap busy)
  /\ UNCHANGED <<people, holds, setup, desktops, watched>>

\* Thirty minutes without an event: only a waiting turn lives through them, or
\* a lease that outlived its turn, or one of a turn the server no longer hears.
Lapses(x) ==
  /\ lease[x] # NoLease
  /\ turn[lease[x].thread] \in {"none", "parked"} \/ lease[x].thread \in bereft
  /\ lease' = [lease EXCEPT ![x] = NoLease]
  /\ UNCHANGED <<people, turns, mounted, active, setup, desktops, watched>>

\* The threads of R let go of their desktops; the leases of `met` are forgotten.
Frees(R, met) ==
  /\ lease' = [x \in Targets |->
       IF x \in met \/ \E t \in R : mounted[t] = x /\ lease[x].thread = t
       THEN NoLease ELSE lease[x]]
  /\ active' = [x \in Targets |->
       IF \E t \in R : mounted[t] = x /\ active[x] = t THEN None ELSE active[x]]
  /\ mounted' = [t \in Threads |-> IF t \in R THEN None ELSE mounted[t]]

\* reloadProviders idles every bot.  For each that was busy it releases the
\* first thread whose desktop is leased to that bot, be it that bot's thread or
\* not, and forgets the leases it meets of bots it has idled.  The turns that
\* are with the old engines die, except those dispatched meanwhile; those being
\* set up go on.
Reload ==
  LET found(b) == {t \in Threads : mounted[t] # None /\ Current(mounted[t]).bot = b}
      freed    == {R \in SUBSET UNION {found(b) : b \in busy} :
                     \A b \in busy : found(b) # {} => \E t \in R : R \cap found(b) = {t}}
  IN
  /\ busy # {}
  /\ \E R \in freed, met \in SUBSET {x \in Targets : lease[x] # NoLease} : Frees(R, met)
  /\ \E die \in SUBSET {t \in Threads : turn[t] \in AtWork} :
       /\ turn' = [t \in Threads |-> IF t \in die THEN "none" ELSE turn[t]]
       /\ owed' \in {owed, owed \cup (die \cap Stalling)}
       /\ Outlived(die)
  /\ Idles(bots)
  /\ UNCHANGED <<people, setup, desktops, watched>>

-----------------------------------------------------------------------------
\* POST /api/local-computer/:action for the shared desktop, and
\* /api/bots/:id/local-computer/:action for a bot's own.
Begins(x, action) ==
  /\ ~SetupBusy(x)
  /\ IF x = Shared
     THEN mode = "per-bot" => action # "run"
     ELSE /\ x \in bots /\ mode = "per-bot" /\ action # "start"
          /\ action = "run" => ~provision
  /\ IF action = "start" THEN UNCHANGED lease
     ELSE Current(x) = NoLease /\ LookedAt(x)
  /\ operation' = [operation EXCEPT ![x] = action]
  /\ provision' = IF x # Shared /\ action = "run" THEN TRUE ELSE provision
  /\ UNCHANGED <<people, turns, mounted, active, image, change, desktops, watched>>

\* What an inspection answers: any failure of it reads as no container.
Reported(x) == {container[x]} \cup (IF x \in Unreadable THEN {"missing"} ELSE {})

\* What a count of the bots' desktops may find: one inspection each.
Counts == {Existing \ missed : missed \in SUBSET (Existing \cap Unreadable)}

Ended(x) ==
  /\ operation' = [operation EXCEPT ![x] = None]
  /\ provision' = IF x # Shared /\ operation[x] \in {"run", "creating"}
                  THEN FALSE ELSE provision
  /\ UNCHANGED <<people, turns, holds, image, change>>

\* A create counts the desktops it sees before it makes one.  The limit in
\* force is at most MaxInstances.
Counted(x) ==
  /\ operation[x] = "run" /\ "missing" \in Reported(x)
  /\ IF x = Shared THEN UNCHANGED uncounted
     ELSE \E seen \in Counts :
            Cardinality(seen) < MaxInstances /\ uncounted' = Existing \ seen
  /\ operation' = [operation EXCEPT ![x] = "creating"]
  /\ UNCHANGED <<people, turns, holds, provision, image, change, container, watched>>

Created(x) ==
  /\ operation[x] = "creating" /\ container[x] = "missing" /\ Ended(x)
  /\ container' = [container EXCEPT ![x] = "running"] /\ Arms({x})
  /\ UNCHANGED uncounted

Stopped(x) ==
  /\ operation[x] = "stop" /\ container[x] = "running" /\ Ended(x)
  /\ container' = [container EXCEPT ![x] = "stopped"] /\ idle' = idle \ {x}
  /\ UNCHANGED <<uncounted, blind>>

\* A desktop that reads as missing is not removed; its timer is cancelled too.
Removed(x) ==
  /\ operation[x] = "remove" /\ Ended(x)
  /\ idle' = idle \ {x}
  /\ \/ container' = [container EXCEPT ![x] = "missing"] /\ UNCHANGED blind
     \/ /\ "missing" \in Reported(x) /\ UNCHANGED container
        /\ blind' = blind \cup ({x} \cap Running)
  /\ UNCHANGED uncounted

\* The limit, a container in the wrong state (always, for a start) or the
\* runtime refuses; or what it made is not reported.
Fails(x) ==
  /\ operation[x] \notin {None, "suspend"} /\ Ended(x)
  /\ \/ UNCHANGED <<container, blind>>
     \/ /\ operation[x] = "creating" /\ container[x] = "missing" /\ x \in Unreadable
        /\ container' = [container EXCEPT ![x] = "running"]
        /\ blind' = blind \cup {x}
  /\ UNCHANGED <<uncounted, idle>>

\* The image is prepared under a mark of its own.
PullBegins ==
  /\ ~SetupBusy(Shared) /\ image' = TRUE
  /\ UNCHANGED <<people, turns, holds, operation, provision, change, desktops, watched>>

PullEnds ==
  /\ image /\ image' = FALSE
  /\ UNCHANGED <<people, turns, holds, operation, provision, change, desktops, watched>>

\* A preview opens the idle window anew.  Bound: it shows a running desktop (a
\* window without one ends in a suspend that finds nothing).
Screenshot(x) ==
  /\ x \in InUse \cup {Shared} /\ container[x] = "running" /\ Arms({x})
  /\ UNCHANGED <<people, turns, holds, setup, desktops>>

\* A container stops by itself.
Dies(x) ==
  /\ container[x] = "running" /\ operation[x] = None
  /\ container' = [container EXCEPT ![x] = "stopped"]
  /\ UNCHANGED <<people, turns, holds, setup, uncounted, watched>>

-----------------------------------------------------------------------------
\* LocalVmIdleTimer.expire; while the desktop is in use it waits another
\* window, which changes nothing here.
Unused(x) == ~image /\ operation[x] = None /\ active[x] = None

Expires(x) ==
  /\ x \in idle /\ Unused(x)
  /\ idle' = idle \ {x} /\ operation' = [operation EXCEPT ![x] = "suspend"]
  /\ UNCHANGED <<people, turns, holds, provision, image, change, desktops, blind>>

\* A desktop that does not read as running is left alone, for good.
Suspended(x) ==
  /\ operation[x] = "suspend" /\ Ended(x)
  /\ \/ /\ container[x] = "running" /\ container' = [container EXCEPT ![x] = "missing"]
        /\ UNCHANGED blind
     \/ /\ Reported(x) # {"running"} /\ UNCHANGED container
        /\ blind' = blind \cup ({x} \cap Running)
  /\ UNCHANGED <<uncounted, idle>>

\* Fault: a failed suspend does not arm the timer again.
SuspendFailsForGood(x) ==
  operation[x] = "suspend" /\ Ended(x) /\ UNCHANGED <<desktops, watched>>

SuspendFails(x) ==
  operation[x] = "suspend" /\ Ended(x) /\ Arms({x}) /\ UNCHANGED desktops

\* Fault: the mode may change while a desktop is being created.
ModeBeginsDuringSetup ==
  /\ change = "none" /\ ~image /\ \A x \in Targets : active[x] = None
  /\ change' = IF mode = "per-bot" THEN "counting" ELSE "saving"
  /\ UNCHANGED <<people, turns, holds, operation, provision, image, desktops, watched>>

\* PATCH /api/config with another mode, one settings request at a time.
ModeBegins ==
  /\ change = "none" /\ ~image
  /\ \A x \in Targets : active[x] = None /\ operation[x] = None
  /\ change' = IF mode = "per-bot" THEN "counting" ELSE "saving"
  /\ UNCHANGED <<people, turns, holds, operation, provision, image, desktops, watched>>

\* The change is refused when the count finds a desktop, or cannot be made.
ModeCounts ==
  /\ change = "counting"
  /\ \/ {} \in Counts /\ change' = "saving" /\ uncounted' = Existing
     \/ (Existing # {} \/ Unreadable # {}) /\ change' = "none" /\ UNCHANGED uncounted
  /\ UNCHANGED <<people, turns, holds, operation, provision, image, container, watched>>

\* The new mode is saved, unless another part of the patch was refused.
ModeEnds ==
  /\ change = "saving" /\ change' = "none"
  /\ mode' \in {"shared", "per-bot"}
  /\ UNCHANGED <<bots, deletion, turns, holds, operation, provision, image, desktops,
                 watched>>

\* DELETE /api/bots/:id: in per-bot mode it looks at the desktop, awaits its
\* status, then awaits the end of the bot's turn, and looks at neither again.
DeleteBegins(b) ==
  /\ b \in bots \cap Deletable /\ deletion[b] = "none"
  /\ mode = "per-bot" => active[b] = None /\ operation[b] = None
  /\ deletion' = [deletion EXCEPT
                    ![b] = IF mode = "per-bot" THEN "checking" ELSE "passed"]
  /\ UNCHANGED <<bots, mode, turns, holds, setup, desktops, watched>>

DeleteLooks(b) ==
  /\ deletion[b] = "checking"
  /\ \E seen \in Reported(b) :
       deletion' = [deletion EXCEPT ![b] = IF seen = "missing" THEN "passed" ELSE "none"]
  /\ UNCHANGED <<bots, mode, turns, holds, setup, desktops, watched>>

Deleted(b) ==
  /\ deletion[b] = "passed" /\ deletion' = [deletion EXCEPT ![b] = "none"]
  /\ bots' = bots \ {b} /\ busy' = busy \ {b} /\ idle' = idle \ {b}
  /\ UNCHANGED <<mode, turn, late, holds, setup, desktops, blind>>

-----------------------------------------------------------------------------
Turning(t) ==
  \/ Start(t) \/ MountRefused(t) \/ Mount(t) \/ Ready(t) \/ NotReady(t)
  \/ Parks(t) \/ Resumes(t) \/ Completes(t) \/ EndsLate(t)
  \/ Stalls(t) \/ TimerReleases(t)

Operating(x) ==
  \/ \E action \in {"run", "start", "stop", "remove"} : Begins(x, action)
  \/ Counted(x) \/ Created(x) \/ Stopped(x) \/ Removed(x) \/ Fails(x)
  \/ Screenshot(x) \/ Dies(x) \/ Lapses(x)
  \/ Expires(x) \/ Suspended(x) \/ SuspendFails(x)

Next ==
  \/ \E t \in Threads : Turning(t)
  \/ \E x \in Targets : Operating(x)
  \/ PullBegins \/ PullEnds \/ ModeBegins \/ ModeCounts \/ ModeEnds \/ Reload
  \/ \E b \in Bots :
       DeleteBegins(b) \/ DeleteLooks(b) \/ Deleted(b)

Spec == Init /\ [][Next]_vars

-----------------------------------------------------------------------------
\* A desktop somebody holds is neither created, stopped, removed nor suspended
\* under them, whichever of the five places the two sides looked at.
HeldIsUndisturbed ==
  \A x \in Targets : Current(x) # NoLease =>
    /\ operation[x] \notin Replacing
    /\ active[x] = Current(x).thread
    /\ change # "saving"

\* A turn that kept emitting events still holds the desktop it was given
\* (local-vm-lease.ts: "each desktop remains a strict singleton").  Its bot may
\* have been idled under it: by a provider reload, which also lets go of its
\* desktop, by the timer of an earlier turn that stalled, or by such a turn's
\* late end (bereft).  Nothing else takes a desktop from a turn.
WorkerHolds ==
  \A t \in Threads \ (Patient \cup bereft) :
    turn[t] \in AtWork /\ BotOf[t] \in bots =>
      mounted[t] # None /\ lease[mounted[t]].thread = t

\* No more desktops than the limit in per-bot mode, and none in shared mode,
\* but for those the last count did not see (containerComputerExists answers
\* no to every failure), however creates, mode changes and deletions overlap.
WithinLimit ==
  Cardinality(Existing \ uncounted) <= IF mode = "shared" THEN 0 ELSE MaxInstances

\* A running desktop of the mode in force has its idle timer, or an action
\* that ends with one ("must not disable the cost/resource backstop forever").
\* The exceptions are the desktops that ran when the server was not told: at
\* boot, by an inspection that failed, or by a create that failed after all.
BackstopArmed ==
  \A x \in InUse \ blind :
    container[x] = "running" /\ operation[x] = None => x \in idle

\* local-vm-lease.ts: "each desktop remains a strict singleton."  (Not kept by
\* a turn that waits for a person longer than its lease.)
OneWorkerPerDesktop ==
  \A s, t \in Threads :
    /\ turn[s] \in AtWork /\ turn[t] \in AtWork
    /\ mounted[s] = mounted[t] /\ mounted[s] # None
    => s = t

\* What keeps a desktop from being suspended is a turn there is.  (Not kept by
\* the release of a stalled turn, nor by a reload that releases another thread.)
ActiveIsATurn == \A x \in Targets : active[x] # None => turn[active[x]] # "none"

\* A deleted bot leaves no desktop behind, which nothing counts, lists or
\* suspends any more.  (Not kept: a create may overlap the deletion.)
NoOrphan == \A b \in Bots \ bots : container[b] = "missing"

=============================================================================
