--------------------------- MODULE LocalVm_proofs ----------------------------
(***************************************************************************)
(* Proofs about the Local VM, for any bots, threads and limit.             *)
(***************************************************************************)
EXTENDS LocalVm, FiniteSetTheorems, TLAPS

-----------------------------------------------------------------------------
(* Types.                                                                  *)

\* What a thread lets go of is typed again.
LEMMA ReleasedTyped ==
  ASSUME TypeOK, NEW t \in Threads, Released(t)
  PROVE  /\ lease' \in [Targets -> Leases]
         /\ mounted' \in [Threads -> Targets \cup {None}]
         /\ active' \in [Targets -> Threads \cup {None}]
  BY DEF TypeOK, Released, Leases

\* A reload frees threads and forgets leases, of whatever set.
LEMMA ReloadTyped ==
  ASSUME TypeOK, Reload
  PROVE  /\ lease' \in [Targets -> Leases]
         /\ mounted' \in [Threads -> Targets \cup {None}]
         /\ active' \in [Targets -> Threads \cup {None}]
         /\ turn' \in [Threads -> Stages]
         /\ timer' \in [Threads -> {"off", "turn", "late"}]
         /\ owed' \subseteq Threads /\ bereft' \subseteq Threads /\ busy' \subseteq bots
<1>1. lease' \in [Targets -> Leases]
  BY DEF TypeOK, Reload, Frees, Leases
<1>2. /\ mounted' \in [Threads -> Targets \cup {None}]
      /\ active' \in [Targets -> Threads \cup {None}]
  BY DEF TypeOK, Reload, Frees
<1>3. /\ turn' \in [Threads -> Stages] /\ owed' \subseteq Threads
      /\ timer' \in [Threads -> {"off", "turn", "late"}]
  BY DEF TypeOK, Reload, Outlived, Stages
<1>4. bereft' \subseteq Threads /\ busy' \subseteq bots
  BY DEF TypeOK, Reload, Idles
<1> QED BY <1>1, <1>2, <1>3, <1>4

LEMMA TypeStep == ASSUME TypeOK, [Next]_vars PROVE TypeOK'
<1> USE LocalVmAssumption DEF TypeOK, Stages, Operations, people, late, turns, holds, setup,
    desktops, watched, Idles, Outlived, Arms, Touched, Running, Existing
<1>1. CASE UNCHANGED vars
  BY <1>1 DEF vars
<1>2. ASSUME NEW t \in Threads, Turning(t) PROVE TypeOK'
  <2>1. CASE Start(t) BY <2>1 DEF Start
  <2>2. ASSUME Rejects(t) PROVE TypeOK'
    BY <2>2, ReleasedTyped DEF Rejects
  <2>3. CASE MountRefused(t) BY <2>2, <2>3 DEF MountRefused
  <2>4. CASE Mount(t)
    BY <2>4 DEF Mount, TargetOf, Targets, Leases
  <2>5. CASE Ready(t) BY <2>5 DEF Ready
  <2>6. CASE NotReady(t) BY <2>2, <2>6 DEF NotReady
  <2>7. CASE Parks(t) BY <2>7 DEF Parks
  <2>8. CASE Resumes(t) BY <2>8 DEF Resumes
  <2>9. CASE Completes(t)
    BY <2>9, ReleasedTyped DEF Completes
  <2>10. CASE EndsLate(t)
    BY <2>10, ReleasedTyped DEF EndsLate
  <2>11. CASE Stalls(t) BY <2>11 DEF Stalls
  <2>12. CASE TimerReleases(t) BY <2>12 DEF TimerReleases
  <2> QED BY <1>2, <2>1, <2>3, <2>4, <2>5, <2>6, <2>7, <2>8, <2>9, <2>10, <2>11, <2>12
          DEF Turning
<1>3. ASSUME NEW x \in Targets, Operating(x) PROVE TypeOK'
  <2>1. ASSUME NEW action \in {"run", "start", "stop", "remove"}, Begins(x, action)
        PROVE  TypeOK'
    BY <2>1 DEF Begins, LookedAt, Current, Leases
  <2>2. CASE Counted(x) BY <2>2 DEF Counted
  <2>3. CASE Created(x) BY <2>3 DEF Created, Ended
  <2>4. CASE Stopped(x) BY <2>4 DEF Stopped, Ended
  <2>5. CASE Removed(x) BY <2>5 DEF Removed, Ended
  <2>6. CASE Fails(x) BY <2>6 DEF Fails, Ended
  <2>7. CASE Screenshot(x) BY <2>7 DEF Screenshot
  <2>8. CASE Dies(x) BY <2>8 DEF Dies
  <2>9. CASE Lapses(x) BY <2>9 DEF Lapses, Leases
  <2>10. CASE Expires(x) BY <2>10 DEF Expires
  <2>11. CASE Suspended(x) BY <2>11 DEF Suspended, Ended
  <2>12. CASE SuspendFails(x) BY <2>12 DEF SuspendFails, Ended
  <2> QED BY <1>3, <2>1, <2>2, <2>3, <2>4, <2>5, <2>6, <2>7, <2>8, <2>9, <2>10,
             <2>11, <2>12 DEF Operating
<1>4. CASE PullBegins BY <1>4 DEF PullBegins
<1>5. CASE PullEnds BY <1>5 DEF PullEnds
<1>6. CASE ModeBegins BY <1>6 DEF ModeBegins
<1>7. CASE ModeCounts BY <1>7 DEF ModeCounts
<1>8. CASE ModeEnds BY <1>8 DEF ModeEnds
<1>9. CASE Reload
  BY <1>9, ReloadTyped DEF Reload
<1>10. ASSUME NEW b \in Bots, DeleteBegins(b) PROVE TypeOK'
  BY <1>10 DEF DeleteBegins
<1>11. ASSUME NEW b \in Bots, DeleteLooks(b) PROVE TypeOK'
  BY <1>11 DEF DeleteLooks
<1>12. ASSUME NEW b \in Bots, Deleted(b) PROVE TypeOK'
  BY <1>12 DEF Deleted
<1> QED BY <1>1, <1>2, <1>3, <1>4, <1>5, <1>6, <1>7, <1>8, <1>9, <1>10, <1>11, <1>12
        DEF Next

LEMMA TypeInit == Init => TypeOK
<1> SUFFICES ASSUME Init PROVE TypeOK
  OBVIOUS
<1>1. idle \subseteq Targets
  BY DEF Init, InUse, Targets, Running
<1>2. /\ container \in [Targets -> {"missing", "stopped", "running"}]
      /\ uncounted \subseteq Bots /\ blind \subseteq Targets
  BY LocalVmAssumption DEF Init, Existing, Running
<1>3. /\ lease \in [Targets -> Leases]
      /\ mounted \in [Threads -> Targets \cup {None}]
      /\ active \in [Targets -> Threads \cup {None}]
      /\ operation \in [Targets -> Operations \cup {None}]
      /\ turn \in [Threads -> Stages]
      /\ deletion \in [Bots -> {"none", "checking", "passed"}]
      /\ timer \in [Threads -> {"off", "turn", "late"}]
      /\ owed \subseteq Threads /\ bereft \subseteq Threads
  BY DEF Init, Leases, Stages
<1>4. /\ bots \subseteq Bots /\ busy \subseteq bots /\ mode \in {"shared", "per-bot"}
      /\ {provision, image} \subseteq BOOLEAN /\ change \in {"none", "counting", "saving"}
  BY DEF Init
<1> QED BY <1>1, <1>2, <1>3, <1>4 DEF TypeOK

\* The type invariant of the Local VM (index.ts, local-vm-lease.ts,
\* local-vm-idle.ts), for any bots and threads.
THEOREM Typing == Spec => []TypeOK
  BY TypeInit, TypeStep, PTL DEF Spec

-----------------------------------------------------------------------------
(* A desktop somebody holds is undisturbed: whoever may replace it has made *)
(* sure that no thread is active on it, and a lease is of its active thread. *)

Held ==
  \A x \in Targets : lease[x] # NoLease =>
    /\ operation[x] \notin Replacing
    /\ active[x] = lease[x].thread
    /\ change = "none"

\* A thread that lets go takes its lease and its place among the active ones.
LEMMA ReleasedHeld ==
  ASSUME TypeOK, Held, NEW t \in Threads, Released(t)
  PROVE  \A x \in Targets : lease'[x] # NoLease =>
           lease[x] # NoLease /\ lease'[x] = lease[x] /\ active'[x] = active[x]
  BY LocalVmAssumption DEF TypeOK, Held, Released, Leases, NoLease

\* A reload drops leases, and the active thread of none that it keeps.
LEMMA ReloadHeld ==
  ASSUME TypeOK, Held, Reload
  PROVE  Held'
<1>1. PICK R, met : Frees(R, met)
  BY DEF Reload
<1>2. UNCHANGED <<operation, change>>
  BY DEF Reload, setup
<1>3. ASSUME NEW x \in Targets, lease'[x] # NoLease
      PROVE  lease[x] # NoLease /\ lease'[x] = lease[x] /\ active'[x] = active[x]
  <2>1. lease'[x] = lease[x] /\ ~\E t \in R : mounted[t] = x /\ lease[x].thread = t
    BY <1>1, <1>3 DEF Frees
  <2>2. active[x] = lease[x].thread
    BY <1>3, <2>1 DEF Held
  <2>3. active'[x] = active[x]
    BY <1>1, <2>1, <2>2 DEF Frees
  <2> QED BY <1>3, <2>1, <2>3
<1> QED BY <1>2, <1>3 DEF Held

LEMMA HeldStep == ASSUME TypeOK, Held, [Next]_vars PROVE Held'
<1> USE LocalVmAssumption, NoneAssumption DEF TypeOK, Held, Operations, Replacing, people,
    late, turns, holds, setup, desktops, watched
<1>1. CASE UNCHANGED vars
  BY <1>1 DEF vars
<1>2. ASSUME NEW t \in Threads, Turning(t) PROVE Held'
  <2>1. ASSUME Rejects(t) PROVE Held'
    BY <2>1, ReleasedHeld DEF Rejects
  <2>2. CASE Mount(t)
    BY <2>2 DEF Mount, TargetOf, Targets, SetupBusy, NoLease
  <2>3. CASE Completes(t)
    BY <2>3, ReleasedHeld DEF Completes
  <2>5. CASE EndsLate(t)
    BY <2>5, ReleasedHeld DEF EndsLate
  <2>4. CASE \/ Start(t) \/ Ready(t) \/ Parks(t) \/ Resumes(t) \/ Stalls(t)
             \/ TimerReleases(t)
    BY <2>4 DEF Start, Ready, Parks, Resumes, Stalls, TimerReleases
  <2> QED BY <1>2, <2>1, <2>2, <2>3, <2>4, <2>5 DEF Turning, MountRefused, NotReady
<1>3. ASSUME NEW x \in Targets, Operating(x) PROVE Held'
  <2>1. ASSUME NEW action \in {"run", "start", "stop", "remove"}, Begins(x, action)
        PROVE  Held'
    <3>1. /\ active' = active /\ change' = change
          /\ operation' = [operation EXCEPT ![x] = action]
      BY <2>1 DEF Begins
    <3>2. \A y \in Targets : lease'[y] # NoLease =>
            lease'[y] = lease[y] /\ (y = x => action = "start")
      BY <2>1 DEF Begins, LookedAt
    <3> QED BY <3>1, <3>2
  <2>2. CASE Counted(x) \/ Created(x) \/ Stopped(x) \/ Removed(x) \/ Fails(x)
             \/ Suspended(x) \/ SuspendFails(x)
    <3>1. CASE Counted(x)
      BY <3>1 DEF Counted
    <3>2. CASE Ended(x)
      BY <3>2 DEF Ended
    <3> QED BY <2>2, <3>1, <3>2 DEF Created, Stopped, Removed, Fails, Suspended, SuspendFails
  <2>3. CASE Screenshot(x) \/ Dies(x)
    BY <2>3 DEF Screenshot, Dies
  <2>4. CASE Lapses(x) BY <2>4 DEF Lapses
  <2>5. CASE Expires(x)
    <3>1. lease[x] = NoLease
      BY <2>5 DEF Expires, Unused, Leases
    <3> QED BY <2>5, <3>1 DEF Expires
  <2> QED BY <1>3, <2>1, <2>2, <2>3, <2>4, <2>5 DEF Operating
<1>4. CASE PullBegins \/ PullEnds \/ ModeEnds
  BY <1>4 DEF PullBegins, PullEnds, ModeEnds
<1>5. CASE ModeBegins \/ ModeCounts
  BY <1>5 DEF ModeBegins, ModeCounts, Leases
<1>6. CASE Reload
  BY <1>6, ReloadHeld
<1>7. ASSUME NEW b \in Bots, DeleteBegins(b) \/ DeleteLooks(b) \/ Deleted(b) PROVE Held'
  BY <1>7 DEF DeleteBegins, DeleteLooks, Deleted
<1> QED BY <1>1, <1>2, <1>3, <1>4, <1>5, <1>6, <1>7 DEF Next

\* HeldIsUndisturbed, for any bots and threads: neither the person's setup
\* actions, nor the idle timer, nor a change of mode (index.ts) touches a
\* desktop whose lease is good (local-vm-lease.ts).
THEOREM Undisturbed == Spec => []HeldIsUndisturbed
<1>1. Init => Held
  BY DEF Init, Held, NoLease
<1>2. Held => HeldIsUndisturbed
  BY DEF Held, HeldIsUndisturbed, Current
<1> QED BY <1>1, <1>2, TypeInit, TypeStep, HeldStep, PTL DEF Spec

-----------------------------------------------------------------------------
(* A turn that is not waiting for a person keeps its desktop: its bot is    *)
(* busy with it and with nothing else, and its lease is the desktop's.      *)

\* A thread with a turn on its way, of a bot there still is and that nobody
\* idled under it.
Going(t) == turn[t] # "none" /\ t \notin bereft /\ BotOf[t] \in bots

Seated ==
  /\ \A t \in Threads : Going(t) => BotOf[t] \in busy
  /\ \A s, t \in Threads : Going(s) /\ Going(t) /\ BotOf[s] = BotOf[t] => s = t
  /\ \A t \in Threads : turn[t] = "parked" => t \in Patient
  /\ \A t \in Threads \ Patient : turn[t] \in {"claimed", "running"} /\ Going(t) =>
       /\ mounted[t] # None
       /\ lease[mounted[t]] = [thread |-> t, bot |-> BotOf[t]]

\* A thread that lets go leaves the others' mounts and leases alone.
LEMMA ReleasedSeated ==
  ASSUME TypeOK, NEW t \in Threads, Released(t), NEW s \in Threads, s # t
  PROVE  /\ mounted'[s] = mounted[s]
         /\ \A x \in Targets : lease[x].thread = s => lease'[x] = lease[x]
  BY LocalVmAssumption DEF TypeOK, Released, Leases, NoLease

\* Bots are idled, and some turns end: those that go on without being idled
\* keep what they had.
LEMMA IdlesSeated ==
  ASSUME TypeOK, Seated, NEW B, Idles(B), bots' = bots,
         \A s \in Threads : turn'[s] \in {turn[s], "none"},
         \A s \in Threads : BotOf[s] \in B \/
           /\ mounted'[s] = mounted[s]
           /\ \A x \in Targets : lease[x].thread = s => lease'[x] = lease[x]
  PROVE  Seated'
<1> USE LocalVmAssumption DEF TypeOK
<1>1. ASSUME NEW s \in Threads, Going(s)'
      PROVE  Going(s) /\ BotOf[s] \notin B /\ BotOf[s] \in busy' /\ turn'[s] = turn[s]
  <2>1. turn'[s] = turn[s] /\ turn[s] # "none" /\ BotOf[s] \in bots
    BY <1>1 DEF Going
  <2>2. s \notin bereft /\ BotOf[s] \notin B
    BY <1>1 DEF Going, Idles
  <2>3. Going(s)
    BY <2>1, <2>2 DEF Going
  <2> QED BY <2>1, <2>2, <2>3 DEF Seated, Idles
<1>2. \A t \in Threads : turn'[t] = "parked" => t \in Patient
  BY DEF Seated
<1>3. ASSUME NEW t \in Threads \ Patient, turn'[t] \in {"claimed", "running"}, Going(t)'
      PROVE  /\ mounted'[t] # None
             /\ lease'[mounted'[t]] = [thread |-> t, bot |-> BotOf[t]]
  <2>1. turn[t] \in {"claimed", "running"} /\ Going(t) /\ BotOf[t] \notin B
    BY <1>1, <1>3
  <2>2. mounted[t] # None /\ lease[mounted[t]] = [thread |-> t, bot |-> BotOf[t]]
    BY <2>1 DEF Seated
  <2>3. mounted'[t] = mounted[t] /\ mounted[t] \in Targets
    BY <2>1, <2>2
  <2> QED BY <2>1, <2>2, <2>3
<1>4. /\ \A t \in Threads : Going(t)' => BotOf[t] \in busy'
      /\ \A s, t \in Threads : Going(s)' /\ Going(t)' /\ BotOf[s] = BotOf[t] => s = t
  BY <1>1 DEF Seated
<1> QED BY <1>2, <1>3, <1>4 DEF Seated

\* A turn that lets go ends, or an earlier one of its thread does.
LEMMA EndSeated ==
  ASSUME TypeOK, Seated, NEW t \in Threads, Released(t), Idles({BotOf[t]}), bots' = bots,
         turn' = turn \/ turn' = [turn EXCEPT ![t] = "none"]
  PROVE  Seated'
<1>1. \A s \in Threads : s # t =>
        /\ mounted'[s] = mounted[s]
        /\ \A x \in Targets : lease[x].thread = s => lease'[x] = lease[x]
  BY ReleasedSeated
<1>2. \A s \in Threads : turn'[s] \in {turn[s], "none"}
  BY DEF TypeOK
<1> QED BY <1>1, <1>2, IdlesSeated

LEMMA SeatedStep == ASSUME TypeOK, Seated, [Next]_vars PROVE Seated'
<1> USE LocalVmAssumption DEF TypeOK, people, late, turns, holds, setup, desktops, watched
<1>1. CASE UNCHANGED vars
  BY <1>1 DEF vars, Seated, Going
<1>2. ASSUME NEW t \in Threads, Turning(t) PROVE Seated'
  <2>1. CASE Start(t)
    <3>1. /\ \A s \in Threads : s # t => turn'[s] = turn[s]
          /\ turn'[t] = "setup" /\ busy' = busy \cup {BotOf[t]} /\ bereft' = bereft \ {t}
          /\ bots' = bots /\ mounted' = mounted /\ lease' = lease /\ BotOf[t] \notin busy
      BY <2>1 DEF Start
    <3> QED BY <3>1 DEF Seated, Going
  <2>2. CASE MountRefused(t) \/ NotReady(t)
    <3>1. Rejects(t)
      BY <2>2 DEF MountRefused, NotReady
    <3> QED BY <3>1, EndSeated DEF Rejects
  <2>3. CASE Mount(t)
    <3> DEFINE x == TargetOf(BotOf[t])
    <3>1. /\ \A s \in Threads : s # t => turn'[s] = turn[s]
          /\ turn[t] = "setup" /\ turn'[t] = "claimed" /\ busy' = busy /\ bots' = bots
          /\ bereft' = bereft
          /\ mounted' = [mounted EXCEPT ![t] = x]
          /\ lease' = [lease EXCEPT ![x] = [thread |-> t, bot |-> BotOf[t]]]
      BY <2>3 DEF Mount
    <3>2. x \in Targets /\ x # None
      BY DEF TargetOf, Targets
    <3>3. mounted'[t] = x /\ lease'[x] = [thread |-> t, bot |-> BotOf[t]]
      BY <3>1, <3>2
    <3>4. \A s \in Threads : s # t => mounted'[s] = mounted[s]
      BY <3>1
    <3>5. Claimable(x, t)
      BY <2>3 DEF Mount
    <3> HIDE DEF x
    <3>6. \A s \in Threads : lease[x] = [thread |-> s, bot |-> BotOf[s]] /\ BotOf[s] \in busy
            => s = t
      BY <3>5 DEF Claimable, Current
    <3>7. \A y \in Targets : y # x => lease'[y] = lease[y]
      BY <3>1
    <3> QED BY <3>1, <3>2, <3>3, <3>4, <3>6, <3>7 DEF Seated, Going
  <2>4. CASE Ready(t)
    BY <2>4 DEF Ready, Seated, Going
  <2>5. CASE Parks(t)
    BY <2>5 DEF Parks, Seated, Going
  <2>6. CASE Resumes(t)
    BY <2>6 DEF Resumes, Seated, Going
  <2>7. CASE Completes(t)
    BY <2>7, EndSeated DEF Completes
  <2>8. CASE EndsLate(t)
    BY <2>8, EndSeated DEF EndsLate
  <2>9. CASE Stalls(t)
    BY <2>9 DEF Stalls, Seated, Going
  <2>10. CASE TimerReleases(t)
    <3>1. /\ bots' = bots /\ mounted' = mounted /\ lease' = lease
          /\ \A s \in Threads : turn'[s] \in {turn[s], "none"}
          /\ Idles({BotOf[t]} \cap busy)
      BY <2>10 DEF TimerReleases
    <3> QED BY <3>1, IdlesSeated
  <2> QED BY <1>2, <2>1, <2>2, <2>3, <2>4, <2>5, <2>6, <2>7, <2>8, <2>9, <2>10 DEF Turning
<1>3. ASSUME NEW x \in Targets, Operating(x) PROVE Seated'
  <2>1. turn' = turn /\ busy' = busy /\ bots' = bots /\ mounted' = mounted /\ bereft' = bereft
    BY <1>3 DEF Operating, Begins, Counted, Created, Stopped, Removed, Fails,
       Screenshot, Dies, Lapses, Expires, Suspended, SuspendFails, Ended
  <2>2. \A t \in Threads, y \in Targets :
          /\ lease[y] = [thread |-> t, bot |-> BotOf[t]] /\ BotOf[t] \in busy
          /\ turn[t] \in {"claimed", "running"} /\ t \notin bereft
          => lease'[y] = lease[y]
    <3>1. ASSUME NEW action \in {"run", "start", "stop", "remove"}, Begins(x, action)
          PROVE  \A y \in Targets : lease[y].bot \in busy => lease'[y] = lease[y]
      BY <3>1 DEF Begins, LookedAt, Current
    <3>2. CASE Lapses(x)
      BY <3>2 DEF Lapses
    <3>3. ASSUME ~Lapses(x), \A action \in {"run", "start", "stop", "remove"} : ~Begins(x, action)
          PROVE  lease' = lease
      BY <1>3, <3>3 DEF Operating, Counted, Created, Stopped, Removed, Fails,
         Screenshot, Dies, Expires, Suspended, SuspendFails, Ended
    <3> QED BY <3>1, <3>2, <3>3
  <2> QED BY <2>1, <2>2 DEF Seated, Going
<1>4. CASE PullBegins \/ PullEnds \/ ModeBegins \/ ModeCounts \/ ModeEnds
  BY <1>4 DEF PullBegins, PullEnds, ModeBegins, ModeCounts, ModeEnds, Seated, Going
<1>5. CASE Reload
  <2>1. Idles(bots) /\ bots' = bots
    BY <1>5 DEF Reload
  <2>2. \A s \in Threads : ~Going(s)'
    BY <2>1 DEF Going, Idles
  <2>3. \A s \in Threads : turn'[s] \in {turn[s], "none"}
    BY <1>5 DEF Reload
  <2> QED BY <2>2, <2>3 DEF Seated
<1>6. ASSUME NEW b \in Bots, DeleteBegins(b) \/ DeleteLooks(b) PROVE Seated'
  BY <1>6 DEF DeleteBegins, DeleteLooks, Seated, Going
<1>7. ASSUME NEW b \in Bots, Deleted(b) PROVE Seated'
  BY <1>7 DEF Deleted, Seated, Going
<1> QED BY <1>1, <1>2, <1>3, <1>4, <1>5, <1>6, <1>7 DEF Next

\* WorkerHolds, for any bots and threads, through setup actions, stalls, late
\* ends, reloads, deletions and lapses of leases (index.ts, local-vm-lease.ts):
\* a turn whose bot nobody idled under it holds the desktop it works on.
THEOREM WorkersHold == Spec => []WorkerHolds
<1>1. Init => Seated
  BY DEF Init, Seated, Going
<1>2. Seated => WorkerHolds
  <2> SUFFICES ASSUME Seated, NEW t \in Threads \ (Patient \cup bereft), turn[t] \in AtWork,
                      BotOf[t] \in bots
               PROVE  mounted[t] # None /\ lease[mounted[t]].thread = t
    BY DEF WorkerHolds
  <2>1. t \in Threads \ Patient /\ Going(t)
    BY DEF AtWork, Going
  <2>2. turn[t] \in {"claimed", "running"}
    BY <2>1 DEF Seated, AtWork
  <2>3. mounted[t] # None /\ lease[mounted[t]] = [thread |-> t, bot |-> BotOf[t]]
    BY <2>1, <2>2 DEF Seated
  <2> QED BY <2>3
<1> QED BY <1>1, <1>2, TypeInit, TypeStep, SeatedStep, PTL DEF Spec

-----------------------------------------------------------------------------
(* The idle timer.                                                         *)

\* A running desktop has its timer unless the timer is what suspends it now, or
\* the server was not told that it runs.
Timed ==
  \A x \in bots \cup {Shared} :
    container[x] = "running" /\ operation[x] # "suspend" => x \in idle \cup blind

LEMMA TimedStep == ASSUME TypeOK, Timed, [Next]_vars PROVE Timed'
<1> USE LocalVmAssumption DEF TypeOK, Timed, Targets, people, late, turns, holds, setup,
    desktops, watched, Arms, Touched, Running
<1>1. CASE UNCHANGED vars
  BY <1>1 DEF vars
<1>2. ASSUME NEW t \in Threads, Turning(t) PROVE Timed'
  <2>1. /\ bots' = bots /\ container' = container /\ operation' = operation
        /\ idle \cup blind \subseteq idle' \cup blind'
    BY <1>2 DEF Turning, Start, MountRefused, NotReady, Rejects, Mount, Ready, Parks,
       Resumes, Completes, EndsLate, Stalls, TimerReleases
  <2> QED BY <2>1
<1>3. ASSUME NEW x \in Targets, Operating(x) PROVE Timed'
  <2>1. ASSUME NEW action \in {"run", "start", "stop", "remove"}, Begins(x, action)
        PROVE  Timed'
    <3>1. \A y \in Targets : operation[y] = "suspend" => operation'[y] = "suspend"
      BY <2>1, NoneAssumption DEF Begins, SetupBusy, Operations
    <3> QED BY <2>1, <3>1 DEF Begins
  <2>2. CASE Counted(x) BY <2>2 DEF Counted
  <2>3. CASE Created(x) BY <2>3 DEF Created, Ended
  <2>4. CASE Stopped(x) BY <2>4 DEF Stopped, Ended
  <2>5. CASE Removed(x) BY <2>5 DEF Removed, Ended
  <2>6. CASE Fails(x) BY <2>6 DEF Fails, Ended
  <2>7. CASE Screenshot(x) BY <2>7 DEF Screenshot
  <2>8. CASE Dies(x) BY <2>8 DEF Dies
  <2>9. CASE Lapses(x) BY <2>9 DEF Lapses
  <2>10. CASE Expires(x) BY <2>10 DEF Expires
  <2>11. CASE Suspended(x) BY <2>11 DEF Suspended, Ended
  <2>12. CASE SuspendFails(x) BY <2>12 DEF SuspendFails, Ended
  <2> QED BY <1>3, <2>1, <2>2, <2>3, <2>4, <2>5, <2>6, <2>7, <2>8, <2>9, <2>10,
             <2>11, <2>12 DEF Operating
<1>4. CASE PullBegins \/ PullEnds \/ ModeBegins \/ ModeCounts \/ ModeEnds
  BY <1>4 DEF PullBegins, PullEnds, ModeBegins, ModeCounts, ModeEnds
<1>5. CASE Reload
  BY <1>5 DEF Reload
<1>6. ASSUME NEW b \in Bots, DeleteBegins(b) \/ DeleteLooks(b) \/ Deleted(b) PROVE Timed'
  BY <1>6 DEF DeleteBegins, DeleteLooks, Deleted
<1> QED BY <1>1, <1>2, <1>3, <1>4, <1>5, <1>6 DEF Next

\* BackstopArmed, for any bots and threads: a running desktop the server was
\* told of has its timer, however inspections and suspends fail
\* (local-vm-idle.ts, index.ts).
THEOREM Backstop == Spec => []BackstopArmed
<1>1. Init => Timed
  BY DEF Init, Timed, Targets, Running
<1>2. TypeOK /\ Timed => BackstopArmed
  BY NoneAssumption DEF TypeOK, Timed, BackstopArmed, InUse, Operations
<1> QED BY <1>1, <1>2, TypeInit, TypeStep, TimedStep, PTL DEF Spec

-----------------------------------------------------------------------------
(* The limit.  A create counts and makes in two steps; it is the only one   *)
(* between them, and the mode does not change meanwhile.                    *)

Creates(x) == operation[x] \in {"run", "creating"}

\* The desktops the last count saw, and those made since.
Known == Existing \ uncounted

Limited ==
  /\ \A x \in Bots : Creates(x) => provision /\ mode = "per-bot" /\ change = "none"
  /\ \A x, y \in Bots : Creates(x) /\ Creates(y) => x = y
  /\ mode = "shared" \/ change = "saving" => Known = {}
  /\ Cardinality(Known) <= MaxInstances
  /\ \A x \in Bots : operation[x] = "creating" => Cardinality(Known) < MaxInstances

\* Bots that go, and desktops that go, leave no more of them.
LEMMA FewerExist ==
  ASSUME TypeOK, Known' \subseteq Known
  PROVE  /\ Cardinality(Known) \in Nat /\ Cardinality(Known') \in Nat
         /\ Cardinality(Known') <= Cardinality(Known)
<1>1. Known \subseteq Bots
  BY DEF TypeOK, Known, Existing
<1>2. IsFiniteSet(Known)
  BY <1>1, LocalVmAssumption, FS_Subset
<1> QED BY <1>2, FS_Subset, FS_CardinalityType

\* A step that makes no desktop and begins or counts for no create.
LEMMA NoneMade ==
  ASSUME TypeOK, Limited, Known' \subseteq Known,
         \A x \in Bots : Creates(x)' => Creates(x) /\ provision' = provision,
         \A x \in Bots : operation'[x] = "creating" => operation[x] = "creating",
         mode' = mode, change' = change
  PROVE  Limited'
<1> QED BY FewerExist, LocalVmAssumption DEF Limited

\* A set and one element more: what a created container adds to those that exist.
LEMMA OneMore ==
  ASSUME NEW S, IsFiniteSet(S), NEW x, NEW T, T \subseteq S \cup {x}
  PROVE  /\ Cardinality(S) \in Nat
         /\ Cardinality(T) <= Cardinality(S) + 1
         /\ Cardinality(T) \in Nat
<1>1. /\ IsFiniteSet(S \cup {x})
      /\ Cardinality(S \cup {x}) = Cardinality(S) \/ Cardinality(S \cup {x}) = Cardinality(S) + 1
  BY FS_AddElement
<1>2. Cardinality(S) \in Nat /\ Cardinality(S \cup {x}) \in Nat
  BY <1>1, FS_CardinalityType
<1>3. IsFiniteSet(T) /\ Cardinality(T) <= Cardinality(S \cup {x})
  BY <1>1, FS_Subset
<1>4. Cardinality(T) \in Nat
  BY <1>3, FS_CardinalityType
<1> QED BY <1>1, <1>2, <1>3, <1>4

LEMMA LimitedStep == ASSUME TypeOK, Limited, [Next]_vars PROVE Limited'
<1> USE LocalVmAssumption, NoneAssumption DEF TypeOK, Targets, people, late, turns, holds,
    setup, desktops, watched
<1>1. CASE UNCHANGED vars
  BY <1>1, NoneMade DEF vars, Creates, Known, Existing
<1>2. ASSUME NEW t \in Threads, Turning(t) PROVE Limited'
  <2>1. /\ bots' = bots /\ container' = container /\ operation' = operation
        /\ provision' = provision /\ mode' = mode /\ change' = change
        /\ uncounted' = uncounted
    BY <1>2 DEF Turning, Start, MountRefused, NotReady, Rejects, Mount, Ready, Parks,
       Resumes, Completes, EndsLate, Stalls, TimerReleases
  <2> QED BY <2>1, NoneMade DEF Creates, Known, Existing
<1>3. ASSUME NEW x \in Targets, Operating(x) PROVE Limited'
  <2>1. ASSUME NEW action \in {"run", "start", "stop", "remove"}, Begins(x, action)
        PROVE  Limited'
    <3>1. /\ bots' = bots /\ container' = container /\ mode' = mode /\ change' = change
          /\ operation' = [operation EXCEPT ![x] = action] /\ change = "none"
          /\ uncounted' = uncounted
      BY <2>1 DEF Begins, SetupBusy
    <3>2. Known' = Known
      BY <3>1 DEF Known, Existing
    <3>3. CASE x \in Bots /\ action = "run"
      <4>1. mode = "per-bot" /\ ~provision /\ provision' = TRUE
        BY <2>1, <3>3 DEF Begins
      <4>2. \A y \in Bots : Creates(y)' => y = x
        BY <3>1, <4>1 DEF Creates, Limited
      <4>3. \A y \in Bots : operation'[y] # "creating"
        BY <3>1, <3>3, <4>1 DEF Creates, Limited
      <4> QED BY <3>1, <3>2, <4>1, <4>2, <4>3 DEF Limited
    <3>4. CASE x = Shared \/ action # "run"
      <4>1. provision' = provision
        BY <2>1, <3>4 DEF Begins
      <4>2. \A y \in Bots : Creates(y)' => Creates(y)
        BY <3>1, <3>4 DEF Creates
      <4>3. \A y \in Bots : operation'[y] = "creating" => operation[y] = "creating"
        BY <3>1
      <4> QED BY <3>1, <3>2, <4>1, <4>2, <4>3, NoneMade
    <3> QED BY <3>3, <3>4
  <2>2. CASE Counted(x)
    <3>1. /\ operation[x] = "run" /\ operation' = [operation EXCEPT ![x] = "creating"]
          /\ provision' = provision /\ mode' = mode /\ change' = change
          /\ bots' = bots /\ container' = container
      BY <2>2 DEF Counted
    <3>2. \A y \in Bots : Creates(y)' <=> Creates(y)
      BY <3>1 DEF Creates
    <3>3. CASE x = Shared
      <4>1. Known' = Known
        BY <2>2, <3>1, <3>3 DEF Counted, Known, Existing
      <4>2. \A y \in Bots : operation'[y] = "creating" => operation[y] = "creating"
        BY <3>1, <3>3
      <4> QED BY <3>1, <3>2, <4>1, <4>2, NoneMade
    <3>4. CASE x \in Bots
      <4>1. PICK seen \in Counts :
              Cardinality(seen) < MaxInstances /\ uncounted' = Existing \ seen
        BY <2>2, <3>4 DEF Counted
      <4>2. seen \subseteq Existing
        BY <4>1 DEF Counts
      <4>3. Existing' = Existing
        BY <3>1 DEF Existing
      <4>4. Known' = seen
        BY <4>1, <4>2, <4>3 DEF Known
      <4>5. IsFiniteSet(seen) /\ Cardinality(seen) \in Nat
        BY <4>2, FS_Subset, FS_CardinalityType DEF Existing
      <4>6. Cardinality(Known') <= MaxInstances /\ Cardinality(Known') < MaxInstances
        BY <4>1, <4>4, <4>5
      <4>7. mode = "per-bot" /\ change = "none"
        BY <3>1, <3>4 DEF Limited, Creates
      <4> QED BY <3>1, <3>2, <4>6, <4>7 DEF Limited
    <3> QED BY <3>3, <3>4
  <2>3. ASSUME Ended(x) PROVE
          /\ \A y \in Bots : y # x => operation'[y] = operation[y]
          /\ \A y \in Bots : Creates(y)' => y # x /\ Creates(y) /\ provision' = provision
          /\ \A y \in Bots : operation'[y] = "creating" => operation[y] = "creating"
          /\ mode' = mode /\ change' = change /\ bots' = bots
    <3>1. operation' = [operation EXCEPT ![x] = None] /\ mode' = mode /\ change' = change
          /\ bots' = bots
          /\ provision' = IF x # Shared /\ Creates(x) THEN FALSE ELSE provision
      BY <2>3 DEF Ended, Creates
    <3>2. None \notin {"run", "creating"}
      BY DEF Operations
    <3>3. \A y \in Bots : Creates(y)' => y # x /\ Creates(y)
      BY <3>1, <3>2 DEF Creates
    <3>4. \A y \in Bots : Creates(y)' => provision' = provision
      BY <3>1, <3>3 DEF Limited
    <3> QED BY <3>1, <3>2, <3>3, <3>4
  <2>4. ASSUME Ended(x), operation[x] = "creating",
               container' = [container EXCEPT ![x] = "running"], uncounted' = uncounted
        PROVE  Limited'
    <3>1. CASE x = Shared
      <4>1. Known' = Known
        BY <2>3, <2>4, <3>1 DEF Known, Existing
      <4> QED BY <2>3, <2>4, <4>1, NoneMade
    <3>2. CASE x \in Bots
      <4>1. /\ Known' \subseteq Known \cup {x}
            /\ IsFiniteSet(Known) /\ Cardinality(Known) < MaxInstances
            /\ mode = "per-bot" /\ change = "none"
        <5>1. Known \subseteq Bots
          BY DEF Known, Existing
        <5>2. Known' \subseteq Known \cup {x}
          BY <2>3, <2>4, <3>2 DEF Known, Existing
        <5> QED BY <2>4, <3>2, <5>1, <5>2, FS_Subset DEF Limited, Creates
      <4>2. /\ Cardinality(Known) \in Nat
            /\ Cardinality(Known') <= Cardinality(Known) + 1
            /\ Cardinality(Known') \in Nat
        <5>1. SUFFICES ASSUME NEW now, now = Known', now \subseteq Known \cup {x}
                       PROVE  /\ Cardinality(Known) \in Nat
                              /\ Cardinality(now) <= Cardinality(Known) + 1
                              /\ Cardinality(now) \in Nat
          BY <4>1
        <5> QED BY <4>1, <5>1, OneMore
      <4>3. \A y \in Bots : ~Creates(y)'
        BY <2>3, <2>4, <3>2 DEF Limited, Creates
      <4> QED BY <2>3, <2>4, <4>1, <4>2, <4>3 DEF Limited, Creates
    <3> QED BY <3>1, <3>2
  <2>5. ASSUME Ended(x), uncounted' = uncounted,
               \A y \in Targets : container[y] = "missing" => container'[y] = "missing"
        PROVE  Limited'
    <3>1. Known' \subseteq Known
      BY <2>3, <2>5 DEF Known, Existing
    <3> QED BY <2>3, <2>5, <3>1, NoneMade
  <2>6. CASE Created(x)
    BY <2>4, <2>6 DEF Created
  <2>7. CASE Fails(x)
    BY <2>4, <2>5, <2>7 DEF Fails
  <2>8. CASE Stopped(x) \/ Removed(x) \/ Suspended(x) \/ SuspendFails(x)
    BY <2>5, <2>8 DEF Stopped, Removed, Suspended, SuspendFails
  <2>9. CASE Screenshot(x) \/ Lapses(x)
    BY <2>9, NoneMade DEF Screenshot, Lapses, Known, Existing, Creates
  <2>10. CASE Dies(x)
    <3>1. Known' = Known
      BY <2>10 DEF Dies, Known, Existing
    <3> QED BY <2>10, <3>1, NoneMade DEF Dies, Creates
  <2>11. CASE Expires(x)
    <3>1. Known' = Known
      BY <2>11 DEF Expires, Known, Existing
    <3>2. \A y \in Bots : /\ Creates(y)' => Creates(y)
                          /\ operation'[y] = "creating" => operation[y] = "creating"
      BY <2>11 DEF Expires, Creates
    <3> QED BY <2>11, <3>1, <3>2, NoneMade DEF Expires
  <2> QED BY <1>3, <2>1, <2>2, <2>6, <2>7, <2>8, <2>9, <2>10, <2>11 DEF Operating
<1>4. CASE PullBegins \/ PullEnds
  BY <1>4, NoneMade DEF PullBegins, PullEnds, Known, Existing, Creates
<1>5. CASE ModeBegins
  <2>1. Known' = Known
    BY <1>5 DEF ModeBegins, Known, Existing
  <2>2. \A x \in Bots : ~Creates(x)'
    BY <1>5 DEF ModeBegins, Creates, Operations
  <2> QED BY <1>5, <2>1, <2>2 DEF ModeBegins, Limited, Creates
<1>6. CASE ModeCounts
  <2>0. Existing' = Existing /\ mode' = mode /\ change = "counting"
    BY <1>6 DEF ModeCounts, Existing, desktops, people
  <2>1. /\ Known' = {} \/ (Known' = Known /\ change' = "none")
        /\ change' \in {"none", "saving"}
    <3>1. CASE change' = "saving" /\ uncounted' = Existing
      BY <2>0, <3>1 DEF Known
    <3>2. CASE change' = "none" /\ UNCHANGED uncounted
      BY <2>0, <3>2 DEF Known
    <3> QED BY <1>6, <3>1, <3>2 DEF ModeCounts
  <2>2. \A x \in Bots : ~Creates(x)'
    BY <1>6 DEF ModeCounts, Limited, Creates
  <2>3. Cardinality(Known') <= MaxInstances
    <3>1. Cardinality({}) = 0
      BY FS_EmptySet
    <3>2. Cardinality(Known) <= MaxInstances
      BY DEF Limited
    <3>3. CASE Known' = {}
      <4>1. Cardinality(Known') = 0
        BY <3>1, <3>3
      <4> QED BY <4>1
    <3>4. CASE Known' = Known
      BY <3>2, <3>4
    <3> QED BY <2>1, <3>3, <3>4
  <2>4. mode' = "shared" \/ change' = "saving" => Known' = {}
    BY <2>0, <2>1 DEF Limited
  <2> QED BY <2>2, <2>3, <2>4 DEF Limited, Creates
<1>7. CASE ModeEnds
  <2>1. Known' = Known /\ Known = {}
    BY <1>7 DEF ModeEnds, Known, Existing, Limited
  <2>2. \A x \in Bots : ~Creates(x)'
    BY <1>7 DEF ModeEnds, Limited, Creates
  <2> QED BY <1>7, <2>1, <2>2 DEF ModeEnds, Limited, Creates
<1>8. CASE Reload
  BY <1>8, NoneMade DEF Reload, Known, Existing, Creates
<1>9. ASSUME NEW b \in Bots, DeleteBegins(b) \/ DeleteLooks(b) PROVE Limited'
  BY <1>9, NoneMade DEF DeleteBegins, DeleteLooks, Known, Existing, Creates
<1>10. ASSUME NEW b \in Bots, Deleted(b) PROVE Limited'
  <2>1. Known' \subseteq Known
    BY <1>10 DEF Deleted, Known, Existing
  <2> QED BY <1>10, <2>1, NoneMade DEF Deleted, Creates
<1> QED BY <1>1, <1>2, <1>3, <1>4, <1>5, <1>6, <1>7, <1>8, <1>9, <1>10 DEF Next

LEMMA LimitedInit == Init => Limited
<1> SUFFICES ASSUME Init PROVE Limited
  OBVIOUS
<1>1. Known \subseteq Bots /\ IsFiniteSet(Known)
  BY LocalVmAssumption, FS_Subset DEF Init, Known, Existing
<1>2. Cardinality(Known) <= IF mode = "shared" THEN 0 ELSE MaxInstances
  BY DEF Init, Known
<1>3. ASSUME mode = "shared" PROVE Known = {}
  <2>1. Cardinality(Known) <= 0 /\ Cardinality(Known) \in Nat
    BY <1>1, <1>2, <1>3, FS_CardinalityType
  <2>2. Cardinality(Known) = 0
    BY <2>1
  <2> QED BY <1>1, <2>2, FS_EmptySet
<1>4. Cardinality(Known) <= MaxInstances
  <2>1. Cardinality(Known) \in Nat
    BY <1>1, FS_CardinalityType
  <2> QED BY <1>2, <2>1, LocalVmAssumption
<1>5. \A x \in Bots : ~Creates(x)
  BY NoneAssumption DEF Init, Creates, Targets, Operations
<1> QED BY <1>3, <1>4, <1>5 DEF Init, Limited, Creates

\* WithinLimit, for any bots and any limit, however creates, changes of mode
\* and deletions overlap, and whatever desktops a count misses (index.ts).
THEOREM LimitHolds == Spec => []WithinLimit
<1>1. Limited => WithinLimit
  BY FS_EmptySet DEF Limited, WithinLimit, Known
<1> QED BY <1>1, TypeInit, TypeStep, LimitedInit, LimitedStep, PTL DEF Spec

=============================================================================
