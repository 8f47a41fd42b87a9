---------------------------- MODULE Checkpoints -----------------------------
(***************************************************************************)
(* Snapshots and restores of one bot's project folder                      *)
(* (server/checkpoints.ts and its callers in server/index.ts).  A turn is  *)
(* dispatched once its snapshot settled; a restore claims the bot against  *)
(* turns, commits what it is about to overwrite, and moves index and work  *)
(* tree to a checkpoint.  Each git command is a step of its own, and the   *)
(* folder may change between two of them: nothing keeps the person or      *)
(* another bot's turn out of it.  A tree gives every path its content;     *)
(* ignored files are outside of it.                                        *)
(***************************************************************************)
EXTENDS Naturals, Sequences, FiniteSets

CONSTANTS
  Paths, Contents,
  Absent,      \* no file
  MaxCommits   \* bound: length of the history at which nobody asks for more

ASSUME CheckpointsAssumption ==
  /\ IsFiniteSet(Paths) /\ Absent \notin Contents /\ MaxCommits \in Nat

VARIABLES
  folder,    \* the work tree
  locked,    \* files git cannot read
  index,     \* the shadow repository's index
  commits,   \* its history, the empty base marker first
  disabled,  \* disabledBots has the bot
  busy,      \* the bot's `busy`
  turn,      \* how far the bot's latest turn is
  lease,     \* checkpointRestoreLeases has the bot
  chain,     \* the operations queued on the shadow, the running one first
  step,      \* the next command of the running operation
  complete,  \* whether its `git add` took every path
  target,    \* the checkpoint to restore
  excused    \* history: paths touched since the operation's first `git add`;
             \* all of them if that failed as a whole

files == <<folder, locked, excused>>
shadow == <<index, commits, disabled>>
turns == <<busy, turn>>
operations == <<lease, chain, step, complete, target>>
vars == <<files, shadow, turns, operations>>

Trees == [Paths -> Contents \cup {Absent}]
Empty == [p \in Paths |-> Absent]
Latest == commits[Len(commits)]

\* room: a turn of the bot in a room.
Stages == {"none", "setup", "snapshot", "running", "room"}

TypeOK ==
  /\ folder \in Trees /\ index \in Trees /\ locked \subseteq Paths
  /\ excused \subseteq Paths
  /\ commits \in Seq(Trees) /\ Len(commits) >= 1 /\ commits[1] = Empty
  /\ {disabled, busy, lease, complete} \subseteq BOOLEAN
  /\ turn \in Stages
  /\ chain \in Seq({"snapshot", "restore"}) /\ Len(chain) <= 2
  /\ step \in {"add", "commit", "move", "clean", "readd", "recommit"}
  /\ target \in 1 .. Len(commits)

Init ==
  /\ folder \in Trees /\ locked = {} /\ index = Empty /\ commits = <<Empty>>
  /\ disabled = FALSE /\ busy = FALSE /\ turn = "none" /\ lease = FALSE
  /\ chain = <<>> /\ step = "add" /\ complete = TRUE /\ target = 1
  /\ excused = {}

Running(op) == chain # <<>> /\ Head(chain) = op
RunsOp == chain # <<>>

\* serialize: the next operation starts with its first command.
Leaves == chain' = Tail(chain) /\ step' = "add" /\ excused' = {}

-----------------------------------------------------------------------------
(* commitAll.                                                              *)

\* `git add -A --ignore-errors`: what cannot be read keeps its old entry.
Staged == [p \in Paths |-> IF p \in locked /\ folder[p] # Absent THEN index[p]
                           ELSE folder[p]]
Readable == \A p \in locked : folder[p] = Absent

\* A commit if anything is staged.
Committed == IF index = Latest THEN commits ELSE Append(commits, index)

\* Also the safety point and the record of a restore begin with it.
Adding ==
  /\ RunsOp /\ step \in {"add", "readd"}
  /\ step' = IF step = "add" THEN "commit" ELSE "recommit"
  /\ UNCHANGED <<folder, locked, commits, disabled, turns, lease, chain, target>>

Adds ==
  /\ Adding /\ index' = Staged /\ complete' = Readable
  /\ excused' = IF step = "add" THEN {} ELSE excused

\* It fails as a whole (a timeout, a lock left behind, a full disk); the catch
\* takes that for a skipped file.
AddFails ==
  /\ Adding /\ UNCHANGED index /\ complete' = FALSE
  /\ excused' = IF step = "add" THEN Paths ELSE excused

-----------------------------------------------------------------------------
(* Turns.                                                                  *)

\* Only the bot's latest turn is followed.  Where the bot was idled under its
\* turn, what that one does once the next has started is among Touches and
\* Forgotten.  Bound: the next starts when it is past its snapshot.
Startable == ~busy /\ turn \in {"none", "running", "room"}

\* startTurn: refused during a restore.
Start ==
  /\ Startable /\ ~lease /\ Len(commits) < MaxCommits
  /\ busy' = TRUE /\ turn' = "setup"
  /\ UNCHANGED <<files, shadow, operations>>

\* A room turn, which looks at `busy` alone.
RoomStarts ==
  /\ Startable
  /\ busy' = TRUE /\ turn' = "room"
  /\ UNCHANGED <<files, shadow, operations>>

\* Fault: the turn does not wait for its snapshot.
DispatchesAtOnce ==
  /\ turn = "setup"
  /\ turn' = "running"
  /\ UNCHANGED <<files, shadow, busy, operations>>

\* The turn asks for its snapshot and waits.
AsksSnapshot ==
  /\ turn = "setup" /\ ~disabled
  /\ turn' = "snapshot"
  /\ chain' = Append(chain, "snapshot")
  /\ UNCHANGED <<files, shadow, busy, lease, step, complete, target>>

\* snapshot returns at once when checkpoints are disabled for the bot.
SkipsSnapshot ==
  /\ turn = "setup" /\ disabled
  /\ turn' = "running"
  /\ UNCHANGED <<files, shadow, busy, operations>>

\* The snapshot's commit; the turn is dispatched.
Snapshots ==
  /\ Running("snapshot") /\ step = "commit"
  /\ commits' = Committed
  /\ Leaves /\ turn' = "running"
  /\ UNCHANGED <<folder, locked, index, disabled, busy, lease, complete, target>>

\* What a command that fails may have committed.
MayCommit ==
  commits' \in {commits} \cup (IF step \in {"commit", "recommit"} THEN {Committed} ELSE {})

\* A command of the snapshot before its `git add` or after it fails: the feature
\* is off, the turn goes on.
SnapshotFails ==
  /\ Running("snapshot")
  /\ disabled' = TRUE /\ MayCommit
  /\ Leaves /\ turn' = "running"
  /\ UNCHANGED <<folder, locked, index, busy, lease, complete, target>>

\* A turn ends, or fails while it is set up.
Completes ==
  /\ turn \in {"setup", "running", "room"}
  /\ turn' = "none" /\ busy' = FALSE
  /\ UNCHANGED <<files, shadow, operations>>

\* The bot is idled under its turn: by reloadProviders while it is set up, by
\* the timer that an earlier turn's stall set, or by such a turn's late end.
Forgotten ==
  /\ busy /\ turn # "none"
  /\ busy' = FALSE
  /\ UNCHANGED <<files, shadow, turn, operations>>

-----------------------------------------------------------------------------
(* The person, and whoever works in the folder.                            *)

Touched(p) ==
  excused' = IF RunsOp /\ step # "add" THEN excused \cup {p} ELSE excused

\* A file is written or removed: by the engine of a turn of this bot, or of
\* another whose folder it is too, or by the person.
Touches(p, c) ==
  /\ folder' = [folder EXCEPT ![p] = c] /\ Touched(p)
  /\ UNCHANGED <<locked, shadow, turns, operations>>

\* Somebody takes the right to read a file, or gives it back.
Locks(p) ==
  /\ locked' = (locked \ {p}) \cup ({p} \ locked) /\ Touched(p)
  /\ UNCHANGED <<folder, shadow, turns, operations>>

\* Fault: a restore does not look for a turn.
AsksRestoreAnytime(k) ==
  /\ ~lease /\ ~disabled /\ Len(commits) < MaxCommits
  /\ k \in 2 .. Len(commits)
  /\ lease' = TRUE /\ target' = k
  /\ chain' = Append(chain, "restore")
  /\ UNCHANGED <<files, shadow, turns, step, complete>>

\* POST .../checkpoints/restore: the bot is claimed, and the operation waits
\* for its place.  A disabled bot is refused at once; so are an unknown hash
\* and the base marker, before anything is touched.
AsksRestore(k) ==
  /\ ~busy /\ ~lease /\ ~disabled /\ Len(commits) < MaxCommits
  /\ k \in 2 .. Len(commits)
  /\ lease' = TRUE /\ target' = k
  /\ chain' = Append(chain, "restore")
  /\ UNCHANGED <<files, shadow, turns, step, complete>>

\* The operation is over, and the lease is given back.
Ends == Leaves /\ lease' = FALSE

\* Fault: the safety point may miss files.
CommitsAnySafety ==
  /\ Running("restore") /\ step = "commit"
  /\ commits' = Committed
  /\ step' = "move"
  /\ UNCHANGED <<files, index, disabled, turns, chain, lease, complete, target>>

\* The safety point; a restore that missed a file stops.
CommitsSafety ==
  /\ Running("restore") /\ step = "commit"
  /\ commits' = Committed
  /\ IF complete THEN step' = "move" /\ UNCHANGED <<chain, lease, excused>> ELSE Ends
  /\ UNCHANGED <<folder, locked, index, disabled, turns, complete, target>>

\* The work tree after `git restore --source`: what the index tracks and the
\* checkpoint does not have is removed, the rest is the checkpoint's.
Moved == [p \in Paths |->
            IF commits[target][p] # Absent THEN commits[target][p]
            ELSE IF index[p] # Absent THEN Absent ELSE folder[p]]

\* Fault: the index stays (no --staged).
MovesWorktreeOnly ==
  /\ Running("restore") /\ step = "move"
  /\ folder' = Moved
  /\ step' = "clean"
  /\ UNCHANGED <<locked, excused, shadow, turns, lease, chain, complete, target>>

Moves ==
  /\ Running("restore") /\ step = "move"
  /\ folder' = Moved /\ index' = commits[target]
  /\ step' = "clean"
  /\ UNCHANGED <<locked, excused, commits, disabled, turns, lease, chain, complete, target>>

\* `git clean -fd`: what the index does not have is removed.
Cleaned == [p \in Paths |-> IF index[p] = Absent THEN Absent ELSE folder[p]]

Cleans ==
  /\ Running("restore") /\ step = "clean"
  /\ folder' = Cleaned
  /\ step' = "readd"
  /\ UNCHANGED <<locked, excused, shadow, turns, lease, chain, complete, target>>

\* The commit that records the restore.
Restores ==
  /\ Running("restore") /\ step = "recommit"
  /\ commits' = Committed /\ Ends
  /\ UNCHANGED <<folder, locked, index, disabled, turns, complete, target>>

\* A command of the restore fails, other than a `git add`; the move and the
\* cleaning may have done some of the files.
RestoreFails ==
  /\ Running("restore") /\ step # "readd"
  /\ disabled' = TRUE /\ MayCommit /\ Ends
  /\ \E S \in SUBSET Paths :
       /\ S # {} => step \in {"move", "clean"}
       /\ folder' = [p \in Paths |->
                       IF p \notin S THEN folder[p]
                       ELSE IF step = "move" THEN Moved[p] ELSE Cleaned[p]]
  /\ UNCHANGED <<locked, index, turns, complete, target>>

-----------------------------------------------------------------------------
Git ==
  \/ Adds \/ AddFails \/ Snapshots \/ SnapshotFails \/ CommitsSafety \/ Moves
  \/ Cleans \/ Restores \/ RestoreFails

Turning ==
  \/ Start \/ RoomStarts \/ AsksSnapshot \/ SkipsSnapshot \/ Completes \/ Forgotten

Next ==
  \/ Git \/ Turning
  \/ \E p \in Paths : Locks(p) \/ \E c \in Contents \cup {Absent} : Touches(p, c)
  \/ \E k \in 2 .. Len(commits) : AsksRestore(k)

Spec == Init /\ [][Next]_vars

-----------------------------------------------------------------------------
\* index.ts on the lease: "Claim the bot across the entire async Git operation
\* so a turn cannot start in that folder midway."  (Not kept: a room turn looks
\* at no lease, and a bot idled under its turn is not busy.)
FolderIsFree == Running("restore") => turn \notin {"running", "room"}

\* From the claim to a restore's last command the bot's chats and tasks stay out
\* of the folder, through every failure of the snapshot or the restore queued
\* before it.  The two ways past the lease are a room turn, and a turn whose bot
\* was idled under it, which the restore takes for over.  (Other bots' turns in
\* the folder are not its business.)
NoTurnMidRestore ==
  Running("restore") /\ turn = "running" => ~busy

\* checkpoints.ts: "Move the folder's files back to a checkpoint."  After move
\* and clean the folder is the checkpoint, files included that were deleted
\* since, but for what somebody touched since the safety point's `git add`.
RestoreIsExact ==
  Running("restore") /\ step \in {"readd", "recommit"} =>
    \A p \in Paths \ excused : folder[p] = commits[target][p]

\* Past its safety point a restore overwrites and removes only what some
\* checkpoint has, whatever fails and whatever could not be read; but it may
\* take what somebody wrote since that point's `git add`.
NothingUnsaved ==
  [][Moves \/ Cleans \/ RestoreFails =>
       \A p \in Paths \ excused : folder'[p] # folder[p] /\ folder[p] # Absent =>
         \E k \in 1 .. Len(commits) : commits[k][p] = folder[p]]_vars

\* index.ts on the snapshot: "the engine cannot edit the project until the
\* snapshot has settled".  A turn is dispatched on a folder whose readable files
\* the last checkpoint has, but for those touched since its `git add`, unless
\* checkpoints are off.  (When that `git add` failed as a whole nothing is saved,
\* and checkpoints stay on.)
TurnCanBeUndone ==
  [][turn # "running" /\ turn' = "running" /\ ~disabled' =>
       \A p \in Paths \ (locked \cup excused) : Latest'[p] = folder[p]]_vars

=============================================================================
