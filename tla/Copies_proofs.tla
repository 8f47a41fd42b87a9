---------------------------- MODULE Copies_proofs ----------------------------
(***************************************************************************)
(* Proofs about the two copies the program keeps of something else: the    *)
(* checkpoints of a folder, for any folder, any contents and any length of *)
(* the history; and the window's copy of the server's bots, for any bots,  *)
(* any buffer and any number of frames, lost connections and restarts.     *)
(***************************************************************************)
EXTENDS Checkpoints, EventStream, WellFoundedInduction, TLAPS

-----------------------------------------------------------------------------
(* Checkpoints: the operators of the model.                                *)

Operations == {"snapshot", "restore"}

Queued(op) == \E i \in 1 .. Len(chain) : chain[i] = op

\* A snapshot and a restore are queued at most once each.
OneOfEach ==
  /\ chain \in Seq(Operations)
  /\ \A i, j \in 1 .. Len(chain) : chain[i] = chain[j] => i = j

LEMMA OnceIsShort ==
  ASSUME NEW c \in Seq(Operations), \A i, j \in 1 .. Len(c) : c[i] = c[j] => i = j
  PROVE  Len(c) <= 2
<1>1. SUFFICES ASSUME Len(c) > 2 PROVE FALSE
  OBVIOUS
<1>2. 1 \in 1 .. Len(c) /\ 2 \in 1 .. Len(c) /\ 3 \in 1 .. Len(c)
  BY <1>1
<1>3. c[1] \in Operations /\ c[2] \in Operations /\ c[3] \in Operations
  BY <1>2
<1>4. c[1] # c[2] /\ c[1] # c[3] /\ c[2] # c[3]
  BY <1>2
<1> QED
  BY <1>3, <1>4 DEF Operations

\* What is queued behind what is queued already.
LEMMA QueuedBehind ==
  ASSUME NEW op \in Operations, OneOfEach, ~Queued(op),
         chain' = Append(chain, op)
  PROVE  /\ OneOfEach' /\ Queued(op)'
         /\ \A x \in Operations : x # op => (Queued(x)' <=> Queued(x))
         /\ chain' # <<>>
         /\ IF chain = <<>> THEN Head(chain') = op ELSE Head(chain') = Head(chain)
<1>1. /\ chain' \in Seq(Operations) /\ Len(chain') = Len(chain) + 1
      /\ \A i \in 1 .. Len(chain) : chain'[i] = chain[i]
      /\ chain'[Len(chain) + 1] = op /\ Len(chain) \in Nat
  BY DEF OneOfEach
<1>2. OneOfEach'
  BY <1>1 DEF OneOfEach, Queued
<1>3. Queued(op)'
  BY <1>1 DEF Queued
<1>4. \A x \in Operations : x # op => (Queued(x)' <=> Queued(x))
  BY <1>1 DEF Queued
<1>5. chain' # <<>> /\ Head(chain') = chain'[1]
  BY <1>1
<1>6. chain = <<>> => Head(chain') = op
  BY <1>1, <1>5
<1>7. chain # <<>> => Head(chain') = Head(chain)
  <2> SUFFICES ASSUME chain # <<>> PROVE chain'[1] = chain[1]
    BY <1>5 DEF OneOfEach
  <2>1. 1 \in 1 .. Len(chain)
    BY DEF OneOfEach
  <2> QED
    BY <1>1, <2>1
<1> QED
  BY <1>2, <1>3, <1>4, <1>5, <1>6, <1>7

\* The operation that is over leaves the other one, if it was queued.
LEMMA QueuedAfter ==
  ASSUME NEW op \in Operations, OneOfEach, Running(op), Leaves
  PROVE  /\ OneOfEach' /\ ~Queued(op)'
         /\ \A x \in Operations : x # op => (Queued(x)' <=> Queued(x))
         /\ step' = "add"
<1>1. /\ chain' \in Seq(Operations) /\ Len(chain) \in Nat \ {0}
      /\ Len(chain') = Len(chain) - 1 /\ chain[1] = op
      /\ \A i \in 1 .. Len(chain') : chain'[i] = chain[i + 1]
  BY DEF OneOfEach, Running, Leaves
<1>2. OneOfEach'
  BY <1>1 DEF OneOfEach
<1>3. ~Queued(op)'
  BY <1>1 DEF OneOfEach, Queued
<1>4. ASSUME NEW x \in Operations, x # op PROVE Queued(x)' <=> Queued(x)
  <2>1. ASSUME Queued(x) PROVE Queued(x)'
    <3>1. PICK i \in 1 .. Len(chain) : chain[i] = x
      BY <2>1 DEF Queued
    <3>2. i - 1 \in 1 .. Len(chain') /\ chain'[i - 1] = x
      BY <1>1, <1>4, <3>1
    <3> QED
      BY <3>2 DEF Queued
  <2>2. ASSUME Queued(x)' PROVE Queued(x)
    <3>1. PICK i \in 1 .. Len(chain') : chain'[i] = x
      BY <2>2 DEF Queued
    <3>2. i + 1 \in 1 .. Len(chain) /\ chain[i + 1] = x
      BY <1>1, <3>1
    <3> QED
      BY <3>2 DEF Queued
  <2> QED
    BY <2>1, <2>2
<1> QED
  BY <1>2, <1>3, <1>4 DEF Leaves

LEMMA RunningIsQueued ==
  ASSUME NEW op \in Operations, OneOfEach, Running(op)
  PROVE  Queued(op)
BY DEF Running, Queued, OneOfEach

\* A commit keeps the history and makes the index its latest tree.
LEMMA CommittedKeeps ==
  ASSUME TypeOK, commits' = Committed
  PROVE  /\ commits' \in Seq(Trees) /\ Len(commits') >= Len(commits)
         /\ \A k \in 1 .. Len(commits) : commits'[k] = commits[k]
         /\ Latest' = index
<1>1. CASE index = Latest
  BY <1>1 DEF Committed, TypeOK, Latest
<1>2. CASE index # Latest
  <2>1. commits \in Seq(Trees) /\ index \in Trees /\ commits' = Append(commits, index)
    BY <1>2 DEF Committed, TypeOK
  <2> QED
    BY <2>1 DEF Latest
<1> QED
  BY <1>1, <1>2

\* `git add` takes every path it can read.
LEMMA StagedTree ==
  ASSUME TypeOK
  PROVE  /\ Staged \in Trees
         /\ \A p \in Paths \ locked : Staged[p] = folder[p]
         /\ Readable => Staged = folder
<1>1. /\ folder \in [Paths -> Contents \cup {Absent}]
      /\ index \in [Paths -> Contents \cup {Absent}]
  BY DEF TypeOK, Trees
<1>2. Staged \in [Paths -> Contents \cup {Absent}]
  BY <1>1 DEF Staged
<1>3. \A p \in Paths \ locked : Staged[p] = folder[p]
  BY DEF Staged
<1>4. ASSUME Readable PROVE Staged = folder
  <2>1. \A p \in Paths : Staged[p] = folder[p]
    BY <1>4 DEF Staged, Readable
  <2> QED
    BY <1>1, <1>2, <2>1
<1> QED
  BY <1>2, <1>3, <1>4 DEF Trees

\* The move of what the index has as it is in the folder is exact.
LEMMA MovedTree ==
  ASSUME TypeOK
  PROVE  /\ Moved \in Trees
         /\ \A p \in Paths : index[p] = folder[p] => Moved[p] = commits[target][p]
<1>1. /\ folder \in [Paths -> Contents \cup {Absent}]
      /\ commits[target] \in [Paths -> Contents \cup {Absent}]
  BY DEF TypeOK, Trees
<1>2. Moved \in [Paths -> Contents \cup {Absent}]
  BY <1>1 DEF Moved
<1>3. \A p \in Paths : index[p] = folder[p] => Moved[p] = commits[target][p]
  BY DEF Moved
<1> QED
  BY <1>2, <1>3 DEF Trees

LEMMA CleanedTree == ASSUME TypeOK PROVE Cleaned \in Trees
BY DEF TypeOK, Trees, Cleaned

-----------------------------------------------------------------------------
(* Typing, with what the queue tells of turn and lease.                    *)

\* The queue holds the snapshot its turn waits for and the restore its lease
\* is for, and the commands that follow the safety point are a restore's.
QueueIsTold ==
  /\ OneOfEach
  /\ turn = "snapshot" <=> Queued("snapshot")
  /\ lease <=> Queued("restore")
  /\ chain = <<>> => step = "add"
  /\ Running("snapshot") => step \in {"add", "commit"}

\* The queue is not moved, and neither are those who wait in it.
LEMMA QueueUnmoved ==
  ASSUME QueueIsTold, UNCHANGED <<chain, lease>>,
         turn' = "snapshot" <=> turn = "snapshot",
         step' = step \/ chain # <<>>,
         Running("snapshot") => step' \in {"add", "commit"}
  PROVE  QueueIsTold'
<1>1. Queued("snapshot")' = Queued("snapshot") /\ Queued("restore")' = Queued("restore")
  BY DEF Queued
<1>2. OneOfEach'
  BY DEF QueueIsTold, OneOfEach
<1> QED
  BY <1>1, <1>2 DEF QueueIsTold, Running

LEMMA EmptyTree == Empty \in Trees
BY DEF Empty, Trees

LEMMA TypingGit ==
  ASSUME TypeOK, QueueIsTold, Git
  PROVE  TypeOK' /\ QueueIsTold'
<1>1. OneOfEach' => chain' \in Seq(Operations) /\ Len(chain') <= 2
  BY OnceIsShort DEF OneOfEach
<1> USE DEF TypeOK, QueueIsTold, Operations, turns, shadow
<1>2. CASE Adds \/ AddFails
  <2>1. index' \in Trees /\ complete' \in BOOLEAN
    <3> HIDE DEF TypeOK
    <3>1. Readable \in BOOLEAN
      BY DEF Readable
    <3>2. index' \in {Staged, index} /\ complete' \in BOOLEAN
      BY <1>2, <3>1 DEF Adds, AddFails
    <3>3. index' \in Trees
      BY <3>2, StagedTree DEF TypeOK
    <3> QED
      BY <3>2, <3>3
  <2>2. chain # <<>> /\ (Running("snapshot") => step' = "commit")
    BY <1>2 DEF Adds, AddFails, Adding, RunsOp
  <2>3. QueueIsTold'
    BY <1>2, <2>2, QueueUnmoved DEF Adds, AddFails, Adding
  <2>4. excused' \subseteq Paths
    BY <1>2 DEF Adds, AddFails
  <2> QED
    BY <1>2, <2>1, <2>3, <2>4 DEF Adds, AddFails, Adding
<1>3. ASSUME NEW op \in Operations, Running(op), Leaves,
             UNCHANGED <<locked, busy, index, complete, target>>,
             folder' \in Trees, disabled' \in BOOLEAN,
             commits' = commits \/ commits' = Committed,
             IF op = "snapshot" THEN turn' = "running" /\ lease' = lease
             ELSE turn' = turn /\ lease' = FALSE
      PROVE  TypeOK' /\ QueueIsTold'
  <2>1. /\ OneOfEach' /\ ~Queued(op)' /\ step' = "add"
        /\ \A x \in Operations : x # op => (Queued(x)' <=> Queued(x))
    BY <1>3, QueuedAfter
  <2>2. /\ commits' \in Seq(Trees) /\ Len(commits') >= Len(commits)
        /\ commits'[1] = commits[1]
    <3> HIDE DEF TypeOK
    <3>1. 1 \in 1 .. Len(commits) /\ commits \in Seq(Trees)
      BY DEF TypeOK
    <3> QED
      BY <1>3, <3>1, CommittedKeeps
  <2>3. turn' = "snapshot" <=> Queued("snapshot")'
    BY <1>3, <2>1, RunningIsQueued DEF Stages
  <2>4. lease' <=> Queued("restore")'
    BY <1>3, <2>1
  <2>5. turn' \in Stages /\ lease' \in BOOLEAN
    BY <1>3 DEF Stages
  <2>6. target' \in 1 .. Len(commits')
    BY <1>3, <2>2
  <2>7. TypeOK'
    BY <1>1, <1>3, <2>1, <2>2, <2>5, <2>6 DEF Trees, Leaves
  <2> QED
    BY <2>1, <2>3, <2>4, <2>7
<1>4. CASE Snapshots
  BY <1>3, <1>4 DEF Snapshots
<1>5. CASE SnapshotFails
  BY <1>3, <1>5 DEF SnapshotFails, MayCommit
<1>6. CASE CommitsSafety
  <2>1. CASE complete
    <3>1. /\ commits' \in Seq(Trees) /\ Len(commits') >= Len(commits)
          /\ commits'[1] = commits[1]
      <4> HIDE DEF TypeOK
      <4>1. 1 \in 1 .. Len(commits)
        BY DEF TypeOK
      <4> QED
        BY <1>6, <4>1, CommittedKeeps DEF CommitsSafety
    <3>2. chain # <<>> /\ ~Running("snapshot")
      BY <1>6 DEF CommitsSafety, Running
    <3>3. QueueIsTold'
      BY <1>6, <2>1, <3>2, QueueUnmoved DEF CommitsSafety
    <3> QED
      BY <1>6, <2>1, <3>1, <3>3 DEF CommitsSafety
  <2>2. CASE ~complete
    BY <1>3, <1>6, <2>2 DEF CommitsSafety, Ends
  <2> QED
    BY <2>1, <2>2
<1>7. CASE Moves
  <2>1. Moved \in Trees
    BY MovedTree
  <2>2. chain # <<>> /\ ~Running("snapshot")
    BY <1>7 DEF Moves, Running
  <2>3. QueueIsTold'
    BY <1>7, <2>2, QueueUnmoved DEF Moves
  <2> QED
    BY <1>7, <2>1, <2>3 DEF Moves
<1>8. CASE Cleans
  <2>1. folder' \in Trees
    BY <1>8, CleanedTree DEF Cleans
  <2>2. chain # <<>> /\ ~Running("snapshot")
    BY <1>8 DEF Cleans, Running
  <2>3. QueueIsTold'
    BY <1>8, <2>2, QueueUnmoved DEF Cleans
  <2> QED
    BY <1>8, <2>1, <2>3 DEF Cleans
<1>9. CASE Restores
  BY <1>3, <1>9 DEF Restores, Ends
<1>10. CASE RestoreFails
  <2>1. PICK S \in SUBSET Paths :
          folder' = [p \in Paths |->
                       IF p \notin S THEN folder[p]
                       ELSE IF step = "move" THEN Moved[p] ELSE Cleaned[p]]
    BY <1>10 DEF RestoreFails
  <2>2. Moved \in Trees /\ Cleaned \in Trees
    BY MovedTree, CleanedTree
  <2>3. folder' \in Trees
    BY <2>1, <2>2 DEF Trees
  <2> QED
    BY <1>3, <1>10, <2>3 DEF RestoreFails, MayCommit, Ends
<1> QED
  BY <1>2, <1>4, <1>5, <1>6, <1>7, <1>8, <1>9, <1>10 DEF Git

LEMMA TypingRest ==
  ASSUME TypeOK, QueueIsTold,
         \/ Turning
         \/ \E p \in Paths : Locks(p) \/ \E c \in Contents \cup {Absent} : Touches(p, c)
         \/ \E k \in 2 .. Len(commits) : AsksRestore(k)
  PROVE  TypeOK' /\ QueueIsTold'
<1>1. OneOfEach' => chain' \in Seq(Operations) /\ Len(chain') <= 2
  BY OnceIsShort DEF OneOfEach
<1> USE DEF TypeOK, QueueIsTold, Operations, files, shadow, turns, operations
<1>0. ASSUME UNCHANGED <<chain, step, lease>>,
             turn' = "snapshot" <=> turn = "snapshot"
      PROVE  QueueIsTold'
  BY <1>0, QueueUnmoved
<1>2. CASE Start \/ RoomStarts \/ SkipsSnapshot \/ Completes \/ Forgotten
  <2>1. TypeOK'
    BY <1>2 DEF Start, RoomStarts, SkipsSnapshot, Completes, Forgotten, Stages
  <2>2. QueueIsTold'
    BY <1>0, <1>2 DEF Start, RoomStarts, Startable, SkipsSnapshot, Completes, Forgotten
  <2> QED
    BY <2>1, <2>2
<1>4. ASSUME NEW p \in Paths, NEW c \in Contents \cup {Absent}, Touches(p, c)
      PROVE  TypeOK' /\ QueueIsTold'
  <2>1. folder' \in Trees /\ excused' \subseteq Paths
    BY <1>4 DEF Touches, Touched, Trees
  <2>2. QueueIsTold'
    BY <1>0, <1>4 DEF Touches
  <2> QED
    BY <1>4, <2>1, <2>2 DEF Touches
<1>5. ASSUME NEW p \in Paths, Locks(p)
      PROVE  TypeOK' /\ QueueIsTold'
  BY <1>0, <1>5 DEF Locks, Touched
<1>6. CASE AsksSnapshot
  <2>1. /\ OneOfEach' /\ Queued("snapshot")' /\ chain' # <<>>
        /\ Queued("restore")' <=> Queued("restore")
        /\ IF chain = <<>> THEN Head(chain') = "snapshot"
           ELSE Head(chain') = Head(chain)
    BY <1>6, QueuedBehind DEF AsksSnapshot
  <2> QED
    BY <1>1, <1>6, <2>1 DEF AsksSnapshot, Running, Stages
<1>7. ASSUME NEW k \in 2 .. Len(commits), AsksRestore(k)
      PROVE  TypeOK' /\ QueueIsTold'
  <2>1. /\ OneOfEach' /\ Queued("restore")' /\ chain' # <<>>
        /\ Queued("snapshot")' <=> Queued("snapshot")
        /\ IF chain = <<>> THEN Head(chain') = "restore"
           ELSE Head(chain') = Head(chain)
    BY <1>7, QueuedBehind DEF AsksRestore
  <2>2. target' \in 1 .. Len(commits')
    BY <1>7 DEF AsksRestore
  <2>3. TypeOK'
    BY <1>1, <1>7, <2>1, <2>2 DEF AsksRestore
  <2>4. QueueIsTold'
    BY <1>7, <2>1 DEF AsksRestore, Running
  <2> QED
    BY <2>3, <2>4
<1> HIDE DEF TypeOK, QueueIsTold
<1> QED
  BY <1>2, <1>4, <1>5, <1>6, <1>7 DEF Turning

\* Every reachable state is well typed, and the operations queued on the
\* shadow repository are the snapshot the turn waits for and the restore the
\* lease is for (checkpoints.ts, serialize).
THEOREM Typing == Spec => [](TypeOK /\ QueueIsTold)
<1>1. Init => TypeOK /\ QueueIsTold
  <2> SUFFICES ASSUME Init PROVE TypeOK /\ QueueIsTold
    OBVIOUS
  <2>1. commits \in Seq(Trees) /\ Len(commits) = 1 /\ commits[1] = Empty
    BY EmptyTree DEF Init
  <2>2. chain = <<>> /\ OneOfEach /\ ~Queued("snapshot") /\ ~Queued("restore")
    BY DEF Init, OneOfEach, Queued
  <2>3. QueueIsTold
    BY <2>2 DEF Init, QueueIsTold, Running
  <2>4. chain \in Seq({"snapshot", "restore"}) /\ Len(chain) <= 2
    BY <2>2, OnceIsShort DEF OneOfEach, Operations
  <2>5. index \in Trees /\ folder \in Trees /\ target = 1 /\ locked = {} /\ excused = {}
    BY EmptyTree DEF Init
  <2>6. {disabled, busy, lease, complete} \subseteq BOOLEAN
    BY DEF Init
  <2>7. turn \in Stages /\ step = "add"
    BY DEF Init, Stages
  <2>8. TypeOK
    BY <2>1, <2>4, <2>5, <2>6, <2>7 DEF TypeOK
  <2> QED
    BY <2>3, <2>8
<1>2. TypeOK /\ QueueIsTold /\ [Next]_vars => TypeOK' /\ QueueIsTold'
  <2> SUFFICES ASSUME TypeOK, QueueIsTold, [Next]_vars PROVE TypeOK' /\ QueueIsTold'
    OBVIOUS
  <2>1. CASE UNCHANGED vars
    <3>1. TypeOK'
      BY <2>1 DEF vars, files, shadow, turns, operations, TypeOK
    <3>2. QueueIsTold'
      BY <2>1, QueueUnmoved DEF vars, turns, operations, QueueIsTold
    <3> QED
      BY <3>1, <3>2
  <2> QED
    BY <2>1, TypingGit, TypingRest DEF Next
<1> QED
  BY <1>1, <1>2, PTL DEF Spec

-----------------------------------------------------------------------------
(* What a snapshot has staged, and where a restore stands, but for what is   *)
(* touched under it.                                                        *)

\* What the folder has as it was when the running operation looked at it.
Same(tree) == \A p \in Paths \ excused : tree[p] = folder[p]

\* The snapshot that is about to commit has every file it could read.
SnapshotIsStaged ==
  Running("snapshot") /\ step = "commit" =>
    \A p \in Paths \ (locked \cup excused) : index[p] = folder[p]

\* Under the lease the bot is busy with a room at most.
LeaseIsAlone == lease /\ busy => turn = "room"

\* What each command of a restore finds.
RestoreIsOnItsWay ==
  Running("restore") =>
    /\ step = "commit" /\ complete => Same(index)
    /\ step = "move" => Same(index) /\ Same(Latest)
    /\ step \in {"clean", "readd", "recommit"} => Same(commits[target])
    /\ step = "clean" => index = commits[target]

CheckpointInv ==
  TypeOK /\ QueueIsTold /\ SnapshotIsStaged /\ LeaseIsAlone /\ RestoreIsOnItsWay

\* Whoever touches a file while an operation is past its `git add` is noticed.
LEMMA TouchedKeeps ==
  ASSUME TypeOK, QueueIsTold, step # "add", NEW p \in Paths, NEW c,
         Locks(p) \/ Touches(p, c)
  PROVE  /\ UNCHANGED <<shadow, turns, operations>>
         /\ excused' = excused \cup {p}
         /\ \A q \in Paths \ {p} : folder'[q] = folder[q] /\ (q \in locked' <=> q \in locked)
<1>1. RunsOp
  BY DEF QueueIsTold, RunsOp
<1>2. excused' = excused \cup {p} /\ UNCHANGED <<shadow, turns, operations>>
  BY <1>1 DEF Locks, Touches, Touched
<1>3. \A q \in Paths \ {p} : folder'[q] = folder[q] /\ (q \in locked' <=> q \in locked)
  BY DEF Locks, Touches, TypeOK, Trees
<1> QED BY <1>2, <1>3

\* A snapshot loses sight only of what is touched.
LEMMA StagedStep ==
  ASSUME TypeOK, QueueIsTold, SnapshotIsStaged, [Next]_vars
  PROVE  SnapshotIsStaged'
<1> USE DEF SnapshotIsStaged, files, shadow, turns, operations
<1>1. SUFFICES ASSUME Running("snapshot")', step' = "commit"
               PROVE  \A p \in (Paths \ (locked \cup excused))' : index'[p] = folder'[p]
  OBVIOUS
<1>2. ~Leaves
  BY <1>1 DEF Leaves
<1>3. CASE Git
  <2>1. CASE Adds
    <3>1. index' = Staged /\ UNCHANGED <<folder, locked>>
      BY <2>1 DEF Adds, Adding
    <3> QED
      BY <3>1, StagedTree
  <2>2. CASE AddFails
    <3>1. excused' = Paths
      BY <1>1, <2>2 DEF AddFails, Adding
    <3> QED
      BY <3>1
  <2>3. ~(Snapshots \/ SnapshotFails \/ Restores \/ RestoreFails)
    BY <1>2 DEF Snapshots, SnapshotFails, Restores, RestoreFails, Ends
  <2>4. ~(CommitsSafety \/ Moves \/ Cleans)
    BY <1>1, <1>2 DEF CommitsSafety, Ends, Moves, Cleans
  <2> QED
    BY <1>3, <2>1, <2>2, <2>3, <2>4 DEF Git
<1>4. ASSUME step' = step, chain' = chain, UNCHANGED <<locked, index, folder, excused>>
      PROVE  \A p \in (Paths \ (locked \cup excused))' : index'[p] = folder'[p]
  BY <1>1, <1>4 DEF Running
<1>5. CASE UNCHANGED vars
  BY <1>4, <1>5 DEF vars
<1>6. CASE Start \/ RoomStarts \/ SkipsSnapshot \/ Completes \/ Forgotten
  BY <1>4, <1>6 DEF Start, RoomStarts, SkipsSnapshot, Completes, Forgotten
<1>7. ASSUME NEW p \in Paths, NEW c, Locks(p) \/ Touches(p, c)
      PROVE  \A q \in (Paths \ (locked \cup excused))' : index'[q] = folder'[q]
  <2>1. chain' = chain /\ step' = step /\ index' = index
    BY <1>7 DEF Locks, Touches
  <2>2. Running("snapshot") /\ step = "commit"
    BY <1>1, <2>1 DEF Running
  <2> QED
    BY <1>7, <2>1, <2>2, TouchedKeeps
<1>9. ASSUME NEW op \in Operations, OneOfEach, ~Queued(op),
             chain' = Append(chain, op), step' = step,
             UNCHANGED <<folder, locked, index, excused>>
      PROVE  \A p \in (Paths \ (locked \cup excused))' : index'[p] = folder'[p]
  <2>1. chain # <<>>
    BY <1>1, <1>9 DEF QueueIsTold
  <2>2. Running("snapshot")
    BY <1>1, <1>9, <2>1, QueuedBehind DEF Running
  <2> QED
    BY <1>1, <1>9, <2>2
<1>10. CASE AsksSnapshot
  BY <1>9, <1>10 DEF AsksSnapshot, QueueIsTold, Operations
<1>11. ASSUME NEW k \in 2 .. Len(commits), AsksRestore(k)
       PROVE  \A p \in (Paths \ (locked \cup excused))' : index'[p] = folder'[p]
  BY <1>9, <1>11 DEF AsksRestore, QueueIsTold, Operations
<1> QED
  BY <1>3, <1>5, <1>6, <1>7, <1>10, <1>11 DEF Next, Turning

\* The bot is not busy when a restore claims it, and a turn that makes it busy
\* looks at the lease.
LEMMA LeaseStep ==
  ASSUME TypeOK, QueueIsTold, LeaseIsAlone, [Next]_vars
  PROVE  LeaseIsAlone'
<1> USE DEF LeaseIsAlone, files, shadow, turns, operations
<1>1. CASE Git
  <2>1. CASE Snapshots \/ SnapshotFails
    <3>1. turn = "snapshot"
      BY <2>1, RunningIsQueued DEF Snapshots, SnapshotFails, QueueIsTold, Operations
    <3>2. busy' = busy /\ lease' = lease
      BY <2>1 DEF Snapshots, SnapshotFails
    <3> QED
      BY <3>1, <3>2
  <2>2. CASE ~(Snapshots \/ SnapshotFails)
    BY <1>1, <2>2 DEF Git, Adds, AddFails, Adding, CommitsSafety, Moves, Cleans, Restores,
                      RestoreFails, Ends
  <2> QED
    BY <2>1, <2>2
<1>2. CASE Turning
  BY <1>2 DEF Turning, Start, RoomStarts, Completes, Forgotten, SkipsSnapshot, AsksSnapshot
<1>3. ASSUME NEW p \in Paths, NEW c, Touches(p, c) \/ Locks(p)
      PROVE  LeaseIsAlone'
  BY <1>3 DEF Touches, Locks
<1>4. ASSUME NEW k \in 2 .. Len(commits), AsksRestore(k)
      PROVE  LeaseIsAlone'
  BY <1>4 DEF AsksRestore
<1>5. CASE UNCHANGED vars
  BY <1>5 DEF vars
<1> QED
  BY <1>1, <1>2, <1>3, <1>4, <1>5 DEF Next

\* A restore finds what its last command left, but for what is touched.
LEMMA RestoreStep ==
  ASSUME TypeOK, QueueIsTold, RestoreIsOnItsWay, [Next]_vars
  PROVE  RestoreIsOnItsWay'
<1> USE DEF files, shadow, turns, operations
<1>1. SUFFICES ASSUME Running("restore")', step' # "add"
               PROVE  RestoreIsOnItsWay'
  BY DEF RestoreIsOnItsWay
<1>2. ~Leaves
  BY <1>1 DEF Leaves
<1>3. CASE Git
  <2>1. CASE Adds \/ AddFails
    <3>1. Running("restore") /\ UNCHANGED <<chain, folder, commits, target>>
      BY <1>1, <2>1 DEF Adds, AddFails, Adding, Running
    <3>2. CASE step = "add" /\ Adds
      <4>1. index' = Staged /\ complete' = Readable /\ step' = "commit"
        BY <3>2 DEF Adds, Adding
      <4> QED
        BY <3>1, <4>1, StagedTree DEF RestoreIsOnItsWay, Same
    <3>3. CASE step = "add" /\ AddFails
      BY <3>3 DEF AddFails, Adding, RestoreIsOnItsWay
    <3>4. CASE step = "readd"
      <4>1. step' = "recommit" /\ excused' = excused
        BY <2>1, <3>4 DEF Adds, AddFails, Adding
      <4> QED
        BY <3>1, <3>4, <4>1 DEF RestoreIsOnItsWay, Same
    <3> QED
      BY <2>1, <3>2, <3>3, <3>4 DEF Adds, AddFails, Adding
  <2>2. ~(Snapshots \/ SnapshotFails \/ Restores \/ RestoreFails)
    BY <1>2 DEF Snapshots, SnapshotFails, Restores, RestoreFails, Ends
  <2>3. CASE CommitsSafety
    <3>1. /\ complete /\ step = "commit" /\ Same(index) /\ step' = "move"
          /\ UNCHANGED <<folder, index, excused>>
      BY <1>2, <2>3 DEF CommitsSafety, Ends, RestoreIsOnItsWay
    <3>2. Latest' = index
      BY <2>3, CommittedKeeps DEF CommitsSafety
    <3> QED
      BY <3>1, <3>2 DEF RestoreIsOnItsWay, Same
  <2>4. CASE Moves
    <3>1. Same(index)
      BY <2>4 DEF Moves, RestoreIsOnItsWay
    <3>2. /\ folder' = Moved /\ index' = commits[target] /\ step' = "clean"
          /\ UNCHANGED <<commits, target, excused>>
      BY <2>4 DEF Moves
    <3>3. \A p \in Paths \ excused : Moved[p] = commits[target][p]
      BY <3>1, MovedTree DEF Same
    <3> QED
      BY <3>2, <3>3 DEF RestoreIsOnItsWay, Same
  <2>5. CASE Cleans
    <3>1. Same(commits[target]) /\ index = commits[target]
      BY <2>5 DEF Cleans, RestoreIsOnItsWay
    <3>2. /\ folder' = Cleaned /\ step' = "readd"
          /\ UNCHANGED <<commits, target, excused>>
      BY <2>5 DEF Cleans
    <3>3. \A p \in Paths \ excused : Cleaned[p] = commits[target][p]
      BY <3>1 DEF Same, Cleaned
    <3> QED
      BY <3>2, <3>3 DEF RestoreIsOnItsWay, Same
  <2> QED
    BY <1>3, <2>1, <2>2, <2>3, <2>4, <2>5 DEF Git
<1>4. ASSUME UNCHANGED <<chain, step, index, commits, complete, target, folder, excused>>
      PROVE  RestoreIsOnItsWay'
  BY <1>4 DEF RestoreIsOnItsWay, Same, Latest, Running
<1>5. CASE UNCHANGED vars
  BY <1>4, <1>5 DEF vars
<1>6. CASE Start \/ RoomStarts \/ SkipsSnapshot \/ Completes \/ Forgotten
  BY <1>4, <1>6 DEF Start, RoomStarts, SkipsSnapshot, Completes, Forgotten
<1>7. ASSUME NEW p \in Paths, NEW c, Touches(p, c) \/ Locks(p)
      PROVE  RestoreIsOnItsWay'
  <2>1. UNCHANGED <<chain, step, index, commits, complete, target>>
    BY <1>7 DEF Touches, Locks
  <2>2. /\ excused' = excused \cup {p}
        /\ \A q \in Paths \ {p} : folder'[q] = folder[q]
    BY <1>1, <1>7, <2>1, TouchedKeeps
  <2> QED
    BY <2>1, <2>2 DEF RestoreIsOnItsWay, Same, Latest, Running
<1>8. CASE AsksSnapshot
  <2>1. Running("restore")
    BY <1>1, <1>8, QueuedBehind DEF AsksSnapshot, QueueIsTold, Operations, Running
  <2> QED
    BY <1>8, <2>1 DEF AsksSnapshot, RestoreIsOnItsWay, Same, Latest
<1>9. ASSUME NEW k \in 2 .. Len(commits), AsksRestore(k)
       PROVE  RestoreIsOnItsWay'
  <2>1. Running("restore")
    BY <1>1, <1>9, QueuedBehind DEF AsksRestore, QueueIsTold, Operations, Running
  <2> QED
    BY <1>9, <2>1, RunningIsQueued DEF AsksRestore, QueueIsTold, Operations
<1> QED
  BY <1>3, <1>5, <1>6, <1>7, <1>8, <1>9 DEF Next, Turning

-----------------------------------------------------------------------------
\* The invariant under the properties below.
THEOREM OnItsWay == Spec => []CheckpointInv
<1> DEFINE Way == SnapshotIsStaged /\ LeaseIsAlone /\ RestoreIsOnItsWay
<1>1. Init => Way
  BY DEF Init, SnapshotIsStaged, LeaseIsAlone, RestoreIsOnItsWay, Running
<1>2. TypeOK /\ QueueIsTold /\ Way /\ [Next]_vars => Way'
  BY LeaseStep, RestoreStep, StagedStep
<1>3. TypeOK /\ QueueIsTold /\ Way => CheckpointInv
  BY DEF CheckpointInv
<1> HIDE DEF Way
<1> QED
  BY <1>1, <1>2, <1>3, Typing, PTL DEF Spec

\* index.ts, "Claim the bot across the entire async Git operation": during a
\* restore the bot has no chat or task turn in the folder, but for one that it
\* was idled under.
THEOREM FolderIsTheRestores == Spec => []NoTurnMidRestore
<1>1. CheckpointInv => NoTurnMidRestore
  BY RunningIsQueued DEF CheckpointInv, LeaseIsAlone, QueueIsTold, Operations,
                         NoTurnMidRestore
<1> QED
  BY <1>1, OnItsWay, PTL

\* checkpoints.ts, "Move the folder's files back to a checkpoint": what the
\* restore is about to record is the checkpoint, path by path, whoever touches
\* other paths meanwhile.
THEOREM ExactRestore == Spec => []RestoreIsExact
<1>1. CheckpointInv => RestoreIsExact
  BY DEF CheckpointInv, RestoreIsOnItsWay, RestoreIsExact, Same
<1> QED
  BY <1>1, OnItsWay, PTL

\* The commands that overwrite or remove, a restore that fails half-way
\* included, lose no content that some checkpoint does not have, unless it came
\* after the safety point's `git add`: the safety point was complete, or the
\* restore had stopped before.
THEOREM SafetyPoint == Spec => NothingUnsaved
<1> DEFINE Kept == \A p \in Paths \ excused : folder'[p] # folder[p] /\ folder[p] # Absent =>
                      \E k \in 1 .. Len(commits) : commits[k][p] = folder[p]
<1>1. CheckpointInv => [Moves \/ Cleans \/ RestoreFails => Kept]_vars
  <2> SUFFICES ASSUME CheckpointInv, Moves \/ Cleans \/ RestoreFails
               PROVE  Kept
    OBVIOUS
  <2>1. /\ Len(commits) \in 1 .. Len(commits) /\ target \in 1 .. Len(commits)
        /\ RestoreIsOnItsWay /\ folder \in Trees
    BY DEF CheckpointInv, TypeOK
  <2>2. CASE step = "move" /\ Running("restore")
    BY <2>1, <2>2 DEF RestoreIsOnItsWay, Same, Latest
  <2>3. CASE step = "clean" /\ Running("restore")
    BY <2>1, <2>3 DEF RestoreIsOnItsWay, Same
  <2>4. CASE RestoreFails /\ step \notin {"move", "clean"}
    BY <2>1, <2>4 DEF RestoreFails, Trees
  <2> QED
    BY <2>2, <2>3, <2>4 DEF Moves, Cleans, RestoreFails
<1> QED
  BY <1>1, OnItsWay, PTL DEF NothingUnsaved

\* index.ts, "the engine cannot edit the project until the snapshot has
\* settled": unless checkpoints are off, a dispatched turn finds its folder's
\* readable files in the last checkpoint, but for those touched since its
\* `git add`, which must not have failed as a whole.
THEOREM UndoPoint == Spec => TurnCanBeUndone
<1> DEFINE Undone == \A p \in Paths \ (locked \cup excused) : Latest'[p] = folder[p]
<1>1. CheckpointInv /\ [Next]_vars =>
        [turn # "running" /\ turn' = "running" /\ ~disabled' => Undone]_vars
  <2> SUFFICES ASSUME CheckpointInv, [Next]_vars,
                      turn # "running", turn' = "running", ~disabled'
               PROVE  Undone
    OBVIOUS
  <2>1. CASE Snapshots
    BY <2>1, CommittedKeeps DEF Snapshots, CheckpointInv, SnapshotIsStaged
  <2>2. CASE SnapshotFails \/ SkipsSnapshot
    BY <2>2 DEF SnapshotFails, SkipsSnapshot, shadow
  <2>3. CASE UNCHANGED turn
    BY <2>3
  <2>4. Snapshots \/ SnapshotFails \/ SkipsSnapshot \/ UNCHANGED turn \/ turn' # "running"
    BY DEF Next, Git, Turning, Adds, AddFails, Adding, CommitsSafety, Moves, Cleans,
           Restores, RestoreFails, Start, AsksSnapshot, Completes, Touches, Locks,
           AsksRestore, RoomStarts, Forgotten, vars, turns
  <2> QED
    BY <2>1, <2>2, <2>3, <2>4
<1> QED
  BY <1>1, OnItsWay, PTL DEF Spec, TurnCanBeUndone

-----------------------------------------------------------------------------
(* The event stream.  The two loops over frames are recursive functions;   *)
(* that they compute what they should is an induction over their lists.    *)
(* It rests on the least-number principle, which is first-order: a set of  *)
(* numbers that has 0 and, with n - 1, n too has all of 0 .. N, for else   *)
(* there would be a least one it has not.                                  *)

LEMMA LeastElement ==
  ASSUME NEW T \in SUBSET Nat, T # {}
  PROVE  \E x \in T : \A y \in T : x <= y
<1> DEFINE R == OpToRel(<, Nat)
<1>1. IsWellFoundedOn(R, Nat)
  BY NatLessThanWellFounded
<1>2. \A x, y \in Nat : y < x => <<y, x>> \in R
  BY DEF OpToRel
<1> HIDE DEF R
<1>3. PICK x \in T : \A y \in T : <<y, x>> \notin R
  BY <1>1, WFMin
<1>4. ASSUME NEW y \in T PROVE x <= y
  <2>1. ~(y < x)
    BY <1>2, <1>3
  <2> QED
    BY <2>1
<1> QED
  BY <1>4

Climbs(T, N) == 0 \in T /\ \A n \in 1 .. N : n - 1 \in T => n \in T

\* A set that climbs to N has N.
LEMMA UpTo ==
  ASSUME NEW N \in Nat, NEW T, Climbs(T, N)
  PROVE  N \in T
<1>1. SUFFICES ASSUME N \notin T PROVE FALSE
  OBVIOUS
<1>2. PICK m \in (0 .. N) \ T : \A y \in (0 .. N) \ T : m <= y
  <2>1. (0 .. N) \ T \in SUBSET Nat /\ (0 .. N) \ T # {}
    BY <1>1
  <2> QED
    BY <2>1, LeastElement
<1>3. m \in 1 .. N /\ m - 1 \in 0 .. N /\ m - 1 \in T
  BY <1>2 DEF Climbs
<1> QED
  BY <1>2, <1>3 DEF Climbs

\* A function defined by recursion over 0 .. N from x with the table.
IsTable(table, N, X) == table \in [1 .. N -> [X -> X]]

Follows(g, table, N, X, x) ==
  g \in [0 .. N -> X] /\ g[0] = x /\ \A n \in 1 .. N : g[n] = table[n][g[n - 1]]

\* There is such a function.
LEMMA Recursion ==
  ASSUME NEW N \in Nat, NEW X, NEW x \in X, NEW table, IsTable(table, N, X)
  PROVE  \E g : Follows(g, table, N, X, x)
<1> USE DEF IsTable
<1> DEFINE Good(m, g) == g[0] = x /\ \A n \in 1 .. m : g[n] = table[n][g[n - 1]]
           T == {m \in 0 .. N : \E g \in [0 .. m -> X] : Good(m, g)}
<1>1. 0 \in T
  <2> DEFINE g == [n \in 0 .. 0 |-> x]
  <2>1. g \in [0 .. 0 -> X] /\ Good(0, g)
    OBVIOUS
  <2> HIDE DEF Good, g
  <2>2. \E y \in [0 .. 0 -> X] : Good(0, y)
    BY <2>1
  <2> QED
    BY <2>2
<1>2. ASSUME NEW m \in 1 .. N, m - 1 \in T
      PROVE  m \in T
  <2>1. PICK g \in [0 .. (m - 1) -> X] : Good(m - 1, g)
    BY <1>2
  <2> DEFINE h == [n \in 0 .. m |-> IF n = m THEN table[m][g[m - 1]] ELSE g[n]]
  <2>2. g[m - 1] \in X
    BY <2>1
  <2>3. table[m][g[m - 1]] \in X
    BY <2>2
  <2>4. h \in [0 .. m -> X]
    BY <2>1, <2>3
  <2>5. h[0] = x /\ h[m] = table[m][h[m - 1]]
    BY <2>1
  <2>6. ASSUME NEW n \in 1 .. (m - 1)
        PROVE  h[n] = table[n][h[n - 1]]
    BY <2>1
  <2> HIDE DEF h
  <2>7. ASSUME NEW n \in 1 .. m
        PROVE  h[n] = table[n][h[n - 1]]
    <3>1. n = m \/ n \in 1 .. (m - 1)
      OBVIOUS
    <3> QED
      BY <2>5, <2>6, <3>1
  <2>8. Good(m, h)
    BY <2>5, <2>7
  <2> QED
    BY <2>4, <2>8
<1>3. N \in T
  <2> HIDE DEF T
  <2>1. Climbs(T, N)
    BY <1>1, <1>2 DEF Climbs
  <2> QED
    BY <2>1, UpTo
<1> QED
  BY <1>3 DEF Follows

-----------------------------------------------------------------------------
(* The event stream: what the loops over frames compute.                   *)

\* A frame of fs is about b.
Names(fs, b) == \E i \in 1 .. Len(fs) : fs[i].bot = b

\* Nothing in fs after frame i is about what it is about.
IsLast(fs, i) == \A j \in 1 .. Len(fs) : i < j => fs[j].bot # fs[i].bot

Views == [Bots -> Version]

LEMMA FoldedType ==
  ASSUME NEW v \in Views, NEW f \in Frames
  PROVE  /\ Folded(v, f) \in Views
         /\ \A b \in Bots : Folded(v, f)[b] = IF f.bot = b THEN f.value ELSE v[b]
BY StreamAssumption DEF Folded, Frames, Views

\* Every record is the last of its frames, or what it was.
LEMMA FoldedLast ==
  ASSUME NEW v \in Views, NEW fs \in Seq(Frames)
  PROVE  /\ FoldedAll(v, fs) \in Views
         /\ \A b \in Bots :
              \/ ~Names(fs, b) /\ FoldedAll(v, fs)[b] = v[b]
              \/ \E i \in 1 .. Len(fs) : /\ IsLast(fs, i) /\ fs[i].bot = b
                                         /\ FoldedAll(v, fs)[b] = fs[i].value
<1> DEFINE N == Len(fs)
           Loop(h) == h = [n \in 0 .. N |->
                             IF n = 0 THEN v ELSE Folded(h[n - 1], fs[n])]
           table == [n \in 1 .. N |-> [u \in Views |-> Folded(u, fs[n])]]
           g == CHOOSE h : Loop(h)
<1>1. N \in Nat /\ \A n \in 1 .. N : fs[n] \in Frames
  OBVIOUS
<1>2. N \in Nat
  BY <1>1
<1>3. \E h : Loop(h)
  <2>1. \A n \in 1 .. N : \A u \in Views : Folded(u, fs[n]) \in Views
    BY <1>1, FoldedType
  <2>2. IsTable(table, N, Views)
    BY <2>1 DEF IsTable
  <2>3. \E h : Follows(h, table, N, Views, v)
    <3> HIDE DEF table, N
    <3> QED
      BY <1>2, <2>2, Recursion
  <2>4. PICK h : /\ h \in [0 .. N -> Views] /\ h[0] = v
                 /\ \A n \in 1 .. N : h[n] = table[n][h[n - 1]]
    BY <2>3 DEF Follows
  <2>5. ASSUME NEW n \in 1 .. N
        PROVE  h[n] = Folded(h[n - 1], fs[n])
    <3>1. h[n - 1] \in Views
      BY <1>1, <2>4
    <3>2. table[n][h[n - 1]] = Folded(h[n - 1], fs[n])
      BY <3>1
    <3> QED
      BY <2>4, <3>2
  <2> HIDE DEF N
  <2>6. Loop(h)
    BY <1>1, <2>4, <2>5
  <2> QED
    BY <2>6
<1>4. Loop(g)
  <2> HIDE DEF Loop
  <2> QED
    BY <1>3
<1>5. FoldedAll(v, fs) = g[N]
  BY DEF FoldedAll
<1> HIDE DEF g
<1>6. g[0] = v /\ \A n \in 1 .. N : g[n] = Folded(g[n - 1], fs[n])
  <2> HIDE DEF N
  <2> QED
    BY <1>1, <1>4
<1> HIDE DEF N
<1> DEFINE Told(n, b) ==
             \/ (\A i \in 1 .. n : fs[i].bot # b) /\ g[n][b] = v[b]
             \/ \E i \in 1 .. n : /\ \A j \in 1 .. n : i < j => fs[j].bot # b
                                  /\ fs[i].bot = b /\ g[n][b] = fs[i].value
           T == {n \in 0 .. N : g[n] \in Views /\ \A b \in Bots : Told(n, b)}
<1>7. 0 \in T
  BY <1>1, <1>6
<1>8. ASSUME NEW n \in 1 .. N, n - 1 \in T
      PROVE  n \in T
  <2>1. /\ g[n - 1] \in Views /\ \A b \in Bots : Told(n - 1, b)
        /\ fs[n] \in Frames /\ g[n] = Folded(g[n - 1], fs[n])
    BY <1>1, <1>6, <1>8
  <2>2. /\ g[n] \in Views
        /\ \A b \in Bots : g[n][b] = IF fs[n].bot = b THEN fs[n].value ELSE g[n - 1][b]
    <3>1. LET u == Folded(g[n - 1], fs[n]) IN
          u \in Views /\ \A b \in Bots : u[b] = IF fs[n].bot = b THEN fs[n].value ELSE g[n - 1][b]
      BY <2>1, FoldedType
    <3> QED
      BY <2>1, <3>1
  <2>3. ASSUME NEW b \in Bots
        PROVE  Told(n, b)
    <3>1. CASE fs[n].bot = b
      BY <1>1, <2>2, <3>1
    <3>2. CASE fs[n].bot # b
      <4>1. \A i \in 1 .. n : i = n \/ i \in 1 .. (n - 1)
        BY <1>1
      <4>2. \A i \in 1 .. (n - 1) : i \in 1 .. n
        BY <1>1
      <4>3. Told(n - 1, b) /\ g[n][b] = g[n - 1][b]
        BY <2>1, <2>2, <3>2
      <4> QED
        BY <3>2, <4>1, <4>2, <4>3
    <3> QED
      BY <3>1, <3>2
  <2> QED
    BY <2>2, <2>3
<1>9. N \in T
  <2> HIDE DEF T
  <2>1. Climbs(T, N)
    BY <1>7, <1>8 DEF Climbs
  <2> QED
    BY <1>2, <2>1, UpTo
<1> QED
  BY <1>5, <1>9 DEF N, Names, IsLast

\* What the loop over the buffer keeps, seen from number seq.
IsMissed(f, seq) == f.id.seq > seq /\ f.bot # None

Ascends(fs) ==
  \A i, j \in 1 .. Len(fs) : i < j => fs[i].id.seq < fs[j].id.seq

\* What a list that ascends keeps: its missed frames, in their order.
LEMMA MissedAll ==
  ASSUME NEW seq \in Nat, NEW fs \in Seq(Frames), Ascends(fs)
  PROVE  LET r == MissedSince(seq, fs) IN
         /\ r \in Seq(Frames) /\ Ascends(r)
         /\ \A i \in 1 .. Len(r) :
              \E k \in 1 .. Len(fs) : r[i] = fs[k] /\ IsMissed(fs[k], seq)
         /\ \A k \in 1 .. Len(fs) :
              IsMissed(fs[k], seq) => \E i \in 1 .. Len(r) : r[i] = fs[k]
<1> DEFINE N == Len(fs)
           Next1(s, n) == IF IsMissed(fs[n], seq) THEN Append(s, fs[n]) ELSE s
           Loop(h) == h = [n \in 0 .. N |->
                             IF n = 0 THEN <<>>
                             ELSE IF fs[n].id.seq > seq /\ fs[n].bot # None
                             THEN Append(h[n - 1], fs[n]) ELSE h[n - 1]]
           table == [n \in 1 .. N |-> [s \in Seq(Frames) |-> Next1(s, n)]]
           g == CHOOSE h : Loop(h)
<1>1. N \in Nat /\ \A n \in 1 .. N : fs[n] \in Frames
  OBVIOUS
<1>2. N \in Nat
  BY <1>1
<1>3. \E h : Loop(h)
  <2>1. \A n \in 1 .. N : \A s \in Seq(Frames) : Next1(s, n) \in Seq(Frames)
    BY <1>1
  <2>2. IsTable(table, N, Seq(Frames))
    <3> HIDE DEF Next1, N
    <3> QED
      BY <2>1 DEF IsTable
  <2>3. \E h : Follows(h, table, N, Seq(Frames), <<>>)
    <3>1. <<>> \in Seq(Frames)
      OBVIOUS
    <3> HIDE DEF table, N
    <3> QED
      BY <1>2, <2>2, <3>1, Recursion
  <2>4. PICK h : /\ h \in [0 .. N -> Seq(Frames)] /\ h[0] = <<>>
                 /\ \A n \in 1 .. N : h[n] = table[n][h[n - 1]]
    <3> HIDE DEF table, N
    <3> QED
      BY <2>3 DEF Follows
  <2>5. ASSUME NEW n \in 1 .. N
        PROVE  h[n] = Next1(h[n - 1], n)
    <3> HIDE DEF Next1, N
    <3>1. h[n - 1] \in Seq(Frames)
      BY <1>2, <2>4
    <3>2. table[n][h[n - 1]] = Next1(h[n - 1], n)
      BY <3>1
    <3> HIDE DEF table
    <3> QED
      BY <2>4, <3>2
  <2>6. h = [n \in 0 .. N |-> IF n = 0 THEN <<>> ELSE Next1(h[n - 1], n)]
    <3> HIDE DEF Next1, N, table
    <3> QED
      BY <1>2, <2>4, <2>5
  <2>7. Loop(h)
    <3> HIDE DEF N
    <3> QED
      BY <2>6 DEF IsMissed
  <2> QED
    BY <2>7
<1>4. Loop(g)
  <2> HIDE DEF Loop
  <2> QED
    BY <1>3
<1>5. MissedSince(seq, fs) = g[N]
  BY DEF MissedSince
<1> HIDE DEF g
<1>6. g[0] = <<>> /\ \A n \in 1 .. N : g[n] = Next1(g[n - 1], n)
  <2> HIDE DEF N
  <2>1. g = [n \in 0 .. N |-> IF n = 0 THEN <<>> ELSE Next1(g[n - 1], n)]
    BY <1>4 DEF IsMissed
  <2> HIDE DEF Next1
  <2> QED
    BY <1>2, <2>1
<1> HIDE DEF N, Loop
<1> DEFINE Fit(n, r) ==
             /\ r \in Seq(Frames) /\ Ascends(r)
             /\ \A i \in 1 .. Len(r) :
                  \E k \in 1 .. n : r[i] = fs[k] /\ IsMissed(fs[k], seq)
             /\ \A k \in 1 .. n :
                  IsMissed(fs[k], seq) => \E i \in 1 .. Len(r) : r[i] = fs[k]
           T == {n \in 0 .. N : Fit(n, g[n])}
<1>7. 0 \in T
  <2>1. Fit(0, <<>>)
    BY DEF Ascends
  <2> HIDE DEF Fit
  <2> QED
    BY <1>2, <1>6, <2>1
<1>8. ASSUME NEW n \in 1 .. N, n - 1 \in T
      PROVE  n \in T
  <2> SUFFICES Fit(n, g[n])
    <3> HIDE DEF Fit
    <3> QED
      BY <1>2
  <2>1. Fit(n - 1, g[n - 1]) /\ fs[n] \in Frames /\ g[n] = Next1(g[n - 1], n)
    BY <1>1, <1>6, <1>8
  <2>2. \A k \in 1 .. n : k = n \/ k \in 1 .. (n - 1)
    BY <1>2
  <2>3. \A k \in 1 .. (n - 1) : k \in 1 .. n
    BY <1>2
  <2>4. CASE ~IsMissed(fs[n], seq)
    <3>1. g[n] = g[n - 1]
      BY <2>1, <2>4
    <3>2. Fit(n, g[n - 1])
      BY <2>1, <2>2, <2>3, <2>4
    <3> HIDE DEF Fit
    <3> QED
      BY <3>1, <3>2
  <2>5. CASE IsMissed(fs[n], seq)
    <3> DEFINE s == g[n - 1]
               r == Append(s, fs[n])
    <3>1. g[n] = r
      BY <2>1, <2>5
    <3>2. /\ s \in Seq(Frames) /\ Ascends(s)
          /\ \A i \in 1 .. Len(s) :
               \E k \in 1 .. (n - 1) : s[i] = fs[k] /\ IsMissed(fs[k], seq)
          /\ \A k \in 1 .. (n - 1) :
               IsMissed(fs[k], seq) => \E i \in 1 .. Len(s) : s[i] = fs[k]
      BY <2>1
    <3> HIDE DEF s
    <3>3. /\ r \in Seq(Frames) /\ Len(r) = Len(s) + 1 /\ r[Len(s) + 1] = fs[n]
          /\ \A i \in 1 .. Len(s) : r[i] = s[i]
          /\ Len(s) \in Nat
      BY <2>1, <3>2
    <3> HIDE DEF r
    <3>4. \A i \in 1 .. Len(r) : i = Len(s) + 1 \/ i \in 1 .. Len(s)
      BY <3>3
    <3>5. \A i \in 1 .. Len(s) : i \in 1 .. Len(r)
      BY <3>3
    <3>6. \A i \in 1 .. Len(s) : s[i].id.seq < fs[n].id.seq
      <4>1. \A k \in 1 .. (n - 1) : k \in 1 .. Len(fs) /\ n \in 1 .. Len(fs) /\ k < n
        BY <1>2 DEF N
      <4> QED
        BY <3>2, <4>1 DEF Ascends
    <3>7. Ascends(r)
      <4> SUFFICES ASSUME NEW i \in 1 .. Len(r), NEW j \in 1 .. Len(r), i < j
                   PROVE  r[i].id.seq < r[j].id.seq
        BY DEF Ascends
      <4>1. i \in 1 .. Len(s) /\ r[i] = s[i]
        BY <3>3, <3>4
      <4>2. CASE j \in 1 .. Len(s)
        BY <3>2, <3>3, <4>1, <4>2 DEF Ascends
      <4>3. CASE j = Len(s) + 1
        BY <3>3, <3>6, <4>1, <4>3
      <4> QED
        BY <3>4, <4>2, <4>3
    <3>8. \A i \in 1 .. Len(r) :
            \E k \in 1 .. n : r[i] = fs[k] /\ IsMissed(fs[k], seq)
      <4> SUFFICES ASSUME NEW i \in 1 .. Len(r)
                   PROVE  \E k \in 1 .. n : r[i] = fs[k] /\ IsMissed(fs[k], seq)
        OBVIOUS
      <4>1. CASE i = Len(s) + 1
        BY <1>2, <2>5, <3>3, <4>1
      <4>2. CASE i \in 1 .. Len(s)
        BY <2>3, <3>2, <3>3, <4>2
      <4> QED
        BY <3>4, <4>1, <4>2
    <3>9. \A k \in 1 .. n :
            IsMissed(fs[k], seq) => \E i \in 1 .. Len(r) : r[i] = fs[k]
      <4>1. Len(s) + 1 \in 1 .. Len(r)
        BY <3>3
      <4> QED
        BY <2>2, <3>2, <3>3, <3>5, <4>1
    <3>10. Fit(n, r)
      BY <3>3, <3>7, <3>8, <3>9
    <3> HIDE DEF Fit
    <3> QED
      BY <3>1, <3>10
  <2> QED
    BY <2>4, <2>5
<1>9. N \in T
  <2> HIDE DEF T
  <2>1. Climbs(T, N)
    BY <1>7, <1>8 DEF Climbs
  <2> QED
    BY <1>2, <2>1, UpTo
<1> QED
  BY <1>5, <1>9 DEF N

-----------------------------------------------------------------------------
(* The event stream: lists of frames, and what they tell of the records.   *)

\* The last frame of each record carries what the record is.
Tells(fs, t) ==
  \A i \in 1 .. Len(fs) :
    fs[i].bot # None /\ IsLast(fs, i) => fs[i].value = t[fs[i].bot]

LEMMA AppendTells ==
  ASSUME NEW fs \in Seq(Frames), NEW f \in Frames, NEW t, NEW t2, Tells(fs, t),
         f.bot # None => t2[f.bot] = f.value,
         \A b \in Bots : b # f.bot => t2[b] = t[b]
  PROVE  Tells(Append(fs, f), t2)
<1> DEFINE r == Append(fs, f)
<1>1. /\ Len(r) = Len(fs) + 1 /\ r[Len(fs) + 1] = f /\ Len(fs) \in Nat
      /\ \A i \in 1 .. Len(fs) : r[i] = fs[i] /\ fs[i] \in Frames
  OBVIOUS
<1> HIDE DEF r
<1>2. SUFFICES ASSUME NEW i \in 1 .. Len(r), r[i].bot # None, IsLast(r, i)
               PROVE  r[i].value = t2[r[i].bot]
  BY DEF Tells, r
<1>3. CASE i = Len(fs) + 1
  BY <1>1, <1>2, <1>3
<1>4. CASE i # Len(fs) + 1
  <2>1. i \in 1 .. Len(fs) /\ r[i] = fs[i] /\ fs[i].bot \in Bots
    BY <1>1, <1>2, <1>4 DEF Frames
  <2>2. fs[i].bot # f.bot
    BY <1>1, <1>2, <2>1 DEF IsLast
  <2>3. IsLast(fs, i)
    BY <1>1, <1>2, <2>1 DEF IsLast
  <2> QED
    BY <1>2, <2>1, <2>2, <2>3 DEF Tells
<1> QED
  BY <1>3, <1>4

LEMMA AppendNames ==
  ASSUME NEW fs \in Seq(Frames), NEW f \in Frames, NEW b
  PROVE  Names(Append(fs, f), b) <=> Names(fs, b) \/ f.bot = b
<1> DEFINE r == Append(fs, f)
<1>1. /\ Len(r) = Len(fs) + 1 /\ r[Len(fs) + 1] = f /\ Len(fs) \in Nat
      /\ \A i \in 1 .. Len(fs) : r[i] = fs[i]
  OBVIOUS
<1>2. \A i \in 1 .. (Len(fs) + 1) : i = Len(fs) + 1 \/ i \in 1 .. Len(fs)
  BY <1>1
<1>3. \A i \in 1 .. Len(fs) : i \in 1 .. (Len(fs) + 1)
  BY <1>1
<1>4. Len(fs) + 1 \in 1 .. (Len(fs) + 1)
  BY <1>1
<1> HIDE DEF r
<1>5. Names(r, b) <=> Names(fs, b) \/ f.bot = b
  BY <1>1, <1>2, <1>3, <1>4 DEF Names
<1> QED
  BY <1>5 DEF r

\* The rest of a list.
LEMMA TailFacts ==
  ASSUME NEW fs \in Seq(Frames), fs # <<>>
  PROVE  /\ Head(fs) \in Frames /\ Tail(fs) \in Seq(Frames)
         /\ Len(fs) \in Nat \ {0} /\ Len(Tail(fs)) = Len(fs) - 1
         /\ Head(fs) = fs[1]
         /\ \A i \in 1 .. Len(Tail(fs)) : Tail(fs)[i] = fs[i + 1] /\ i + 1 \in 1 .. Len(fs)
OBVIOUS

LEMMA TailTells ==
  ASSUME NEW fs \in Seq(Frames), fs # <<>>, NEW t, Tells(fs, t)
  PROVE  Tells(Tail(fs), t)
<1> DEFINE r == Tail(fs)
<1>1. /\ Len(fs) \in Nat \ {0} /\ Len(r) = Len(fs) - 1
      /\ \A i \in 1 .. Len(r) : r[i] = fs[i + 1] /\ i + 1 \in 1 .. Len(fs)
  BY TailFacts
<1> HIDE DEF r
<1>2. ASSUME NEW i \in 1 .. Len(r), r[i].bot # None, IsLast(r, i)
      PROVE  r[i].value = t[r[i].bot]
  <2>1. ASSUME NEW j \in 1 .. Len(fs), i + 1 < j
        PROVE  fs[j].bot # fs[i + 1].bot
    <3>1. j - 1 \in 1 .. Len(r) /\ i < j - 1 /\ r[j - 1] = fs[j]
      BY <1>1, <2>1
    <3> QED
      BY <1>1, <1>2, <3>1 DEF IsLast
  <2>2. IsLast(fs, i + 1)
    BY <2>1 DEF IsLast
  <2> QED
    BY <1>1, <1>2, <2>2 DEF Tells
<1> QED
  BY <1>2 DEF Tells, r

LEMMA TailNames ==
  ASSUME NEW fs \in Seq(Frames), fs # <<>>, NEW b, Names(fs, b)
  PROVE  Head(fs).bot = b \/ Names(Tail(fs), b)
<1> DEFINE r == Tail(fs)
<1>1. /\ Len(fs) \in Nat \ {0} /\ Len(r) = Len(fs) - 1 /\ Head(fs) = fs[1]
      /\ \A i \in 1 .. Len(r) : r[i] = fs[i + 1]
  BY TailFacts
<1> HIDE DEF r
<1>2. PICK i \in 1 .. Len(fs) : fs[i].bot = b
  BY DEF Names
<1>3. CASE i = 1
  BY <1>1, <1>2, <1>3
<1>4. CASE i # 1
  <2>1. i - 1 \in 1 .. Len(r) /\ r[i - 1] = fs[i]
    BY <1>1, <1>4
  <2> QED
    BY <1>2, <2>1 DEF Names, r
<1> QED
  BY <1>3, <1>4

\* One list after another.
LEMMA JoinFacts ==
  ASSUME NEW q \in Seq(Frames), NEW u \in Seq(Frames)
  PROVE  /\ q \o u \in Seq(Frames) /\ Len(q \o u) = Len(q) + Len(u)
         /\ Len(q) \in Nat /\ Len(u) \in Nat
         /\ \A i \in 1 .. Len(q) : (q \o u)[i] = q[i]
         /\ \A i \in 1 .. Len(u) : (q \o u)[Len(q) + i] = u[i]
OBVIOUS

LEMMA JoinAppend ==
  ASSUME NEW q \in Seq(Frames), NEW u \in Seq(Frames), NEW f \in Frames
  PROVE  q \o Append(u, f) = Append(q \o u, f)
OBVIOUS

LEMMA JoinShift ==
  ASSUME NEW q \in Seq(Frames), NEW u \in Seq(Frames), u # <<>>
  PROVE  Append(q, Head(u)) \o Tail(u) = q \o u
OBVIOUS

LEMMA JoinNames ==
  ASSUME NEW q \in Seq(Frames), NEW u \in Seq(Frames), NEW b, Names(q \o u, b)
  PROVE  Names(q, b) \/ Names(u, b)
<1> DEFINE r == q \o u
<1>1. /\ Len(r) = Len(q) + Len(u) /\ Len(q) \in Nat /\ Len(u) \in Nat
      /\ \A i \in 1 .. Len(q) : r[i] = q[i]
      /\ \A i \in 1 .. Len(u) : r[Len(q) + i] = u[i]
  BY JoinFacts
<1> HIDE DEF r
<1>2. PICK i \in 1 .. Len(r) : r[i].bot = b
  BY DEF Names, r
<1>3. CASE i <= Len(q)
  BY <1>1, <1>2, <1>3 DEF Names
<1>4. CASE ~(i <= Len(q))
  <2>1. i - Len(q) \in 1 .. Len(u) /\ r[i] = u[i - Len(q)]
    BY <1>1, <1>4
  <2> QED
    BY <1>2, <2>1 DEF Names
<1> QED
  BY <1>3, <1>4

LEMMA NamesJoin ==
  ASSUME NEW q \in Seq(Frames), NEW u \in Seq(Frames), NEW b, Names(u, b)
  PROVE  Names(q \o u, b)
<1> DEFINE r == q \o u
<1>1. /\ Len(r) = Len(q) + Len(u) /\ Len(q) \in Nat /\ Len(u) \in Nat
      /\ \A i \in 1 .. Len(u) : r[Len(q) + i] = u[i]
  BY JoinFacts
<1> HIDE DEF r
<1>2. PICK i \in 1 .. Len(u) : u[i].bot = b
  BY DEF Names
<1>3. Len(q) + i \in 1 .. Len(r)
  BY <1>1
<1> QED
  BY <1>1, <1>2, <1>3 DEF Names, r

LEMMA PastFirst ==
  ASSUME NEW d \in Nat, NEW e \in Nat, NEW i \in Nat, NEW j \in 1 .. d + e, d + i < j
  PROVE  \E k \in 1 .. e : i < k /\ d + k = j
<1>1. j - d \in 1 .. e /\ i < j - d /\ d + (j - d) = j
  OBVIOUS
<1> QED
  BY <1>1

LEMMA JoinTells ==
  ASSUME NEW q \in Seq(Frames), NEW u \in Seq(Frames), NEW t, Tells(q \o u, t)
  PROVE  Tells(u, t)
<1> DEFINE r == q \o u
<1>1. /\ Len(r) = Len(q) + Len(u) /\ Len(q) \in Nat /\ Len(u) \in Nat
      /\ \A i \in 1 .. Len(u) : r[Len(q) + i] = u[i]
  BY JoinFacts
<1>2. Tells(r, t)
  OBVIOUS
<1> HIDE DEF r
<1>3. ASSUME NEW i \in 1 .. Len(u), u[i].bot # None, IsLast(u, i)
      PROVE  u[i].value = t[u[i].bot]
  <2>1. Len(q) + i \in 1 .. Len(r) /\ r[Len(q) + i] = u[i]
    BY <1>1
  <2>2. ASSUME NEW j \in 1 .. Len(r), Len(q) + i < j
        PROVE  r[j].bot # u[i].bot
    <3>1. PICK k \in 1 .. Len(u) : i < k /\ Len(q) + k = j
      <4>1. Len(r) = Len(q) + Len(u) /\ Len(q) \in Nat /\ Len(u) \in Nat
        BY <1>1
      <4>2. i \in Nat /\ j \in 1 .. Len(q) + Len(u)
        BY <4>1
      <4>3. \E k \in 1 .. Len(u) : i < k /\ Len(q) + k = j
        BY <2>2, <4>1, <4>2, PastFirst, SMTT(30)
      <4> QED
        BY <4>3
    <3>2. Len(q) + k = j
      BY <3>1
    <3>3. r[j] = u[k]
      BY <1>1, <3>2
    <3> QED
      BY <1>3, <3>1, <3>3 DEF IsLast
  <2>3. IsLast(r, Len(q) + i)
    BY <2>1, <2>2 DEF IsLast
  <2> QED
    BY <1>2, <1>3, <2>1, <2>3 DEF Tells
<1> QED
  BY <1>3 DEF Tells

\* Folding q over v shows record b as it is, if nothing of b comes after q.
LEMMA FoldMeets ==
  ASSUME NEW v \in Views, NEW q \in Seq(Frames), NEW u \in Seq(Frames),
         NEW t, Tells(q \o u, t), NEW b \in Bots, ~Names(u, b),
         Names(q \o u, b) \/ v[b] = t[b]
  PROVE  FoldedAll(v, q)[b] = t[b]
<1> DEFINE r == q \o u
<1>1. /\ Len(r) = Len(q) + Len(u) /\ Len(q) \in Nat /\ Len(u) \in Nat
      /\ \A i \in 1 .. Len(q) : r[i] = q[i]
      /\ \A i \in 1 .. Len(u) : r[Len(q) + i] = u[i]
  BY JoinFacts
<1>2. Tells(r, t)
  OBVIOUS
<1>3. CASE ~Names(q, b)
  <2>1. v[b] = t[b]
    BY <1>3, JoinNames
  <2> QED
    BY <1>3, <2>1, FoldedLast DEF Names
<1>4. CASE Names(q, b)
  <2>1. PICK i \in 1 .. Len(q) : /\ IsLast(q, i) /\ q[i].bot = b
                                 /\ FoldedAll(v, q)[b] = q[i].value
    BY <1>4, FoldedLast
  <2> HIDE DEF r
  <2>2. i \in 1 .. Len(r) /\ r[i] = q[i]
    BY <1>1, <2>1
  <2>3. ASSUME NEW j \in 1 .. Len(r), i < j
        PROVE  r[j].bot # b
    <3>1. CASE j <= Len(q)
      <4>1. j \in 1 .. Len(q) /\ r[j] = q[j]
        BY <1>1, <2>3, <3>1
      <4>2. q[j].bot # q[i].bot
        BY <2>1, <2>3, <4>1 DEF IsLast
      <4> QED
        BY <2>1, <4>1, <4>2
    <3>2. CASE ~(j <= Len(q))
      <4>1. j - Len(q) \in 1 .. Len(u) /\ r[j] = u[j - Len(q)]
        BY <1>1, <3>2
      <4> QED
        BY <4>1 DEF Names
    <3> QED
      BY <3>1, <3>2
  <2>4. IsLast(r, i)
    BY <2>1, <2>2, <2>3 DEF IsLast
  <2>5. b # None
    BY StreamAssumption
  <2> QED
    BY <1>2, <2>1, <2>2, <2>4, <2>5 DEF Tells
<1> QED
  BY <1>3, <1>4

-----------------------------------------------------------------------------
(* The event stream: the invariant.                                        *)

Greets(s) == s # <<>> /\ Head(s) \in Hellos

Rest(s) == IF Greets(s) THEN Tail(s) ELSE s

Unread == Rest(stream)

\* The frames on their way into the view.
InTransit == queued \o Unread

BadHello == Greets(stream) /\ ~Head(stream).resumed

\* What follows the cursor is in the buffer.
Current == cursor # None /\ cursor.run = run /\ lastSeq <= cursor.seq + Len(buffer)

BufferIsTheTail ==
  /\ Len(buffer) <= lastSeq
  /\ \A i \in 1 .. Len(buffer) :
       buffer[i].id.run = run /\ buffer[i].id.seq + Len(buffer) = lastSeq + i

CursorIsPast ==
  cursor # None => cursor.run <= run /\ (cursor.run = run => cursor.seq <= lastSeq)

\* Frame f was sent by this run, is newer than the cursor, and is in the
\* buffer unless the buffer has moved past it.
IsAhead(f) ==
  /\ f.id.run = run /\ f.id.seq <= lastSeq
  /\ cursor # None /\ cursor.run = run => f.id.seq > cursor.seq
  /\ f.id.seq + Len(buffer) > lastSeq
       => \E k \in 1 .. Len(buffer) : buffer[k] = f

UnreadIsAhead ==
  /\ Ascends(Unread)
  /\ \A i \in 1 .. Len(Unread) : IsAhead(Unread[i])

WriteCounts ==
  \A b \in Bots :
    truth[b] <= writes /\ (edit[b].at = "answered" => edit[b].value <= truth[b])

Connection ==
  /\ ~open => stream = <<>> /\ queued = <<>>
  /\ fallback => mode = "waiting"
  /\ mode = "waiting" => cursor = None /\ queued = <<>>
  /\ mode = "loading" /\ queued = <<>> => ~Current
  /\ BadHello => ~Current /\ queued = <<>>

Synced ==
  open /\ ~BadHello =>
    /\ mode # "waiting"
    /\ mode = "hydrated" => \A b \in Bots : Names(Unread, b) \/ view[b] = truth[b]
    /\ mode = "loading" /\ ~again =>
         /\ load.at # "failed"
         /\ load.at = "answered" =>
              \A b \in Bots : Names(InTransit, b) \/ load.bots[b] = truth[b]

Missed(b) == \E i \in 1 .. Len(buffer) :
               buffer[i].bot = b /\ buffer[i].id.seq > cursor.seq

Resumes ==
  ~open /\ mode = "hydrated" /\ Current =>
    \A b \in Bots : Missed(b) \/ view[b] = truth[b]

\* What holds of any connection, orderly or not.
StreamShape ==
  /\ StreamTypeOK /\ BufferIsTheTail /\ Unread \in Seq(Frames)
  /\ ~open => stream = <<>>
  /\ mode = "waiting" => cursor = None /\ (open => BadHello)

StreamInv ==
  /\ StreamShape /\ CursorIsPast /\ UnreadIsAhead /\ WriteCounts
  /\ Connection /\ Synced /\ Resumes
  /\ Tells(buffer, truth) /\ Tells(InTransit, truth)

\* A connection that is lost only when nothing is queued, snapshots that do
\* not fail while it is up, and answers in the order of their writes.
Orderly == ~Gaps /\ ~LoadsFail /\ ~LateResponses

LEMMA FrameIsNoHello ==
  ASSUME NEW f \in Frames
  PROVE  f \notin Hellos
BY DEF Frames, Hellos

LEMMA RestOfFrames ==
  ASSUME NEW s \in Seq(Frames)
  PROVE  ~Greets(s) /\ Rest(s) = s
<1>1. s # <<>> => Head(s) \in Frames
  OBVIOUS
<1> QED
  BY <1>1, FrameIsNoHello DEF Greets, Rest

LEMMA RestOfGreeting ==
  ASSUME NEW h \in Hellos, NEW s \in Seq(Frames)
  PROVE  LET r == <<h>> \o s IN
         Greets(r) /\ Head(r) = h /\ Tail(r) = s /\ Rest(r) = s /\ r \in Seq(Frames \cup Hellos)
<1>1. LET r == <<h>> \o s IN
         r # <<>> /\ Head(r) = h /\ Tail(r) = s /\ r \in Seq(Frames \cup Hellos)
  OBVIOUS
<1> QED
  BY <1>1 DEF Greets, Rest

LEMMA RestAppend ==
  ASSUME NEW s \in Seq(Frames \cup Hellos), NEW f \in Frames
  PROVE  LET r == Append(s, f) IN
         /\ r \in Seq(Frames \cup Hellos) /\ r # <<>>
         /\ Greets(r) <=> Greets(s)
         /\ Greets(s) => Head(r) = Head(s)
         /\ Rest(r) = Append(Rest(s), f)
<1> DEFINE r == Append(s, f)
<1>1. f \notin Hellos /\ r \in Seq(Frames \cup Hellos) /\ r # <<>>
  BY FrameIsNoHello
<1>2. CASE s = <<>>
  <2>1. Head(r) = f
    BY <1>2
  <2> QED
    BY <1>1, <1>2, <2>1 DEF Greets, Rest
<1>3. CASE s # <<>>
  <2>1. Head(r) = Head(s) /\ Tail(r) = Append(Tail(s), f)
    BY <1>3
  <2> HIDE DEF r
  <2>2. Greets(r) <=> Greets(s)
    BY <1>1, <1>3, <2>1 DEF Greets
  <2> QED
    BY <1>1, <2>1, <2>2 DEF Greets, Rest, r
<1> QED
  BY <1>2, <1>3

LEMMA InFrames ==
  ASSUME NEW fs \in Seq(Frames), NEW i \in 1 .. Len(fs)
  PROVE  /\ fs[i] \in Frames /\ fs[i].id.seq \in Nat /\ fs[i].id.seq >= 1
         /\ fs[i].bot \in Bots \cup {None} /\ fs[i].value \in Version
<1>1. fs[i] \in Frames
  OBVIOUS
<1> QED
  BY <1>1, StreamAssumption DEF Frames, Ids

LEMMA ResumesWhenCurrent ==
  ASSUME StreamTypeOK, BufferIsTheTail, CursorIsPast
  PROVE  Resumable <=> Current
<1>1. /\ buffer \in Seq(Frames) /\ lastSeq \in Nat /\ Len(buffer) \in Nat
      /\ cursor # None => cursor \in Ids /\ cursor.seq \in Nat
  BY StreamAssumption DEF StreamTypeOK, Ids
<1>2. CASE buffer = <<>>
  <2>1. Len(buffer) = 0
    BY <1>2
  <2> QED
    BY <1>1, <1>2, <2>1 DEF CursorIsPast, Resumable, Current
<1>3. CASE buffer # <<>>
  <2>1. 1 \in 1 .. Len(buffer) /\ buffer[1] \in Frames
    BY <1>1, <1>3
  <2>2. buffer[1].id.seq \in Nat /\ buffer[1].id.seq + Len(buffer) = lastSeq + 1
    BY <2>1 DEF BufferIsTheTail, Frames, Ids
  <2> QED
    BY <1>1, <1>3, <2>2 DEF CursorIsPast, Resumable, Current
<1> QED
  BY <1>2, <1>3

\* The buffer ascends.
LEMMA BufferAscends ==
  ASSUME StreamTypeOK, BufferIsTheTail
  PROVE  Ascends(buffer)
<1>1. ASSUME NEW i \in 1 .. Len(buffer), NEW j \in 1 .. Len(buffer), i < j
      PROVE  buffer[i].id.seq < buffer[j].id.seq
  <2>1. buffer \in Seq(Frames) /\ lastSeq \in Nat /\ Len(buffer) \in Nat
    BY StreamAssumption DEF StreamTypeOK
  <2>2. buffer[i].id.seq \in Nat /\ buffer[j].id.seq \in Nat
    BY <2>1, InFrames
  <2>3. /\ buffer[i].id.seq + Len(buffer) = lastSeq + i
        /\ buffer[j].id.seq + Len(buffer) = lastSeq + j
    BY DEF BufferIsTheTail
  <2>4. PICK m, n \in Nat : m = buffer[i].id.seq /\ n = buffer[j].id.seq
    BY <2>2
  <2>5. m + Len(buffer) = lastSeq + i /\ n + Len(buffer) = lastSeq + j
    BY <2>3, <2>4
  <2>6. m < n
    BY <1>1, <2>1, <2>5
  <2> QED
    BY <2>4, <2>6
<1> QED
  BY <1>1 DEF Ascends

\* What is replayed.
LEMMA ReplayMissed ==
  ASSUME StreamInv, Current
  PROVE  LET r == MissedSince(cursor.seq, buffer) IN
         /\ r \in Seq(Frames) /\ Ascends(r) /\ Tells(r, truth)
         /\ \A i \in 1 .. Len(r) : IsAhead(r[i])
         /\ \A b \in Bots : Missed(b) => Names(r, b)
<1> DEFINE r == MissedSince(cursor.seq, buffer)
           seq == cursor.seq
<1>1. /\ buffer \in Seq(Frames) /\ lastSeq \in Nat /\ Len(buffer) \in Nat
      /\ seq \in Nat /\ cursor # None /\ cursor.run = run
  BY StreamAssumption DEF StreamInv, StreamShape, StreamTypeOK, Current, Ids
<1>2. Ascends(buffer)
  BY BufferAscends DEF StreamInv, StreamShape
<1>3. /\ r \in Seq(Frames) /\ Ascends(r)
      /\ \A i \in 1 .. Len(r) :
           \E k \in 1 .. Len(buffer) : r[i] = buffer[k] /\ IsMissed(buffer[k], seq)
      /\ \A k \in 1 .. Len(buffer) :
           IsMissed(buffer[k], seq) => \E i \in 1 .. Len(r) : r[i] = buffer[k]
  BY <1>1, <1>2, MissedAll
<1> HIDE DEF r, seq
<1>4. ASSUME NEW i \in 1 .. Len(r)
      PROVE  IsAhead(r[i])
  <2>1. PICK k \in 1 .. Len(buffer) : r[i] = buffer[k] /\ IsMissed(buffer[k], seq)
    BY <1>3
  <2>2. buffer[k].id.run = run /\ buffer[k].id.seq + Len(buffer) = lastSeq + k
    BY <2>1 DEF StreamInv, StreamShape, BufferIsTheTail
  <2>3. buffer[k].id.seq \in Nat
    BY <1>1, InFrames
  <2>4. buffer[k].id.seq <= lastSeq
    BY <1>1, <2>2, <2>3
  <2>5. buffer[k].id.seq > cursor.seq
    BY <2>1 DEF IsMissed, seq
  <2> QED
    BY <2>1, <2>2, <2>4, <2>5 DEF IsAhead
<1>5. Tells(r, truth)
  <2> SUFFICES ASSUME NEW i \in 1 .. Len(r), r[i].bot # None, IsLast(r, i)
               PROVE  r[i].value = truth[r[i].bot]
    BY DEF Tells
  <2>1. PICK k \in 1 .. Len(buffer) : r[i] = buffer[k] /\ IsMissed(buffer[k], seq)
    BY <1>3
  <2>2. ASSUME NEW j \in 1 .. Len(buffer), k < j, buffer[j].bot = buffer[k].bot
        PROVE  FALSE
    <3>1. /\ buffer[k].id.seq < buffer[j].id.seq
          /\ buffer[k].id.seq \in Nat /\ buffer[j].id.seq \in Nat
      BY <1>1, <1>2, <2>2, InFrames DEF Ascends
    <3>2. IsMissed(buffer[j], seq)
      BY <1>1, <2>1, <2>2, <3>1 DEF IsMissed
    <3>3. PICK m \in 1 .. Len(r) : r[m] = buffer[j]
      BY <1>3, <3>2
    <3>4. i # m /\ ~(m < i)
      <4>1. r[i].id.seq < r[m].id.seq /\ r[i].id.seq \in Nat /\ r[m].id.seq \in Nat
        BY <2>1, <3>1, <3>3
      <4>2. m < i => r[m].id.seq < r[i].id.seq
        BY <1>3 DEF Ascends
      <4> QED
        BY <4>1, <4>2
    <3>5. i < m
      BY <3>4
    <3> QED
      BY <2>1, <2>2, <3>3, <3>5 DEF IsLast
  <2>3. IsLast(buffer, k)
    BY <2>2 DEF IsLast
  <2> QED
    BY <2>1, <2>3 DEF StreamInv, Tells
<1>6. ASSUME NEW b \in Bots, Missed(b)
      PROVE  Names(r, b)
  <2>1. PICK k \in 1 .. Len(buffer) : buffer[k].bot = b /\ buffer[k].id.seq > seq
    BY <1>6 DEF Missed, seq
  <2>2. IsMissed(buffer[k], seq)
    BY <2>1, StreamAssumption DEF IsMissed
  <2> QED
    BY <1>3, <2>1, <2>2 DEF Names
<1> QED
  BY <1>3, <1>4, <1>5, <1>6 DEF r

\* The buffer when frame f is written.
LEMMA BufferMoves ==
  ASSUME StreamTypeOK, NEW f \in Frames,
         buffer' = IF Len(Append(buffer, f)) > REPLAY_MAX
                   THEN Tail(Append(buffer, f)) ELSE Append(buffer, f)
  PROVE  /\ buffer' \in Seq(Frames) /\ Len(buffer') \in 1 .. REPLAY_MAX
         /\ \E d \in {0, 1} :
              /\ Len(buffer') = Len(buffer) + 1 - d
              /\ buffer'[Len(buffer')] = f
              /\ \A i \in 1 .. (Len(buffer') - 1) :
                   i + d \in 1 .. Len(buffer) /\ buffer'[i] = buffer[i + d]
              /\ \A k \in 1 .. Len(buffer) :
                   k > d => k - d \in 1 .. (Len(buffer') - 1) /\ buffer'[k - d] = buffer[k]
         /\ \A t : Tells(Append(buffer, f), t) => Tells(buffer', t)
<1> DEFINE s == buffer
           r == Append(s, f)
           x == buffer'
<1>1. s \in Seq(Frames) /\ Len(s) \in Nat /\ Len(s) <= REPLAY_MAX /\ REPLAY_MAX \in Nat \ {0}
  BY StreamAssumption DEF StreamTypeOK
<1> HIDE DEF s
<1>2. /\ r \in Seq(Frames) /\ Len(r) = Len(s) + 1 /\ r[Len(s) + 1] = f /\ r # <<>>
      /\ \A i \in 1 .. Len(s) : r[i] = s[i]
  BY <1>1
<1>3. CASE Len(r) > REPLAY_MAX
  <2>1. x = Tail(r)
    BY <1>3 DEF s
  <2> HIDE DEF r, x
  <2>2. /\ x \in Seq(Frames) /\ Len(x) = Len(s)
        /\ \A i \in 1 .. Len(x) : x[i] = r[i + 1]
    BY <1>1, <1>2, <2>1, TailFacts
  <2>3. Len(s) >= 1
    BY <1>1, <1>2, <1>3
  <2>4. x[Len(x)] = f
    BY <1>1, <1>2, <2>2, <2>3
  <2>5. ASSUME NEW i \in 1 .. (Len(x) - 1)
        PROVE  i + 1 \in 1 .. Len(s) /\ x[i] = s[i + 1]
    <3>1. i \in 1 .. Len(x) /\ i + 1 \in 1 .. Len(s)
      BY <1>1, <2>2
    <3> QED
      BY <1>2, <2>2, <3>1
  <2>6. \A k \in 1 .. Len(s) : k > 1 => k - 1 \in 1 .. (Len(x) - 1) /\ x[k - 1] = s[k]
    BY <1>1, <1>2, <2>2
  <2>7. \A t : Tells(r, t) => Tells(x, t)
    BY <1>2, <2>1, TailTells
  <2>8. Len(x) \in 1 .. REPLAY_MAX /\ Len(x) = Len(s) + 1 - 1
    BY <1>1, <2>2, <2>3
  <2> QED
    BY <2>2, <2>4, <2>5, <2>6, <2>7, <2>8 DEF s, r, x
<1>4. CASE ~(Len(r) > REPLAY_MAX)
  <2>1. x = r
    BY <1>4 DEF s
  <2> HIDE DEF r, x
  <2>2. x \in Seq(Frames) /\ Len(x) = Len(s) + 1 - 0 /\ x[Len(x)] = f
    BY <1>1, <1>2, <2>1
  <2>3. \A i \in 1 .. (Len(x) - 1) : i + 0 \in 1 .. Len(s) /\ x[i] = s[i + 0]
    BY <1>1, <1>2, <2>1
  <2>4. \A k \in 1 .. Len(s) : k > 0 => k - 0 \in 1 .. (Len(x) - 1) /\ x[k - 0] = s[k]
    BY <1>1, <1>2, <2>1
  <2>5. Len(x) \in 1 .. REPLAY_MAX
    BY <1>1, <1>2, <1>4, <2>1
  <2> QED
    BY <2>1, <2>2, <2>3, <2>4, <2>5 DEF s, r, x
<1> QED
  BY <1>3, <1>4

LEMMA InvFacts ==
  ASSUME StreamInv
  PROVE  /\ buffer \in Seq(Frames) /\ Len(buffer) \in Nat /\ Len(buffer) <= lastSeq
         /\ lastSeq \in Nat /\ run \in Nat /\ MaxFrames \in Nat
         /\ stream \in Seq(Frames \cup Hellos)
         /\ queued \in Seq(Frames) /\ Unread \in Seq(Frames)
         /\ InTransit \in Seq(Frames)
         /\ truth \in Views /\ view \in Views
         /\ cursor # None => cursor \in Ids /\ cursor.seq \in Nat /\ cursor.run \in Nat
<1>1. /\ buffer \in Seq(Frames) /\ lastSeq \in 0 .. MaxFrames
      /\ run \in Nat /\ MaxFrames \in Nat
      /\ stream \in Seq(Frames \cup Hellos)
      /\ queued \in Seq(Frames) /\ Unread \in Seq(Frames)
      /\ truth \in Views /\ view \in Views /\ cursor \in Ids \cup {None}
      /\ Len(buffer) <= lastSeq
  BY StreamAssumption
  DEF StreamInv, StreamShape, StreamTypeOK, UnreadIsAhead, Views, BufferIsTheTail
<1>2. InTransit \in Seq(Frames)
  BY <1>1, JoinFacts DEF InTransit
<1> QED
  BY <1>1, <1>2 DEF Ids

\* Frame f is appended to the buffer, which drops its first d frames.
Slides(d, f) ==
  /\ Len(buffer') = Len(buffer) + 1 - d
  /\ Len(buffer') \in 1 .. Len(buffer') /\ buffer'[Len(buffer')] = f
  /\ \A k \in 1 .. Len(buffer) :
       k > d => k - d \in 1 .. Len(buffer') /\ buffer'[k - d] = buffer[k]

\* Frame f says that b is value, and goes to the buffer and to whoever is
\* connected.
Sends(f, b, value) ==
  /\ f.bot = b /\ f.value = value /\ f.id.run = run /\ f.id.seq = lastSeq + 1
  /\ \A t : Tells(Append(buffer, f), t) => Tells(buffer', t)
  /\ open => Unread' = Append(Unread, f) /\ BadHello' = BadHello
  /\ \E d \in {0, 1} : Slides(d, f)

LEMMA BroadcastMoves ==
  ASSUME StreamShape, NEW b \in Bots \cup {None}, NEW value \in Version,
         Broadcast(b, value), UNCHANGED <<run, open>>
  PROVE  /\ lastSeq' \in 0 .. MaxFrames
         /\ buffer' \in Seq(Frames) /\ Len(buffer') <= REPLAY_MAX
         /\ stream' \in Seq(Frames \cup Hellos)
         /\ BufferIsTheTail'
         /\ ~open => stream' = <<>> /\ Unread' = <<>> /\ ~BadHello'
         /\ \E f \in Frames : Sends(f, b, value)
<1>1. PICK f : f = [id |-> [run |-> run, seq |-> lastSeq + 1], bot |-> b, value |-> value]
  OBVIOUS
<1>2. /\ buffer \in Seq(Frames) /\ Len(buffer) \in Nat /\ Len(buffer) <= lastSeq
      /\ lastSeq \in Nat /\ run \in Nat /\ MaxFrames \in Nat /\ REPLAY_MAX \in Nat
      /\ stream \in Seq(Frames \cup Hellos) /\ Unread \in Seq(Frames)
      /\ StreamTypeOK
  BY StreamAssumption DEF StreamShape, StreamTypeOK, BufferIsTheTail
<1>3. /\ lastSeq < MaxFrames /\ lastSeq' = lastSeq + 1
      /\ buffer' = IF Len(Append(buffer, f)) > REPLAY_MAX
                   THEN Tail(Append(buffer, f)) ELSE Append(buffer, f)
      /\ stream' = IF open THEN Append(stream, f) ELSE stream
      /\ run' = run /\ open' = open
  BY <1>1 DEF Broadcast
<1>4. f \in Frames /\ f.bot = b /\ f.value = value /\ f.id.run = run /\ f.id.seq = lastSeq + 1
  BY <1>1, <1>2, <1>3 DEF Frames, Ids
<1>5. /\ buffer' \in Seq(Frames) /\ Len(buffer') \in 1 .. REPLAY_MAX
      /\ \A t : Tells(Append(buffer, f), t) => Tells(buffer', t)
  BY <1>2, <1>3, <1>4, BufferMoves
<1>6. PICK d \in {0, 1} :
        /\ Len(buffer') = Len(buffer) + 1 - d
        /\ buffer'[Len(buffer')] = f
        /\ \A i \in 1 .. (Len(buffer') - 1) :
             i + d \in 1 .. Len(buffer) /\ buffer'[i] = buffer[i + d]
        /\ \A k \in 1 .. Len(buffer) :
             k > d => k - d \in 1 .. (Len(buffer') - 1) /\ buffer'[k - d] = buffer[k]
  BY <1>2, <1>3, <1>4, BufferMoves
<1>7. /\ d \in Nat /\ d <= 1 /\ Len(buffer') \in Nat /\ Len(buffer') >= 1
      /\ Len(buffer') = Len(buffer) + 1 - d /\ Len(buffer) \in Nat
      /\ lastSeq \in Nat /\ lastSeq' = lastSeq + 1
  <2>1. REPLAY_MAX \in Nat
    BY StreamAssumption
  <2> QED
    BY <1>2, <1>3, <1>5, <1>6, <2>1
<1>8. BufferIsTheTail'
  <2>1. Len(buffer') <= lastSeq'
    BY <1>2, <1>3, <1>6
  <2>2. ASSUME NEW i \in 1 .. Len(buffer')
        PROVE  buffer'[i].id.run = run' /\ buffer'[i].id.seq + Len(buffer') = lastSeq' + i
    <3>1. CASE i = Len(buffer')
      BY <1>2, <1>3, <1>4, <1>6, <3>1
    <3>2. CASE i # Len(buffer')
      <4>1. i \in 1 .. (Len(buffer') - 1)
        BY <1>5, <3>2
      <4>2. i + d \in 1 .. Len(buffer) /\ buffer'[i] = buffer[i + d]
        BY <1>6, <4>1
      <4>3. buffer[i + d].id.run = run /\ buffer[i + d].id.seq + Len(buffer) = lastSeq + (i + d)
        BY <4>2 DEF StreamShape, BufferIsTheTail
      <4>4. buffer[i + d].id.seq \in Nat
        BY <1>2, <4>2, InFrames
      <4>5. buffer'[i].id.run = run' /\ buffer'[i].id.seq + Len(buffer) = lastSeq + (i + d)
        BY <1>3, <4>2, <4>3
      <4>6. buffer'[i].id.seq \in Nat
        BY <4>2, <4>4
      <4> QED
        <5>1. PICK m : m = buffer'[i].id.seq
          OBVIOUS
        <5>2. m \in Nat /\ m + Len(buffer) = lastSeq + (i + d)
          BY <4>5, <4>6, <5>1
        <5>3. m + Len(buffer') = lastSeq' + i
          BY <1>7, <4>1, <5>2
        <5> QED
          BY <4>5, <5>1, <5>3
    <3> QED
      BY <3>1, <3>2
  <2> QED
    BY <2>1, <2>2 DEF BufferIsTheTail
<1>9. ~open => stream' = <<>> /\ Unread' = <<>> /\ ~BadHello'
  <2>1. ~open => stream' = <<>>
    BY <1>3 DEF StreamShape
  <2> QED
    BY <2>1 DEF Unread, Rest, BadHello, Greets
<1>10. open => /\ stream' \in Seq(Frames \cup Hellos)
              /\ Unread' = Append(Unread, f) /\ BadHello' = BadHello
  <2> SUFFICES ASSUME open
               PROVE  /\ stream' \in Seq(Frames \cup Hellos)
                      /\ Unread' = Append(Unread, f) /\ BadHello' = BadHello
    OBVIOUS
  <2>1. stream' = Append(stream, f)
    BY <1>3
  <2>2. /\ stream' \in Seq(Frames \cup Hellos)
        /\ Greets(stream') <=> Greets(stream)
        /\ Greets(stream) => Head(stream') = Head(stream)
        /\ Rest(stream') = Append(Rest(stream), f)
    BY <1>2, <1>4, <2>1, RestAppend
  <2> QED
    BY <2>2 DEF Unread, BadHello
<1>11. /\ Len(buffer') \in 1 .. Len(buffer')
      /\ \A k \in 1 .. Len(buffer) : k > d => k - d \in 1 .. Len(buffer')
  <2>1. \A k \in 1 .. (Len(buffer') - 1) : k \in 1 .. Len(buffer')
    BY <1>7
  <2> QED
    BY <1>6, <1>7, <2>1
<1>12. lastSeq' \in 0 .. MaxFrames /\ stream' \in Seq(Frames \cup Hellos)
  BY <1>2, <1>3, <1>9, <1>10
<1>13. Len(buffer') <= REPLAY_MAX
  BY <1>2, <1>5
<1>14. Slides(d, f)
  <2>1. \A k \in 1 .. Len(buffer) : k > d => buffer'[k - d] = buffer[k]
    BY <1>6
  <2> QED
    BY <1>6, <1>11, <2>1 DEF Slides
<1>15. Sends(f, b, value)
  BY <1>4, <1>5, <1>10, <1>14 DEF Sends
<1> QED
  BY <1>4, <1>5, <1>8, <1>9, <1>12, <1>13, <1>15

LEMMA SavedType ==
  ASSUME StreamShape, NEW b \in Bots, Saved(b)
  PROVE  /\ truth' \in Views /\ truth'[b] = writes + 1 /\ writes + 1 \in Version
         /\ \A c \in Bots : c # b => truth'[c] = truth[c]
         /\ writes' = writes + 1 /\ Broadcast(b, writes + 1)
<1>1. truth \in [Bots -> Version] /\ writes \in 0 .. MaxWrites /\ MaxWrites \in Nat
  BY StreamAssumption DEF StreamShape, StreamTypeOK, Version
<1>2. writes < MaxWrites /\ truth' = [truth EXCEPT ![b] = writes + 1]
      /\ writes' = writes + 1 /\ Broadcast(b, writes + 1)
  BY DEF Saved
<1>3. writes + 1 \in Version
  BY <1>1, <1>2 DEF Version
<1> QED
  BY <1>1, <1>2, <1>3 DEF Views

\* The connection is down: nothing is on its way.
LEMMA NothingUnread ==
  ASSUME stream' = <<>>
  PROVE  /\ Unread' = <<>> /\ ~BadHello' /\ UnreadIsAhead'
         /\ queued' = <<>> => InTransit' = <<>> /\ Tells(InTransit', truth')
<1>1. Unread' = <<>> /\ ~BadHello'
  BY DEF Unread, Rest, BadHello, Greets
<1>2. UnreadIsAhead'
  BY <1>1 DEF UnreadIsAhead, Ascends
<1>3. queued' = <<>> => InTransit' = <<>> /\ Tells(InTransit', truth')
  BY <1>1 DEF InTransit, Tells
<1> QED
  BY <1>1, <1>2, <1>3

-----------------------------------------------------------------------------
(* The event stream: its shape, of any connection.                         *)

LEMMA InitMeetsShape == StreamInit => StreamShape
<1> SUFFICES ASSUME StreamInit PROVE StreamShape
  OBVIOUS
<1> USE DEF StreamInit
<1>1. StreamTypeOK
  <2>1. <<>> \in Seq(Frames) /\ <<>> \in Seq(Frames \cup Hellos) /\ Len(<<>>) = 0
    OBVIOUS
  <2>2. 0 \in Version /\ 0 \in 0 .. MaxFrames /\ 0 <= REPLAY_MAX
    BY StreamAssumption DEF Version
  <2>3. Blank \in [Bots -> Version]
    BY <2>2 DEF Blank
  <2> QED
    BY <2>1, <2>2, <2>3 DEF StreamTypeOK, NoLoad, NoEdit
<1>2. BufferIsTheTail
  BY DEF BufferIsTheTail
<1>3. Unread \in Seq(Frames)
  BY DEF Unread, Rest, Greets
<1> QED
  BY <1>1, <1>2, <1>3 DEF StreamShape

LEMMA BroadcastShapes ==
  ASSUME StreamShape, NEW b \in Bots \cup {None}, NEW value \in Version,
         Broadcast(b, value), UNCHANGED <<run, client, open, load>>,
         truth' \in [Bots -> Version], writes' \in Version,
         edit' \in [Bots -> [at : {"none", "asked", "answered"}, value : Version]]
  PROVE  StreamShape'
<1>1. /\ lastSeq' \in 0 .. MaxFrames
      /\ buffer' \in Seq(Frames) /\ Len(buffer') <= REPLAY_MAX
      /\ stream' \in Seq(Frames \cup Hellos)
      /\ BufferIsTheTail'
      /\ ~open => stream' = <<>> /\ Unread' = <<>> /\ ~BadHello'
  BY BroadcastMoves
<1>2. PICK f \in Frames : open => Unread' = Append(Unread, f) /\ BadHello' = BadHello
  BY BroadcastMoves DEF Sends
<1>3. Unread' \in Seq(Frames)
  <2>1. CASE open
    BY <1>2, <2>1 DEF StreamShape
  <2>2. CASE ~open
    BY <1>1, <2>2
  <2> QED
    BY <2>1, <2>2
<1>4. /\ run' = run /\ open' = open /\ load' = load
      /\ cursor' = cursor /\ view' = view /\ mode' = mode /\ again' = again
      /\ fallback' = fallback /\ queued' = queued
  BY DEF client
<1>5. StreamTypeOK'
  BY <1>1, <1>4 DEF StreamShape, StreamTypeOK
<1> QED
  BY <1>1, <1>2, <1>3, <1>4, <1>5 DEF StreamShape

LEMMA ReplayType ==
  ASSUME StreamTypeOK, BufferIsTheTail
  PROVE  Replay \in Seq(Frames)
<1>1. CASE Resumable
  <2>1. buffer \in Seq(Frames) /\ cursor.seq \in Nat
    BY <1>1, StreamAssumption DEF StreamTypeOK, Resumable, Ids
  <2>2. Ascends(buffer)
    BY BufferAscends
  <2>3. MissedSince(cursor.seq, buffer) \in Seq(Frames)
    BY <2>1, <2>2, MissedAll
  <2> QED
    BY <1>1, <2>3 DEF Replay
<1>2. CASE ~Resumable
  BY <1>2 DEF Replay
<1> QED
  BY <1>1, <1>2

\* The first frames of a connection are the hello and the replay.
LEMMA Greeting ==
  ASSUME StreamTypeOK, BufferIsTheTail, Connects
  PROVE  /\ stream' \in Seq(Frames \cup Hellos) /\ Unread' = Replay
         /\ Replay \in Seq(Frames) /\ (BadHello' <=> ~Resumable)
<1>1. stream' = <<[resumed |-> Resumable]>> \o Replay
  BY DEF Connects
<1>2. [resumed |-> Resumable] \in Hellos
  <2>1. Resumable \in BOOLEAN
    BY DEF StreamTypeOK, Resumable
  <2> QED
    BY <2>1 DEF Hellos
<1>3. /\ Greets(stream') /\ Head(stream') = [resumed |-> Resumable]
      /\ Rest(stream') = Replay /\ stream' \in Seq(Frames \cup Hellos)
  BY <1>1, <1>2, ReplayType, RestOfGreeting
<1>4. BadHello' <=> ~Resumable
  BY <1>3 DEF BadHello
<1> QED
  BY <1>3, <1>4, ReplayType DEF Unread

LEMMA ConnectsShapes ==
  ASSUME StreamShape, Connects
  PROVE  StreamShape'
<1>1. /\ open' = TRUE /\ load' = load /\ edit' = edit
      /\ truth' = truth /\ writes' = writes /\ run' = run /\ lastSeq' = lastSeq
      /\ buffer' = buffer /\ cursor' = cursor /\ view' = view /\ mode' = mode
      /\ again' = again /\ fallback' = fallback /\ queued' = queued
  BY DEF Connects, server, client
<1>2. /\ stream' \in Seq(Frames \cup Hellos) /\ Unread' = Replay
      /\ Replay \in Seq(Frames) /\ (BadHello' <=> ~Resumable)
  BY Greeting DEF StreamShape
<1>3. StreamTypeOK'
  BY <1>1, <1>2 DEF StreamShape, StreamTypeOK
<1>4. BufferIsTheTail'
  BY <1>1 DEF StreamShape, BufferIsTheTail
<1>5. mode' = "waiting" => cursor' = None /\ BadHello'
  BY <1>1, <1>2 DEF StreamShape, Resumable
<1> QED
  BY <1>1, <1>2, <1>3, <1>4, <1>5 DEF StreamShape

LEMMA LostShapes ==
  ASSUME StreamShape, Drops \/ \E B \in SUBSET Bots : Restarts(B)
  PROVE  StreamShape'
<1>1. /\ open' = FALSE /\ stream' = <<>> /\ edit' = edit
      /\ cursor' = cursor /\ view' = view /\ mode' = mode
      /\ again' = again /\ fallback' = fallback /\ queued' = queued
  BY DEF Drops, Restarts, Loses, server, client
<1>2. <<>> \in Seq(Frames \cup Hellos) /\ Unread' = <<>>
  BY <1>1, NothingUnread
<1>3. CASE Drops
  <2>1. /\ truth' = truth /\ writes' = writes /\ run' = run /\ lastSeq' = lastSeq
        /\ buffer' = buffer /\ load' = load
    BY <1>3 DEF Drops, server
  <2>2. StreamTypeOK' /\ BufferIsTheTail'
    BY <1>1, <1>2, <2>1 DEF StreamShape, StreamTypeOK, BufferIsTheTail
  <2> QED
    BY <1>1, <1>2, <2>2 DEF StreamShape
<1>4. ASSUME NEW B \in SUBSET Bots, Restarts(B)
      PROVE  StreamShape'
  <2>1. /\ run' = run + 1 /\ lastSeq' = 0 /\ buffer' = <<>>
        /\ load' = IF load.at = "asked" THEN [load EXCEPT !.at = "failed"] ELSE load
    BY <1>4 DEF Restarts
  <2>2. truth' \in [Bots -> Version] /\ writes' \in Version
    <3>1. /\ truth \in [Bots -> 0 .. MaxWrites] /\ writes \in 0 .. MaxWrites
          /\ MaxWrites \in Nat
      BY StreamAssumption DEF StreamShape, StreamTypeOK, Version
    <3>2. CASE B = {}
      BY <1>4, <3>1, <3>2 DEF Restarts, Version
    <3>3. CASE B # {}
      <4>1. /\ writes < MaxWrites /\ writes' = writes + 1
            /\ truth' = [b \in Bots |-> IF b \in B THEN writes + 1 ELSE truth[b]]
        BY <1>4, <3>3 DEF Restarts
      <4> QED
        BY <3>1, <4>1 DEF Version
    <3> QED
      BY <3>2, <3>3
  <2>3. /\ <<>> \in Seq(Frames) /\ Len(<<>>) = 0
        /\ 0 \in 0 .. MaxFrames /\ 0 <= REPLAY_MAX /\ run + 1 \in Nat
    BY StreamAssumption DEF StreamShape, StreamTypeOK
  <2>4. /\ load' \in [at : {"none", "asked", "answered", "failed"}, bots : [Bots -> Version]]
        /\ load'.at # "none" <=> mode' = "loading"
    BY <1>1, <2>1 DEF StreamShape, StreamTypeOK
  <2>5. StreamTypeOK'
    BY <1>1, <1>2, <2>1, <2>2, <2>3, <2>4 DEF StreamShape, StreamTypeOK
  <2>6. BufferIsTheTail'
    BY <2>1, <2>3 DEF BufferIsTheTail
  <2> QED
    BY <1>1, <1>2, <2>5, <2>6 DEF StreamShape
<1> QED
  BY <1>3, <1>4

\* A step that leaves the server and the connection alone.
LEMMA ClientShapes ==
  ASSUME StreamShape, StreamTypeOK', UNCHANGED <<buffer, lastSeq, run, open, stream>>,
         mode' = "waiting" => mode = "waiting" /\ cursor' = cursor
  PROVE  StreamShape'
<1>1. BufferIsTheTail' /\ Unread' = Unread /\ BadHello' = BadHello
  BY DEF StreamShape, BufferIsTheTail, Unread, BadHello
<1> QED
  BY <1>1 DEF StreamShape

LEMMA RequestsShape ==
  ASSUME StreamShape,
         \/ Answers \/ LoadFails
         \/ \E b \in Bots : \/ PersonEdits(b) \/ EditReread(b)
                            \/ EditFolds(b) \/ EditRereadFails(b)
  PROVE  StreamShape'
<1>1. /\ truth' = truth /\ writes' = writes /\ run' = run /\ lastSeq' = lastSeq
      /\ buffer' = buffer /\ cursor' = cursor /\ mode' = mode
      /\ again' = again /\ fallback' = fallback /\ queued' = queued
      /\ open' = open /\ stream' = stream
  BY DEF Answers, LoadFails, PersonEdits, EditReread, EditFolds, EditRereadFails,
         Folds, server, client
<1>2. /\ StreamTypeOK /\ 0 \in Version /\ Blank \in [Bots -> Version]
      /\ truth \in [Bots -> Version]
  BY StreamAssumption DEF StreamShape, StreamTypeOK, Version, Blank
<1>3. CASE Answers
  BY <1>1, <1>2, <1>3, ClientShapes DEF Answers, client, StreamTypeOK
<1>4. CASE LoadFails
  BY <1>1, <1>2, <1>4, ClientShapes DEF LoadFails, client, StreamTypeOK
<1>5. ASSUME NEW b \in Bots, PersonEdits(b)
      PROVE  StreamShape'
  BY <1>1, <1>2, <1>5, ClientShapes DEF PersonEdits, client, StreamTypeOK
<1>6. ASSUME NEW b \in Bots, EditReread(b)
      PROVE  StreamShape'
  BY <1>1, <1>2, <1>6, ClientShapes DEF EditReread, Answered, client, StreamTypeOK
<1>7. ASSUME NEW b \in Bots, EditFolds(b) \/ EditRereadFails(b)
      PROVE  StreamShape'
  <2>1. /\ view' = [view EXCEPT ![b] = edit[b].value]
        /\ edit' = [edit EXCEPT ![b] = NoEdit] /\ load' = load
    BY <1>7 DEF EditFolds, EditRereadFails, Folds
  <2> QED
    BY <1>1, <1>2, <2>1, ClientShapes DEF NoEdit, StreamTypeOK
<1> QED
  BY <1>3, <1>4, <1>5, <1>6, <1>7

LEMMA HydratesType ==
  ASSUME StreamTypeOK, Hydrates
  PROVE  /\ mode' = "loading" /\ again' \in BOOLEAN
         /\ \/ mode = "loading" /\ again' = TRUE /\ load' = load
            \/ mode # "loading" /\ again' = again /\ load' = Asked
         /\ load' \in [at : {"none", "asked", "answered", "failed"}, bots : [Bots -> Version]]
         /\ load'.at # "none"
<1>1. \/ mode = "loading" /\ mode' = "loading" /\ again' = TRUE /\ load' = load
      \/ mode # "loading" /\ mode' = "loading" /\ again' = again /\ load' = Asked
  BY DEF Hydrates
<1>2. /\ Asked \in [at : {"none", "asked", "answered", "failed"}, bots : [Bots -> Version]]
      /\ Asked.at = "asked"
  BY StreamAssumption DEF Asked, Blank, Version
<1> QED
  BY <1>1, <1>2 DEF StreamTypeOK

LEMMA FallbackShapes ==
  ASSUME StreamShape, FallbackFires
  PROVE  StreamShape'
<1>1. /\ fallback' = FALSE
      /\ truth' = truth /\ writes' = writes /\ run' = run /\ lastSeq' = lastSeq
      /\ buffer' = buffer /\ cursor' = cursor /\ view' = view
      /\ queued' = queued /\ open' = open /\ stream' = stream /\ edit' = edit
  BY DEF FallbackFires, server
<1>2. /\ mode' = "loading" /\ again' \in BOOLEAN
      /\ load' \in [at : {"none", "asked", "answered", "failed"}, bots : [Bots -> Version]]
      /\ load'.at # "none"
  BY HydratesType DEF FallbackFires, StreamShape
<1> QED
  BY <1>1, <1>2, ClientShapes DEF StreamShape, StreamTypeOK

LEMMA HelloShapes ==
  ASSUME StreamShape, ReadsHello
  PROVE  StreamShape'
<1>1. /\ Greets(stream) /\ stream' = Tail(stream) /\ fallback' = FALSE
      /\ IF Head(stream).resumed THEN UNCHANGED <<mode, load, again>> ELSE Hydrates
      /\ truth' = truth /\ writes' = writes /\ run' = run /\ lastSeq' = lastSeq
      /\ buffer' = buffer /\ cursor' = cursor /\ view' = view
      /\ queued' = queued /\ open' = open /\ edit' = edit
  BY DEF ReadsHello, Greets, server
<1>2. stream' \in Seq(Frames) /\ Unread' = stream'
  <2>1. stream' \in Seq(Frames)
    BY <1>1 DEF Unread, Rest, StreamShape
  <2> QED
    BY <2>1, RestOfFrames DEF Unread
<1>3. stream' \in Seq(Frames \cup Hellos)
  BY <1>2
<1>4. StreamTypeOK /\ open /\ BufferIsTheTail' /\ (mode = "waiting" => ~Head(stream).resumed)
  BY <1>1 DEF StreamShape, Greets, BadHello, BufferIsTheTail
<1>5. StreamTypeOK' /\ mode' # "waiting"
  <2>1. CASE Head(stream).resumed
    BY <1>1, <1>3, <1>4, <2>1 DEF StreamTypeOK
  <2>2. CASE ~Head(stream).resumed
    <3>1. /\ mode' = "loading" /\ again' \in BOOLEAN
          /\ load' \in [at : {"none", "asked", "answered", "failed"}, bots : [Bots -> Version]]
          /\ load'.at # "none"
      BY <1>1, <1>4, <2>2, HydratesType
    <3> QED
      BY <1>1, <1>3, <1>4, <3>1 DEF StreamTypeOK
  <2> QED
    BY <2>1, <2>2
<1> QED
  BY <1>1, <1>2, <1>4, <1>5 DEF StreamShape

\* The next frame.
LEMMA NextFrame ==
  ASSUME StreamShape, stream # <<>>, Head(stream) \notin Hellos
  PROVE  /\ open /\ ~BadHello /\ Unread = stream /\ stream \in Seq(Frames)
         /\ mode \in {"loading", "hydrated"}
         /\ Head(stream) \in Frames /\ Tail(stream) \in Seq(Frames)
<1>1. ~Greets(stream) /\ Unread = stream /\ ~BadHello
  BY DEF Greets, Unread, Rest, BadHello
<1>2. stream \in Seq(Frames) /\ open
  BY <1>1 DEF StreamShape
<1>3. mode \in {"loading", "hydrated"}
  BY <1>1, <1>2 DEF StreamShape, StreamTypeOK
<1> QED
  BY <1>1, <1>2, <1>3, TailFacts

LEMMA FrameShapes ==
  ASSUME StreamShape, ReadsFrame
  PROVE  StreamShape'
<1>1. PICK f : f = Head(stream)
  OBVIOUS
<1>2. /\ stream # <<>> /\ Head(stream) \notin Hellos
      /\ cursor' = f.id
      /\ view' = IF mode = "hydrated" THEN Folded(view, f) ELSE view
      /\ queued' = IF mode = "hydrated" THEN queued ELSE Append(queued, f)
      /\ stream' = Tail(stream)
      /\ truth' = truth /\ writes' = writes /\ run' = run /\ lastSeq' = lastSeq
      /\ buffer' = buffer /\ mode' = mode /\ again' = again /\ fallback' = fallback
      /\ open' = open /\ load' = load /\ edit' = edit
  BY <1>1 DEF ReadsFrame, server
<1>3. /\ open /\ mode \in {"loading", "hydrated"} /\ f \in Frames
      /\ stream' \in Seq(Frames)
  BY <1>1, <1>2, NextFrame
<1>4. Unread' = stream' /\ stream' \in Seq(Frames \cup Hellos)
  BY <1>3, RestOfFrames DEF Unread
<1>5. StreamTypeOK /\ queued \in Seq(Frames) /\ view \in Views /\ f.id \in Ids
  BY <1>3 DEF StreamShape, StreamTypeOK, Views, Frames
<1>6. Folded(view, f) \in Views
  BY <1>3, <1>5, FoldedType
<1>7. queued' \in Seq(Frames) /\ (queued' # <<>> => mode' = "loading")
  BY <1>2, <1>3, <1>5 DEF StreamTypeOK
<1>8. view' \in [Bots -> Version]
  BY <1>2, <1>5, <1>6 DEF Views
<1>9. StreamTypeOK'
  BY <1>2, <1>4, <1>5, <1>7, <1>8 DEF StreamTypeOK
<1>10. BufferIsTheTail'
  BY <1>2 DEF StreamShape, BufferIsTheTail
<1> QED
  BY <1>2, <1>3, <1>4, <1>9, <1>10 DEF StreamShape

LEMMA SettlesShapes ==
  ASSUME StreamShape, Settles
  PROVE  StreamShape'
<1>1. PICK snapshot : snapshot = IF load.at = "answered" THEN load.bots ELSE view
  OBVIOUS
<1>2. /\ load.at \in {"answered", "failed"}
      /\ truth' = truth /\ writes' = writes /\ run' = run /\ lastSeq' = lastSeq
      /\ buffer' = buffer /\ cursor' = cursor /\ fallback' = fallback
      /\ open' = open /\ stream' = stream /\ edit' = edit
  BY DEF Settles, server
<1>3. StreamTypeOK /\ mode = "loading" /\ queued \in Seq(Frames) /\ snapshot \in Views
  BY <1>1, <1>2 DEF StreamShape, StreamTypeOK, Views
<1>4. /\ Asked \in [at : {"none", "asked", "answered", "failed"}, bots : [Bots -> Version]]
      /\ NoLoad \in [at : {"none", "asked", "answered", "failed"}, bots : [Bots -> Version]]
      /\ Asked.at = "asked" /\ NoLoad.at = "none" /\ <<>> \in Seq(Frames)
  BY StreamAssumption DEF Asked, NoLoad, Blank, Version
<1>5. FoldedAll(snapshot, queued) \in Views
  BY <1>3, FoldedLast
<1>6. StreamTypeOK' /\ mode' # "waiting"
  <2>1. CASE again
    BY <1>1, <1>2, <1>3, <1>4, <2>1 DEF Settles, StreamTypeOK, Views
  <2>2. CASE ~again
    <3>1. /\ view' = FoldedAll(snapshot, queued) /\ mode' = "hydrated" /\ load' = NoLoad
          /\ queued' = <<>> /\ again' = again
      BY <1>1, <2>2 DEF Settles
    <3> HIDE DEF FoldedAll
    <3> QED
      BY <1>2, <1>3, <1>4, <1>5, <2>2, <3>1 DEF StreamTypeOK, Views
  <2> QED
    BY <2>1, <2>2
<1> QED
  BY <1>2, <1>6, ClientShapes

LEMMA StepShapes ==
  ASSUME StreamShape, [StreamNext]_streamVars
  PROVE  StreamShape'
<1>1. StreamTypeOK
  BY DEF StreamShape
<1>2. ASSUME NEW b \in Bots, BotWrites(b) \/ EditSaved(b)
      PROVE  StreamShape'
  <2>1. Saved(b) /\ UNCHANGED <<run, client, open, load>>
    BY <1>2 DEF BotWrites, EditSaved
  <2>2. /\ truth' \in Views /\ truth'[b] = writes + 1 /\ writes + 1 \in Version
        /\ writes' = writes + 1 /\ Broadcast(b, writes + 1)
    BY <2>1, SavedType
  <2>3. edit' \in [Bots -> [at : {"none", "asked", "answered"}, value : Version]]
    <3>1. /\ truth'[b] \in Version
          /\ edit \in [Bots -> [at : {"none", "asked", "answered"}, value : Version]]
      BY <1>1, <2>2 DEF StreamTypeOK
    <3>2. edit' = edit \/ edit' = [edit EXCEPT ![b] = [at |-> "answered", value |-> truth'[b]]]
      BY <1>2 DEF BotWrites, EditSaved, Answered
    <3> QED
      BY <3>1, <3>2
  <2> QED
    BY <2>1, <2>2, <2>3, BroadcastShapes DEF Views
<1>3. CASE Captures
  <2>1. /\ Broadcast(None, 0) /\ UNCHANGED <<run, client, open, load>>
        /\ truth' = truth /\ writes' = writes /\ edit' = edit
    BY <1>3 DEF Captures
  <2>2. 0 \in Version
    BY StreamAssumption DEF Version
  <2> QED
    BY <1>1, <2>1, <2>2, BroadcastShapes DEF StreamTypeOK
<1>4. CASE UNCHANGED streamVars
  <2>1. UNCHANGED <<truth, writes, run, lastSeq, buffer, cursor, view, mode, again,
                    fallback, queued, open, stream, load, edit>>
    BY <1>4 DEF streamVars, server, client
  <2> QED
    BY <1>1, <2>1, ClientShapes DEF StreamTypeOK
<1> QED
  BY <1>2, <1>3, <1>4, ConnectsShapes, LostShapes, RequestsShape, FallbackShapes,
     HelloShapes, FrameShapes, SettlesShapes
  DEF StreamNext

-----------------------------------------------------------------------------
(* The event stream: the invariant, of an orderly connection.              *)

\* Records, buffer and connection move together.
LEMMA BroadcastKeeps ==
  ASSUME StreamInv, NEW b \in Bots \cup {None}, NEW value \in Version,
         Broadcast(b, value), UNCHANGED <<run, client, open, load>>,
         truth' \in Views, b # None => truth'[b] = value,
         \A c \in Bots : c # b => truth'[c] = truth[c]
  PROVE  /\ CursorIsPast' /\ UnreadIsAhead' /\ Connection' /\ Synced' /\ Resumes'
         /\ Tells(buffer', truth') /\ Tells(InTransit', truth')
<1>1. /\ buffer \in Seq(Frames) /\ Len(buffer) \in Nat /\ Len(buffer) <= lastSeq
      /\ lastSeq \in Nat /\ run \in Nat /\ MaxFrames \in Nat
      /\ stream \in Seq(Frames \cup Hellos)
      /\ queued \in Seq(Frames) /\ Unread \in Seq(Frames)
      /\ InTransit \in Seq(Frames)
      /\ cursor # None => cursor \in Ids /\ cursor.seq \in Nat /\ cursor.run \in Nat
  BY InvFacts
<1>2. /\ lastSeq' = lastSeq + 1
      /\ run' = run /\ open' = open /\ load' = load
      /\ cursor' = cursor /\ view' = view /\ mode' = mode /\ again' = again
      /\ fallback' = fallback /\ queued' = queued
  BY DEF Broadcast, client
<1>3. /\ buffer' \in Seq(Frames) /\ stream' \in Seq(Frames \cup Hellos)
      /\ ~open => stream' = <<>> /\ Unread' = <<>> /\ ~BadHello'
  BY <1>2, BroadcastMoves DEF StreamInv
<1>4. PICK f \in Frames : Sends(f, b, value)
  <2>1. \E f \in Frames : Sends(f, b, value)
    BY <1>2, BroadcastMoves DEF StreamInv
  <2> QED
    BY <2>1
<1>5. PICK d \in {0, 1} : Slides(d, f)
  BY <1>4 DEF Sends
<1>6. /\ f \in Frames /\ f.bot = b /\ f.value = value
      /\ f.id.run = run /\ f.id.seq = lastSeq + 1
  BY <1>4 DEF Sends
<1>7. open => Unread' = Append(Unread, f) /\ BadHello' = BadHello
  BY <1>4 DEF Sends
<1>8. Len(buffer') \in 1 .. Len(buffer') /\ buffer'[Len(buffer')] = f
  BY <1>5 DEF Slides
<1>9. \A k \in 1 .. Len(buffer) :
        k > d => k - d \in 1 .. Len(buffer') /\ buffer'[k - d] = buffer[k]
  BY <1>5 DEF Slides
<1>10. /\ d \in Nat /\ d <= 1 /\ Len(buffer') \in Nat
      /\ Len(buffer') = Len(buffer) + 1 - d /\ Len(buffer) \in Nat
      /\ lastSeq \in Nat /\ lastSeq' = lastSeq + 1
  BY <1>1, <1>2, <1>3, <1>5 DEF Slides
<1>11. CursorIsPast'
  <2>1. CursorIsPast
    BY DEF StreamInv
  <2> QED
    BY <1>1, <1>2, <2>1 DEF CursorIsPast
<1>12. Current' => Current
  BY <1>1, <1>2, <1>10 DEF Current
<1>13. open => InTransit' = Append(InTransit, f)
  <2>1. queued \o Append(Unread, f) = Append(queued \o Unread, f)
    BY <1>1, <1>6, JoinAppend
  <2>2. queued' = queued
    BY <1>2
  <2> QED
    BY <1>7, <2>1, <2>2 DEF InTransit
<1>14. ~open => queued' = <<>>
  BY <1>2 DEF StreamInv, Connection
<1>15. UnreadIsAhead'
  <2>1. IsAhead(f)'
    <3>1. cursor # None /\ cursor.run = run => cursor.seq <= lastSeq
      BY DEF StreamInv, CursorIsPast
    <3>2. /\ f.id.run = run' /\ f.id.seq <= lastSeq'
          /\ cursor' # None /\ cursor'.run = run' => f.id.seq > cursor'.seq
      BY <1>1, <1>2, <1>6, <3>1
    <3> QED
      BY <1>8, <3>2 DEF IsAhead
  <2>2. ASSUME NEW g, IsAhead(g), g.id.seq \in Nat
        PROVE  IsAhead(g)'
    <3>1. /\ g.id.run = run' /\ g.id.seq <= lastSeq'
          /\ cursor' # None /\ cursor'.run = run' => g.id.seq > cursor'.seq
      BY <1>1, <1>2, <2>2 DEF IsAhead
    <3>2. ASSUME g.id.seq + Len(buffer') > lastSeq'
          PROVE  \E k \in 1 .. Len(buffer') : buffer'[k] = g
      <4>1. PICK k \in 1 .. Len(buffer) : buffer[k] = g
        <5>1. g.id.seq + Len(buffer) > lastSeq
          BY <1>10, <2>2, <3>2
        <5> QED
          BY <2>2, <5>1 DEF IsAhead
      <4>2. g.id.seq + Len(buffer) = lastSeq + k
        BY <4>1 DEF StreamInv, StreamShape, BufferIsTheTail
      <4>3. k > d
        BY <1>10, <2>2, <3>2, <4>2
      <4> QED
        BY <1>9, <4>1, <4>3
    <3> QED
      BY <3>1, <3>2 DEF IsAhead
  <2>3. CASE ~open
    <3>1. Unread' = <<>>
      BY <1>3, <2>3
    <3> QED
      BY <3>1 DEF UnreadIsAhead, Ascends
  <2>4. CASE open
    <3>1. Unread' = Append(Unread, f)
      BY <1>7, <2>4
    <3>2. /\ Unread' \in Seq(Frames) /\ Len(Unread') = Len(Unread) + 1
          /\ Len(Unread) \in Nat /\ Unread'[Len(Unread) + 1] = f
          /\ \A i \in 1 .. Len(Unread) : Unread'[i] = Unread[i]
      BY <1>1, <1>6, <3>1
    <3>3. ASSUME NEW i \in 1 .. Len(Unread)
          PROVE  /\ IsAhead(Unread[i]) /\ Unread[i].id.seq \in Nat
                 /\ Unread[i].id.seq < f.id.seq
      <4>1. IsAhead(Unread[i]) /\ Unread[i].id.seq \in Nat
        BY <1>1, InFrames DEF StreamInv, UnreadIsAhead
      <4>2. Unread[i].id.seq <= lastSeq
        BY <4>1 DEF IsAhead
      <4> QED
        BY <1>1, <1>6, <4>1, <4>2
    <3>4. ASSUME NEW i \in 1 .. Len(Unread')
          PROVE  IsAhead(Unread[i])'
      <4>1. PICK g : g = Unread'[i]
        OBVIOUS
      <4>2. CASE i = Len(Unread) + 1
        <5>1. Unread'[i] = f
          BY <3>2, <4>2
        <5> QED
          BY <2>1, <5>1 DEF IsAhead
      <4>3. CASE i # Len(Unread) + 1
        <5>1. i \in 1 .. Len(Unread) /\ g = Unread[i]
          BY <3>2, <4>1, <4>3
        <5>2. IsAhead(g)'
          BY <2>2, <3>3, <5>1
        <5> QED
          BY <4>1, <5>2 DEF IsAhead
      <4> QED
        BY <4>2, <4>3
    <3>5. Ascends(Unread')
      <4>1. ASSUME NEW i \in 1 .. Len(Unread'), NEW j \in 1 .. Len(Unread'), i < j
            PROVE  Unread'[i].id.seq < Unread'[j].id.seq
        <5>1. i \in 1 .. Len(Unread) /\ Unread'[i] = Unread[i]
          BY <3>2, <4>1
        <5>2. CASE j = Len(Unread) + 1
          BY <3>2, <3>3, <5>1, <5>2
        <5>3. CASE j # Len(Unread) + 1
          <6>1. j \in 1 .. Len(Unread) /\ Unread'[j] = Unread[j]
            BY <3>2, <5>3
          <6>2. Unread[i].id.seq < Unread[j].id.seq
            BY <4>1, <5>1, <6>1 DEF StreamInv, UnreadIsAhead, Ascends
          <6> QED
            BY <5>1, <6>1, <6>2
        <5> QED
          BY <5>2, <5>3
      <4> QED
        BY <4>1 DEF Ascends
    <3> QED
      BY <3>2, <3>4, <3>5 DEF UnreadIsAhead
  <2> QED
    BY <2>3, <2>4
<1>16. Connection'
  <2>1. Connection
    BY DEF StreamInv
  <2>2. ~open => stream' = <<>>
    BY <1>3
  <2>3. BadHello' => BadHello
    BY <1>3, <1>7
  <2> QED
    BY <1>2, <1>12, <2>1, <2>2, <2>3 DEF Connection
<1>17. Tells(buffer', truth')
  <2>1. Tells(buffer, truth)
    BY DEF StreamInv
  <2>2. Tells(Append(buffer, f), truth')
    BY <1>1, <1>6, <2>1, AppendTells
  <2>3. \A t : Tells(Append(buffer, f), t) => Tells(buffer', t)
    BY <1>4 DEF Sends
  <2> QED
    BY <2>2, <2>3
<1>18. Tells(InTransit', truth')
  <2>1. CASE open
    <3>1. Tells(InTransit, truth)
      BY DEF StreamInv
    <3>2. Tells(Append(InTransit, f), truth')
      BY <1>1, <1>6, <3>1, AppendTells
    <3> QED
      BY <1>13, <2>1, <3>2
  <2>2. CASE ~open
    <3>1. InTransit' = <<>>
      BY <1>3, <1>14, <2>2 DEF InTransit
    <3> QED
      BY <3>1 DEF Tells
  <2> QED
    BY <2>1, <2>2
<1>19. Synced'
  <2> SUFFICES ASSUME open', ~BadHello'
               PROVE  /\ mode' # "waiting"
                      /\ mode' = "hydrated" =>
                           \A c \in Bots : Names(Unread', c) \/ view'[c] = truth'[c]
                      /\ mode' = "loading" /\ ~again' =>
                           /\ load'.at # "failed"
                           /\ load'.at = "answered" =>
                                \A c \in Bots : \/ Names(InTransit', c)
                                                \/ load'.bots[c] = truth'[c]
    BY DEF Synced
  <2>1. open /\ ~BadHello /\ Unread' = Append(Unread, f) /\ InTransit' = Append(InTransit, f)
    BY <1>2, <1>3, <1>7, <1>13
  <2>2. /\ mode # "waiting"
        /\ mode = "hydrated" => \A c \in Bots : Names(Unread, c) \/ view[c] = truth[c]
        /\ mode = "loading" /\ ~again =>
             /\ load.at # "failed"
             /\ load.at = "answered" =>
                  \A c \in Bots : Names(InTransit, c) \/ load.bots[c] = truth[c]
    BY <2>1 DEF StreamInv, Synced
  <2>3. ASSUME NEW c \in Bots
        PROVE  /\ Names(Unread', c) <=> Names(Unread, c) \/ b = c
               /\ Names(InTransit', c) <=> Names(InTransit, c) \/ b = c
    BY <1>1, <1>6, <2>1, AppendNames
  <2> QED
    BY <1>2, <2>2, <2>3
<1>20. Resumes'
  <2> SUFFICES ASSUME ~open', mode' = "hydrated", Current', NEW c \in Bots
               PROVE  Missed(c)' \/ view'[c] = truth'[c]
    BY DEF Resumes
  <2>1. Current /\ (Missed(c) \/ view[c] = truth[c])
    BY <1>2, <1>12 DEF StreamInv, Resumes
  <2>2. /\ cursor # None /\ cursor.run = run /\ lastSeq + 1 <= cursor.seq + Len(buffer')
        /\ cursor.seq <= lastSeq /\ cursor.seq \in Nat
    BY <1>1, <1>2, <2>1 DEF Current, StreamInv, CursorIsPast
  <2>3. CASE c = b
    <3>1. f.bot = c /\ f.id.seq > cursor'.seq
      BY <1>1, <1>2, <1>6, <2>2, <2>3
    <3> QED
      BY <1>8, <3>1 DEF Missed
  <2>4. CASE c # b /\ view[c] = truth[c]
    BY <1>2, <2>4
  <2>5. CASE Missed(c)
    <3>1. PICK k \in 1 .. Len(buffer) : buffer[k].bot = c /\ buffer[k].id.seq > cursor.seq
      BY <2>5 DEF Missed
    <3>2. buffer[k].id.seq + Len(buffer) = lastSeq + k /\ buffer[k].id.seq \in Nat
      BY <1>1, InFrames DEF StreamInv, StreamShape, BufferIsTheTail
    <3>3. PICK m \in Nat : m = buffer[k].id.seq
      BY <3>2
    <3>4. k > d
      BY <1>10, <2>2, <3>1, <3>2, <3>3
    <3>5. k - d \in 1 .. Len(buffer') /\ buffer'[k - d] = buffer[k]
      BY <1>9, <3>1, <3>4
    <3> QED
      BY <1>2, <3>1, <3>5 DEF Missed
  <2> QED
    BY <2>1, <2>3, <2>4, <2>5
<1> QED
  BY <1>11, <1>15, <1>16, <1>17, <1>18, <1>19, <1>20


\* The parts a step leaves as they were.
LEMMA AheadStays ==
  ASSUME UnreadIsAhead, UNCHANGED <<buffer, lastSeq, run, cursor>>, Unread' = Unread
  PROVE  UnreadIsAhead'
<1>1. /\ buffer' = buffer /\ lastSeq' = lastSeq /\ run' = run /\ cursor' = cursor
  OBVIOUS
<1>2. \A i \in 1 .. Len(Unread) : IsAhead(Unread[i])
  BY DEF UnreadIsAhead
<1>3. ASSUME NEW i \in 1 .. Len(Unread')
      PROVE  IsAhead(Unread[i])'
  <2>1. IsAhead(Unread[i])
    BY <1>2
  <2> QED
    BY <1>1, <2>1 DEF IsAhead
<1> QED
  BY <1>3 DEF UnreadIsAhead

LEMMA ResumesStays ==
  ASSUME Resumes, UNCHANGED <<buffer, lastSeq, run, cursor, open, mode, view, truth>>
  PROVE  Resumes'
BY DEF Resumes, Missed, Current

LEMMA SyncedStays ==
  ASSUME Synced, UNCHANGED <<open, stream, mode, view, truth, again, load, queued>>
  PROVE  Synced'
BY DEF Synced, Names, Unread, InTransit, BadHello, Rest, Greets

LEMMA ConnectionStays ==
  ASSUME Connection, UNCHANGED <<open, stream, mode, queued, fallback, cursor,
                                 run, lastSeq, buffer>>
  PROVE  Connection'
BY DEF Connection, Current, BadHello, Greets

LEMMA InitMeetsInv == StreamInit => StreamInv
<1> SUFFICES ASSUME StreamInit PROVE StreamInv
  OBVIOUS
<1> USE DEF StreamInit
<1>1. StreamShape
  BY InitMeetsShape
<1>2. CursorIsPast /\ WriteCounts /\ Synced /\ Resumes
  BY DEF CursorIsPast, WriteCounts, Synced, Resumes, Blank, NoEdit
<1>3. Unread = <<>> /\ InTransit = <<>> /\ BadHello = FALSE
  BY DEF Unread, Rest, Greets, InTransit, BadHello
<1>4. UnreadIsAhead /\ Tells(buffer, truth) /\ Tells(InTransit, truth)
  BY <1>3 DEF UnreadIsAhead, Ascends, Tells
<1>5. Connection
  BY <1>3 DEF Connection
<1> QED
  BY <1>1, <1>2, <1>4, <1>5 DEF StreamInv

\* A write of the server and its frame; the bot's own or a saved edit.
LEMMA SavedKeeps ==
  ASSUME StreamInv, NEW b \in Bots, Saved(b), UNCHANGED <<run, client, open, load>>,
         \/ UNCHANGED edit
         \/ edit' = [edit EXCEPT ![b] = [at |-> "answered", value |-> truth'[b]]],
         StreamShape'
  PROVE  StreamInv'
<1>1. /\ truth' \in Views /\ truth'[b] = writes + 1 /\ writes + 1 \in Version
      /\ \A c \in Bots : c # b => truth'[c] = truth[c]
      /\ writes' = writes + 1 /\ Broadcast(b, writes + 1)
  BY SavedType DEF StreamInv
<1>2. /\ CursorIsPast' /\ UnreadIsAhead' /\ Connection' /\ Synced' /\ Resumes'
      /\ Tells(buffer', truth') /\ Tells(InTransit', truth')
  BY <1>1, BroadcastKeeps
<1>3. StreamTypeOK
  BY DEF StreamInv, StreamShape
<1>4. WriteCounts'
  <2>1. WriteCounts /\ writes \in Nat /\ truth \in [Bots -> Nat]
    BY <1>3, StreamAssumption DEF StreamInv, StreamTypeOK, Version
  <2> SUFFICES ASSUME NEW c \in Bots
               PROVE  /\ truth'[c] <= writes'
                      /\ edit'[c].at = "answered" => edit'[c].value <= truth'[c]
    BY DEF WriteCounts
  <2>2. /\ truth[c] <= writes /\ truth[c] \in Nat
        /\ edit[c].at = "answered" => edit[c].value <= truth[c]
        /\ edit[c] \in [at : {"none", "asked", "answered"}, value : Version]
    BY <1>3, <2>1 DEF WriteCounts, StreamTypeOK
  <2>3. edit[c].value \in Nat
    BY <2>2, StreamAssumption DEF Version
  <2>4. CASE c # b
    <3>1. edit'[c] = edit[c] /\ truth'[c] = truth[c]
      BY <1>1, <1>3, <2>4 DEF StreamTypeOK
    <3> QED
      BY <1>1, <2>1, <2>2, <3>1
  <2>5. CASE c = b
    <3>1. truth'[c] = writes + 1 /\ writes' = writes + 1
      BY <1>1, <2>5
    <3>2. CASE edit' = edit
      BY <2>1, <2>2, <2>3, <3>1, <3>2
    <3>3. CASE edit' = [edit EXCEPT ![b] = [at |-> "answered", value |-> truth'[b]]]
      <4>1. edit'[c] = [at |-> "answered", value |-> truth'[b]]
        BY <1>3, <2>5, <3>3 DEF StreamTypeOK
      <4> QED
        BY <2>1, <2>5, <3>1, <4>1
    <3> QED
      BY <3>2, <3>3
  <2> QED
    BY <2>4, <2>5
<1> QED
  BY <1>2, <1>4 DEF StreamInv

LEMMA CapturesKeeps ==
  ASSUME StreamInv, Captures, StreamShape'
  PROVE  StreamInv'
<1>1. /\ Broadcast(None, 0) /\ UNCHANGED <<run, client, open, load>>
      /\ truth' = truth /\ writes' = writes /\ edit' = edit
  BY DEF Captures
<1>2. truth' \in Views /\ 0 \in Version
  BY <1>1, StreamAssumption DEF StreamInv, StreamShape, StreamTypeOK, Views, Version
<1>3. /\ CursorIsPast' /\ UnreadIsAhead' /\ Connection' /\ Synced' /\ Resumes'
      /\ Tells(buffer', truth') /\ Tells(InTransit', truth')
  BY <1>1, <1>2, BroadcastKeeps
<1>4. WriteCounts
  BY DEF StreamInv
<1>5. WriteCounts'
  BY <1>1, <1>4 DEF WriteCounts
<1> QED
  BY <1>3, <1>5 DEF StreamInv

LEMMA ConnectsKeeps ==
  ASSUME StreamInv, Connects, StreamShape'
  PROVE  StreamInv'
<1>1. /\ ~open /\ open' = TRUE /\ stream' = <<[resumed |-> Resumable]>> \o Replay
      /\ truth' = truth /\ writes' = writes /\ run' = run /\ lastSeq' = lastSeq
      /\ buffer' = buffer /\ cursor' = cursor /\ view' = view /\ mode' = mode
      /\ again' = again /\ fallback' = fallback /\ queued' = queued
      /\ load' = load /\ edit' = edit
  BY DEF Connects, server, client
<1>2. /\ StreamTypeOK /\ BufferIsTheTail /\ CursorIsPast /\ WriteCounts
      /\ Connection /\ Resumes /\ Tells(buffer, truth)
  BY DEF StreamInv, StreamShape
<1>3. Resumable <=> Current
  BY <1>2, ResumesWhenCurrent
<1>4. queued = <<>> /\ queued' = <<>>
  BY <1>1, <1>2 DEF Connection
<1>5. /\ Replay \in Seq(Frames) /\ Ascends(Replay) /\ Tells(Replay, truth)
      /\ \A i \in 1 .. Len(Replay) : IsAhead(Replay[i])
      /\ Current => \A b \in Bots : Missed(b) => Names(Replay, b)
  <2>1. CASE Current
    <3>1. Replay = MissedSince(cursor.seq, buffer)
      BY <1>3, <2>1 DEF Replay
    <3> QED
      BY <2>1, <3>1, ReplayMissed
  <2>2. CASE ~Current
    <3>1. Replay = <<>>
      BY <1>3, <2>2 DEF Replay
    <3> QED
      BY <2>2, <3>1 DEF Ascends, Tells
  <2> QED
    BY <2>1, <2>2
<1>6. Unread' = Replay /\ (BadHello' <=> ~Current)
  BY <1>2, <1>3, Greeting
<1>7. CursorIsPast' /\ WriteCounts' /\ Tells(buffer', truth')
  BY <1>1, <1>2 DEF CursorIsPast, WriteCounts
<1>8. UnreadIsAhead'
  <2>1. ASSUME NEW i \in 1 .. Len(Unread')
        PROVE  IsAhead(Unread[i])'
    <3>1. IsAhead(Replay[i]) /\ Unread'[i] = Replay[i]
      BY <1>5, <1>6, <2>1
    <3> QED
      BY <1>1, <3>1 DEF IsAhead
  <2> QED
    BY <1>5, <1>6, <2>1 DEF UnreadIsAhead
<1>9. Tells(InTransit', truth')
  <2>1. InTransit' = Replay
    <3>1. <<>> \o Replay = Replay
      BY <1>5
    <3> QED
      BY <1>4, <1>6, <3>1 DEF InTransit
  <2> QED
    BY <1>1, <1>5, <2>1
<1>10. Current' <=> Current
  BY <1>1 DEF Current
<1>11. Connection'
  BY <1>1, <1>2, <1>4, <1>6, <1>10 DEF Connection
<1>12. Synced'
  <2> SUFFICES ASSUME ~BadHello'
               PROVE  /\ mode' = "hydrated"
                      /\ \A b \in Bots : Names(Unread', b) \/ view'[b] = truth'[b]
    BY DEF Synced
  <2>1. Current
    BY <1>6
  <2>2. mode = "hydrated"
    BY <1>2, <1>4, <2>1 DEF Connection, StreamTypeOK, Current
  <2>3. \A b \in Bots : Missed(b) \/ view[b] = truth[b]
    BY <1>1, <1>2, <2>1, <2>2 DEF Resumes
  <2> QED
    BY <1>1, <1>5, <1>6, <2>1, <2>2, <2>3
<1>13. Resumes'
  BY <1>1 DEF Resumes
<1> QED
  BY <1>7, <1>8, <1>9, <1>11, <1>12, <1>13 DEF StreamInv

\* When a connection that had been good is lost, what it owed is in the buffer.
LEMMA LostIsMissed ==
  ASSUME StreamInv, open, Current, NEW b \in Bots, Names(Unread, b)
  PROVE  Missed(b)
<1>1. PICK i \in 1 .. Len(Unread) : Unread[i].bot = b
  BY DEF Names
<1>2. IsAhead(Unread[i])
  BY DEF StreamInv, UnreadIsAhead
<1>3. /\ lastSeq \in Nat /\ Len(buffer) \in Nat /\ cursor.seq \in Nat
      /\ Unread[i].id.seq \in Nat
  BY InvFacts, InFrames DEF Current
<1>4. Unread[i].id.seq > cursor.seq
  BY <1>2 DEF IsAhead, Current
<1>5. Unread[i].id.seq + Len(buffer) > lastSeq
  BY <1>3, <1>4 DEF Current
<1>6. PICK k \in 1 .. Len(buffer) : buffer[k] = Unread[i]
  BY <1>2, <1>5 DEF IsAhead
<1> QED
  BY <1>1, <1>4, <1>6 DEF Missed

LEMMA DropsKeeps ==
  ASSUME StreamInv, Orderly, Drops, StreamShape'
  PROVE  StreamInv'
<1>1. /\ open /\ queued = <<>> /\ open' = FALSE /\ stream' = <<>>
      /\ truth' = truth /\ writes' = writes /\ run' = run /\ lastSeq' = lastSeq
      /\ buffer' = buffer /\ cursor' = cursor /\ view' = view /\ mode' = mode
      /\ again' = again /\ fallback' = fallback /\ queued' = queued
      /\ load' = load /\ edit' = edit
  BY DEF Drops, Loses, server, client, Orderly
<1>2. /\ StreamTypeOK /\ BufferIsTheTail /\ CursorIsPast /\ WriteCounts
      /\ Connection /\ Synced /\ Tells(buffer, truth)
  BY DEF StreamInv, StreamShape
<1>3. CursorIsPast' /\ WriteCounts' /\ Tells(buffer', truth')
  BY <1>1, <1>2 DEF CursorIsPast, WriteCounts
<1>4. UnreadIsAhead' /\ ~BadHello' /\ Tells(InTransit', truth')
  BY <1>1, NothingUnread
<1>5. Current' <=> Current
  BY <1>1 DEF Current
<1>6. Connection'
  BY <1>1, <1>2, <1>4, <1>5 DEF Connection
<1>7. Synced'
  BY <1>1 DEF Synced
<1>8. Resumes'
  <2> SUFFICES ASSUME mode = "hydrated", Current, NEW b \in Bots
               PROVE  Missed(b)' \/ view'[b] = truth'[b]
    BY <1>1, <1>5 DEF Resumes
  <2>1. ~BadHello
    BY <1>2 DEF Connection
  <2>2. Names(Unread, b) \/ view[b] = truth[b]
    BY <1>1, <1>2, <2>1 DEF Synced
  <2>3. Missed(b) \/ view[b] = truth[b]
    BY <1>1, <2>2, LostIsMissed
  <2> QED
    BY <1>1, <2>3 DEF Missed
<1> QED
  BY <1>3, <1>4, <1>6, <1>7, <1>8 DEF StreamInv

LEMMA RestartsKeeps ==
  ASSUME StreamInv, Orderly, NEW B \in SUBSET Bots, Restarts(B), StreamShape'
  PROVE  StreamInv'
<1>1. /\ open /\ queued = <<>> /\ open' = FALSE /\ stream' = <<>>
      /\ run' = run + 1 /\ lastSeq' = 0 /\ buffer' = <<>>
      /\ cursor' = cursor /\ view' = view /\ mode' = mode
      /\ again' = again /\ fallback' = fallback /\ queued' = queued
      /\ load' = IF load.at = "asked" THEN [load EXCEPT !.at = "failed"] ELSE load
      /\ edit' = edit
  BY DEF Restarts, Loses, client, Orderly
<1>2. /\ StreamTypeOK /\ CursorIsPast /\ WriteCounts /\ Connection
  BY DEF StreamInv, StreamShape
<1>3. /\ <<>> \in Seq(Frames \cup Hellos) /\ <<>> \in Seq(Frames) /\ Len(<<>>) = 0
      /\ 0 \in 0 .. MaxFrames /\ 0 <= REPLAY_MAX /\ run + 1 \in Nat
  BY <1>2, StreamAssumption DEF StreamTypeOK
<1>4. /\ truth' \in [Bots -> Version] /\ writes' \in Version
      /\ \A b \in Bots : truth[b] <= truth'[b] /\ truth'[b] <= writes'
  <2>1. /\ truth \in [Bots -> 0 .. MaxWrites] /\ writes \in 0 .. MaxWrites
        /\ MaxWrites \in Nat /\ \A b \in Bots : truth[b] <= writes
    BY <1>2, StreamAssumption DEF StreamTypeOK, Version, WriteCounts
  <2>2. CASE B = {}
    <3>1. truth' = truth /\ writes' = writes
      BY <2>2 DEF Restarts
    <3> QED
      BY <2>1, <3>1 DEF Version
  <2>3. CASE B # {}
    <3>1. /\ writes < MaxWrites /\ writes' = writes + 1
          /\ truth' = [b \in Bots |-> IF b \in B THEN writes + 1 ELSE truth[b]]
      BY <2>3 DEF Restarts
    <3> QED
      BY <2>1, <3>1 DEF Version
  <2> QED
    BY <2>2, <2>3
<1>5. Tells(buffer', truth')
  BY <1>1, <1>3 DEF Tells
<1>6. ~Current' /\ CursorIsPast'
  <2>1. run \in Nat /\ (cursor # None => cursor.run \in Nat)
    BY <1>2 DEF StreamTypeOK, Ids
  <2>2. cursor # None => cursor.run <= run + 1 /\ cursor.run # run + 1
    BY <1>2, <2>1 DEF CursorIsPast
  <2> QED
    BY <1>1, <2>2 DEF Current, CursorIsPast
<1>7. WriteCounts'
  <2> SUFFICES ASSUME NEW b \in Bots, edit[b].at = "answered"
               PROVE  edit[b].value <= truth'[b]
    BY <1>1, <1>4 DEF WriteCounts
  <2>1. edit[b].value <= truth[b] /\ truth[b] <= truth'[b]
    BY <1>2, <1>4 DEF WriteCounts
  <2>2. edit[b].value \in Nat /\ truth[b] \in Nat /\ truth'[b] \in Nat
    BY <1>2, <1>4, StreamAssumption DEF StreamTypeOK, Version
  <2> QED
    BY <2>1, <2>2
<1>8. UnreadIsAhead' /\ ~BadHello' /\ Tells(InTransit', truth')
  BY <1>1, NothingUnread
<1>9. Connection'
  BY <1>1, <1>2, <1>6, <1>8 DEF Connection
<1>10. Synced' /\ Resumes'
  BY <1>1, <1>6 DEF Synced, Resumes
<1> QED
  BY <1>5, <1>6, <1>7, <1>8, <1>9, <1>10 DEF StreamInv

LEMMA AnswersKeeps ==
  ASSUME StreamInv, Answers, StreamShape'
  PROVE  StreamInv'
<1>1. /\ load.at = "asked" /\ load' = [at |-> "answered", bots |-> truth]
      /\ UNCHANGED <<server, client, open, stream, edit>>
  BY DEF Answers
<1>2. /\ StreamTypeOK /\ BufferIsTheTail /\ CursorIsPast /\ UnreadIsAhead /\ WriteCounts
      /\ Connection /\ Synced /\ Resumes
      /\ Tells(buffer, truth) /\ Tells(InTransit, truth)
  BY DEF StreamInv, StreamShape
<1>3. /\ truth' = truth /\ writes' = writes /\ run' = run /\ lastSeq' = lastSeq
      /\ buffer' = buffer /\ cursor' = cursor /\ view' = view /\ mode' = mode
      /\ again' = again /\ fallback' = fallback /\ queued' = queued
      /\ open' = open /\ stream' = stream /\ edit' = edit
  BY <1>1 DEF server, client
<1>4. Unread' = Unread /\ InTransit' = InTransit /\ BadHello' = BadHello
  BY <1>3 DEF Unread, InTransit, BadHello
<1>5. /\ CursorIsPast' /\ UnreadIsAhead' /\ WriteCounts'
      /\ Connection' /\ Resumes' /\ Tells(buffer', truth') /\ Tells(InTransit', truth')
  BY <1>2, <1>3, <1>4, AheadStays, ConnectionStays, ResumesStays
  DEF CursorIsPast, WriteCounts
<1>6. Synced'
  BY <1>1, <1>2, <1>3, <1>4 DEF Synced
<1> QED
  BY <1>5, <1>6 DEF StreamInv

\* What the client shows of a bot, when an answer about it is folded in order,
\* is between what it was and what the server has; what it goes back to is what
\* it showed.
LEMMA EditFoldsKeeps ==
  ASSUME StreamInv, Orderly, NEW b \in Bots, EditFolds(b) \/ EditRereadFails(b),
         StreamShape'
  PROVE  StreamInv'
<1>1. /\ \/ edit[b].at = "answered" /\ view[b] <= edit[b].value
         \/ view[b] = edit[b].value
      /\ view' = [view EXCEPT ![b] = edit[b].value]
      /\ edit' = [edit EXCEPT ![b] = NoEdit]
      /\ truth' = truth /\ writes' = writes /\ run' = run /\ lastSeq' = lastSeq
      /\ buffer' = buffer /\ cursor' = cursor /\ mode' = mode
      /\ again' = again /\ fallback' = fallback /\ queued' = queued
      /\ open' = open /\ stream' = stream /\ load' = load
  BY DEF EditFolds, EditRereadFails, Folds, Orderly, server
<1>2. /\ StreamTypeOK /\ BufferIsTheTail /\ CursorIsPast /\ UnreadIsAhead /\ WriteCounts
      /\ Connection /\ Synced /\ Resumes
      /\ Tells(buffer, truth) /\ Tells(InTransit, truth)
  BY DEF StreamInv, StreamShape
<1>3. Unread' = Unread /\ InTransit' = InTransit /\ BadHello' = BadHello
  BY <1>1 DEF Unread, InTransit, BadHello
<1>4. 0 \in Version /\ \A n \in Version : n \in Nat
  BY StreamAssumption DEF Version
<1>5. /\ view \in [Bots -> Version] /\ truth \in [Bots -> Version]
      /\ edit \in [Bots -> [at : {"none", "asked", "answered"}, value : Version]]
  BY <1>2 DEF StreamTypeOK
<1>6. /\ CursorIsPast' /\ UnreadIsAhead'
      /\ Connection' /\ Tells(buffer', truth') /\ Tells(InTransit', truth')
  BY <1>1, <1>2, <1>3, AheadStays, ConnectionStays DEF CursorIsPast
<1>7. WriteCounts'
  BY <1>1, <1>2, <1>5 DEF WriteCounts, NoEdit
<1>8. ASSUME NEW c \in Bots, view[c] = truth[c]
       PROVE  view'[c] = truth'[c]
  <2>1. CASE c = b
    <3>1. edit[b].value \in Nat /\ truth[b] \in Nat /\ view[b] = truth[b]
      BY <1>4, <1>5, <1>8, <2>1
    <3>2. ASSUME view[b] = edit[b].value PROVE edit[b].value = truth[b]
      BY <3>1, <3>2
    <3>3. ASSUME edit[b].at = "answered", view[b] <= edit[b].value
          PROVE  edit[b].value = truth[b]
      <4>1. edit[b].value <= truth[b]
        BY <1>2, <3>3 DEF WriteCounts
      <4> QED
        BY <3>1, <3>3, <4>1
    <3>4. edit[b].value = truth[b]
      BY <1>1, <3>1, <3>2, <3>3
    <3> QED
      BY <1>1, <1>5, <2>1, <3>4
  <2>2. CASE c # b
    BY <1>1, <1>5, <1>8, <2>2
  <2> QED
    BY <2>1, <2>2
<1>9. Synced'
  BY <1>1, <1>2, <1>3, <1>8 DEF Synced
<1>10. Resumes'
  BY <1>1, <1>2, <1>8 DEF Resumes, Missed, Current
<1> QED
  BY <1>6, <1>7, <1>9, <1>10 DEF StreamInv

LEMMA EditStepsKeep ==
  ASSUME StreamInv, NEW b \in Bots, PersonEdits(b) \/ EditReread(b), StreamShape'
  PROVE  StreamInv'
<1>1. /\ truth' = truth /\ writes' = writes /\ run' = run /\ lastSeq' = lastSeq
      /\ buffer' = buffer /\ cursor' = cursor /\ view' = view /\ mode' = mode
      /\ again' = again /\ fallback' = fallback /\ queued' = queued
      /\ open' = open /\ stream' = stream /\ load' = load
  BY DEF PersonEdits, EditReread, server, client
<1>2. /\ StreamTypeOK /\ BufferIsTheTail /\ CursorIsPast /\ UnreadIsAhead /\ WriteCounts
      /\ Connection /\ Synced /\ Resumes
      /\ Tells(buffer, truth) /\ Tells(InTransit, truth)
  BY DEF StreamInv, StreamShape
<1>3. Unread' = Unread /\ InTransit' = InTransit /\ BadHello' = BadHello
  BY <1>1 DEF Unread, InTransit, BadHello
<1>4. \/ edit' = [edit EXCEPT ![b] = [at |-> "asked", value |-> view[b]]]
      \/ edit' = [edit EXCEPT ![b] = [at |-> "answered", value |-> truth[b]]]
  BY <1>1 DEF PersonEdits, EditReread, Answered
<1>5. /\ 0 \in Version /\ truth \in [Bots -> Version] /\ \A n \in Version : n \in Nat
      /\ edit \in [Bots -> [at : {"none", "asked", "answered"}, value : Version]]
  BY <1>2, StreamAssumption DEF StreamTypeOK, Version
<1>6. WriteCounts'
  <2> SUFFICES ASSUME NEW c \in Bots
               PROVE  edit'[c].at = "answered" => edit'[c].value <= truth[c]
    BY <1>1, <1>2 DEF WriteCounts
  <2>1. edit[c].at = "answered" => edit[c].value <= truth[c]
    BY <1>2 DEF WriteCounts
  <2>2. truth[c] \in Nat
    BY <1>5
  <2> QED
    BY <1>4, <1>5, <2>1, <2>2
<1>7. /\ CursorIsPast' /\ UnreadIsAhead' /\ Connection'
      /\ Synced' /\ Resumes' /\ Tells(buffer', truth') /\ Tells(InTransit', truth')
  BY <1>1, <1>2, <1>3, AheadStays, ConnectionStays, SyncedStays, ResumesStays
  DEF CursorIsPast
<1> QED
  BY <1>6, <1>7 DEF StreamInv

LEMMA FallbackKeeps ==
  ASSUME StreamInv, FallbackFires, StreamShape'
  PROVE  StreamInv'
<1>1. /\ fallback /\ fallback' = FALSE /\ Hydrates
      /\ UNCHANGED <<server, open, stream, cursor, view, queued, edit>>
  BY DEF FallbackFires
<1>2. /\ StreamTypeOK /\ BufferIsTheTail /\ CursorIsPast /\ UnreadIsAhead /\ WriteCounts
      /\ Connection /\ Synced /\ Resumes
      /\ Tells(buffer, truth) /\ Tells(InTransit, truth)
  BY DEF StreamInv, StreamShape
<1>3. mode = "waiting" /\ cursor = None /\ queued = <<>>
  BY <1>1, <1>2 DEF Connection
<1>4. /\ mode' = "loading" /\ load' = Asked /\ again' = again
      /\ truth' = truth /\ writes' = writes /\ run' = run /\ lastSeq' = lastSeq
      /\ buffer' = buffer /\ cursor' = cursor /\ view' = view
      /\ queued' = queued /\ open' = open /\ stream' = stream /\ edit' = edit
  BY <1>1, <1>3 DEF Hydrates, server
<1>5. Unread' = Unread /\ InTransit' = InTransit /\ BadHello' = BadHello /\ ~Current'
  BY <1>3, <1>4 DEF Unread, InTransit, BadHello, Current
<1>6. /\ CursorIsPast' /\ UnreadIsAhead' /\ WriteCounts'
      /\ Tells(buffer', truth') /\ Tells(InTransit', truth')
  BY <1>2, <1>4, <1>5, AheadStays DEF CursorIsPast, WriteCounts
<1>7. Connection'
  BY <1>1, <1>2, <1>4, <1>5 DEF Connection
<1>8. Synced'
  BY <1>2, <1>3, <1>4, <1>5 DEF Synced
<1>9. Resumes'
  BY <1>4 DEF Resumes
<1> QED
  BY <1>6, <1>7, <1>8, <1>9 DEF StreamInv

LEMMA HelloKeeps ==
  ASSUME StreamInv, ReadsHello, StreamShape'
  PROVE  StreamInv'
<1>1. /\ Greets(stream) /\ stream' = Tail(stream) /\ fallback' = FALSE
      /\ IF Head(stream).resumed THEN UNCHANGED <<mode, load, again>> ELSE Hydrates
      /\ UNCHANGED <<server, cursor, view, queued, open, edit>>
  BY DEF ReadsHello, Greets
<1>2. /\ StreamTypeOK /\ Unread \in Seq(Frames) /\ CursorIsPast /\ UnreadIsAhead /\ WriteCounts
      /\ Connection /\ Synced /\ Resumes
      /\ Tells(buffer, truth) /\ Tells(InTransit, truth)
  BY DEF StreamInv, StreamShape
<1>3. /\ truth' = truth /\ writes' = writes /\ run' = run /\ lastSeq' = lastSeq
      /\ buffer' = buffer /\ cursor' = cursor /\ view' = view
      /\ queued' = queued /\ open' = open /\ edit' = edit
  BY <1>1 DEF server
<1>4. open /\ open'
  BY <1>1, <1>2, <1>3 DEF Connection, Greets
<1>5. /\ stream' = Unread /\ stream' \in Seq(Frames)
      /\ Unread' = Unread /\ ~BadHello' /\ InTransit' = InTransit
  <2>1. stream' = Unread /\ stream' \in Seq(Frames)
    BY <1>1, <1>2 DEF Unread, Rest
  <2>2. ~Greets(stream') /\ Rest(stream') = stream'
    BY <2>1, RestOfFrames
  <2>3. Unread' = Unread /\ ~BadHello'
    BY <2>1, <2>2 DEF Unread, BadHello
  <2> QED
    BY <1>3, <2>1, <2>3 DEF InTransit
<1>6. Asked \in [at : {"none", "asked", "answered", "failed"}, bots : [Bots -> Version]]
      /\ Asked.at = "asked"
  BY StreamAssumption DEF Asked, Blank, Version
<1>7. Current' <=> Current
  BY <1>3 DEF Current
<1>8. /\ CursorIsPast' /\ UnreadIsAhead' /\ WriteCounts'
      /\ Tells(buffer', truth') /\ Tells(InTransit', truth')
  BY <1>2, <1>3, <1>5, AheadStays DEF CursorIsPast, WriteCounts
<1>9. Resumes'
  BY <1>4 DEF Resumes
<1>10. CASE Head(stream).resumed
  <2>1. mode' = mode /\ load' = load /\ again' = again /\ ~BadHello
    BY <1>1, <1>10 DEF BadHello
  <2>2. Connection'
    BY <1>1, <1>2, <1>3, <1>4, <1>5, <1>7, <2>1 DEF Connection
  <2>3. Synced'
    BY <1>2, <1>3, <1>4, <1>5, <2>1 DEF Synced
  <2> QED
    BY <1>8, <1>9, <2>2, <2>3 DEF StreamInv
<1>11. CASE ~Head(stream).resumed
  <2>1. Hydrates /\ ~Current /\ queued = <<>>
    BY <1>1, <1>2, <1>11 DEF Connection, BadHello
  <2>2. /\ mode' = "loading"
        /\ \/ mode = "loading" /\ again' = TRUE /\ load' = load
           \/ mode # "loading" /\ again' = again /\ load' = Asked
    BY <2>1 DEF Hydrates
  <2>3. Connection'
    BY <1>1, <1>2, <1>3, <1>4, <1>5, <1>7, <2>1, <2>2 DEF Connection
  <2>4. Synced'
    BY <1>6, <2>2 DEF Synced
  <2> QED
    BY <1>8, <1>9, <2>3, <2>4 DEF StreamInv
<1> QED
  BY <1>10, <1>11

\* The next frame, and the rest of them, seen from a cursor at that frame.
LEMMA NextUnread ==
  ASSUME StreamInv, stream # <<>>, Head(stream) \notin Hellos
  PROVE  /\ open /\ ~BadHello /\ Unread = stream /\ stream \in Seq(Frames)
         /\ mode \in {"loading", "hydrated"}
         /\ Head(stream) \in Frames /\ IsAhead(Head(stream))
         /\ Tail(stream) \in Seq(Frames) /\ Ascends(Tail(stream))
         /\ \A i \in 1 .. Len(Tail(stream)) :
              /\ IsAhead(Tail(stream)[i])
              /\ Tail(stream)[i].id.seq > Head(stream).id.seq
<1>1. /\ open /\ ~BadHello /\ Unread = stream /\ stream \in Seq(Frames)
      /\ mode \in {"loading", "hydrated"}
  BY NextFrame DEF StreamInv
<1>2. /\ stream \in Seq(Frames) /\ Ascends(stream)
      /\ \A i \in 1 .. Len(stream) : IsAhead(stream[i])
  BY <1>1 DEF StreamInv, UnreadIsAhead
<1> DEFINE r == Tail(stream)
<1>3. /\ Head(stream) \in Frames /\ r \in Seq(Frames)
      /\ Len(stream) \in Nat \ {0} /\ Len(r) = Len(stream) - 1
      /\ Head(stream) = stream[1]
      /\ \A i \in 1 .. Len(r) : r[i] = stream[i + 1] /\ i + 1 \in 1 .. Len(stream)
  BY <1>2, TailFacts
<1> HIDE DEF r
<1>4. 1 \in 1 .. Len(stream)
  BY <1>3
<1>5. IsAhead(Head(stream))
  BY <1>2, <1>3, <1>4
<1>6. ASSUME NEW i \in 1 .. Len(r)
      PROVE  IsAhead(r[i]) /\ r[i].id.seq > Head(stream).id.seq
  <2>1. r[i] = stream[i + 1] /\ i + 1 \in 1 .. Len(stream) /\ 1 < i + 1
    BY <1>3
  <2>2. stream[1].id.seq < stream[i + 1].id.seq
    BY <1>2, <1>4, <2>1 DEF Ascends
  <2>3. stream[1].id.seq \in Nat /\ stream[i + 1].id.seq \in Nat
    BY <1>2, <1>4, <2>1, InFrames
  <2> QED
    BY <1>2, <1>3, <2>1, <2>2, <2>3
<1>7. Ascends(r)
  <2>1. ASSUME NEW i \in 1 .. Len(r), NEW j \in 1 .. Len(r), i < j
        PROVE  r[i].id.seq < r[j].id.seq
    <3>1. /\ i + 1 \in 1 .. Len(stream) /\ j + 1 \in 1 .. Len(stream) /\ i + 1 < j + 1
          /\ r[i] = stream[i + 1] /\ r[j] = stream[j + 1]
      BY <1>3, <2>1
    <3> QED
      BY <1>2, <3>1 DEF Ascends
  <2> QED
    BY <2>1 DEF Ascends
<1> QED
  BY <1>1, <1>3, <1>5, <1>6, <1>7 DEF r

LEMMA FrameKeeps ==
  ASSUME StreamInv, ReadsFrame, StreamShape'
  PROVE  StreamInv'
<1>1. PICK f : f = Head(stream)
  OBVIOUS
<1>2. /\ stream # <<>> /\ Head(stream) \notin Hellos
      /\ cursor' = f.id
      /\ view' = IF mode = "hydrated" THEN Folded(view, f) ELSE view
      /\ queued' = IF mode = "hydrated" THEN queued ELSE Append(queued, f)
      /\ stream' = Tail(stream)
      /\ truth' = truth /\ writes' = writes /\ run' = run /\ lastSeq' = lastSeq
      /\ buffer' = buffer /\ mode' = mode /\ again' = again /\ fallback' = fallback
      /\ open' = open /\ load' = load /\ edit' = edit
  BY <1>1 DEF ReadsFrame, server
<1>3. /\ StreamTypeOK /\ BufferIsTheTail /\ CursorIsPast /\ UnreadIsAhead /\ WriteCounts
      /\ Connection /\ Synced /\ Resumes
      /\ Tells(buffer, truth) /\ Tells(InTransit, truth)
  BY DEF StreamInv, StreamShape
<1>4. /\ open /\ ~BadHello /\ Unread = stream /\ stream \in Seq(Frames)
      /\ mode \in {"loading", "hydrated"} /\ f \in Frames /\ IsAhead(f)
      /\ stream' \in Seq(Frames) /\ Ascends(stream')
      /\ \A i \in 1 .. Len(stream') :
           IsAhead(stream'[i]) /\ stream'[i].id.seq > f.id.seq
  BY <1>1, <1>2, NextUnread
<1>5. Unread' = stream' /\ ~BadHello'
  <2>1. ~Greets(stream') /\ Rest(stream') = stream'
    BY <1>4, RestOfFrames
  <2> QED
    BY <2>1 DEF Unread, BadHello
<1>6. /\ queued \in Seq(Frames) /\ view \in Views
      /\ f.id \in Ids /\ f.id.seq \in Nat /\ f.id.run = run /\ f.id.seq <= lastSeq
      /\ run \in Nat
  <2>1. queued \in Seq(Frames) /\ view \in Views /\ run \in Nat
    BY <1>3 DEF StreamTypeOK, Views
  <2>2. f.id \in Ids /\ f.id.seq \in Nat
    BY <1>4, StreamAssumption DEF Frames, Ids
  <2> QED
    BY <1>4, <2>1, <2>2 DEF IsAhead
<1>7. Folded(view, f) \in Views
      /\ \A b \in Bots : Folded(view, f)[b] = IF f.bot = b THEN f.value ELSE view[b]
  BY <1>4, <1>6, FoldedType
<1>8. CursorIsPast' /\ WriteCounts' /\ Tells(buffer', truth')
  BY <1>2, <1>3, <1>6 DEF CursorIsPast, WriteCounts
<1>9. UnreadIsAhead'
  <2>1. ASSUME NEW i \in 1 .. Len(Unread')
        PROVE  IsAhead(Unread[i])'
    <3>1. IsAhead(stream'[i]) /\ stream'[i].id.seq > f.id.seq /\ Unread'[i] = stream'[i]
      BY <1>4, <1>5, <2>1
    <3> QED
      BY <1>2, <3>1 DEF IsAhead
  <2> QED
    BY <1>4, <1>5, <2>1 DEF UnreadIsAhead
<1>10. Connection'
  <2>1. mode' = "loading" => queued' # <<>>
    BY <1>2, <1>6
  <2>2. mode' # "waiting" /\ ~fallback'
    BY <1>2, <1>3, <1>4 DEF Connection
  <2> QED
    BY <1>2, <1>4, <1>5, <2>1, <2>2 DEF Connection
<1>11. Resumes'
  BY <1>2, <1>4 DEF Resumes
<1>12. CASE mode = "loading"
  <2>1. queued' = Append(queued, Head(stream)) /\ view' = view
    BY <1>1, <1>2, <1>12
  <2>2. InTransit' = InTransit
    BY <1>2, <1>4, <1>5, <1>6, <2>1, JoinShift DEF InTransit
  <2>3. Synced'
    BY <1>2, <1>3, <1>4, <1>12, <2>2 DEF Synced
  <2>4. Tells(InTransit', truth')
    BY <1>2, <1>3, <2>2
  <2> QED
    BY <1>8, <1>9, <1>10, <1>11, <2>3, <2>4 DEF StreamInv
<1>13. CASE mode = "hydrated"
  <2>1. queued = <<>> /\ queued' = <<>> /\ view' = Folded(view, f)
    BY <1>2, <1>3, <1>13 DEF StreamTypeOK
  <2>2. InTransit = stream /\ InTransit' = stream'
    <3>1. <<>> \o stream = stream
      BY <1>4
    <3>2. <<>> \o stream' = stream'
      BY <1>4
    <3> QED
      BY <1>4, <1>5, <2>1, <3>1, <3>2 DEF InTransit
  <2>3. Tells(InTransit', truth')
    BY <1>2, <1>3, <1>4, <2>2, TailTells
  <2>4. ASSUME NEW b \in Bots
        PROVE  Names(Unread', b) \/ view'[b] = truth'[b]
    <3>1. CASE Names(stream', b)
      BY <1>5, <3>1
    <3>2. CASE ~Names(stream', b) /\ f.bot = b
      <4>1. /\ 1 \in 1 .. Len(stream) /\ stream[1] = f /\ Len(stream) \in Nat
            /\ \A i \in 1 .. Len(stream') : stream'[i] = stream[i + 1]
            /\ Len(stream') = Len(stream) - 1
        BY <1>1, <1>2, <1>4, TailFacts
      <4>2. ASSUME NEW j \in 1 .. Len(stream), 1 < j
            PROVE  stream[j].bot # f.bot
        <5>1. j - 1 \in 1 .. Len(stream') /\ stream'[j - 1] = stream[j]
          BY <4>1, <4>2
        <5> QED
          BY <3>2, <5>1 DEF Names
      <4>3. IsLast(stream, 1)
        BY <4>1, <4>2 DEF IsLast
      <4>4. f.value = truth[b]
        BY <1>3, <2>2, <3>2, <4>1, <4>3, StreamAssumption DEF Tells
      <4> QED
        BY <1>2, <1>7, <2>1, <3>2, <4>4
    <3>3. CASE ~Names(stream', b) /\ f.bot # b
      <4>1. ~Names(stream, b)
        BY <1>1, <1>2, <1>4, <3>3, TailNames
      <4>2. view[b] = truth[b]
        BY <1>3, <1>4, <1>13, <4>1 DEF Synced
      <4> QED
        BY <1>2, <1>7, <2>1, <3>3, <4>2
    <3> QED
      BY <3>1, <3>2, <3>3
  <2>5. Synced'
    BY <1>2, <1>13, <2>4 DEF Synced
  <2> QED
    BY <1>8, <1>9, <1>10, <1>11, <2>3, <2>5 DEF StreamInv
<1> QED
  BY <1>4, <1>12, <1>13

LEMMA LoadFailsKeeps ==
  ASSUME StreamInv, Orderly, LoadFails, StreamShape'
  PROVE  StreamInv'
<1>1. /\ load.at \in {"asked", "answered"} /\ ~open
      /\ load' = [at |-> "failed", bots |-> Blank]
      /\ truth' = truth /\ writes' = writes /\ run' = run /\ lastSeq' = lastSeq
      /\ buffer' = buffer /\ cursor' = cursor /\ view' = view /\ mode' = mode
      /\ again' = again /\ fallback' = fallback /\ queued' = queued
      /\ open' = open /\ stream' = stream /\ edit' = edit
  BY DEF LoadFails, Orderly, server, client
<1>2. /\ StreamTypeOK /\ BufferIsTheTail /\ CursorIsPast /\ UnreadIsAhead /\ WriteCounts
      /\ Connection /\ Resumes /\ Tells(buffer, truth) /\ Tells(InTransit, truth)
  BY DEF StreamInv, StreamShape
<1>3. Unread' = Unread /\ InTransit' = InTransit
  BY <1>1 DEF Unread, InTransit
<1>4. /\ CursorIsPast' /\ UnreadIsAhead' /\ WriteCounts'
      /\ Connection' /\ Resumes' /\ Tells(buffer', truth') /\ Tells(InTransit', truth')
  BY <1>1, <1>2, <1>3, AheadStays, ConnectionStays, ResumesStays
  DEF CursorIsPast, WriteCounts
<1>5. Synced'
  BY <1>1 DEF Synced
<1> QED
  BY <1>4, <1>5 DEF StreamInv

LEMMA SettlesKeeps ==
  ASSUME StreamInv, Settles, StreamShape'
  PROVE  StreamInv'
<1>1. PICK snapshot : snapshot = IF load.at = "answered" THEN load.bots ELSE view
  OBVIOUS
<1>2. /\ load.at \in {"answered", "failed"}
      /\ truth' = truth /\ writes' = writes /\ run' = run /\ lastSeq' = lastSeq
      /\ buffer' = buffer /\ cursor' = cursor /\ fallback' = fallback
      /\ open' = open /\ stream' = stream /\ edit' = edit
  BY DEF Settles, server
<1>3. /\ StreamTypeOK /\ BufferIsTheTail /\ CursorIsPast /\ UnreadIsAhead /\ WriteCounts
      /\ Connection /\ Synced /\ Tells(buffer, truth) /\ Tells(InTransit, truth)
  BY DEF StreamInv, StreamShape
<1>4. mode = "loading" /\ queued \in Seq(Frames) /\ Unread \in Seq(Frames)
  BY <1>2, <1>3 DEF StreamInv, StreamShape, StreamTypeOK
<1>5. snapshot \in Views
  BY <1>1, <1>3 DEF StreamTypeOK, Views
<1>6. /\ CursorIsPast' /\ WriteCounts' /\ Tells(buffer', truth')
  BY <1>2, <1>3 DEF CursorIsPast, WriteCounts
<1>7. Unread' = Unread /\ BadHello' = BadHello /\ Current' = Current
  BY <1>2 DEF Unread, BadHello, Current
<1>8. UnreadIsAhead'
  BY <1>2, <1>3, <1>7, AheadStays
<1>9. CASE again
  <2>1. /\ view' = snapshot /\ load' = Asked /\ again' = FALSE
        /\ mode' = mode /\ queued' = queued
    BY <1>1, <1>9 DEF Settles
  <2>2. Asked \in [at : {"none", "asked", "answered", "failed"}, bots : [Bots -> Version]]
        /\ Asked.at = "asked"
    BY StreamAssumption DEF Asked, Blank, Version
  <2>3. InTransit' = InTransit
    BY <1>7, <2>1 DEF InTransit
  <2>4. Connection'
    BY <1>2, <1>3, <2>1, ConnectionStays
  <2>5. Synced' /\ Resumes'
    BY <1>4, <2>1, <2>2 DEF Synced, Resumes
  <2> QED
    BY <1>2, <1>3, <1>6, <1>8, <2>3, <2>4, <2>5 DEF StreamInv
<1>10. CASE ~again
  <2>1. /\ view' = FoldedAll(snapshot, queued) /\ mode' = "hydrated" /\ load' = NoLoad
        /\ queued' = <<>> /\ again' = again
    BY <1>1, <1>10 DEF Settles
  <2>2. InTransit' = Unread
    <3>1. <<>> \o Unread = Unread
      BY <1>4
    <3> QED
      BY <1>7, <2>1, <3>1 DEF InTransit
  <2>3. Tells(InTransit', truth')
    <3>1. Tells(queued \o Unread, truth)
      BY <1>3 DEF InTransit
    <3>2. Tells(Unread, truth)
      BY <1>4, <3>1, JoinTells
    <3> QED
      BY <1>2, <2>2, <3>2
  <2>4. ~fallback
    BY <1>3, <1>4 DEF Connection
  <2>5. Connection'
    BY <1>2, <1>3, <1>7, <2>1, <2>4 DEF Connection
  <2>6. Synced'
    <3> SUFFICES ASSUME open, ~BadHello, NEW b \in Bots, ~Names(Unread, b)
                 PROVE  view'[b] = truth[b]
      BY <1>2, <1>7, <2>1 DEF Synced
    <3>1. load.at = "answered" /\ (Names(InTransit, b) \/ load.bots[b] = truth[b])
      BY <1>2, <1>3, <1>4, <1>10 DEF Synced
    <3>2. Names(queued \o Unread, b) \/ snapshot[b] = truth[b]
      BY <1>1, <3>1 DEF InTransit
    <3>3. Tells(queued \o Unread, truth)
      BY <1>3 DEF InTransit
    <3>4. FoldedAll(snapshot, queued)[b] = truth[b]
      BY <1>4, <1>5, <3>2, <3>3, FoldMeets
    <3> QED
      BY <2>1, <3>4
  <2>7. Resumes'
    <3> SUFFICES ASSUME ~open, Current PROVE FALSE
      BY <1>2, <1>7 DEF Resumes
    <3> QED
      BY <1>3, <1>4 DEF Connection
  <2> QED
    BY <1>6, <1>8, <2>3, <2>5, <2>6, <2>7 DEF StreamInv
<1> QED
  BY <1>9, <1>10

LEMMA StutterKeeps ==
  ASSUME StreamInv, UNCHANGED streamVars, StreamShape'
  PROVE  StreamInv'
<1>1. UNCHANGED <<truth, writes, run, lastSeq, buffer, cursor, view, mode, again,
                  fallback, queued, open, stream, load, edit>>
  BY DEF streamVars, server, client
<1>2. Unread' = Unread /\ InTransit' = InTransit
  BY <1>1 DEF Unread, InTransit
<1> QED
  BY <1>1, <1>2, AheadStays, ConnectionStays, SyncedStays, ResumesStays
  DEF StreamInv, CursorIsPast, WriteCounts

LEMMA StepKeeps ==
  ASSUME StreamInv, Orderly, [StreamNext]_streamVars
  PROVE  StreamInv'
<1>1. StreamShape'
  BY StepShapes DEF StreamInv
<1>2. ASSUME NEW b \in Bots, BotWrites(b)
      PROVE  StreamInv'
  <2>1. Saved(b) /\ UNCHANGED <<run, client, open, load>> /\ UNCHANGED edit
    BY <1>2 DEF BotWrites
  <2> QED
    BY <1>1, <2>1, SavedKeeps
<1>3. ASSUME NEW b \in Bots, EditSaved(b)
      PROVE  StreamInv'
  <2>1. /\ Saved(b) /\ UNCHANGED <<run, client, open, load>>
        /\ edit' = [edit EXCEPT ![b] = [at |-> "answered", value |-> truth'[b]]]
    BY <1>3 DEF EditSaved, Answered
  <2> QED
    BY <1>1, <2>1, SavedKeeps
<1>4. ASSUME NEW b \in Bots, PersonEdits(b) \/ EditReread(b)
      PROVE  StreamInv'
  BY <1>1, <1>4, EditStepsKeep
<1>5. ASSUME NEW b \in Bots, EditFolds(b) \/ EditRereadFails(b)
      PROVE  StreamInv'
  BY <1>1, <1>5, EditFoldsKeeps
<1>6. ASSUME NEW B \in SUBSET Bots, Restarts(B)
      PROVE  StreamInv'
  BY <1>1, <1>6, RestartsKeeps
<1>7. CASE Captures
  BY <1>1, <1>7, CapturesKeeps
<1>8. CASE Connects
  BY <1>1, <1>8, ConnectsKeeps
<1>9. CASE Drops
  BY <1>1, <1>9, DropsKeeps
<1>10. CASE FallbackFires
  BY <1>1, <1>10, FallbackKeeps
<1>11. CASE ReadsHello
  BY <1>1, <1>11, HelloKeeps
<1>12. CASE ReadsFrame
  BY <1>1, <1>12, FrameKeeps
<1>13. CASE Answers
  BY <1>1, <1>13, AnswersKeeps
<1>14. CASE LoadFails
  BY <1>1, <1>14, LoadFailsKeeps
<1>15. CASE Settles
  BY <1>1, <1>15, SettlesKeeps
<1>16. CASE UNCHANGED streamVars
  BY <1>1, <1>16, StutterKeeps
<1> QED
  BY <1>2, <1>3, <1>4, <1>5, <1>6, <1>7, <1>8, <1>9, <1>10, <1>11, <1>12, <1>13,
     <1>14, <1>15, <1>16
  DEF StreamNext

LEMMA InvShowsTruth ==
  ASSUME StreamInv
  PROVE  InSync
<1> SUFFICES ASSUME open, stream = <<>>, mode = "hydrated"
             PROVE  view = truth
  BY DEF InSync
<1>1. ~BadHello /\ Unread = <<>>
  BY DEF BadHello, Greets, Unread, Rest
<1>2. \A b \in Bots : Names(Unread, b) \/ view[b] = truth[b]
  BY <1>1 DEF StreamInv, Synced
<1>3. \A b : ~Names(Unread, b)
  BY <1>1 DEF Names
<1>4. view \in Views /\ truth \in Views
  BY InvFacts
<1> QED
  BY <1>2, <1>4, <1>3 DEF Views

\* The server's buffer is the tail of what its run has numbered, without a
\* gap, and a client that has not loaded anything yet is on a connection that
\* told it to: whatever is lost, fails or comes late (index.ts, broadcast and
\* the greeting of GET /api/events; store.tsx, hydrate).
THEOREM StreamShapes == StreamSpec => []StreamShape
<1>1. StreamInit => StreamShape
  BY InitMeetsShape
<1>2. StreamShape /\ [StreamNext]_streamVars => StreamShape'
  BY StepShapes
<1> QED
  BY <1>1, <1>2, PTL DEF StreamSpec

\* Type correctness of the server, the connection and the client.
THEOREM StreamTyped == StreamSpec => []StreamTypeOK
<1>1. StreamShape => StreamTypeOK
  BY DEF StreamShape
<1> QED
  BY <1>1, StreamShapes, PTL

\* On an orderly connection every record the client does not show as it is,
\* is named by a frame on its way to the view, or was not told because the
\* connection is down and will be in the replay, or waits for a snapshot that
\* is not back; and the last frame on its way that names it tells the truth.
THEOREM StreamInvAlways == Orderly => (StreamSpec => []StreamInv)
<1> SUFFICES ASSUME Orderly PROVE StreamSpec => []StreamInv
  OBVIOUS
<1>1. StreamInit => StreamInv
  BY InitMeetsInv
<1>2. StreamInv /\ [StreamNext]_streamVars => StreamInv'
  BY StepKeeps
<1> QED
  BY <1>1, <1>2, PTL DEF StreamSpec

\* store.tsx, "A snapshot and the live fold have to meet at a defined
\* boundary": once everything sent on an orderly connection is read and
\* folded, the client shows what the server has.
THEOREM InSyncAlways == Orderly => (StreamSpec => []InSync)
<1>1. StreamInv => InSync
  BY InvShowsTruth
<1> QED
  BY <1>1, StreamInvAlways, PTL

=============================================================================
