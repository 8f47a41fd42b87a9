---------------------------- MODULE EventStream -----------------------------
(***************************************************************************)
(* The window's copy of the server's bots.  The server numbers every frame *)
(* it broadcasts and keeps the last few for clients that come back         *)
(* (server/index.ts); the client loads a snapshot over REST, folds frames  *)
(* on top of it (src/state/store.tsx) and folds the answers to its own     *)
(* edits (src/state/bot-patch-queue.ts).  Snapshot, frames and answers     *)
(* come over connections of their own, in any order.  A frame carries the  *)
(* whole record it is about, so a record is the number of its last write.  *)
(***************************************************************************)
EXTENDS Naturals, Sequences

CONSTANTS
  Bots,       \* records the client shows
  None,       \* no cursor; the subject of a screen frame
  REPLAY_MAX, \* frames the server keeps
  MaxWrites,  \* bound: numbered writes, over all runs of the server
  MaxFrames,  \* bound: frames of one run of the server
  MaxDrops,   \* bound: times the connection is lost
  MaxEdits,   \* bound: edits the person makes
  Gaps,          \* the connection may be lost while frames are queued
  LoadsFail,     \* a snapshot may fail while the stream stays up
  LateResponses  \* an edit's answer may come after a newer frame of its bot, and
                 \* the copy kept for want of one be older than what is shown

ASSUME StreamAssumption ==
  /\ REPLAY_MAX \in Nat \ {0} /\ {Gaps, LoadsFail, LateResponses} \subseteq BOOLEAN
  /\ MaxWrites \in Nat /\ MaxFrames \in Nat /\ MaxDrops \in Nat /\ MaxEdits \in Nat
  /\ None \notin Bots

VARIABLES
  truth,    \* the server's record of each bot
  writes,   \* writes so far
  run,      \* STREAM_ID
  lastSeq,  \* of this run
  buffer,   \* replayBuffer
  open,     \* the client is in sseClients
  stream,   \* what is written to it and not yet read
  cursor,   \* the browser's Last-Event-ID
  view,     \* the client's copy
  mode,     \* "waiting" before the first load, "loading", "hydrated"
  again,    \* rehydrateRequested
  fallback, \* the fallback timer is armed
  queued,   \* pendingFrames
  load,     \* the snapshot request
  edit,     \* a bot's edit in flight, and the bot to show when it ends
  drops, edits

server == <<truth, writes, run, lastSeq, buffer>>
client == <<cursor, view, mode, again, fallback, queued>>
streamVars == <<server, client, open, stream, load, edit, drops, edits>>

Version == 0 .. MaxWrites
Blank == [b \in Bots |-> 0]
Ids == [run : Nat, seq : 1 .. MaxFrames]
Frames == [id : Ids, bot : Bots \cup {None}, value : Version]
Hellos == [resumed : BOOLEAN]

NoLoad == [at |-> "none", bots |-> Blank]
Asked == [at |-> "asked", bots |-> Blank]
NoEdit == [at |-> "none", value |-> 0]

StreamTypeOK ==
  /\ truth \in [Bots -> Version] /\ writes \in Version /\ run \in Nat
  /\ lastSeq \in 0 .. MaxFrames
  /\ buffer \in Seq(Frames) /\ Len(buffer) <= REPLAY_MAX
  /\ open \in BOOLEAN /\ stream \in Seq(Frames \cup Hellos)
  /\ cursor \in Ids \cup {None}
  /\ view \in [Bots -> Version]
  /\ mode \in {"waiting", "loading", "hydrated"}
  /\ again \in BOOLEAN /\ (again => mode = "loading")
  /\ fallback \in BOOLEAN
  /\ queued \in Seq(Frames) /\ (queued # <<>> => mode = "loading")
  /\ load \in [at : {"none", "asked", "answered", "failed"},
               bots : [Bots -> Version]]
  /\ load.at # "none" <=> mode = "loading"
  /\ edit \in [Bots -> [at : {"none", "asked", "answered"}, value : Version]]

StreamInit ==
  /\ truth = Blank /\ writes = 0 /\ run = 0 /\ lastSeq = 0 /\ buffer = <<>>
  /\ open = FALSE /\ stream = <<>> /\ cursor = None
  /\ view = Blank /\ mode = "waiting" /\ again = FALSE /\ fallback = TRUE
  /\ queued = <<>> /\ load = NoLoad /\ edit = [b \in Bots |-> NoEdit]
  /\ drops = 0 /\ edits = 0

-----------------------------------------------------------------------------
(* The server.                                                             *)

\* broadcast
Broadcast(b, value) ==
  LET f == [id |-> [run |-> run, seq |-> lastSeq + 1], bot |-> b, value |-> value]
      longer == Append(buffer, f) IN
  /\ lastSeq < MaxFrames
  /\ lastSeq' = lastSeq + 1
  /\ buffer' = IF Len(longer) > REPLAY_MAX THEN Tail(longer) ELSE longer
  /\ stream' = IF open THEN Append(stream, f) ELSE stream

\* Every write of the store is followed by its frame.
Saved(b) ==
  /\ writes < MaxWrites /\ writes' = writes + 1
  /\ truth' = [truth EXCEPT ![b] = writes + 1]
  /\ Broadcast(b, writes + 1)

BotWrites(b) ==
  /\ Saved(b)
  /\ UNCHANGED <<run, client, open, load, edit, drops, edits>>

\* A screen frame takes a number and its pixels are not kept.
Captures ==
  /\ Broadcast(None, 0)
  /\ UNCHANGED <<truth, writes, run, client, open, load, edit, drops, edits>>

\* Fault: one frame more than the buffer holds is taken for replayable.
ResumableOffByOne ==
  /\ cursor # None /\ cursor.run = run /\ cursor.seq <= lastSeq
  /\ IF buffer = <<>> THEN cursor.seq = lastSeq
     ELSE buffer[1].id.seq <= cursor.seq + 2

\* May the server replay what came after the cursor?
Resumable ==
  /\ cursor # None /\ cursor.run = run /\ cursor.seq <= lastSeq
  /\ IF buffer = <<>> THEN cursor.seq = lastSeq
     ELSE buffer[1].id.seq <= cursor.seq + 1

\* What of fs came after seq and was kept: the loop over the buffer.
MissedSince(seq, fs) ==
  LET upTo[n \in 0 .. Len(fs)] ==
        IF n = 0 THEN <<>>
        ELSE IF fs[n].id.seq > seq /\ fs[n].bot # None THEN Append(upTo[n - 1], fs[n])
        ELSE upTo[n - 1]
  IN  upTo[Len(fs)]

Replay == IF Resumable THEN MissedSince(cursor.seq, buffer) ELSE <<>>

\* GET /api/events: hello, what was missed, and from then on every frame.
Connects ==
  /\ ~open /\ open' = TRUE
  /\ stream' = <<[resumed |-> Resumable]>> \o Replay
  /\ UNCHANGED <<server, client, load, edit, drops, edits>>

Loses ==
  /\ open /\ drops < MaxDrops
  /\ Gaps \/ queued = <<>>
  /\ open' = FALSE /\ stream' = <<>> /\ drops' = drops + 1

Drops ==
  /\ Loses
  /\ UNCHANGED <<server, client, load, edit, edits>>

\* A new server numbers from 1 under a new id.  Some records are reset while
\* they are loaded (no turn survives), and nobody is told.  What had been
\* asked of the old one fails.
Restarts(B) ==
  /\ Loses
  /\ run' = run + 1 /\ lastSeq' = 0 /\ buffer' = <<>>
  /\ IF B = {} THEN UNCHANGED <<truth, writes>>
     ELSE /\ writes < MaxWrites /\ writes' = writes + 1
          /\ truth' = [b \in Bots |-> IF b \in B THEN writes + 1 ELSE truth[b]]
  /\ load' = IF load.at = "asked" THEN [load EXCEPT !.at = "failed"] ELSE load
  /\ UNCHANGED <<client, edit, edits>>

\* GET /api/bots
Answers ==
  /\ load.at = "asked"
  /\ load' = [at |-> "answered", bots |-> truth]
  /\ UNCHANGED <<server, client, open, stream, edit, drops, edits>>

\* PATCH /api/bots/:id.  After a failed request the client reads the bot again,
\* of whichever server answers.
Answered(b) == edit' = [edit EXCEPT ![b] = [at |-> "answered", value |-> truth'[b]]]

EditSaved(b) ==
  /\ edit[b].at = "asked"
  /\ Saved(b)
  /\ Answered(b)
  /\ UNCHANGED <<run, client, open, load, drops, edits>>

EditReread(b) ==
  /\ edit[b].at = "asked"
  /\ UNCHANGED server
  /\ Answered(b)
  /\ UNCHANGED <<client, open, stream, load, drops, edits>>

-----------------------------------------------------------------------------
(* The client.                                                             *)

\* Fault: a second gap during a load is forgotten.
HydratesOnce ==
  IF mode = "loading"
  THEN UNCHANGED <<again, mode, load>>
  ELSE mode' = "loading" /\ load' = Asked /\ UNCHANGED again

\* hydrate
Hydrates ==
  IF mode = "loading"
  THEN again' = TRUE /\ UNCHANGED <<mode, load>>
  ELSE mode' = "loading" /\ load' = Asked /\ UNCHANGED again

FallbackFires ==
  /\ fallback /\ fallback' = FALSE
  /\ Hydrates
  /\ UNCHANGED <<server, open, stream, cursor, view, queued, edit, drops, edits>>

ReadsHello ==
  /\ stream # <<>> /\ Head(stream) \in Hellos
  /\ stream' = Tail(stream)
  /\ fallback' = FALSE
  /\ IF Head(stream).resumed THEN UNCHANGED <<mode, load, again>> ELSE Hydrates
  /\ UNCHANGED <<server, cursor, view, queued, open, edit, drops, edits>>

\* handleFrame
Folded(v, f) == IF f.bot = None THEN v ELSE [v EXCEPT ![f.bot] = f.value]

\* handleFrame of each frame in its turn.
FoldedAll(v, fs) ==
  LET upTo[n \in 0 .. Len(fs)] == IF n = 0 THEN v ELSE Folded(upTo[n - 1], fs[n])
  IN  upTo[Len(fs)]

ReadsFrame ==
  /\ stream # <<>> /\ Head(stream) \notin Hellos
  /\ LET f == Head(stream) IN
     /\ cursor' = f.id
     /\ view' = IF mode = "hydrated" THEN Folded(view, f) ELSE view
     /\ queued' = IF mode = "hydrated" THEN queued ELSE Append(queued, f)
  /\ stream' = Tail(stream)
  /\ UNCHANGED <<server, mode, again, fallback, open, load, edit, drops, edits>>

LoadFails ==
  /\ load.at \in {"asked", "answered"} /\ (LoadsFail \/ ~open)
  /\ load' = [at |-> "failed", bots |-> Blank]
  /\ UNCHANGED <<server, client, open, stream, edit, drops, edits>>

\* Every request of loadAll is over: a failed one leaves what was there.
Settles ==
  LET snapshot == IF load.at = "answered" THEN load.bots ELSE view IN
  /\ load.at \in {"answered", "failed"}
  /\ IF again
     THEN /\ view' = snapshot /\ load' = Asked
          /\ again' = FALSE /\ UNCHANGED <<mode, queued>>
     ELSE /\ view' = FoldedAll(snapshot, queued)
          /\ mode' = "hydrated" /\ load' = NoLoad
          /\ queued' = <<>> /\ UNCHANGED again
  /\ UNCHANGED <<server, open, stream, cursor, fallback, edit, drops, edits>>

PersonEdits(b) ==
  /\ edit[b].at = "none" /\ edits < MaxEdits
  /\ edit' = [edit EXCEPT ![b] = [at |-> "asked", value |-> view[b]]]
  /\ edits' = edits + 1
  /\ UNCHANGED <<server, client, open, stream, load, drops>>

\* onAuthoritative
Folds(b) ==
  /\ view' = [view EXCEPT ![b] = edit[b].value]
  /\ edit' = [edit EXCEPT ![b] = NoEdit]
  /\ UNCHANGED <<server, cursor, mode, again, fallback, queued,
                 open, stream, load, drops, edits>>

EditFolds(b) ==
  /\ edit[b].at = "answered" /\ (LateResponses \/ view[b] <= edit[b].value)
  /\ Folds(b)

\* The reading fails too: the bot is shown as it was before the edit.
EditRereadFails(b) ==
  /\ edit[b].at = "asked" /\ (LateResponses \/ view[b] = edit[b].value)
  /\ Folds(b)

-----------------------------------------------------------------------------
StreamNext ==
  \/ \E b \in Bots : \/ BotWrites(b)
                       \/ PersonEdits(b) \/ EditSaved(b) \/ EditReread(b)
                       \/ EditFolds(b) \/ EditRereadFails(b)
  \/ Captures \/ Connects \/ Drops \/ (\E B \in SUBSET Bots : Restarts(B))
  \/ FallbackFires \/ ReadsHello \/ ReadsFrame
  \/ Answers \/ LoadFails \/ Settles

\* The browser reconnects and delivers, requests are answered, timers fire.
Fairness ==
  /\ WF_streamVars(Connects) /\ WF_streamVars(ReadsHello \/ ReadsFrame)
  /\ WF_streamVars(FallbackFires) /\ WF_streamVars(Answers) /\ WF_streamVars(Settles)
  /\ \A b \in Bots : WF_streamVars(EditSaved(b) \/ EditReread(b)) /\ WF_streamVars(EditFolds(b))

StreamSpec == StreamInit /\ [][StreamNext]_streamVars /\ Fairness

-----------------------------------------------------------------------------
\* store.tsx: "A snapshot and the live fold have to meet at a defined
\* boundary."  When everything the server sent has been read and folded, the
\* client shows what the server has: no frame was lost between two
\* connections, and none was folded over a newer snapshot or answer.
InSync ==
  /\ open /\ stream = <<>> /\ mode = "hydrated"
  /\ \A b \in Bots : edit[b].at = "none"
  => view = truth

\* And it gets there, whatever the connection does meanwhile.
EndsInSync == <>[](view = truth)
=============================================================================
