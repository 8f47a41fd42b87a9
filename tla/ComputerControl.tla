--------------------------- MODULE ComputerControl ---------------------------
(***************************************************************************)
(* Who is driving a bot's computer: the in-memory registry of              *)
(* server/computer-control.ts.  A bot's entry says whether the person      *)
(* holds the wheel and which help request (the "plea") is open.  Every     *)
(* operator below is one synchronous method of class ComputerControl, so   *)
(* it is one atomic step for whoever calls it.                             *)
(***************************************************************************)
EXTENDS Naturals

CONSTANT Bots          \* the bots the registry may be asked about

VARIABLES
  entries,             \* this.entries: who drives, and the open plea's id
  requestSequence      \* this.requestSequence: ids handed out so far

controlVars == <<entries, requestSequence>>

\* An absent map entry and an entry with neither a hold nor a plea are the
\* same state: every method deletes the entry in that case.  Id 0 is null.
NoControl == [held |-> FALSE, help |-> 0]

ControlTypeOK ==
  /\ entries \in [Bots -> [held : BOOLEAN, help : Nat]]
  /\ requestSequence \in Nat
  /\ \A b \in Bots : entries[b].help <= requestSequence

ControlInit ==
  /\ entries = [b \in Bots |-> NoControl]
  /\ requestSequence = 0

-----------------------------------------------------------------------------
\* take: idempotent, and an open plea stays open under the hold.
Take(b) ==
  /\ entries' = [entries EXCEPT ![b].held = TRUE]
  /\ UNCHANGED requestSequence

\* Fault: the hold goes and the plea stays open.
ReleaseKeepsPlea(b) ==
  /\ entries' = [entries EXCEPT ![b].held = FALSE]
  /\ UNCHANGED requestSequence

\* release and forget: the whole entry goes, the plea with it.
Release(b) ==
  /\ entries' = [entries EXCEPT ![b] = NoControl]
  /\ UNCHANGED requestSequence

\* requestHelpLease: a plea that is already open keeps its reason and its id,
\* and the caller is given that id.
RequestHelpLease(b) ==
  IF entries[b].help = 0
  THEN /\ requestSequence' = requestSequence + 1
       /\ entries' = [entries EXCEPT ![b].help = requestSequence']
  ELSE UNCHANGED controlVars

DismissHelp(b) ==
  /\ entries' = [entries EXCEPT ![b].help = 0]
  /\ UNCHANGED requestSequence

\* Fault: any timeout dismisses whatever plea is open (no id comparison).
ExpireHelpAny(b, requestId) ==
  /\ entries' = [entries EXCEPT ![b].help = 0]
  /\ UNCHANGED requestSequence

\* expireHelp: only the plea with this id, and never the hold.
ExpireHelp(b, requestId) ==
  /\ entries' = IF entries[b].help = requestId
                THEN [entries EXCEPT ![b].help = 0]
                ELSE entries
  /\ UNCHANGED requestSequence
=============================================================================
