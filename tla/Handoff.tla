------------------------------- MODULE Handoff --------------------------------
(***************************************************************************)
(* What the peer handoff promises (server/delegations.ts): work that was   *)
(* accepted is either refused, with a word to the user, or done by its     *)
(* target in one turn, and a target works on one handoff at a time.  If    *)
(* the server dies, a handoff that was just started may be queued again.   *)
(***************************************************************************)
CONSTANTS Items, To

VARIABLE phase

Phases == {"new", "queued", "working", "done", "refused"}

Init == phase = [i \in Items |-> "new"]

Moves(i, from, to) == phase[i] = from /\ phase' = [phase EXCEPT ![i] = to]

Queue(i) == Moves(i, "new", "queued")

Start(i) ==
  /\ \A j \in Items : To[j] = To[i] => phase[j] # "working"
  /\ Moves(i, "queued", "working")

\* One handler may end several turns, and tell the users of several handoffs:
\* a turn that fails ends, and what its bot has queued is refused.
Leave ==
  \E S \in SUBSET {i \in Items : phase[i] \in {"queued", "working"}} :
    phase' = [i \in Items |->
                IF i \notin S THEN phase[i]
                ELSE IF phase[i] = "working" THEN "done" ELSE "refused"]

\* No turn survives the server, and what was being told to the user is told.
Crash ==
  \E S \in SUBSET Items :
    phase' = [i \in Items |->
                CASE phase[i] = "working" -> IF i \in S THEN "queued" ELSE "done"
                  [] phase[i] = "queued" -> IF i \in S THEN "queued" ELSE "refused"
                  [] OTHER -> phase[i]]

Next ==
  \/ \E i \in Items : Queue(i) \/ Start(i)
  \/ Leave \/ Crash

Spec == Init /\ [][Next]_phase

=============================================================================
