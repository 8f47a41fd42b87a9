----------------------------- MODULE MCLocalVm ------------------------------
(***************************************************************************)
(* Two bots with a chat each.  The second bot may be deleted, and its      *)
(* turns may wait for a person until their lease runs out.                 *)
(***************************************************************************)
EXTENDS LocalVm

CONSTANTS b1, b2, t1, t2

MCBots == {b1, b2}
MCThreads == {t1, t2}
MCBotOf == [t \in MCThreads |-> IF t = t1 THEN b1 ELSE b2]
MCPatient == {t2}

\* Bound: one thing amiss at a time; a timer armed for no desktop is one.
Amiss ==
  Cardinality(owed) + Cardinality({t \in MCThreads : timer[t] # "off"})
  + Cardinality(bereft) + Cardinality(blind) + Cardinality(uncounted)
  + Cardinality({x \in idle : container[x] # "running" /\ active[x] = None})
OneAmiss == Amiss <= 1

\* Bounds: two requests at a time, no other while the image is prepared, and
\* in per-bot mode none for the shared desktop, which is missing or runs on.
TwoRequests ==
  /\ mode = "per-bot" => operation[Shared] = None /\ container[Shared] # "stopped"
  /\ Cardinality({x \in Targets : operation[x] # None})
     + Cardinality({b \in Bots : deletion[b] # "none"})
     + (IF image THEN 2 ELSE 0) + (IF change # "none" THEN 1 ELSE 0) <= 2

=============================================================================
