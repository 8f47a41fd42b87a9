--------------------------- MODULE TurnOwnership ----------------------------
(***************************************************************************)
(* The inductive invariant behind "one turn per bot".  A turn's owner is   *)
(* recorded in the store, in the adapter, by the watchdog and by its       *)
(* release timers; OneTurnPerBot, BusyIsALiveTurn and OwnerIsTheSpeaker    *)
(* are inductive only together, and with what keeps those places apart:    *)
(* what a stopped turn may still be, whom the watchdog watches, and what a *)
(* room that still has an owner may do.  The parts are stated over values  *)
(* rather than variables, so that the drain that ends a handler is a step  *)
(* of its own in the proofs.                                               *)
(***************************************************************************)
EXTENDS TurnEngine

HasLive(tu, b, t) ==
  \E k \in Turns : k[1] = b /\ tu[k].thread = t /\ tu[k].stage \in Live

OwnsIn(tu, g, b, t) == HasLive(tu, b, t) \/ <<b, t>> \in g

OneTurnIn(tu) ==
  \A j, k \in Turns :
    j[1] = k[1] /\ tu[j].stage \in Live /\ tu[k].stage \in Live => j = k

BusyIn(a, tu, g) ==
  \A b \in Bots : a[b] \in Busy <=> \E t \in Threads : OwnsIn(tu, g, b, t)

OwnerIn(tu, g, o) ==
  \A r \in Rooms, b \in Bots : o[r] = b <=> OwnsIn(tu, g, b, r)

\* A turn is on its bot's own thread or on a room's, and none of the stages
\* that the excluded faults lead to is reached.
StagesIn(tu) ==
  \A k \in Turns :
    /\ tu[k].stage \notin {"connecting", "refused", "over"}
    /\ tu[k].sending => tu[k].stage = "launching"
    /\ tu[k].stage # "none" => tu[k].thread = k[1] \/ tu[k].thread \in Rooms
    /\ tu[k].stage = "setup" => tu[k].thread = k[1]

\* While a release timer is armed its bot has at most the stopped turn, which
\* nobody watches or waits for, and no other timer.
GraceIn(tu, w, g, rm) ==
  \A x \in g :
    /\ x[2] = x[1] \/ x[2] \in Rooms
    /\ w[x[2]].bot = None
    /\ x[2] \in Rooms => rm[x[2]].current = None
    /\ \A y \in g : y[1] = x[1] => y = x
    /\ \A k \in Turns : k[1] = x[1] /\ tu[k].stage \in Live
                        => tu[k].stage = "ending" /\ tu[k].thread = x[2]

\* The watchdog's entries are turns that were dispatched, and every turn that
\* can go on has one.
WatchIn(tu, w) ==
  /\ \A t \in Threads : w[t].bot # None =>
       \E k \in Turns : /\ k[1] = w[t].bot /\ tu[k].thread = t
                        /\ tu[k].stage \in {"launching", "running", "ending"}
  /\ \A k \in Turns : tu[k].stage \in {"launching", "running"}
                      => w[tu[k].thread].bot = k[1]

\* A room that still has an owner waits for it, or has given its message up.
RoomIn(tu, o, rm) ==
  /\ \A r \in Rooms :
       /\ o[r] # None => \/ rm[r].current = o[r]
                         \/ rm[r].direct = {} /\ rm[r].chained = {}
       /\ rm[r].current # None => o[r] = rm[r].current
  /\ \A k \in Turns : tu[k].stage = "launching" /\ tu[k].thread \in Rooms
                      => rm[tu[k].thread].current = k[1]

Ownership(a, tu, w, g, o, rm) ==
  /\ OneTurnIn(tu) /\ BusyIn(a, tu, g) /\ OwnerIn(tu, g, o) /\ StagesIn(tu)
  /\ GraceIn(tu, w, g, rm) /\ WatchIn(tu, w) /\ RoomIn(tu, o, rm)

Owned == Ownership(activity, turn, watch, grace, owner, room)

\* Connected apps answer at once, sendTurn rejects before its turn completes if
\* at all, and a wedged turn that was stopped does not answer any more.
Prompt == ConnectedApps = FALSE /\ LateRejects = FALSE /\ "answers" \notin Stalls

=============================================================================
