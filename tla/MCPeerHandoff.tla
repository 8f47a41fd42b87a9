---------------------------- MODULE MCPeerHandoff -----------------------------
(***************************************************************************)
(* For TLC: one bot, src, hands two items over to another, dst.            *)
(***************************************************************************)
EXTENDS PeerHandoff, TLC

CONSTANTS src, dst, first, second

Sender == first :> src @@ second :> src
Target == first :> dst @@ second :> dst

=============================================================================
