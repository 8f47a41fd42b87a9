---------------------------- MODULE MCAutomations -----------------------------
(***************************************************************************)
(* One bot with a webhook, and a recurring or a one-off routine beside it. *)
(***************************************************************************)
EXTENDS Automations, TLC

CONSTANTS b1, daily, single, hook

DailyAndHook == daily :> b1 @@ hook :> b1
SingleAndHook == single :> b1 @@ hook :> b1

=============================================================================
