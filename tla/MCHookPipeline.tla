--------------------------- MODULE MCHookPipeline ---------------------------
(* Small instances of HookPipeline for TLC: two plugins, the first fails closed. *)
EXTENDS HookPipeline, TLC

CONSTANTS r1, r2, p1, p2, admin_, none

TwoHooks == (r1 :> <<p1, p2>>) @@ (r2 :> <<p1>>)
=============================================================================
