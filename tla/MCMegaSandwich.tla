---------------------------- MODULE MCMegaSandwich ----------------------------
(* Three recipes for two pools.                                                *)
EXTENDS MegaSandwich, TLC

CONSTANTS r1, r2, r3, p1, p2

OneAndTwo == r1 :> p1 @@ r2 :> p2 @@ r3 :> p2
================================================================================
