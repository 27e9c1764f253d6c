------------------------------ MODULE MCPoolIndex ------------------------------
(* Two pools of two factories.                                                 *)
EXTENDS PoolIndex, TLC

CONSTANTS p1, p2, f1, f2

OneEach == p1 :> f1 @@ p2 :> f2
================================================================================
