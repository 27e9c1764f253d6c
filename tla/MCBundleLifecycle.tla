--------------------------- MODULE MCBundleLifecycle ---------------------------
(* Instances of BundleLifecycle for TLC.                                       *)
EXTENDS BundleLifecycle, TLC

CONSTANTS t1, v3

\* all opportunities trade the token t1
OneToken == [b \in Bundle |-> t1]

\* all of them on V2 pools; or one of them on a V3 pool
AllV2 == [b \in Bundle |-> {}]
OneV3 == [b \in Bundle |-> IF b = v3 THEN {t1} ELSE {}]
================================================================================
