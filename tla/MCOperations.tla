---------------------------- MODULE MCOperations ----------------------------
(* Instances of Operations for TLC.                                        *)
EXTENDS Operations, TLC

CONSTANTS o1, o2, o3, x, y, a, b, c1, c2

\* o1 and o2 share the identifier x, as two runs of the setup of one app do.
mcOpId == o1 :> x @@ o2 :> x @@ o3 :> y
mcOpApp == o1 :> a @@ o2 :> a @@ o3 :> b
=============================================================================
