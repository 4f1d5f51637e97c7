--------------------------- MODULE MCCertificates ---------------------------
(* Instances of Certificates for TLC.                                      *)
EXTENDS Certificates, TLC

CONSTANTS d1, d2, c1, c2, t1, t2

\* c1 wants all domains; c2 wants one and is set up later.
mcComps == <<c1, c2>>
mcInterest == c1 :> {d1, d2} @@ c2 :> {d1}
=============================================================================
