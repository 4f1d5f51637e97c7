------------------------- MODULE MCPrivilegedDaemon -------------------------
(* Small instances of PrivilegedDaemon.                                    *)
EXTENDS PrivilegedDaemon

\* returns and misused differ from streams and raises only in the answer.
OtherKinds == AllKinds \ {"returns", "misused"}

=============================================================================
