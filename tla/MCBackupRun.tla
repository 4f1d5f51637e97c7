----------------------------- MODULE MCBackupRun -----------------------------
(* Instances of BackupRun for TLC.                                         *)
EXTENDS BackupRun

CONSTANTS m, n, s, um, wn, db, ws, r1, r2, t1

\* m has a daemon that backups stop (miniflux), n a web configuration and a
\* hook that borrows the database (nextcloud), s a web configuration that
\* backups disable (sharing).  m and n share the database.
mcComponents == [a \in {m, n, s} |->
    CASE a = m -> <<db, um>> [] a = n -> <<wn, db>> [] a = s -> <<ws>>]
mcServices == [a \in {m, n, s} |->
    CASE a = m -> <<um>> [] a = n -> <<>> [] a = s -> <<ws>>]
mcHookUnit == [a \in {m, n, s} |-> IF a = n THEN db ELSE NoUnit]
\* A scheduled backup of everything and the restore of two apps.
mcRunApps == [r \in {r1, r2} |-> IF r = r1 THEN <<m, n, s>> ELSE <<m, n>>]
=============================================================================
