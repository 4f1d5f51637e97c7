-------------------------- MODULE MCBackupSchedule --------------------------
(* Instances of BackupSchedule for TLC.                                    *)
EXTENDS BackupSchedule, TLC

CONSTANTS r1, r2

\* A calendar in which days, weeks and months are short, and a schedule that
\* makes cleanups delete something soon.
smallMonths == <<3, 2>>
smallKeep == "daily" :> 2 @@ "weekly" :> 1 @@ "monthly" :> 1

\* The calendar of a year, and the default schedule.
realMonths == <<31, 28, 31, 30, 31, 30, 31, 31, 30, 31, 30, 31>>
defaultKeep == "daily" :> 5 @@ "weekly" :> 3 @@ "monthly" :> 3

Symmetry == Permutations({r1, r2})
=============================================================================
