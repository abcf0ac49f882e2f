------------------------- MODULE MCBackupScheduler -------------------------
(* Instances of BackupScheduler for TLC. *)
EXTENDS BackupScheduler

CONSTANTS b1, b2,  \* two schedules
          d1, d2   \* places a sink can write to

Config(cron, keep, days, ok, dir) ==
    [cron |-> cron, keepLast |-> keep, retain |-> days, exports |-> ok, dir |-> dir]

(* A schedule that fails every time, by its cron or by its tenant, next to  *)
(* one with retention by both rules or by count, or a one-shot kept by age, *)
(* in a place that the two may share.                                       *)
MCConfigs == [s \in Schedules |->
    IF s = b1 THEN {Config("bad", 1, 0, TRUE, d2), Config("ok", 0, 0, FALSE, d1)}
    ELSE {Config("ok", 1, 1, TRUE, d2), Config("ok", 1, 0, TRUE, d2), Config("none", 0, 1, TRUE, d2)}]

=============================================================================
