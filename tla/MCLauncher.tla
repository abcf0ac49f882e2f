---------------------------- MODULE MCLauncher ----------------------------
(* Three processes: enough for a launcher to be replaced twice, and for    *)
(* two to replace the same one at once.  One more version can be pulled on *)
(* POSIX, during the first installation or, with a fault, later; on        *)
(* Windows a first installation sees a fault.                              *)
EXTENDS Launcher

CONSTANTS p1
Found(p, ready, v, most) == [platform |-> p, venv |-> ready, source |-> v, faults |-> most]
MCStarts == {Found("posix", FALSE, 0, 0), Found("posix", TRUE, 0, 1), Found("windows", FALSE, 1, 1)}
=============================================================================
