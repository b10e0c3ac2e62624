---------------------------- MODULE MCReminders ----------------------------
(***************************************************************************)
(* Instances of Reminders for TLC.                                         *)
(***************************************************************************)
EXTENDS Reminders

MCDeadlines == 0 .. 3
=============================================================================
