---------------------------- MODULE MCConfigWrite ----------------------------
(***************************************************************************)
(* Instance of ConfigWrite for TLC: three tasks on one device, one of them *)
(* the preset, and two faulty writes.                                      *)
(***************************************************************************)
EXTENDS ConfigWrite

CONSTANTS task1, task2, task3

ThreeTasks == {task1, task2, task3}
OnePreset == {task2}
=============================================================================
