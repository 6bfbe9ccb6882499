------------------------------ MODULE Threads -------------------------------
(***************************************************************************)
(* The threads of a program that use the locks of samthread.h and mutex.c. *)
(***************************************************************************)
CONSTANT Thread
=============================================================================
