-------------------------------- MODULE Call --------------------------------
(***************************************************************************)
(* The library's functions that keep no state of their own are checked one *)
(* call at a time: call holds the function that was called, its arguments  *)
(* and what it returned or left in its buffers.  A function that works on  *)
(* a context (a cipher, a digest, a directory walk) keeps it in call from  *)
(* one call to the next.                                                   *)
(***************************************************************************)
VARIABLE call

EINVAL == 22

Idle == [fn |-> "none"]
Init == call = Idle
=============================================================================
