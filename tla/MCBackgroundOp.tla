---------------------------- MODULE MCBackgroundOp ----------------------------
(* Two operations, so that the thread of one may outlive it while the next *)
(* is polled; one line per run_impl, two or three with the thread's own.   *)
EXTENDS BackgroundOp
=============================================================================
