---------------------------- MODULE MCThreadPool ----------------------------
(* The thread pool, instantiated for TLC. *)
EXTENDS ThreadPool

=============================================================================
