---------------------------- MODULE MCThreadPool ----------------------------
(* Small instances of the thread pool.                                      *)
EXTENDS ThreadPool
=============================================================================
