---------------------------- MODULE MCThreadPool ----------------------------
(* ThreadPool for TLC, with what its test expects of it and the code does not *)
(* provide.                                                                   *)
EXTENDS ThreadPool

\* Stop returns, and with it the destructor that ends gtest_threadpool.cc 15-21.
\* A worker that evaluated the predicate of cv_.wait before Stop's store, and
\* blocks after Stop's notify_all, is never woken, and is joined for ever.
StopCompletes == (opc = "notify") ~> (opc = "idle")
=============================================================================
