---------------------------- MODULE MCThreadPool ----------------------------
(* Two threads and three requests.                                          *)
EXTENDS ThreadPool

CONSTANTS t1, t2, r1, r2, r3

MCThreads == {t1, t2}
MCRequests == {r1, r2, r3}
=============================================================================
