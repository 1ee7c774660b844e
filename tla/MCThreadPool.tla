---------------------------- MODULE MCThreadPool ----------------------------
(* Two threads, of which a resize starts any number, and three tasks. There is *)
(* no symmetry set: liveness is checked.                                      *)
EXTENDS ThreadPool

CONSTANTS t1, t2, a, b, c

MCThreads == {t1, t2}
MCTasks == {a, b, c}
=============================================================================
