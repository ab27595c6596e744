----------------------------- MODULE MCEventLoop -----------------------------
(* Instances of EventLoop for TLC.  Tasks other than Root are interchangeable. *)
EXTENDS EventLoop, TLC

CONSTANTS t1, t2, t3

TwoTasks   == {t1, t2}
ThreeTasks == {t1, t2, t3}

OnlyOk   == {"ok"}
OkAndErr == {"ok", "err"}

Symmetry == Permutations(Task \ {Root})
=============================================================================
