------------------------- MODULE MCWorkerSupervision -------------------------
(* Instances of WorkerSupervision for TLC.                                  *)
EXTENDS WorkerSupervision

(* An agent is created enabled and may be paused once.                      *)
PausedLater == {<<1, TRUE>>, <<2, FALSE>>}
=============================================================================
