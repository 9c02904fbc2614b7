------------------------- MODULE MCCameraLifecycle -------------------------
(* One camera and names for two tasks. *)
EXTENDS CameraLifecycle

CONSTANTS t1, t2

MCTasks == {t1, t2}
=============================================================================
