-------------------------- MODULE MCTaskLifecycle --------------------------
(* Small instances of TaskLifecycle. *)
EXTENDS TaskLifecycle

MCStageOf == [s \in Steps |-> <<"start", "extract", "transform", "write", "publish">>[s]]
=============================================================================
