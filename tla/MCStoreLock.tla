----------------------------- MODULE MCStoreLock -----------------------------
(***************************************************************************)
(* Instances of StoreLock.  A run's processes are the ones its question is *)
(* about; an update that leaves something to repair needs MaxStale > 0.    *)
(***************************************************************************)
EXTENDS StoreLock

MCAnyFile == {Absent, Sound}
=============================================================================
