------------------------------ MODULE MCRecorder ------------------------------
(***************************************************************************)
(* Recorder with a ring of three entries, one of them unused, and a key    *)
(* frame at least every second frame: the shortest ring that still has a   *)
(* key frame to skip to.                                                   *)
(***************************************************************************)
EXTENDS Recorder
===============================================================================
