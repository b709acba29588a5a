-------------------------- MODULE MCRemoteSession --------------------------
(***************************************************************************)
(* Instances of RemoteSession for TLC.  The bound ChunkLimit only limits   *)
(* how much the shell prints: one chunk of each stream is enough for both  *)
(* copiers to be stuck in the pipe, two for a copier to come back to it.   *)
(***************************************************************************)
EXTENDS RemoteSession

=============================================================================
