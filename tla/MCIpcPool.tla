----------------------------- MODULE MCIpcPool -----------------------------
(* Small instances of IpcPool for TLC. *)
EXTENDS IpcPool
=============================================================================
