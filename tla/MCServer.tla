------------------------------- MODULE MCServer -------------------------------
(***************************************************************************)
(* Server for TLC.  The bounds are in server.cfg.                          *)
(***************************************************************************)
EXTENDS Server

(* What the server survives: it dies, tasks.yaml cannot be read when a run is
   to be announced, a file is left in the lock directory.  *)
ServerTrouble == {"crash", "announce", "stray_file"}
=============================================================================
