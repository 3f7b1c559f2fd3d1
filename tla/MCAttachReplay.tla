---------------------------- MODULE MCAttachReplay ----------------------------
(***************************************************************************)
(* AttachReplay on a small instance: a client that opens a few connections *)
(* and makes a few attaches, and a pane that puts out one byte more than   *)
(* its history retains, in reads and replay chunks of different sizes.     *)
(***************************************************************************)
EXTENDS AttachReplay
=============================================================================
