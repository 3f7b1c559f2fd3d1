------------------------------ MODULE MCPaneStop ------------------------------
(***************************************************************************)
(* Two stop requests that overlap (a stopping pane whose driver has not    *)
(* started can be attached to and stopped by another connection), and the  *)
(* shutdown as a third thread that may start a driver.                     *)
(***************************************************************************)
EXTENDS PaneStop
=============================================================================
