--------------------------- MODULE MCPanelSession ---------------------------
(***************************************************************************)
(* Instances of PanelSession for TLC.                                      *)
(***************************************************************************)
EXTENDS PanelSession
=============================================================================
