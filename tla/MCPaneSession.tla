--------------------------- MODULE MCPaneSession ----------------------------
(* One pane, one shell, one user; the cfg files say what each may do.      *)
EXTENDS PaneSession
=============================================================================
