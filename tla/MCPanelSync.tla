---------------------------- MODULE MCPanelSync -----------------------------
(* An instance of PanelSync for TLC: see the cfg file for the sizes.        *)
EXTENDS PanelSync

AllKinds == {"register", "buy", "change", "extend", "toggle", "delete", "pull", "push",
             "pullall", "erase"}
=============================================================================
