---------------------------- MODULE MCWorkbench ----------------------------
(* The documents of MCPdfPages on the page. *)
EXTENDS Workbench, MCPdfPages
=============================================================================
