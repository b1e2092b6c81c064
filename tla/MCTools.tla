------------------------------ MODULE MCTools -------------------------------
(***************************************************************************)
(* ToolFactory with few builders and names.                                *)
(***************************************************************************)
EXTENDS ToolFactory

AllCodes == [by : Clients, build : 1..MaxBuilds, rev : 1..(MaxRetries + 1)]
=============================================================================
