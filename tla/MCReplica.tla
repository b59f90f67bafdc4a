----------------------------- MODULE MCReplica -----------------------------
(***************************************************************************)
(* An instance of Replica: few PIDs, so that they are reused.              *)
(***************************************************************************)
EXTENDS Replica

\* PIDs start at 1: 0 is that of no record
MCPids == 1..2
=============================================================================
