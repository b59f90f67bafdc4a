---------------------------- MODULE MCChatRoute ----------------------------
(***************************************************************************)
(* Instances of ChatRoute: streams, a direct generation of two choices and *)
(* a batchable request.                                                    *)
(***************************************************************************)
EXTENDS ChatRoute

CONSTANTS stream1, stream2, direct1, batch1

MCAsk == [r \in Reqs |-> [stream |-> r \in {stream1, stream2},
                          n |-> IF r = direct1 THEN 2 ELSE 1]]

\* A bound: how many of the requests are ever made.  No fairness asks for a
\* request, so the behaviours that are left are whole ones.
MaxMade == 2
TwoAreMade == Cardinality({r \in Reqs : pc[r] # "idle"}) <= MaxMade
=============================================================================
