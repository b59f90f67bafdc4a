---------------------------- MODULE MCVLLMClient ----------------------------
(***************************************************************************)
(* Instances of VLLMClient, with the observer of its streams.              *)
(***************************************************************************)
EXTENDS VLLMClient

CONSTANTS f1, f2, none

\* the statuses of success, rejection, misconfiguration and failure
MCStatuses == {200, 404, 401, 503}
=============================================================================
