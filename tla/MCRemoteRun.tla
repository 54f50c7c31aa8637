----------------------------- MODULE MCRemoteRun -----------------------------
(* A small instance of RemoteRun: one workflow, two runs on the GPU. *)
EXTENDS RemoteRun

\* A candidate run, and a request that is refused.
MCRequests ==
  { [workflow |-> None, kind |-> None, skip |-> FALSE, smoke |-> TRUE],
    [workflow |-> "profile", kind |-> None, skip |-> FALSE, smoke |-> FALSE] }
=============================================================================
