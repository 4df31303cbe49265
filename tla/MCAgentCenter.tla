---------------------------- MODULE MCAgentCenter ----------------------------
(* Two threads of the service, which are alike, and one watch.              *)
EXTENDS AgentCenter

=============================================================================
