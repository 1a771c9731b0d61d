---------------------------- MODULE MCAiSettings ----------------------------
(***************************************************************************)
(* Two threads of the server and a provider set up by the environment.     *)
(***************************************************************************)
EXTENDS AiSettings

MCEnv == [remote |-> TRUE, key |-> 1, url |-> Default]

=============================================================================
