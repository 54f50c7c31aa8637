--------------------------- MODULE MCAgentSession ---------------------------
(***************************************************************************)
(* AgentSession for TLC: invocations are interchangeable, hence the        *)
(* symmetry.                                                               *)
(***************************************************************************)
EXTENDS AgentSession, TLC

CliSymmetry == Permutations(Cli)
===========================================================================
