-------------------------- MODULE MCPrecisionCache --------------------------
(***************************************************************************)
(* PrecisionCache for TLC: diagnoses, source trees and runtimes are        *)
(* interchangeable.                                                        *)
(***************************************************************************)
EXTENDS PrecisionCache, TLC

Symmetry == Permutations(Runs) \cup Permutations(Sources) \cup Permutations(Runtimes)
===========================================================================
