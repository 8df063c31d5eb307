---------------------------- MODULE MCRuleEngine ----------------------------
(***************************************************************************)
(* One or two rules, a document with the usual layout, one in flow style   *)
(* and one whose examples fail.                                            *)
(***************************************************************************)
EXTENDS RuleEngine, TLC

CONSTANTS plain, flow, failing

MCDiskBody == [r \in Rules |-> plain]

MCSymmetry == Permutations(Procs)
=============================================================================
