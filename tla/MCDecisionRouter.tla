-------------------------- MODULE MCDecisionRouter --------------------------
(* Instance of DecisionRouter for TLC.                                     *)
EXTENDS DecisionRouter

CONSTANTS laya, openjev, c1, c2, c3

LayaFirst == << laya, openjev >>
=============================================================================
