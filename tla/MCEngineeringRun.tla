-------------------------- MODULE MCEngineeringRun --------------------------
(* Model-checking instance of EngineeringRun: two reviewers, a finding that  *)
(* needs an owner's decision, one that is accepted by policy and one that    *)
(* needs a product decision.                                                 *)
EXTENDS EngineeringRun

MCReports == {<<>>, <<"defect">>, <<"defect", "scope">>, <<"typo", "defect">>}
=============================================================================
