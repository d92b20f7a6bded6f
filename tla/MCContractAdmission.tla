------------------------ MODULE MCContractAdmission ------------------------
(***************************************************************************)
(* Small instances of ContractAdmission.                                    *)
(***************************************************************************)
EXTENDS ContractAdmission

CONSTANTS k1, k2

Request(k, p, pred) == [key |-> k, payload |-> p, pred |-> pred]

\* One attempt retried with other bytes, and one that corrects it.
Retried == {Request(k1, "full", Nothing), Request(k1, "odd", Nothing), Request(k2, "gap", k1)}
=============================================================================
