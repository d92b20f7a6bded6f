-------------------------- MODULE MCEvidenceLedger --------------------------
(* Model-checking instance of EvidenceLedger: two competing writers and one  *)
(* reader.                                                                   *)
EXTENDS EvidenceLedger

CONSTANTS w1, w2, r1, b1

MCWriters == {w1, w2}
MCReaders == {r1}
MCBlobs == {b1}
MCStates == {"BUILDING", "HALTED"}
=============================================================================
