------------------------ MODULE MCRecordedToolAgent ------------------------
(* Model-checking instance of RecordedToolAgent: one transcript of two events. *)
EXTENDS RecordedToolAgent

CONSTANTS r1

MCWriters == {agent}
MCReaders == {r1}
MCBlobs == {plan_blob}
=============================================================================
