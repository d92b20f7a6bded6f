----------------------------- MODULE FrozenCore -----------------------------
(***************************************************************************)
(* What the barebones engine promises about the six frozen states          *)
(* (evidence/ledger.py _FROZEN_STATES, barebones.py RunState): the state   *)
(* the ledger ends in moves along these edges only, and a terminal state   *)
(* is never left.  BarebonesRun is shown to implement it.                  *)
(***************************************************************************)

VARIABLE core    \* state of the ledger's last event, "NONE" before the first

Edges ==
    {<<"NONE", "VALIDATED">>, <<"NONE", "HALTED">>,
     <<"VALIDATED", "BUILDING">>, <<"VALIDATED", "HALTED">>,
     <<"VALIDATED", "STOPPED">>,
     <<"BUILDING", "VERIFYING">>, <<"BUILDING", "HALTED">>,
     <<"BUILDING", "STOPPED">>,
     <<"VERIFYING", "BUILDING">>, <<"VERIFYING", "RELEASE_READY">>,
     <<"VERIFYING", "HALTED">>}

Init == core = "NONE"

Next == <<core, core'>> \in Edges

Spec == Init /\ [][Next]_core
=============================================================================
