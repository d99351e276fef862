----------------------------- MODULE MCInstallation -----------------------------
(* Small instances of Installation for TLC. *)
EXTENDS Installation

\* Every release ships new product versions / the second one ships the same.
MCShipsNew  == [v \in 1 .. MaxVersion |-> v]
MCShipsSame == [v \in 1 .. MaxVersion |-> IF v = 1 THEN 1 ELSE v - 1]

MCInfix == {<<"rhsso", "rhssouser">>}
MCNoInfix == {}
================================================================================
