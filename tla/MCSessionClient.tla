-------------------------- MODULE MCSessionClient --------------------------
(***************************************************************************)
(* SessionClient for TLC.  Two calls and three successful dials let two    *)
(* goroutines reconnect at once and each break what the other has set up.  *)
(* Only Connect and a reconnect of Call start readers, each after a dial   *)
(* of its own, so as many reader slots as dials are never used up.         *)
(***************************************************************************)
EXTENDS SessionClient, TLC

ASSUME EnoughSlots == Cardinality(Reader) >= MaxConns

\* Sound for the safety run only: calls and readers are interchangeable.
Symmetry == Permutations(Call) \cup Permutations(Reader)
=============================================================================
