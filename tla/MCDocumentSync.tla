--------------------------- MODULE MCDocumentSync ---------------------------
(***************************************************************************)
(* DocumentSync for TLC.  Connections are interchangeable; callers are not, *)
(* because Init chooses one of them for the handlers that are idle.        *)
(***************************************************************************)
EXTENDS DocumentSync, TLC

Symmetry == Permutations(Conn)
=============================================================================
