---------------------------- MODULE MCIndexCache ----------------------------
(***************************************************************************)
(* Three indexes, one of them bigger than the others together, and an      *)
(* object that two of them have.                                           *)
(***************************************************************************)
EXTENDS IndexCache

CONSTANTS A, B, C, o1, o2, o3, o4, o5

MCIdx == {A, B, C}
MCContents == (A :> {o1}) @@ (B :> {o1, o2}) @@ (C :> {o1, o3, o4, o5})
=============================================================================
