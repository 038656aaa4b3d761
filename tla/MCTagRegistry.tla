---------------------------- MODULE MCTagRegistry ----------------------------
(***************************************************************************)
(* TagRegistry on small instances.  Lines "A" and "B" overlap in one path, *)
(* as channel patterns of two lines may; the ownerless row is a tag that   *)
(* was registered before the lines were given their names.                 *)
(***************************************************************************)
EXTENDS TagRegistry

CONSTANTS p1, p2, a1, a2, A, B, none

OneLine   == [l \in {A} |-> {p1, p2}]
Unscoped  == [l \in {none} |-> {p1, p2}]
OldTag    == {Tag(p1, a1)}
=============================================================================
