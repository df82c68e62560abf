--------------------------- MODULE MCPictureField ---------------------------
(***************************************************************************)
(* Small instances of PictureField: one picture at start and new ones that *)
(* are interchangeable.                                                    *)
(***************************************************************************)
EXTENDS PictureField, TLC

CONSTANTS p0, p1, p2, p3

AtStart == {p0}
New == Permutations({p1, p2, p3})
=============================================================================
