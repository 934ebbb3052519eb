----------------------------- MODULE MCBuilder -----------------------------
(***************************************************************************)
(* Builder with one source that is given with Builder::source, and that    *)
(* the glob pattern finds too if it is there.                              *)
(***************************************************************************)
EXTENDS Builder

CONSTANTS x, b

MCExplicit == {[dir |-> x, name |-> b]}

=============================================================================
