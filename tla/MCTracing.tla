----------------------------- MODULE MCTracing -----------------------------
(***************************************************************************)
(* Tracing on small instances.                                             *)
(***************************************************************************)
EXTENDS Tracing

\* More identities than can be remembered at once.
MCIds == 1 .. 12

\* Names that can be decoded are interchangeable.
MCSymmetry == Permutations(Names \ Undecodable)

=============================================================================
