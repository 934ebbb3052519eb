---------------------------- MODULE Subsequences ----------------------------
(***************************************************************************)
(* What is left of a sequence when only some of its elements are kept.     *)
(* SelectSeq says the same, but its definition is out of the provers'      *)
(* reach.                                                                  *)
(***************************************************************************)
EXTENDS Naturals, Sequences

\* The elements of s that are in T, in the order of s.
Kept(s, T) ==
    LET kept[i \in 0 .. Len(s)] ==
            IF i = 0 THEN << >>
            ELSE IF s[i] \in T THEN Append(kept[i - 1], s[i])
            ELSE kept[i - 1]
    IN  kept[Len(s)]

=============================================================================
