----------------------------- MODULE Subsequences -----------------------------
(***************************************************************************)
(* The elements of a sequence that are in a set, in their order: what      *)
(* SelectSeq of the standard module yields for membership in the set.      *)
(* SelectSeq takes an operator and is opaque to the provers; this is a     *)
(* recursive function they can reason about.                               *)
(***************************************************************************)
EXTENDS Naturals, Sequences, Functions

Only(s, T) ==
    LET taken[n \in 0 .. Len(s)] ==
            IF n = 0 THEN <<>>
            ELSE IF s[n] \in T THEN Append(taken[n - 1], s[n]) ELSE taken[n - 1]
    IN  taken[Len(s)]

\* How many there are.
Count(s, T) == Len(Only(s, T))

\* Those that are not in the set.
Without(s, T) == Only(s, Range(s) \ T)

=============================================================================
