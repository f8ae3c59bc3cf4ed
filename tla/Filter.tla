------------------------------- MODULE Filter -------------------------------
(***************************************************************************)
(* A list comprehension of the server: what a list holds of a set, in the  *)
(* order of the list.  SelectSeq says the same, but it has no definition   *)
(* that a proof could expand; this one is a recursive function.            *)
(***************************************************************************)
EXTENDS Integers, Sequences

\* the elements of s that are in T, in the order of s
Kept(s, T) ==
    LET kept[n \in 0 .. Len(s)] ==
            IF n = 0 THEN <<>>
            ELSE IF s[n] \in T THEN Append(kept[n - 1], s[n]) ELSE kept[n - 1]
    IN  kept[Len(s)]
=============================================================================
