---- MODULE Filtering ----
(***************************************************************************)
(* Array.prototype.filter of a list by membership, which several           *)
(* components use.                                                         *)
(***************************************************************************)
EXTENDS Naturals, Sequences

(* What it keeps of s: its members in T, in their order.                   *)
Filtered(s, T) ==
    LET upto[n \in 0..Len(s)] ==
            IF n = 0 THEN <<>>
            ELSE IF s[n] \in T THEN Append(upto[n - 1], s[n]) ELSE upto[n - 1]
    IN  upto[Len(s)]
====
