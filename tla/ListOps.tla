------------------------------ MODULE ListOps -------------------------------
(***************************************************************************)
(* What the program does to its lists by comprehensions.                   *)
(***************************************************************************)
EXTENDS Integers, Sequences

\* [x for x in s if x in T]: the elements of s that are in T, in their order.
Only(s, T) ==
  LET upTo[n \in 0..Len(s)] ==
        IF n = 0 THEN <<>>
        ELSE IF s[n] \in T THEN Append(upTo[n - 1], s[n]) ELSE upTo[n - 1]
  IN upTo[Len(s)]
=============================================================================
