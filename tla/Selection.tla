----------------------------- MODULE Selection -----------------------------
(* The elements of a sequence at chosen positions, in their order: a list  *)
(* comprehension.  Written by position, and not as SelectSeq with an       *)
(* operator for the condition, so that a lemma can speak about it.         *)
EXTENDS Integers, Sequences

Picked(s, I) ==
    LET picked[i \in 0 .. Len(s)] ==
            IF i = 0 THEN <<>>
            ELSE IF i \in I THEN Append(picked[i - 1], s[i]) ELSE picked[i - 1]
    IN  picked[Len(s)]
=============================================================================
