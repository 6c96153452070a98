------------------------------ MODULE Sublists ------------------------------
(* What the browser's code does with filter, Set and Map on an array: the     *)
(* elements at some places of a sequence, in their order.                     *)
EXTENDS Naturals, Sequences

Picked(seq, places) ==
    LET upto[n \in 0..Len(seq)] ==
            IF n = 0 THEN <<>>
            ELSE IF n \in places THEN Append(upto[n - 1], seq[n]) ELSE upto[n - 1]
    IN  upto[Len(seq)]

(* The distinct elements of a sequence, in the order of their first place     *)
Distinct(seq) ==
    Picked(seq, {i \in DOMAIN seq : \A j \in 1..(i - 1) : seq[j] # seq[i]})
=============================================================================
