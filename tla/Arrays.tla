------------------------------- MODULE Arrays --------------------------------
(***************************************************************************)
(* JavaScript's arrays.  The filter method keeps the elements that pass,   *)
(* in their order.  It is the standard SelectSeq, with the elements that   *)
(* pass given as a set and as a recursive function, so that it can be      *)
(* proved about.                                                           *)
(***************************************************************************)
EXTENDS Naturals, Sequences

\* What is left of the first i elements, for every i.
Filtered(array, passing) ==
  LET kept[i \in 0 .. Len(array)] ==
        IF i = 0 THEN <<>>
        ELSE IF array[i] \in passing THEN Append(kept[i - 1], array[i]) ELSE kept[i - 1]
  IN kept

filter(array, passing) == Filtered(array, passing)[Len(array)]

\* Array.from(new Set(array)): every element once, in the order of first use.
uniques(array) ==
  LET firsts == {i \in DOMAIN array : \A j \in 1 .. i - 1 : array[j] # array[i]}
      kept == filter([i \in DOMAIN array |-> i], firsts)
  IN [k \in DOMAIN kept |-> array[kept[k]]]
=============================================================================
