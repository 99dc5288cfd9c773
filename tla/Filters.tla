-------------------------------- MODULE Filters --------------------------------
(* filter() of a JavaScript array, stated by the indices of what is kept. *)
EXTENDS Integers, Sequences

\* The elements of s at the indices in I, in their order.
Filtered(s, I) ==
    LET kept[n \in 0..Len(s)] ==
          IF n = 0 THEN <<>>
          ELSE IF n \in I THEN Append(kept[n-1], s[n]) ELSE kept[n-1]
    IN kept[Len(s)]
===============================================================================
