------------------------------ MODULE Filtering ------------------------------
(***************************************************************************)
(* What Rust's filter() and retain() and the loops over a Vec leave of a   *)
(* sequence: SelectSeq with the places to keep in the place of a test, as  *)
(* a recursive function over the prefixes so that it can be reasoned about.*)
(***************************************************************************)
EXTENDS Naturals, Sequences

FilteredUpTo(s, keep) ==
  LET upTo[n \in 0 .. Len(s)] ==
        IF n = 0 THEN <<>>
        ELSE IF n \in keep THEN Append(upTo[n - 1], s[n]) ELSE upTo[n - 1]
  IN  upTo

(* The elements of s at the places in keep, in their order. *)
Filtered(s, keep) == FilteredUpTo(s, keep)[Len(s)]
=============================================================================
