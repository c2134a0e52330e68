------------------------------- MODULE SeqImages -------------------------------
(***************************************************************************)
(* A sequence seen through the elements that count: what remains of q when *)
(* only the elements in K are kept, and each is replaced by what f gives.  *)
(* It is SelectSeq and a map in one, written as a recursive function: the  *)
(* prover has no definition of SelectSeq to reason from.                   *)
(***************************************************************************)
EXTENDS Naturals, Sequences

Images(q, K, f) ==
  LET img[n \in 0..Len(q)] ==
        IF n = 0 THEN <<>>
        ELSE IF q[n] \in K THEN Append(img[n - 1], f[q[n]]) ELSE img[n - 1]
  IN  img[Len(q)]
================================================================================
