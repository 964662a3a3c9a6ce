------------------------------ MODULE MessageFold ------------------------------
(***************************************************************************)
(* The loops of the code over a list: what they leave when each step takes *)
(* what the steps before it left and the next element.  Both are recursive *)
(* functions, of which the proofs can reason by induction.                 *)
(***************************************************************************)
EXTENDS Naturals, Sequences

Fold(Step(_, _), start, list) ==
    LET after[i \in 0 .. Len(list)] ==
            IF i = 0 THEN start ELSE Step(after[i - 1], list[i])
    IN  after[Len(list)]

\* The elements that pass the test, in their order.
Kept(Test(_), list) ==
    LET KeepOne(kept, x) == IF Test(x) THEN Append(kept, x) ELSE kept
    IN  Fold(KeepOne, <<>>, list)
================================================================================
