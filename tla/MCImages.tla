------------------------------ MODULE MCImages ------------------------------
(* Two Creates of one tag that moves between a small and a large image; the *)
(* large one exceeds one container's limit and just equals the other's.     *)
EXTENDS Images, TLC

CONSTANTS w1, w2, small, large

Sizes == small :> 2 @@ large :> 4
Limits == w1 :> 3 @@ w2 :> 4

KeySymmetry == Permutations(Keys)
=============================================================================
