----------------------------- MODULE MCCheckout -----------------------------
(* Model-checking instances of Checkout, and what the checkout work package  *)
(* and the service's own refusals say of it that the code does not keep.     *)
EXTENDS Checkout, TLC

CONSTANTS o1, o2, i1, i2

MCOrderOf == i1 :> o1 @@ i2 :> o2

Symmetry == Permutations(Workers) \cup Permutations(Keys)

(* "Only a Confirmed Order can initiate checkout."                           *)
ConfirmedInitiates ==
    [][\A k \in Keys : ~Recorded(k) /\ Initiated(k)'
         => order[OrderOf[input'[k]]] = "Confirmed"]_vars
=============================================================================
