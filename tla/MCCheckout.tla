----------------------------- MODULE MCCheckout -----------------------------
(***************************************************************************)
(* A small instance of the checkout page for TLC: one invoice, one tab.    *)
(***************************************************************************)
EXTENDS CheckoutPage

MCLinkOf == [t \in {"tab"} |-> "i1"]
=============================================================================
