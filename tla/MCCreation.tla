----------------------------- MODULE MCCreation -----------------------------
(***************************************************************************)
(* A small instance of invoice creation for TLC: one order asked for       *)
(* twice, and once more with other terms, or an invoice of no order.       *)
(***************************************************************************)
EXTENDS InvoiceCreation

Order(terms) == [external |-> "order", terms |-> terms]
NoOrder == [external |-> NoExternalId, terms |-> "terms"]

MCInputs == {[c \in Clients |-> IF c = "c3" THEN third ELSE Order("terms")] :
                third \in {Order("other terms"), NoOrder}}
=============================================================================
