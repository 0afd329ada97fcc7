------------------------------- MODULE MCFake -------------------------------
(***************************************************************************)
(* A small instance of the fake-chain pipeline for TLC: two invoices on    *)
(* one deposit address, two simulated payments.                            *)
(***************************************************************************)
EXTENDS FakePromises

MCTerms == [i \in {"i1", "i2"} |->
    [id |-> i, network |-> "base", token |-> "USDC",
     address |-> [wallet |-> "merchant", spelling |-> "lower"],
     amount |-> IF i = "i1" THEN 1 ELSE 2,
     createdAt |-> IF i = "i1" THEN 1 ELSE 2]]

\* Both are meant for the first invoice: one pays it, one pays too much.
MCPays == [h \in {"t1", "t2"} |->
    [invoice |-> "i1", amount |-> IF h = "t1" THEN 1 ELSE 3]]
=============================================================================
