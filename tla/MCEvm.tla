------------------------------- MODULE MCEvm -------------------------------
(***************************************************************************)
(* Small instances of the evm pipeline for TLC.  One merchant, one         *)
(* network, one token; the merchant reuses one deposit address, so both    *)
(* invoices compete for every transfer.                                    *)
(***************************************************************************)
EXTENDS EvmPromises

Deposit(spelling) == [wallet |-> "merchant", spelling |-> spelling]

Asks(i, amount, spelling) ==
    [id |-> i, network |-> "base", token |-> "USDC",
     address |-> Deposit(spelling), amount |-> amount, createdAt |-> amount]

Pays(h, amount) ==
    [txHash |-> h, network |-> "base", token |-> "USDC",
     address |-> Deposit("checksum"), amount |-> amount]

MCTxs2 == {"t1", "t2"}

\* Two invoices of different amounts, stored with the checksum spelling.
MCTerms == [i \in {"i1", "i2"} |-> Asks(i, IF i = "i1" THEN 1 ELSE 2, "checksum")]

\* t1 pays the first invoice exactly; t2 pays more than it, exactly the second.
MCTransfer == [h \in MCTxs2 |-> Pays(h, IF h = "t1" THEN 1 ELSE 2)]

\* Once the first invoice has lapsed, t1 is too small for the second.
MCTxOne == {"t1"}
MCTransferOne == [h \in MCTxOne |-> Pays(h, 1)]
=============================================================================
