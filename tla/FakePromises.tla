---------------------------- MODULE FakePromises ----------------------------
(***************************************************************************)
(* What the fake-chain pipeline promises, apart from how FakePipeline does *)
(* it.                                                                     *)
(***************************************************************************)
EXTENDS FakePipeline

TickState ==
    [pc        : {"idle", "expire", "match", "advance"},
     overdue   : SUBSET Invoices,
     latest    : 0..MaxBlock,
     transfers : SUBSET Txs,
     active    : [Txs -> [row : PaymentRow, invoice : InvoiceStatus \cup {Absent}]]]

\* Type correctness of the fake chain, the service's fields and the tables.
TypeOK ==
    /\ block \in 0..MaxBlock
    /\ chain \in [Txs -> {NotMined} \cup 0..MaxBlock]
    /\ lastScannedBlock \in -1..MaxBlock
    /\ ticking \in BOOLEAN
    /\ tick \in [Tickers -> TickState]
    /\ caller \in [Txs -> {"new", "asked", "sent", "failed",
                           "told pending", "told detected"}]
    /\ invoice \in [Invoices -> InvoiceStatus \cup {Absent}]
    /\ overdue \subseteq Invoices
    /\ payment \in [Txs -> PaymentRow]
    /\ events \in [Invoices -> Seq({"invoice.expired", "payment.paid",
                                    "payment.underpaid", "payment.overpaid"})]
    /\ faults \in 0..MaxFaults
    /\ looked \subseteq Txs

Live(h) == payment[h].status \notin {Absent, "FAILED"}

\* Simulated payments compete for an invoice, ticks overlap requests, and the
\* latest block is scanned again: still no two payments of an invoice are in
\* flight or decided.
OneLiveAttempt ==
    \A g, h \in Txs :
        Live(g) /\ Live(h) /\ payment[g].invoice = payment[h].invoice => g = h

Life == INSTANCE InvoiceLife WITH
    status <- invoice, lapsed <- overdue, heard <- events, Racing <- FALSE

\* One tick at a time leaves no room for the expiry race: what the merchant
\* sees is a life in which an invoice never leaves EXPIRED, and each verdict is
\* told once, restarts and errors in mid-tick included.
ImplementsInvoiceLife == Life!Spec

Settling(h) == payment[h].status \in {"DETECTED", "CONFIRMING"}

\* A payment in flight is settled, or failed once its chain is forgotten: it
\* does not stay behind after a restart, nor hold up the others.
InFlightPaymentEnds == \A h \in Txs : Settling(h) ~> ~Settling(h)

\* A simulated transfer is looked at by some tick, the one of its own request
\* or, when that returned at once, another; unless a restart forgets it.
SimulatedTransferIsRead ==
    \A h \in Txs : chain[h] # NotMined ~> h \in looked \/ chain[h] = NotMined
=============================================================================
