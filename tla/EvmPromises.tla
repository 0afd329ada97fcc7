---------------------------- MODULE EvmPromises ----------------------------
(***************************************************************************)
(* What the evm payment pipeline promises its merchants, apart from how    *)
(* EvmPipeline does it.  Most of it needs one scanner and one confirmer,   *)
(* which is what the deployment has (OneScanner, OneConfirmer); each       *)
(* promise says so.                                                        *)
(***************************************************************************)
EXTENDS EvmPipeline

OneScanner   == \A s, t \in Scanners : s = t
OneConfirmer == \A c, d \in Confirmers : c = d

----------------------------------------------------------------------------
\* Types

ScannerState ==
    [pc      : {"idle", "latest", "fetch", "match", "seen", "attach"},
     from    : Nat,
     latest  : Nat,
     logs    : [Logs -> {NotMined} \cup Nat],
     log     : Logs \cup {NoLog},
     invoice : Invoices \cup {NoInvoice}]

ConfirmerState ==
    [pc            : {"idle", "expire", "pick", "tip", "missing", "apply"},
     overdue       : SUBSET Invoices,
     active        : [Txs -> Snapshot],
     tx            : Txs \cup {NoTx},
     receipt       : {NotMined} \cup Nat,
     confirmations : Nat]

ChainOK ==
    /\ height \in Nat
    /\ block \in [Txs -> {NotMined} \cup Nat]
    /\ reverted \subseteq Txs

DatabaseOK ==
    /\ invoice \in [Invoices -> InvoiceStatus \cup {Absent}]
    /\ overdue \subseteq Invoices
    /\ payment \in [Txs -> PaymentRow]
    /\ \A h \in Txs : payment[h].status # Absent => payment[h].invoice \in Invoices
    /\ events \in [Invoices -> Seq(EventTypes)]
    /\ cursor \in {-1} \cup Nat

\* Between the choice of an invoice and the insert both are in hand.
ScanOK ==
    /\ scan \in [Scanners -> ScannerState]
    /\ \A s \in Scanners :
          scan[s].pc \in {"seen", "attach"} =>
              scan[s].log \in Logs /\ scan[s].invoice \in Invoices

\* A snapshot entry is of a row that exists, and its parent never changes.
EntryOK(entry, h) ==
    entry # Nothing =>
        /\ entry.row.status \in {"DETECTED", "CONFIRMING", "REORG_DETECTED"}
        /\ entry.row.invoice \in Invoices
        /\ payment[h].status # Absent
        /\ payment[h].invoice = entry.row.invoice
        /\ payment[h].received = entry.row.received

ConfirmOK ==
    /\ confirm \in [Confirmers -> ConfirmerState]
    /\ \A c \in Confirmers :
          /\ \A h \in Txs : EntryOK(confirm[c].active[h], h)
          /\ confirm[c].pc \in {"tip", "missing", "apply"} =>
                confirm[c].tx \in Txs /\ confirm[c].active[confirm[c].tx] # Nothing

HistoryOK ==
    /\ reorgs \in Nat
    /\ faults \in Nat
    /\ displaced \subseteq Txs
    /\ scanned \subseteq Logs

\* Type correctness of the tables and of every pass's locals.
TypeOK == ChainOK /\ DatabaseOK /\ ScanOK /\ ConfirmOK /\ HistoryOK

----------------------------------------------------------------------------
\* Safety

\* A payment that is in flight or has a verdict, as opposed to a failed one.
Live(h) == payment[h].status \notin {Absent, "FAILED"}

\* An invoice has one status, and it is that of one payment: no two payments of
\* an invoice are in flight or decided, though several transfers to the
\* merchant's one address may compete for it while other invoices lapse.  A
\* failed attempt does not count.  (One scanner.)
OneLiveAttempt ==
    \A g, h \in Txs :
        Live(g) /\ Live(h) /\ payment[g].invoice = payment[h].invoice => g = h

\* The status an invoice has while its payment is in the given status.
InvoiceSide(status) ==
    CASE status = "DETECTED" -> "DETECTED"
      [] status \in {"CONFIRMING", "REORG_DETECTED"} -> "CONFIRMING"
      [] status = "CONFIRMED" -> "PAID"
      [] OTHER -> status

\* A payment and its invoice tell the same story at every moment, a verdict is
\* the one the amount deserves, and no invoice leaves PENDING for anything but
\* EXPIRED without a payment to show for it.  The one exception is the expiry
\* race: a confirmer that listed the invoice as overdue just before the transfer
\* was attached leaves EXPIRED over a DETECTED payment.  (One scanner, one confirmer.)
StatusesAgree ==
    /\ \A h \in Txs :
          payment[h].status # Absent =>
              LET i == payment[h].invoice
              IN  \/ invoice[i] = InvoiceSide(payment[h].status)
                  \/ /\ i \in overdue
                     /\ payment[h].status = "DETECTED"
                     /\ invoice[i] = "EXPIRED"
    /\ \A h \in Txs :
          payment[h].status \in PaymentVerdicts =>
              payment[h].status =
                  PaymentVerdict(EvaluatePaymentAmount(
                      Terms[payment[h].invoice].amount, payment[h].received))
    /\ \A i \in Invoices :
          invoice[i] \notin {Absent, "PENDING", "EXPIRED"} =>
              \E h \in Txs : payment[h].status # Absent /\ payment[h].invoice = i

\* A settled payment whose transaction no reorganisation touched is on the
\* chain, successful, and buried under the required confirmations, whatever
\* the number of passes that overlapped.
SettledIsOnChain ==
    \A h \in Txs \ displaced :
        payment[h].status \in PaymentVerdicts =>
            /\ block[h] # NotMined
            /\ h \notin reverted
            /\ height - block[h] + 1 >= RequiredConfirmations

\* The cursor never passes over a transfer: every log at or below it, of a
\* transaction no reorganisation moved, went through the matcher.  Crashes
\* in mid-pass and overlapping scanners included.
CursorCoversTransfers ==
    \A l \in Logs :
        LET h == Transfer[l].txHash
        IN  /\ h \notin displaced
            /\ block[h] \in 0..cursor
            /\ h \notin reverted
            => l \in scanned

----------------------------------------------------------------------------
\* Action properties

\* Every write of Payment.status follows the payment state machine, though
\* the passes write by id and assert on their snapshot.  (One confirmer.)
PaymentStepLegal ==
    \A h \in Txs :
        /\ payment[h].status # Absent
        /\ payment'[h].status # payment[h].status
        => CanTransitionPayment(payment[h].status, payment'[h].status)
PaymentStepsLegal == [][PaymentStepLegal]_vars

----------------------------------------------------------------------------
\* Refinement

Life == INSTANCE InvoiceLife WITH
    status <- invoice, lapsed <- overdue, heard <- events, Racing <- TRUE

\* Whatever the scanner and the confirmer interleave, reorganise, crash and
\* repeat, what the merchant sees of an invoice is a life InvoiceLife allows:
\* one verdict, told once.  (One scanner, one confirmer.)
ImplementsInvoiceLife == Life!Spec

----------------------------------------------------------------------------
\* Liveness

Settling(h) == payment[h].status \in {"DETECTED", "CONFIRMING", "REORG_DETECTED"}

Buried(h) == /\ block[h] # NotMined
             /\ height - block[h] + 1 >= RequiredConfirmations

\* A payment whose transaction is buried deep enough is settled one way or
\* the other, unless its own invoice was overdue.  (No expiry elsewhere.)
BuriedPaymentSettles ==
    \A h \in Txs :
        Settling(h) /\ Buried(h) /\ payment[h].invoice \notin overdue
            ~> ~Settling(h)

\* A transfer that is mined while an invoice it matches is PENDING is
\* attached to an invoice, unless that invoice went to another transfer
\* first or lapsed, or a reorganisation moved the transaction: the blocks it
\* brings at or below the cursor are not read again.
TransferFindsInvoice ==
    \A l \in Logs, i \in Invoices :
        /\ invoice[i] = "PENDING"
        /\ MatchesInvoice(Terms[i], Transfer[l])
        /\ block[Transfer[l].txHash] > cursor
        /\ Transfer[l].txHash \notin reverted
        /\ \A s \in Scanners : scan[s].pc \in {"idle", "latest"}
        ~> \/ payment[Transfer[l].txHash].status # Absent
           \/ invoice[i] # "PENDING"
           \/ Transfer[l].txHash \in displaced

\* An overdue invoice does not stay PENDING, whatever happens to the
\* payments handled later in the pass.
OverdueInvoiceCloses ==
    \A i \in Invoices :
        i \in overdue /\ invoice[i] = "PENDING" ~> invoice[i] # "PENDING"

=============================================================================
