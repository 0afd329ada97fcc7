---------------------------- MODULE EvmPipeline ----------------------------
(***************************************************************************)
(* The payment pipeline of the worker in BLOCKCHAIN_MODE=evm.              *)
(*                                                                         *)
(* Scanners run passes of runBlockchainScan, Confirmers run passes of      *)
(* runPaymentConfirm.  BullMQ gives each queue one pass at a time in one   *)
(* worker process; a second process, or a job taken for stalled and        *)
(* started again, makes a second member of either set.  Nothing orders a   *)
(* scanner against a confirmer: a pass gives way at each await, so one     *)
(* action here is the code between two awaits.  A findMany is one read, a  *)
(* $transaction is one write, and every write is by id, whatever the row   *)
(* has become since it was read.                                           *)
(*                                                                         *)
(* The API creates invoices, the chain mines and reorganises: both are     *)
(* the environment.  A transaction is known by its hash; a transfer log    *)
(* belongs to one transaction.                                             *)
(***************************************************************************)
EXTENDS Integers, Sequences, PaymentDomain

CONSTANTS
    Invoices,               \* invoice ids
    Terms,                  \* Terms[i]: what invoice i asks for
    Txs,                    \* transaction hashes
    Logs,                   \* Transfer logs of the watched token contracts
    Transfer,               \* Transfer[l]: the decoded log, with its txHash
    Scanners, Confirmers,   \* overlapping passes of the two queues
    RequiredConfirmations,  \* REQUIRED_CONFIRMATIONS
    MayExpire,              \* invoices whose expiresAt may pass (bound)
    MayRevert,              \* transactions that may be mined reverted (bound)
    MaxHeight,              \* bound on the chain's height
    MaxReorgs,              \* bound on the number of reorganisations
    MaxFaults               \* bound on crashes and RPC or database errors

NotMined == -1
NoInvoice == "no invoice"
NoLog == "no log"
NoTx == "no tx"

Term == [id : Invoices, network : STRING, token : STRING,
         address : [wallet : STRING, spelling : STRING],
         amount : Nat, createdAt : Nat]

TransferLog == [txHash : Txs, network : STRING, token : STRING,
                address : [wallet : STRING, spelling : STRING], amount : Nat]

ASSUME TermsAssumption ==
    /\ Terms \in [Invoices -> Term]
    /\ \A i \in Invoices : Terms[i].id = i
    /\ NoInvoice \notin Invoices

ASSUME TransferAssumption ==
    /\ Transfer \in [Logs -> TransferLog]
    /\ NoLog \notin Logs
    /\ NoTx \notin Txs

ASSUME BoundsAssumption ==
    /\ RequiredConfirmations \in Nat \ {0}
    /\ MaxHeight \in Nat
    /\ MaxReorgs \in Nat
    /\ MaxFaults \in Nat
    /\ MayExpire \subseteq Invoices
    /\ MayRevert \subseteq Txs

VARIABLES
    height,     \* number of the latest block
    block,      \* block[h]: the block that holds transaction h, or NotMined
    reverted,   \* the mined transactions whose receipt says "reverted"
    invoice,    \* Invoice.status by id
    overdue,    \* the PENDING invoices whose expiresAt has passed
    payment,    \* the Payment row of each hash (unique per network, txHash)
    events,     \* WebhookEvent types of each invoice, oldest first
    cursor,     \* BlockchainScanCursor.lastScannedBlock
    scan,       \* the local state of each scanner's pass
    confirm,    \* the local state of each confirmer's pass
    reorgs,     \* number of reorganisations so far
    faults,     \* number of interrupted passes so far
    displaced,  \* history: the transactions some reorganisation moved
    scanned     \* history: the logs some pass has finished with

chain    == <<height, block, reverted>>
database == <<invoice, overdue, payment, events, cursor>>
history  == <<reorgs, faults, displaced, scanned>>
vars     == <<height, block, reverted, invoice, overdue, payment, events,
              cursor, scan, confirm, reorgs, faults, displaced, scanned>>

----------------------------------------------------------------------------
\* Rows and snapshots

PaymentRow == [status        : PaymentStatus \cup {Absent},
               invoice       : Invoices \cup {NoInvoice},
               received      : Nat,
               confirmations : Nat,
               graceOver     : BOOLEAN]

NoPayment == [status |-> Absent, invoice |-> NoInvoice, received |-> 0,
              confirmations |-> 0, graceOver |-> FALSE]

\* A payment as `include: { invoice: true }` reads it.
Snapshot == [row : PaymentRow, invoice : InvoiceStatus \cup {Absent}]
Nothing  == [row |-> NoPayment, invoice |-> Absent]

EventTypes == {"invoice.expired", "payment.paid", "payment.underpaid",
               "payment.overpaid"}

ScanIdle == [pc |-> "idle", from |-> 0, latest |-> 0,
             logs |-> [l \in Logs |-> NotMined], log |-> NoLog,
             invoice |-> NoInvoice]

ConfirmIdle == [pc |-> "idle", overdue |-> {},
                active |-> [h \in Txs |-> Nothing],
                tx |-> NoTx, receipt |-> NotMined, confirmations |-> 0]

Init ==
    /\ height = 0
    /\ block = [h \in Txs |-> NotMined]
    /\ reverted = {}
    /\ invoice = [i \in Invoices |-> Absent]
    /\ overdue = {}
    /\ payment = [h \in Txs |-> NoPayment]
    /\ events = [i \in Invoices |-> << >>]
    /\ cursor = -1
    /\ scan = [s \in Scanners |-> ScanIdle]
    /\ confirm = [c \in Confirmers |-> ConfirmIdle]
    /\ reorgs = 0
    /\ faults = 0
    /\ displaced = {}
    /\ scanned = {}

----------------------------------------------------------------------------
\* The environment: the API, the clock, the chain

\* InvoicesService.create stores the row as PENDING.
CreateInvoice(i) ==
    /\ invoice[i] = Absent
    /\ \A j \in Invoices :
          invoice[j] = Absent => Terms[i].createdAt <= Terms[j].createdAt
    /\ invoice' = [invoice EXCEPT ![i] = "PENDING"]
    /\ UNCHANGED <<chain, overdue, payment, events, cursor, scan, confirm, history>>

\* expiresAt is read for PENDING invoices only.
ExpiryPasses(i) ==
    /\ i \in MayExpire \ overdue
    /\ invoice[i] = "PENDING"
    /\ overdue' = overdue \cup {i}
    /\ UNCHANGED <<chain, invoice, payment, events, cursor, scan, confirm, history>>

\* REORG_GRACE_MS after the row's last update.  A pass reads the flag with
\* the row: time that passes later in the pass might as well have passed before.
GracePasses(h) ==
    /\ payment[h].status = "REORG_DETECTED"
    /\ ~payment[h].graceOver
    /\ payment' = [payment EXCEPT ![h].graceOver = TRUE]
    /\ UNCHANGED <<chain, invoice, overdue, events, cursor, scan, confirm, history>>

Mine(included, failing) ==
    /\ height < MaxHeight
    /\ \A h \in included : block[h] = NotMined
    /\ failing \subseteq included \cap MayRevert
    /\ height' = height + 1
    /\ block' = [h \in Txs |-> IF h \in included THEN height + 1 ELSE block[h]]
    /\ reverted' = reverted \cup failing
    /\ UNCHANGED <<database, scan, confirm, history>>

\* The last blocks, fewer than RequiredConfirmations of them, are replaced
\* by as many others.  The transactions they held return to the mempool or
\* sit in one of the replacements, where they may now revert.
Reorg(depth) ==
    LET lost == {h \in Txs : block[h] > height - depth}
    IN  /\ reorgs < MaxReorgs
        /\ depth < RequiredConfirmations
        /\ depth <= height
        /\ lost # {}
        /\ \E place \in [lost -> {NotMined} \cup (height - depth + 1)..height] :
           \E failing \in SUBSET {h \in lost \cap MayRevert : place[h] # NotMined} :
              /\ block' = [h \in Txs |-> IF h \in lost THEN place[h] ELSE block[h]]
              /\ reverted' = (reverted \ lost) \cup failing
        /\ reorgs' = reorgs + 1
        /\ displaced' = displaced \cup lost
        /\ UNCHANGED <<height, database, scan, confirm, faults, scanned>>

----------------------------------------------------------------------------
\* runBlockchainScan

ScanStep(s, to) ==
    /\ scan' = [scan EXCEPT ![s] = to]
    /\ UNCHANGED <<chain, overdue, events, confirm, reorgs, faults, displaced>>

\* Done with one log: back to the loop.
Scanned(s) ==
    [scan[s] EXCEPT !.pc = "match", !.log = NoLog, !.invoice = NoInvoice]

ScanBegin(s) ==
    /\ scan[s].pc = "idle"
    /\ ScanStep(s, [scan[s] EXCEPT !.pc = "latest", !.from = cursor + 1])
    /\ UNCHANGED <<invoice, payment, cursor, scanned>>

ScanLatest(s) ==
    /\ scan[s].pc = "latest"
    /\ ScanStep(s, IF height < scan[s].from THEN ScanIdle
                   ELSE [scan[s] EXCEPT !.pc = "fetch", !.latest = height])
    /\ UNCHANGED <<invoice, payment, cursor, scanned>>

\* Slip: the block after the cursor is left out.
GetTokenTransfersLate(from, to) ==
    [l \in Logs |->
        LET h == Transfer[l].txHash
        IN  IF block[h] \in (from + 1)..to /\ h \notin reverted
            THEN block[h] ELSE NotMined]

\* getTokenTransfers: the logs in the range on the chain as it is now.  A
\* reverted transaction leaves no log.
GetTokenTransfers(from, to) ==
    [l \in Logs |->
        LET h == Transfer[l].txHash
        IN  IF block[h] \in from..to /\ h \notin reverted
            THEN block[h] ELSE NotMined]

ScanFetch(s) ==
    /\ scan[s].pc = "fetch"
    /\ ScanStep(s, [scan[s] EXCEPT
                       !.pc = "match",
                       !.logs = GetTokenTransfers(scan[s].from, scan[s].latest)])
    /\ UNCHANGED <<invoice, payment, cursor, scanned>>

Unprocessed(s) == {l \in Logs : scan[s].logs[l] # NotMined}

\* getLogs answers in block order.
NextLogs(s) == {l \in Unprocessed(s) :
                   \A m \in Unprocessed(s) : scan[s].logs[l] <= scan[s].logs[m]}

\* Slip: the status filter is missing.
CandidatesOfAnyStatus(l) ==
    {Terms[i] : i \in {j \in Invoices :
        /\ invoice[j] # Absent
        /\ Terms[j].network = Transfer[l].network
        /\ Terms[j].token = Transfer[l].token
        /\ Terms[j].address = Transfer[l].address}}

\* The findMany of tryMatchTransfer: SQL equality, letter case included.
Candidates(l) ==
    {Terms[i] : i \in {j \in Invoices :
        /\ invoice[j] = "PENDING"
        /\ Terms[j].network = Transfer[l].network
        /\ Terms[j].token = Transfer[l].token
        /\ Terms[j].address = Transfer[l].address}}

ScanMatch(s, l) ==
    LET selected == SelectMatchingInvoice(Candidates(l), Transfer[l])
        rest     == [scan[s] EXCEPT !.logs[l] = NotMined]
    IN  /\ scan[s].pc = "match"
        /\ l \in NextLogs(s)
        /\ \/ /\ selected = {}
              /\ ScanStep(s, rest)
              /\ scanned' = scanned \cup {l}
           \/ /\ \E c \in selected :
                    ScanStep(s, [rest EXCEPT !.pc = "seen", !.log = l,
                                             !.invoice = c.id])
              /\ UNCHANGED scanned
        /\ UNCHANGED <<invoice, payment, cursor>>

ScanSeen(s) ==
    LET h == Transfer[scan[s].log].txHash
    IN  /\ scan[s].pc = "seen"
        /\ \/ /\ payment[h].status # Absent
              /\ ScanStep(s, Scanned(s))
              /\ scanned' = scanned \cup {scan[s].log}
           \/ /\ payment[h].status = Absent
              /\ ScanStep(s, [scan[s] EXCEPT !.pc = "attach"])
              /\ UNCHANGED scanned
        /\ UNCHANGED <<invoice, payment, cursor>>

\* Both asserts are on literals and hold.  The unique index on
\* (network, txHash) aborts the pass when another pass came first.
ScanAttach(s) ==
    LET l == scan[s].log
        h == Transfer[l].txHash
        i == scan[s].invoice
    IN  /\ scan[s].pc = "attach"
        /\ \/ /\ payment[h].status # Absent
              /\ ScanStep(s, ScanIdle)
              /\ UNCHANGED <<invoice, payment, scanned>>
           \/ /\ payment[h].status = Absent
              /\ payment' = [payment EXCEPT ![h] =
                    [status |-> "DETECTED", invoice |-> i,
                     received |-> Transfer[l].amount,
                     confirmations |-> 0, graceOver |-> FALSE]]
              /\ invoice' = [invoice EXCEPT ![i] = "DETECTED"]
              /\ ScanStep(s, Scanned(s))
              /\ scanned' = scanned \cup {l}
        /\ UNCHANGED cursor

\* Slip: the cursor goes to a tip read again after the loop.
ScanAdvanceToTip(s) ==
    /\ scan[s].pc = "match"
    /\ Unprocessed(s) = {}
    /\ cursor' = height
    /\ ScanStep(s, ScanIdle)
    /\ UNCHANGED <<invoice, payment, scanned>>

ScanAdvance(s) ==
    /\ scan[s].pc = "match"
    /\ Unprocessed(s) = {}
    /\ cursor' = scan[s].latest
    /\ ScanStep(s, ScanIdle)
    /\ UNCHANGED <<invoice, payment, scanned>>

\* An RPC or database error, or the death of the process: the locals go.
ScanInterrupted(s) ==
    /\ scan[s].pc # "idle"
    /\ faults < MaxFaults
    /\ faults' = faults + 1
    /\ scan' = [scan EXCEPT ![s] = ScanIdle]
    /\ UNCHANGED <<chain, database, confirm, reorgs, displaced, scanned>>

ScanPass(s) ==
    \/ ScanBegin(s) \/ ScanLatest(s) \/ ScanFetch(s)
    \/ \E l \in Logs : ScanMatch(s, l)
    \/ ScanSeen(s) \/ ScanAttach(s) \/ ScanAdvance(s)

----------------------------------------------------------------------------
\* runPaymentConfirm

ConfirmStep(c, to) ==
    /\ confirm' = [confirm EXCEPT ![c] = to]
    /\ UNCHANGED <<chain, overdue, cursor, scan, history>>

\* Slips: no expiresAt condition; the comparison turned.
PendingInvoices == {i \in Invoices : invoice[i] = "PENDING"}
NotYetOverdueInvoices == {i \in Invoices \ overdue : invoice[i] = "PENDING"}

\* The findMany of expireOverdueInvoices.
OverdueInvoices == {i \in overdue : invoice[i] = "PENDING"}

ConfirmBegin(c) ==
    /\ confirm[c].pc = "idle"
    /\ ConfirmStep(c, [confirm[c] EXCEPT !.pc = "expire",
                                         !.overdue = OverdueInvoices])
    /\ UNCHANGED <<invoice, payment, events>>

\* The assert is on literals, the write is by id.
ConfirmExpire(c, i) ==
    /\ confirm[c].pc = "expire"
    /\ i \in confirm[c].overdue
    /\ invoice' = [invoice EXCEPT ![i] = "EXPIRED"]
    /\ events' = [events EXCEPT ![i] = Append(@, "invoice.expired")]
    /\ ConfirmStep(c, [confirm[c] EXCEPT !.overdue = @ \ {i}])
    /\ UNCHANGED payment

ConfirmList(c) ==
    /\ confirm[c].pc = "expire"
    /\ confirm[c].overdue = {}
    /\ ConfirmStep(c, [confirm[c] EXCEPT
          !.pc = "pick",
          !.active = [h \in Txs |->
              IF payment[h].status \in {"DETECTED", "CONFIRMING", "REORG_DETECTED"}
              THEN [row |-> payment[h], invoice |-> invoice[payment[h].invoice]]
              ELSE Nothing]])
    /\ UNCHANGED <<invoice, payment, events>>

Active(c) == {h \in Txs : confirm[c].active[h] # Nothing}

\* getConfirmations, first call: the receipt.  findMany has no ORDER BY, so
\* the payments of a pass come in any order.
ConfirmReceipt(c, h) ==
    /\ confirm[c].pc = "pick"
    /\ h \in Active(c)
    /\ ConfirmStep(c, IF block[h] = NotMined
                      THEN [confirm[c] EXCEPT !.pc = "missing", !.tx = h]
                      ELSE [confirm[c] EXCEPT !.pc = "tip", !.tx = h,
                                              !.receipt = block[h]])
    /\ UNCHANGED <<invoice, payment, events>>

\* Slip: the block of the transaction is counted twice.
DepthPlusOne(receipt, tip) ==
    IF tip >= receipt THEN tip - receipt + 2 ELSE 0

\* getConfirmations, second call: the tip.  receipt.status is not looked at.
Depth(receipt, tip) ==
    IF tip >= receipt THEN tip - receipt + 1 ELSE 0

ConfirmTip(c) ==
    /\ confirm[c].pc = "tip"
    /\ ConfirmStep(c, [confirm[c] EXCEPT
          !.pc = "apply",
          !.confirmations = Depth(confirm[c].receipt, height)])
    /\ UNCHANGED <<invoice, payment, events>>

\* The payment of the pass in hand, as its snapshot shows it.
Row(c) == confirm[c].active[confirm[c].tx].row
RowInvoice(c) == confirm[c].active[confirm[c].tx].invoice

\* `continue`: on to the next payment of the snapshot.
Continue(c) ==
    ConfirmStep(c, [confirm[c] EXCEPT
        !.pc = "pick", !.active[confirm[c].tx] = Nothing,
        !.tx = NoTx, !.receipt = NotMined, !.confirmations = 0])

\* An assert threw: the pass ends, the payments not reached wait.
Abort(c) == /\ ConfirmStep(c, ConfirmIdle)
            /\ UNCHANGED <<invoice, payment, events>>

\* Slip: the row is written anew, without its invoice and amount.
WritePaymentAnew(c, status, confirmations) ==
    payment' = [payment EXCEPT ![confirm[c].tx] =
        [NoPayment EXCEPT !.status = status, !.confirmations = confirmations]]

\* payment.update touches updatedAt, which the grace window counts from.
WritePayment(c, status, confirmations) ==
    payment' = [payment EXCEPT ![confirm[c].tx] =
        [@ EXCEPT !.status = status, !.confirmations = confirmations,
                  !.graceOver = FALSE]]

WriteInvoice(c, status) ==
    invoice' = [invoice EXCEPT ![Row(c).invoice] = status]

MayFail(c) ==
    /\ CanTransitionPayment(Row(c).status, "FAILED")
    /\ CanTransitionInvoice(RowInvoice(c), "FAILED")

FailPayment(c) ==
    \/ /\ MayFail(c)
       /\ WritePayment(c, "FAILED", payment[confirm[c].tx].confirmations)
       /\ WriteInvoice(c, "FAILED")
       /\ Continue(c)
       /\ UNCHANGED events
    \/ /\ ~MayFail(c)
       /\ Abort(c)

\* handleMissingTransaction's three branches.
FailsIfMissing(row) ==
    row.status = "DETECTED" \/ (row.status = "REORG_DETECTED" /\ row.graceOver)
\* Slip: a payment never confirmed is given the grace window too.
ReorgsFromDetected(row) == row.status \in {"DETECTED", "CONFIRMING"}

ReorgsIfMissing(row) == row.status = "CONFIRMING"

HandleMissingTransaction(c) ==
    /\ confirm[c].pc = "missing"
    /\ \/ /\ FailsIfMissing(Row(c))
          /\ FailPayment(c)
       \/ /\ ReorgsIfMissing(Row(c))
          /\ WritePayment(c, "REORG_DETECTED", payment[confirm[c].tx].confirmations)
          /\ Continue(c)
          /\ UNCHANGED <<invoice, events>>
       \/ /\ ~FailsIfMissing(Row(c))
          /\ ~ReorgsIfMissing(Row(c))
          /\ Continue(c)
          /\ UNCHANGED <<invoice, payment, events>>

\* Slip: the assert is made on every invoice.
InvoiceMayConfirmOnce(status) == CanTransitionInvoice(status, "CONFIRMING")

\* A payment that reappears finds its invoice CONFIRMING already.
InvoiceMayConfirm(status) ==
    status = "CONFIRMING" \/ CanTransitionInvoice(status, "CONFIRMING")

MoveToConfirming(c) ==
    /\ confirm[c].pc = "apply"
    /\ Row(c).status \in {"DETECTED", "REORG_DETECTED"}
    /\ \/ /\ InvoiceMayConfirm(RowInvoice(c))
          /\ WritePayment(c, "CONFIRMING", confirm[c].confirmations)
          /\ WriteInvoice(c, "CONFIRMING")
          /\ Continue(c)
          /\ UNCHANGED events
       \/ /\ ~InvoiceMayConfirm(RowInvoice(c))
          /\ Abort(c)

Confirmed(c) == confirm[c].confirmations >= RequiredConfirmations

UpdateConfirmations(c) ==
    /\ confirm[c].pc = "apply"
    /\ Row(c).status = "CONFIRMING"
    /\ ~Confirmed(c)
    /\ IF confirm[c].confirmations # Row(c).confirmations
       THEN WritePayment(c, payment[confirm[c].tx].status, confirm[c].confirmations)
       ELSE UNCHANGED payment
    /\ Continue(c)
    /\ UNCHANGED <<invoice, events>>

\* The three names evaluatePaymentAmount's verdict is written under.
PaymentVerdict(outcome) ==
    CASE outcome = "exact" -> "CONFIRMED"
      [] outcome = "underpaid" -> "UNDERPAID"
      [] outcome = "overpaid" -> "OVERPAID"

\* Slip: anything that reached the address pays the invoice.
InvoiceVerdictOnArrival(outcome) == "PAID"

InvoiceVerdict(outcome) ==
    CASE outcome = "exact" -> "PAID"
      [] outcome = "underpaid" -> "UNDERPAID"
      [] outcome = "overpaid" -> "OVERPAID"

\* Slip: too much is reported as paid.
EventTypeLenient(outcome) ==
    IF outcome = "underpaid" THEN "payment.underpaid" ELSE "payment.paid"

EventType(outcome) ==
    CASE outcome = "exact" -> "payment.paid"
      [] outcome = "underpaid" -> "payment.underpaid"
      [] outcome = "overpaid" -> "payment.overpaid"

\* Both asserts start from the literal CONFIRMING and hold.
FinalizePayment(c) ==
    LET i       == Row(c).invoice
        outcome == EvaluatePaymentAmount(Terms[i].amount, Row(c).received)
    IN  /\ confirm[c].pc = "apply"
        /\ Row(c).status = "CONFIRMING"
        /\ Confirmed(c)
        /\ WritePayment(c, PaymentVerdict(outcome), confirm[c].confirmations)
        /\ WriteInvoice(c, InvoiceVerdict(outcome))
        /\ events' = [events EXCEPT ![i] = Append(@, EventType(outcome))]
        /\ Continue(c)

ConfirmEnd(c) ==
    /\ confirm[c].pc = "pick"
    /\ Active(c) = {}
    /\ ConfirmStep(c, ConfirmIdle)
    /\ UNCHANGED <<invoice, payment, events>>

ConfirmInterrupted(c) ==
    /\ confirm[c].pc # "idle"
    /\ faults < MaxFaults
    /\ faults' = faults + 1
    /\ confirm' = [confirm EXCEPT ![c] = ConfirmIdle]
    /\ UNCHANGED <<chain, database, scan, reorgs, displaced, scanned>>

ConfirmPass(c) ==
    \/ ConfirmBegin(c)
    \/ \E i \in Invoices : ConfirmExpire(c, i)
    \/ ConfirmList(c)
    \/ \E h \in Txs : ConfirmReceipt(c, h)
    \/ ConfirmTip(c)
    \/ HandleMissingTransaction(c) \/ MoveToConfirming(c)
    \/ UpdateConfirmations(c) \/ FinalizePayment(c)
    \/ ConfirmEnd(c)

----------------------------------------------------------------------------
Environment ==
    \/ \E i \in Invoices : CreateInvoice(i) \/ ExpiryPasses(i)
    \/ \E h \in Txs : GracePasses(h)
    \/ \E included, failing \in SUBSET Txs : Mine(included, failing)
    \/ \E depth \in 1..MaxHeight : Reorg(depth)

Next ==
    \/ Environment
    \/ \E s \in Scanners : ScanPass(s) \/ ScanInterrupted(s)
    \/ \E c \in Confirmers : ConfirmPass(c) \/ ConfirmInterrupted(c)

Spec == Init /\ [][Next]_vars

\* The job schedulers start a pass again every five seconds, a pass runs to
\* its end unless interrupted, and the chain grows.  Nobody has to create an
\* invoice, pay, or let an invoice lapse.
Fairness ==
    /\ WF_vars(\E included \in SUBSET Txs : Mine(included, {}))
    /\ \A h \in Txs : WF_vars(GracePasses(h))
    /\ \A s \in Scanners : WF_vars(ScanPass(s))
    /\ \A c \in Confirmers : WF_vars(ConfirmPass(c))

FairSpec == Spec /\ Fairness
=============================================================================
