---------------------------- MODULE FakePipeline ----------------------------
(***************************************************************************)
(* The payment pipeline of the API in BLOCKCHAIN_MODE=fake: PaymentsService *)
(* over the FakeBlockchainAdapter of the same process.                     *)
(*                                                                         *)
(* tick() is started by the interval timer and by every simulated payment; *)
(* `ticking` lets one run at a time.  The adapter answers from memory, so  *)
(* a tick gives way at the database calls only.  Nothing but a tick writes *)
(* payments or changes an invoice after its creation: the three calls of   *)
(* tryMatchTransfer make one action.  A restart empties the fake chain and *)
(* the service's fields, not the database.                                 *)
(***************************************************************************)
EXTENDS Integers, Sequences, PaymentDomain

CONSTANTS
    Invoices,               \* invoice ids
    Terms,                  \* Terms[i]: what invoice i asks for
    Txs,                    \* one hash for each simulated payment
    Pays,                   \* Pays[h]: its invoice and amount
    RequiredConfirmations,  \* REQUIRED_CONFIRMATIONS
    MayExpire,              \* invoices whose expiresAt may pass (bound)
    MaxBlock,               \* bound on the fake chain's height
    MaxFaults               \* bound on restarts and database errors

NotMined == -1
NoInvoice == "no invoice"

Term == [id : Invoices, network : STRING, token : STRING,
         address : [wallet : STRING, spelling : STRING],
         amount : Nat, createdAt : Nat]

ASSUME FakeAssumption ==
    /\ Terms \in [Invoices -> Term]
    /\ \A i \in Invoices : Terms[i].id = i
    /\ Pays \in [Txs -> [invoice : Invoices, amount : Nat]]
    /\ RequiredConfirmations \in Nat \ {0}
    /\ MayExpire \subseteq Invoices
    /\ MaxBlock \in Nat
    /\ MaxFaults \in Nat

\* Who runs ticks: the timer, and the request that simulated payment h.
Timer == "interval"
Tickers == Txs \cup {Timer}

VARIABLES
    block,             \* currentBlock()
    chain,             \* chain[h]: the block of transfer h, or NotMined
    lastScannedBlock,  \* PaymentsService.lastScannedBlock
    ticking,           \* PaymentsService.ticking
    tick,              \* tick[t]: the locals of the tick run by t
    caller,            \* caller[h]: how far the request to simulate h has come
    invoice,           \* Invoice.status by id
    overdue,           \* the PENDING invoices whose expiresAt has passed
    payment,           \* the Payment row of each hash
    events,            \* WebhookEvent types of each invoice, oldest first
    faults,            \* number of restarts and errors so far
    looked             \* history: the transfers tryMatchTransfer was given

process  == <<chain, lastScannedBlock, ticking, tick, caller>>
database == <<invoice, overdue, payment, events>>
vars == <<block, chain, lastScannedBlock, ticking, tick, caller, invoice,
          overdue, payment, events, faults, looked>>

PaymentRow == [status        : PaymentStatus \cup {Absent},
               invoice       : Invoices \cup {NoInvoice},
               received      : Nat,
               confirmations : Nat]
NoPayment == [status |-> Absent, invoice |-> NoInvoice, received |-> 0,
              confirmations |-> 0]

\* A payment as `include: { invoice: true }` reads it.
Nothing == [row |-> NoPayment, invoice |-> Absent]

Idle == [pc |-> "idle", overdue |-> {}, latest |-> 0, transfers |-> {},
         active |-> [h \in Txs |-> Nothing]]

Init ==
    /\ block = 0
    /\ chain = [h \in Txs |-> NotMined]
    /\ lastScannedBlock = -1
    /\ ticking = FALSE
    /\ tick = [t \in Tickers |-> Idle]
    /\ caller = [h \in Txs |-> "new"]
    /\ invoice = [i \in Invoices |-> Absent]
    /\ overdue = {}
    /\ payment = [h \in Txs |-> NoPayment]
    /\ events = [i \in Invoices |-> << >>]
    /\ faults = 0
    /\ looked = {}

----------------------------------------------------------------------------
\* The merchant, and the clock

CreateInvoice(i) ==
    /\ invoice[i] = Absent
    /\ invoice' = [invoice EXCEPT ![i] = "PENDING"]
    /\ UNCHANGED <<block, process, overdue, payment, events, faults, looked>>

ExpiryPasses(i) ==
    /\ i \in MayExpire \ overdue
    /\ invoice[i] = "PENDING"
    /\ overdue' = overdue \cup {i}
    /\ UNCHANGED <<block, process, invoice, payment, events, faults, looked>>

NextBlock ==
    /\ block < MaxBlock
    /\ block' = block + 1
    /\ UNCHANGED <<process, database, faults, looked>>

----------------------------------------------------------------------------
\* tick

Goto(t, to) == tick' = [tick EXCEPT ![t] = to]

\* Slip: the flag is not looked at.
FreeAnyway == TRUE

\* `if (this.ticking) return`.
Free == ~ticking

Finally == ticking' = FALSE

\* The flag and the findMany of expireOverdueInvoices.
BeginTick(t) ==
    /\ ticking' = TRUE
    /\ Goto(t, [tick[t] EXCEPT !.pc = "expire",
                   !.overdue = {i \in overdue : invoice[i] = "PENDING"}])

IntervalTick ==
    /\ Free
    /\ BeginTick(Timer)
    /\ UNCHANGED <<block, chain, lastScannedBlock, caller, database, faults, looked>>

\* findFirst or findUnique of the invoice; it must be PENDING at the check,
\* which runs on this row.
AskToSimulate(h) ==
    /\ caller[h] = "new"
    /\ invoice[Pays[h].invoice] = "PENDING"
    /\ caller' = [caller EXCEPT ![h] = "asked"]
    /\ UNCHANGED <<block, chain, lastScannedBlock, ticking, tick, database,
                   faults, looked>>

\* The rest of doSimulatePayment up to its first await: the transfer lands in
\* the current block, and tick() runs unless another tick does.  (The bound
\* leaves room for the confirmations.)
Broadcast(h) ==
    /\ caller[h] = "asked"
    /\ block + RequiredConfirmations <= MaxBlock
    /\ chain' = [chain EXCEPT ![h] = block]
    /\ caller' = [caller EXCEPT ![h] = "sent"]
    /\ IF Free THEN BeginTick(h) ELSE UNCHANGED <<ticking, tick>>
    /\ UNCHANGED <<block, lastScannedBlock, database, faults, looked>>

\* Its tick has returned: the answer is the invoice as it is now.
Answer(h) ==
    /\ caller[h] = "sent"
    /\ tick[h].pc = "idle"
    /\ caller' = [caller EXCEPT ![h] = IF invoice[Pays[h].invoice] = "PENDING"
                                       THEN "told pending" ELSE "told detected"]
    /\ UNCHANGED <<block, chain, lastScannedBlock, ticking, tick, database,
                   faults, looked>>

\* One turn of the expireOverdueInvoices loop.
ExpireOverdueInvoice(t, i) ==
    /\ tick[t].pc = "expire"
    /\ i \in tick[t].overdue
    /\ invoice' = [invoice EXCEPT ![i] = "EXPIRED"]
    /\ events' = [events EXCEPT ![i] = Append(@, "invoice.expired")]
    /\ Goto(t, [tick[t] EXCEPT !.overdue = @ \ {i}])
    /\ UNCHANGED <<block, chain, lastScannedBlock, ticking, caller, overdue,
                   payment, faults, looked>>

\* getLatestBlock and getTokenTransfers.
DetectNewPayments(t) ==
    /\ tick[t].pc = "expire"
    /\ tick[t].overdue = {}
    /\ Goto(t, [tick[t] EXCEPT
          !.pc = "match",
          !.latest = block,
          !.transfers = {h \in Txs : chain[h] \in (lastScannedBlock + 1)..block}])
    /\ UNCHANGED <<block, chain, lastScannedBlock, ticking, caller, database,
                   faults, looked>>

\* The transfer simulatePayment makes out of its invoice.
Transfer(h) ==
    LET ask == Terms[Pays[h].invoice]
    IN  [network |-> ask.network, token |-> ask.token, address |-> ask.address,
         amount |-> Pays[h].amount]

\* Slip: the status is not looked at.
CandidatesOfAnyStatus(h) ==
    {Terms[i] : i \in {j \in Invoices :
        /\ invoice[j] # Absent
        /\ Terms[j].network = Transfer(h).network
        /\ Terms[j].token = Transfer(h).token
        /\ Terms[j].address = Transfer(h).address}}

Candidates(h) ==
    {Terms[i] : i \in {j \in Invoices :
        /\ invoice[j] = "PENDING"
        /\ Terms[j].network = Transfer(h).network
        /\ Terms[j].token = Transfer(h).token
        /\ Terms[j].address = Transfer(h).address}}

\* The invoice the transfer pays: none if none matches or the hash is seen.
Selected(h) ==
    IF payment[h].status # Absent THEN {}
    ELSE SelectMatchingInvoice(Candidates(h), Transfer(h))

TryMatchTransfer(t, h) ==
    /\ tick[t].pc = "match"
    /\ h \in tick[t].transfers
    /\ \A g \in tick[t].transfers : chain[h] <= chain[g]
    /\ \/ /\ Selected(h) = {}
          /\ UNCHANGED <<invoice, payment>>
       \/ \E c \in Selected(h) :
             /\ payment' = [payment EXCEPT ![h] =
                   [status |-> "DETECTED", invoice |-> c.id,
                    received |-> Transfer(h).amount, confirmations |-> 0]]
             /\ invoice' = [invoice EXCEPT ![c.id] = "DETECTED"]
    /\ Goto(t, [tick[t] EXCEPT !.transfers = @ \ {h}])
    /\ looked' = looked \cup {h}
    /\ UNCHANGED <<block, chain, lastScannedBlock, ticking, caller, overdue,
                   events, faults>>

\* Slip: the latest block counts as scanned.
ScannedUpToLatest(latest) == latest

\* The latest block may still receive transfers: it is left to the next tick.
ScannedUpTo(latest) == latest - 1

\* The end of detectNewPayments, and the findMany of advanceConfirmations.
AdvanceConfirmations(t) ==
    /\ tick[t].pc = "match"
    /\ tick[t].transfers = {}
    /\ lastScannedBlock' = IF ScannedUpTo(tick[t].latest) > lastScannedBlock
                           THEN ScannedUpTo(tick[t].latest) ELSE lastScannedBlock
    /\ Goto(t, [tick[t] EXCEPT
          !.pc = "advance",
          !.active = [h \in Txs |->
              IF payment[h].status \in {"DETECTED", "CONFIRMING"}
              THEN [row |-> payment[h], invoice |-> invoice[payment[h].invoice]]
              ELSE Nothing]])
    /\ UNCHANGED <<block, chain, ticking, caller, database, faults, looked>>

Known(h) == chain[h] # NotMined

\* getConfirmations: the block of the transaction itself does not count.
Confirmations(h) == IF block > chain[h] THEN block - chain[h] ELSE 0

\* Slip: the invoice takes over the payment's status.
WriteSame(h, i, paymentStatus, confirmations, invoiceStatus) ==
    /\ payment' = [payment EXCEPT ![h].status = paymentStatus,
                                  ![h].confirmations = confirmations]
    /\ invoice' = [invoice EXCEPT ![i] = paymentStatus]

Write(h, i, paymentStatus, confirmations, invoiceStatus) ==
    /\ payment' = [payment EXCEPT ![h].status = paymentStatus,
                                  ![h].confirmations = confirmations]
    /\ invoice' = [invoice EXCEPT ![i] = invoiceStatus]

\* Slip: a payment the chain does not know is passed over.
PassOverOrphan(h, snapshot) == ~Known(h) /\ UNCHANGED <<payment, invoice, events>>

FailOrphanedPayment(h, snapshot) ==
    /\ ~Known(h)
    /\ CanTransitionPayment(snapshot.row.status, "FAILED")
    /\ CanTransitionInvoice(snapshot.invoice, "FAILED")
    /\ Write(h, snapshot.row.invoice, "FAILED", payment[h].confirmations, "FAILED")
    /\ UNCHANGED events

MoveToConfirming(h, snapshot) ==
    /\ Known(h)
    /\ snapshot.row.status = "DETECTED"
    /\ Write(h, snapshot.row.invoice, "CONFIRMING", Confirmations(h), "CONFIRMING")
    /\ UNCHANGED events

UpdateConfirmations(h, snapshot) ==
    /\ Known(h)
    /\ snapshot.row.status = "CONFIRMING"
    /\ Confirmations(h) < RequiredConfirmations
    /\ payment' = [payment EXCEPT ![h].confirmations = Confirmations(h)]
    /\ UNCHANGED <<invoice, events>>

\* Both asserts start from the literal CONFIRMING and hold.
FinalizePayment(h, snapshot) ==
    LET i       == snapshot.row.invoice
        outcome == EvaluatePaymentAmount(Terms[i].amount, snapshot.row.received)
        verdict == CASE outcome = "exact" -> <<"CONFIRMED", "PAID", "payment.paid">>
                     [] outcome = "underpaid" ->
                          <<"UNDERPAID", "UNDERPAID", "payment.underpaid">>
                     [] outcome = "overpaid" ->
                          <<"OVERPAID", "OVERPAID", "payment.overpaid">>
    IN  /\ Known(h)
        /\ snapshot.row.status = "CONFIRMING"
        /\ Confirmations(h) >= RequiredConfirmations
        /\ Write(h, i, verdict[1], Confirmations(h), verdict[2])
        /\ events' = [events EXCEPT ![i] = Append(@, verdict[3])]

\* One turn of the advanceConfirmations loop.
AdvancePayment(t, h) ==
    /\ tick[t].pc = "advance"
    /\ tick[t].active[h] # Nothing
    /\ LET snapshot == tick[t].active[h]
       IN  \/ FailOrphanedPayment(h, snapshot)
           \/ MoveToConfirming(h, snapshot)
           \/ UpdateConfirmations(h, snapshot)
           \/ FinalizePayment(h, snapshot)
    /\ Goto(t, [tick[t] EXCEPT !.active[h] = Nothing])
    /\ UNCHANGED <<block, chain, lastScannedBlock, ticking, caller, overdue,
                   faults, looked>>

TickReturns(t) ==
    /\ tick[t].pc = "advance"
    /\ \A h \in Txs : tick[t].active[h] = Nothing
    /\ Finally
    /\ Goto(t, Idle)
    /\ UNCHANGED <<block, chain, lastScannedBlock, caller, database, faults, looked>>

\* A database error: `finally` resets the flag, the rest waits for a new tick,
\* and the request that ran it answers with the error.
TickThrows(t) ==
    /\ tick[t].pc # "idle"
    /\ faults < MaxFaults
    /\ faults' = faults + 1
    /\ Finally
    /\ Goto(t, Idle)
    /\ caller' = [h \in Txs |-> IF h = t THEN "failed" ELSE caller[h]]
    /\ UNCHANGED <<block, chain, lastScannedBlock, database, looked>>

\* The process dies and starts anew: genesis is now, the chain is empty.
Restart ==
    /\ faults < MaxFaults
    /\ faults' = faults + 1
    /\ block' = 0
    /\ chain' = [h \in Txs |-> NotMined]
    /\ lastScannedBlock' = -1
    /\ ticking' = FALSE
    /\ tick' = [t \in Tickers |-> Idle]
    /\ caller' = [h \in Txs |-> IF caller[h] \in {"asked", "sent"} THEN "failed"
                                ELSE caller[h]]
    /\ looked' = {}
    /\ UNCHANGED database

TickStep(t) ==
    \/ \E i \in Invoices : ExpireOverdueInvoice(t, i)
    \/ DetectNewPayments(t)
    \/ \E h \in Txs : TryMatchTransfer(t, h) \/ AdvancePayment(t, h)
    \/ AdvanceConfirmations(t)
    \/ TickReturns(t)

Next ==
    \/ \E i \in Invoices : CreateInvoice(i) \/ ExpiryPasses(i)
    \/ NextBlock
    \/ \E h \in Txs : AskToSimulate(h) \/ Broadcast(h) \/ Answer(h)
    \/ IntervalTick
    \/ \E t \in Tickers : TickStep(t) \/ TickThrows(t)
    \/ Restart

Spec == Init /\ [][Next]_vars

\* Time passes, the interval timer fires, a tick runs on unless it throws.
Fairness ==
    /\ WF_vars(NextBlock)
    /\ WF_vars(IntervalTick)
    /\ \A t \in Tickers : WF_vars(TickStep(t))

FairSpec == Spec /\ Fairness
=============================================================================
