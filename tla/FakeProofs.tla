----------------------------- MODULE FakeProofs -----------------------------
(***************************************************************************)
(* Proofs about the fake-chain pipeline, for any invoices, simulated       *)
(* payments, confirmations, restarts and errors.                           *)
(*                                                                         *)
(* The argument: `ticking` lets one tick run, so that the rows a tick read *)
(* are still what they were when it writes them; and the invoice of a      *)
(* payment is no longer PENDING, so that no other payment gets it.         *)
(***************************************************************************)
EXTENDS FakePromises, TLAPS

Entry == [row : PaymentRow, invoice : InvoiceStatus \cup {Absent}]

Running(t) == tick[t].pc # "idle"

Alone ==
    /\ \A t \in Tickers : Running(t) => ticking
    /\ \A t, u \in Tickers : Running(t) /\ Running(u) => t = u

\* What a tick has listed is as it was read.
FreshList(s) ==
    /\ s.pc # "expire" => s.overdue = {}
    /\ \A i \in s.overdue : invoice[i] = "PENDING" /\ i \in overdue

FreshEntry(s, h) ==
    s.active[h] # Nothing =>
        /\ s.pc = "advance"
        /\ Settling(h)
        /\ s.active[h].row = payment[h]
        /\ s.active[h].invoice = invoice[payment[h].invoice]

Fresh(s) == FreshList(s) /\ \A h \in Txs : FreshEntry(s, h)

\* A payment's invoice goes along with it.
PaymentOK(h) ==
    payment[h].status # Absent =>
        /\ payment[h].invoice \in Invoices
        /\ invoice[payment[h].invoice] \notin {Absent, "PENDING"}
        /\ Settling(h) => invoice[payment[h].invoice] = payment[h].status

Untold == \A i \in Invoices : invoice[i] \in {Absent, "PENDING"} => events[i] = << >>

\* What the code keeps, and the documents do not ask for: not even a failed
\* payment is ever followed by another.  The induction needs it.
OneRowPerInvoice ==
    \A g, h \in Txs :
        /\ payment[g].status # Absent
        /\ payment[h].status # Absent
        /\ payment[g].invoice = payment[h].invoice
        => g = h

TablesOK ==
    /\ \A h \in Txs : PaymentOK(h)
    /\ OneRowPerInvoice
    /\ Untold

FakeInv ==
    /\ TypeOK
    /\ Alone
    /\ \A t \in Tickers : Fresh(tick[t])
    /\ TablesOK

----------------------------------------------------------------------------
\* An idle tick has read nothing.
LEMMA IdleTick ==
    /\ Idle \in TickState
    /\ Idle.pc = "idle" /\ Idle.overdue = {}
    /\ \A h \in Txs : Idle.active[h] = Nothing
<1>1. NoPayment \in PaymentRow
  BY DEF NoPayment, PaymentRow
<1>2. Nothing \in Entry
  BY <1>1 DEF Nothing, Entry
<1>3. [h \in Txs |-> Nothing] \in [Txs -> Entry]
  BY <1>2
<1>4. 0 \in 0..MaxBlock
  BY FakeAssumption
<1> HIDE DEF Nothing
<1> QED
  BY <1>3, <1>4 DEF Idle, TickState, Entry

\* So it is fresh whatever the tables say.
LEMMA IdleIsFresh == Fresh(Idle)
  BY IdleTick DEF Fresh, FreshList, FreshEntry

\* A tick writes its own locals only.
LEMMA GotoMoves ==
    ASSUME TypeOK, NEW t \in Tickers, NEW to \in TickState, Goto(t, to)
    PROVE  /\ tick' \in [Tickers -> TickState]
           /\ tick'[t] = to
           /\ \A u \in Tickers \ {t} : tick'[u] = tick[u]
  BY DEF TypeOK, Goto

\* While one tick runs the others are idle, with nothing read.
LEMMA OthersIdle ==
    ASSUME FakeInv, NEW t \in Tickers, Running(t)
    PROVE  \A u \in Tickers \ {t} : tick[u].pc = "idle"
  BY DEF FakeInv, Alone, Running

\* An idle tick has nothing to become stale.
LEMMA IdleStaysFresh ==
    ASSUME NEW u \in Tickers, Fresh(tick[u]), tick[u].pc = "idle", tick'[u] = tick[u]
    PROVE  Fresh(tick[u])'
<1>1. tick[u].overdue = {} /\ \A h \in Txs : tick[u].active[h] = Nothing
  BY DEF Fresh, FreshList, FreshEntry
<1>2. tick'[u].overdue = {} /\ \A h \in Txs : tick'[u].active[h] = Nothing
  BY <1>1
<1> QED
  BY <1>2 DEF Fresh, FreshList, FreshEntry

\* A tick that runs on keeps the others out.
LEMMA StaysAlone ==
    ASSUME FakeInv, NEW t \in Tickers, Running(t), NEW to \in TickState, Goto(t, to),
           to.pc = "idle" \/ ticking' = TRUE
    PROVE  Alone'
<1>1. /\ tick'[t] = to
      /\ \A u \in Tickers \ {t} : tick'[u] = tick[u]
  BY GotoMoves DEF FakeInv
<1>2. \A u \in Tickers \ {t} : tick'[u].pc = "idle"
  BY <1>1, OthersIdle
<1> QED
  BY <1>1, <1>2 DEF Alone, Running

\* A tick's step that leaves the tables.
LEMMA TickReads ==
    ASSUME FakeInv, NEW t \in Tickers, Running(t), NEW to \in TickState, Goto(t, to),
           to.pc = "idle" \/ ticking' = TRUE,
           Fresh(to),
           UNCHANGED <<invoice, overdue, payment, events>>
    PROVE  Alone' /\ (\A u \in Tickers : Fresh(tick[u])') /\ TablesOK'
<1>1. /\ tick'[t] = to
      /\ \A u \in Tickers \ {t} : tick'[u] = tick[u]
  BY GotoMoves DEF FakeInv
<1>2. \A u \in Tickers \ {t} : Fresh(tick[u])'
  BY <1>1, OthersIdle, IdleStaysFresh DEF FakeInv
<1>3. Fresh(tick[t])'
  BY <1>1 DEF Fresh, FreshList, FreshEntry, Settling
<1>4. TablesOK'
  BY DEF FakeInv, TablesOK, PaymentOK, OneRowPerInvoice, Untold, Settling
<1> QED
  BY <1>2, <1>3, <1>4, StaysAlone

----------------------------------------------------------------------------
\* What leaves the ticks and the tables leaves the rest of the invariant.
LEMMA TablesStay ==
    ASSUME FakeInv, UNCHANGED <<tick, ticking, invoice, overdue, payment, events>>
    PROVE  Alone' /\ (\A t \in Tickers : Fresh(tick[t])') /\ TablesOK'
<1>1. Alone'
  BY DEF FakeInv, Alone, Running
<1>2. \A t \in Tickers : Fresh(tick[t])'
  BY DEF FakeInv, Fresh, FreshList, FreshEntry, Settling
<1>3. TablesOK'
  BY DEF FakeInv, TablesOK, PaymentOK, OneRowPerInvoice, Untold, Settling
<1> QED
  BY <1>1, <1>2, <1>3

LEMMA InitOK == Init => FakeInv
<1> SUFFICES ASSUME Init PROVE FakeInv
  OBVIOUS
<1>1. NoPayment \in PaymentRow /\ NoPayment.status = Absent
  BY DEF NoPayment, PaymentRow
<1>2. /\ Idle \in TickState
      /\ tick = [t \in Tickers |-> Idle]
      /\ payment = [h \in Txs |-> NoPayment]
  BY IdleTick DEF Init
<1>3. /\ tick \in [Tickers -> TickState]
      /\ \A t \in Tickers : tick[t] = Idle
  BY <1>2
<1>4. /\ payment \in [Txs -> PaymentRow]
      /\ \A h \in Txs : payment[h].status = Absent
  <2>1. \A h \in Txs : payment[h] = NoPayment
    BY <1>2
  <2> QED
    BY <1>1, <1>2, <2>1
<1> HIDE DEF Idle, NoPayment
<1>5. TypeOK
  <2>1. /\ block \in 0..MaxBlock
        /\ lastScannedBlock \in -1..MaxBlock
        /\ faults \in 0..MaxFaults
    BY FakeAssumption DEF Init
  <2>2. /\ chain \in [Txs -> {NotMined} \cup 0..MaxBlock]
        /\ caller \in [Txs -> {"new", "asked", "sent", "failed",
                               "told pending", "told detected"}]
        /\ invoice \in [Invoices -> InvoiceStatus \cup {Absent}]
        /\ ticking \in BOOLEAN
        /\ overdue \subseteq Invoices
        /\ looked \subseteq Txs
    BY DEF Init
  <2>3. events \in [Invoices -> Seq({"invoice.expired", "payment.paid",
                                    "payment.underpaid", "payment.overpaid"})]
    BY DEF Init
  <2> QED
    BY <1>3, <1>4, <2>1, <2>2, <2>3 DEF TypeOK
<1>6. Alone
  BY <1>3, IdleTick DEF Alone, Running
<1>7. \A t \in Tickers : Fresh(tick[t])
  BY <1>3, IdleIsFresh
<1>8. TablesOK
  BY <1>4 DEF Init, TablesOK, PaymentOK, OneRowPerInvoice, Untold
<1> QED
  BY <1>5, <1>6, <1>7, <1>8 DEF FakeInv

\* A new invoice is on no list and has no payment.
LEMMA CreateInvoiceKeeps ==
    ASSUME FakeInv, NEW i \in Invoices, CreateInvoice(i)
    PROVE  FakeInv'
<1>1. /\ invoice[i] = Absent
      /\ invoice' \in [Invoices -> InvoiceStatus \cup {Absent}]
      /\ invoice'[i] = "PENDING"
      /\ \A j \in Invoices \ {i} : invoice'[j] = invoice[j]
  BY DEF FakeInv, TypeOK, CreateInvoice, InvoiceStatus
<1>2. UNCHANGED <<block, chain, lastScannedBlock, ticking, tick, caller, overdue,
                  payment, events, faults, looked>>
  BY DEF CreateInvoice, process
<1>3. TypeOK'
  BY <1>1, <1>2 DEF FakeInv, TypeOK
<1>4. Alone'
  BY <1>2 DEF FakeInv, Alone, Running
<1>5. \A h \in Txs : payment[h].status # Absent =>
          payment[h].invoice \in Invoices \ {i}
  BY <1>1 DEF FakeInv, TablesOK, PaymentOK
<1>6. ASSUME NEW t \in Tickers PROVE Fresh(tick[t])'
  <2>1. FreshList(tick[t])'
    BY <1>1, <1>2 DEF FakeInv, Fresh, FreshList, TypeOK, TickState, Absent
  <2>2. ASSUME NEW h \in Txs PROVE FreshEntry(tick[t], h)'
    <3>1. FreshEntry(tick[t], h)
      BY DEF FakeInv, Fresh
    <3>2. Settling(h) => payment[h].status # Absent
      BY DEF Settling, Absent
    <3> QED
      BY <3>1, <3>2, <1>1, <1>2, <1>5 DEF FreshEntry, Settling
  <2> QED
    BY <2>1, <2>2 DEF Fresh
<1>7. TablesOK'
  <2>1. \A h \in Txs : PaymentOK(h)'
    BY <1>1, <1>2, <1>5 DEF FakeInv, TablesOK, PaymentOK, Settling
  <2>2. OneRowPerInvoice'
    BY <1>2 DEF FakeInv, TablesOK, OneRowPerInvoice
  <2>3. Untold'
    BY <1>1, <1>2 DEF FakeInv, TablesOK, Untold
  <2> QED
    BY <2>1, <2>2, <2>3 DEF TablesOK
<1> QED
  BY <1>3, <1>4, <1>6, <1>7 DEF FakeInv

\* The clock adds to the overdue invoices.
LEMMA ExpiryPassesKeeps ==
    ASSUME FakeInv, NEW i \in Invoices, ExpiryPasses(i)
    PROVE  FakeInv'
<1>1. /\ overdue' = overdue \cup {i}
      /\ UNCHANGED <<block, chain, lastScannedBlock, ticking, tick, caller, invoice,
                     payment, events, faults, looked>>
  BY DEF ExpiryPasses, process
<1>2. TypeOK'
  BY <1>1 DEF FakeInv, TypeOK
<1>3. Alone'
  BY <1>1 DEF FakeInv, Alone, Running
<1>4. \A t \in Tickers : Fresh(tick[t])'
  BY <1>1 DEF FakeInv, Fresh, FreshList, FreshEntry, Settling
<1>5. TablesOK'
  BY <1>1 DEF FakeInv, TablesOK, PaymentOK, OneRowPerInvoice, Untold, Settling
<1> QED
  BY <1>2, <1>3, <1>4, <1>5 DEF FakeInv

LEMMA NextBlockKeeps == ASSUME FakeInv, NextBlock PROVE FakeInv'
<1>1. UNCHANGED <<chain, lastScannedBlock, ticking, tick, caller, invoice, overdue,
                  payment, events, faults, looked>>
  BY DEF NextBlock, process, database
<1>2. block' \in 0..MaxBlock
  <2>1. block \in 0..MaxBlock /\ block < MaxBlock /\ block' = block + 1
    BY DEF FakeInv, TypeOK, NextBlock
  <2> QED
    BY <2>1, FakeAssumption
<1>3. TypeOK'
  BY <1>1, <1>2 DEF FakeInv, TypeOK
<1> QED
  BY <1>1, <1>3, TablesStay DEF FakeInv

\* A request reads, and waits for its tick.
LEMMA RequestKeeps ==
    ASSUME FakeInv, NEW h \in Txs, AskToSimulate(h) \/ Answer(h)
    PROVE  FakeInv'
<1>1. UNCHANGED <<tick, ticking, invoice, overdue, payment, events>>
  BY DEF AskToSimulate, Answer, database
<1>2. TypeOK'
  BY DEF FakeInv, TypeOK, AskToSimulate, Answer, database
<1> QED
  BY <1>1, <1>2, TablesStay DEF FakeInv

----------------------------------------------------------------------------
\* A tick that begins is the only one, and what it lists is overdue.
LEMMA BeginTickKeeps ==
    ASSUME FakeInv, NEW t \in Tickers, ~ticking, BeginTick(t),
           UNCHANGED <<invoice, overdue, payment, events>>
    PROVE  /\ tick' \in [Tickers -> TickState]
           /\ ticking' \in BOOLEAN
           /\ Alone'
           /\ \A u \in Tickers : Fresh(tick[u])'
           /\ TablesOK'
<1> DEFINE list == {i \in overdue : invoice[i] = "PENDING"}
           to   == [tick[t] EXCEPT !.pc = "expire", !.overdue = list]
<1>1. \A u \in Tickers : tick[u].pc = "idle"
  BY DEF FakeInv, Alone, Running
<1>2. tick[t] \in TickState /\ list \subseteq Invoices
  BY DEF FakeInv, TypeOK
<1> HIDE DEF list
<1>3. /\ to \in TickState
      /\ to.pc = "expire"
      /\ to.overdue = list
      /\ to.active = tick[t].active
  BY <1>2 DEF TickState
<1>4. Goto(t, to) /\ ticking' = TRUE
  BY DEF BeginTick, list
<1> HIDE DEF to
<1>5. /\ tick' \in [Tickers -> TickState]
      /\ tick'[t] = to
      /\ \A u \in Tickers \ {t} : tick'[u] = tick[u]
  BY <1>3, <1>4, GotoMoves DEF FakeInv
<1>6. Alone'
  BY <1>1, <1>4, <1>5 DEF Alone, Running
<1>7. \A u \in Tickers \ {t} : Fresh(tick[u])'
  BY <1>1, <1>5, IdleStaysFresh DEF FakeInv
<1>8. Fresh(tick[t])'
  <2>1. \A h \in Txs : tick[t].active[h] = Nothing
    BY <1>1 DEF FakeInv, Fresh, FreshEntry
  <2>2. \A h \in Txs : tick'[t].active[h] = Nothing
    BY <2>1, <1>3, <1>5
  <2>3. \A i \in tick'[t].overdue : invoice[i] = "PENDING" /\ i \in overdue
    BY <1>3, <1>5 DEF list
  <2> QED
    BY <1>3, <1>5, <2>2, <2>3 DEF Fresh, FreshList, FreshEntry
<1>9. TablesOK'
  BY DEF FakeInv, TablesOK, PaymentOK, OneRowPerInvoice, Untold, Settling
<1> QED
  BY <1>4, <1>5, <1>6, <1>7, <1>8, <1>9

LEMMA IntervalTickKeeps == ASSUME FakeInv, IntervalTick PROVE FakeInv'
<1>1. /\ ~ticking
      /\ BeginTick(Timer)
      /\ UNCHANGED <<block, chain, lastScannedBlock, caller, invoice, overdue, payment,
                     events, faults, looked>>
  BY DEF IntervalTick, Free, database
<1>2. Timer \in Tickers
  BY DEF Tickers
<1>3. /\ tick' \in [Tickers -> TickState]
      /\ ticking' \in BOOLEAN
      /\ Alone'
      /\ \A u \in Tickers : Fresh(tick[u])'
      /\ TablesOK'
  BY <1>1, <1>2, BeginTickKeeps
<1>4. TypeOK'
  BY <1>1, <1>3 DEF FakeInv, TypeOK
<1> QED
  BY <1>3, <1>4 DEF FakeInv

LEMMA BroadcastKeeps ==
    ASSUME FakeInv, NEW h \in Txs, Broadcast(h)
    PROVE  FakeInv'
<1>1. UNCHANGED <<block, lastScannedBlock, invoice, overdue, payment, events, faults,
                  looked>>
  BY DEF Broadcast, database
<1>2. /\ tick' \in [Tickers -> TickState]
      /\ ticking' \in BOOLEAN
      /\ Alone'
      /\ \A u \in Tickers : Fresh(tick[u])'
      /\ TablesOK'
  <2>1. CASE ticking
    <3>1. UNCHANGED <<ticking, tick>>
      BY <2>1 DEF Broadcast, Free
    <3> QED
      BY <3>1, <1>1, TablesStay DEF FakeInv, TypeOK
  <2>2. CASE ~ticking
    <3>1. BeginTick(h) /\ h \in Tickers
      BY <2>2 DEF Broadcast, Free, Tickers
    <3> QED
      BY <3>1, <2>2, <1>1, BeginTickKeeps
  <2> QED
    BY <2>1, <2>2
<1>3. /\ chain' \in [Txs -> {NotMined} \cup 0..MaxBlock]
      /\ caller' \in [Txs -> {"new", "asked", "sent", "failed",
                              "told pending", "told detected"}]
  BY DEF FakeInv, TypeOK, Broadcast
<1>4. TypeOK'
  BY <1>1, <1>2, <1>3 DEF FakeInv, TypeOK
<1> QED
  BY <1>2, <1>4 DEF FakeInv

\* A tick that ends, by returning or by throwing, forgets what it read.
LEMMA TickEndsKeeps ==
    ASSUME FakeInv, NEW t \in Tickers, Running(t), Goto(t, Idle),
           UNCHANGED <<invoice, overdue, payment, events>>
    PROVE  /\ tick' \in [Tickers -> TickState]
           /\ Alone'
           /\ \A u \in Tickers : Fresh(tick[u])'
           /\ TablesOK'
  BY IdleTick, IdleIsFresh, GotoMoves, TickReads DEF FakeInv

LEMMA TickReturnsKeeps ==
    ASSUME FakeInv, NEW t \in Tickers, TickReturns(t)
    PROVE  FakeInv'
<1>1. /\ Running(t)
      /\ Goto(t, Idle)
      /\ ticking' = FALSE
      /\ UNCHANGED <<block, chain, lastScannedBlock, caller, invoice, overdue, payment,
                     events, faults, looked>>
  BY DEF TickReturns, Running, Finally, database
<1>2. /\ tick' \in [Tickers -> TickState]
      /\ Alone'
      /\ \A u \in Tickers : Fresh(tick[u])'
      /\ TablesOK'
  BY <1>1, TickEndsKeeps
<1>3. TypeOK'
  BY <1>1, <1>2 DEF FakeInv, TypeOK
<1> QED
  BY <1>2, <1>3 DEF FakeInv

LEMMA TickThrowsKeeps ==
    ASSUME FakeInv, NEW t \in Tickers, TickThrows(t)
    PROVE  FakeInv'
<1>1. /\ Running(t)
      /\ Goto(t, Idle)
      /\ ticking' = FALSE
      /\ UNCHANGED <<block, chain, lastScannedBlock, invoice, overdue, payment,
                     events, looked>>
  BY DEF TickThrows, Running, Finally, database
<1>2. /\ tick' \in [Tickers -> TickState]
      /\ Alone'
      /\ \A u \in Tickers : Fresh(tick[u])'
      /\ TablesOK'
  BY <1>1, TickEndsKeeps
<1>3. faults' \in 0..MaxFaults
  <2>1. faults \in 0..MaxFaults /\ faults < MaxFaults /\ faults' = faults + 1
    BY DEF FakeInv, TypeOK, TickThrows
  <2> QED
    BY <2>1, FakeAssumption
<1>4. caller' \in [Txs -> {"new", "asked", "sent", "failed",
                          "told pending", "told detected"}]
  BY DEF FakeInv, TypeOK, TickThrows
<1>5. TypeOK'
  BY <1>1, <1>2, <1>3, <1>4 DEF FakeInv, TypeOK
<1> QED
  BY <1>2, <1>5 DEF FakeInv

\* A restart forgets every tick and keeps the tables.
LEMMA RestartKeeps == ASSUME FakeInv, Restart PROVE FakeInv'
<1>1. /\ tick' = [t \in Tickers |-> Idle]
      /\ UNCHANGED <<invoice, overdue, payment, events>>
      /\ ticking' = FALSE
      /\ looked' = {}
  BY DEF Restart, database
<1>2. /\ tick' \in [Tickers -> TickState]
      /\ \A t \in Tickers : tick'[t] = Idle
  BY <1>1, IdleTick
<1> HIDE DEF Idle
<1>3. Alone'
  BY <1>2, IdleTick DEF Alone, Running
<1>4. \A t \in Tickers : Fresh(tick[t])'
  BY <1>2, IdleTick DEF Fresh, FreshList, FreshEntry
<1>5. TablesOK'
  BY <1>1 DEF FakeInv, TablesOK, PaymentOK, OneRowPerInvoice, Untold, Settling
<1>6. /\ block' \in 0..MaxBlock
      /\ lastScannedBlock' \in -1..MaxBlock
      /\ faults' \in 0..MaxFaults
  <2>1. /\ faults \in 0..MaxFaults /\ faults < MaxFaults /\ faults' = faults + 1
        /\ block' = 0 /\ lastScannedBlock' = -1
    BY DEF FakeInv, TypeOK, Restart
  <2> QED
    BY <2>1, FakeAssumption
<1>7. /\ chain' \in [Txs -> {NotMined} \cup 0..MaxBlock]
      /\ caller' \in [Txs -> {"new", "asked", "sent", "failed",
                              "told pending", "told detected"}]
  BY DEF FakeInv, TypeOK, Restart
<1>8. TypeOK'
  BY <1>1, <1>2, <1>6, <1>7 DEF FakeInv, TypeOK
<1> QED
  BY <1>3, <1>4, <1>5, <1>8 DEF FakeInv

----------------------------------------------------------------------------
\* A running tick's step leaves the idle ones as they are, whatever it writes.
LEMMA TickSteps ==
    ASSUME FakeInv, NEW t \in Tickers, Running(t), NEW to \in TickState, Goto(t, to),
           UNCHANGED ticking
    PROVE  /\ tick' \in [Tickers -> TickState]
           /\ tick'[t] = to
           /\ Alone'
           /\ \A u \in Tickers \ {t} : Fresh(tick[u])'
<1>1. ticking = TRUE
  BY DEF FakeInv, Alone, TypeOK
<1>2. /\ tick' \in [Tickers -> TickState]
      /\ tick'[t] = to
      /\ \A u \in Tickers \ {t} : tick'[u] = tick[u]
  BY GotoMoves DEF FakeInv
<1>3. \A u \in Tickers \ {t} : Fresh(tick[u])'
  BY <1>2, OthersIdle, IdleStaysFresh DEF FakeInv
<1> QED
  BY <1>1, <1>2, <1>3, StaysAlone

\* Detection follows when nothing is left to expire.
LEMMA DetectNewPaymentsKeeps ==
    ASSUME FakeInv, NEW t \in Tickers, DetectNewPayments(t)
    PROVE  FakeInv'
<1> DEFINE found == {h \in Txs : chain[h] \in (lastScannedBlock + 1)..block}
           to == [tick[t] EXCEPT !.pc = "match", !.latest = block,
                                 !.transfers = found]
<1>1. /\ tick[t].pc = "expire"
      /\ tick[t].overdue = {}
      /\ Goto(t, to)
      /\ UNCHANGED <<block, chain, lastScannedBlock, ticking, caller, invoice, overdue,
                     payment, events, faults, looked>>
  BY DEF DetectNewPayments, database
<1>2. tick[t] \in TickState /\ block \in 0..MaxBlock /\ found \subseteq Txs
  BY DEF FakeInv, TypeOK
<1> HIDE DEF found
<1>3. /\ to \in TickState
      /\ to.pc = "match"
      /\ to.overdue = tick[t].overdue
      /\ to.active = tick[t].active
  BY <1>2 DEF TickState
<1> HIDE DEF to
<1>4. Running(t)
  BY <1>1 DEF Running
<1>5. /\ tick' \in [Tickers -> TickState]
      /\ tick'[t] = to
      /\ Alone'
      /\ \A u \in Tickers \ {t} : Fresh(tick[u])'
  BY <1>1, <1>3, <1>4, TickSteps
<1>6. Fresh(tick[t])'
  <2>1. \A h \in Txs : tick[t].active[h] = Nothing
    BY <1>1 DEF FakeInv, Fresh, FreshEntry
  <2>2. tick'[t].overdue = {} /\ \A h \in Txs : tick'[t].active[h] = Nothing
    BY <2>1, <1>1, <1>3, <1>5
  <2> QED
    BY <2>2 DEF Fresh, FreshList, FreshEntry
<1>7. TablesOK'
  BY <1>1 DEF FakeInv, TablesOK, PaymentOK, OneRowPerInvoice, Untold, Settling
<1>8. TypeOK'
  BY <1>1, <1>5 DEF FakeInv, TypeOK
<1> QED
  BY <1>5, <1>6, <1>7, <1>8 DEF FakeInv

\* Every payment in flight is listed with its row and its invoice's status.
LEMMA AdvanceConfirmationsKeeps ==
    ASSUME FakeInv, NEW t \in Tickers, AdvanceConfirmations(t)
    PROVE  FakeInv'
<1> DEFINE read(h) == IF payment[h].status \in {"DETECTED", "CONFIRMING"}
                      THEN [row |-> payment[h], invoice |-> invoice[payment[h].invoice]]
                      ELSE Nothing
           list == [h \in Txs |-> read(h)]
           to == [tick[t] EXCEPT !.pc = "advance", !.active = list]
<1>1. /\ tick[t].pc = "match"
      /\ Goto(t, to)
      /\ UNCHANGED <<block, chain, ticking, caller, invoice, overdue, payment, events,
                     faults, looked>>
  BY DEF AdvanceConfirmations, database
<1>2. tick[t] \in TickState
  BY DEF FakeInv, TypeOK
<1>3. ASSUME NEW h \in Txs PROVE read(h) \in Entry
  <2>1. CASE Settling(h)
    <3>1. payment[h].invoice \in Invoices
      BY <2>1 DEF FakeInv, TablesOK, PaymentOK, Settling, Absent
    <3>2. /\ payment[h] \in PaymentRow
          /\ invoice[payment[h].invoice] \in InvoiceStatus \cup {Absent}
      BY <3>1 DEF FakeInv, TypeOK
    <3> QED
      BY <3>2, <2>1 DEF Entry, Settling
  <2>2. CASE ~Settling(h)
    <3>1. NoPayment \in PaymentRow
      BY DEF NoPayment, PaymentRow
    <3> QED
      BY <3>1, <2>2 DEF Settling, Nothing, Entry
  <2> QED
    BY <2>1, <2>2
<1>4. list \in [Txs -> Entry]
  BY <1>3
<1>5. ASSUME NEW h \in Txs
      PROVE  list[h] # Nothing =>
                 /\ Settling(h)
                 /\ list[h].row = payment[h]
                 /\ list[h].invoice = invoice[payment[h].invoice]
  BY DEF Settling
<1> HIDE DEF list
<1>6. /\ to \in TickState
      /\ to.pc = "advance"
      /\ to.overdue = tick[t].overdue
      /\ to.active = list
  BY <1>2, <1>4 DEF TickState, Entry
<1> HIDE DEF to
<1>7. Running(t)
  BY <1>1 DEF Running
<1>8. /\ tick' \in [Tickers -> TickState]
      /\ tick'[t] = to
      /\ Alone'
      /\ \A u \in Tickers \ {t} : Fresh(tick[u])'
  BY <1>1, <1>6, <1>7, TickSteps
<1>9. Fresh(tick[t])'
  <2>1. FreshList(tick[t])'
    BY <1>1, <1>6, <1>8 DEF FakeInv, Fresh, FreshList
  <2>2. \A h \in Txs : FreshEntry(tick[t], h)'
    BY <1>1, <1>5, <1>6, <1>8 DEF FreshEntry, Settling
  <2> QED
    BY <2>1, <2>2 DEF Fresh
<1>10. TablesOK'
  BY <1>1 DEF FakeInv, TablesOK, PaymentOK, OneRowPerInvoice, Untold, Settling
<1>11. lastScannedBlock' \in -1..MaxBlock
  <2>1. tick[t].latest \in 0..MaxBlock /\ lastScannedBlock \in -1..MaxBlock
    BY <1>2 DEF FakeInv, TypeOK, TickState
  <2>2. \/ lastScannedBlock' = tick[t].latest - 1
        \/ lastScannedBlock' = lastScannedBlock
    BY DEF AdvanceConfirmations, ScannedUpTo
  <2> QED
    BY <2>1, <2>2, FakeAssumption
<1>12. TypeOK'
  BY <1>1, <1>8, <1>11 DEF FakeInv, TypeOK
<1> QED
  BY <1>8, <1>9, <1>10, <1>12 DEF FakeInv

\* A webhook event is added to its own invoice's.
LEMMA EventAdded ==
    ASSUME TypeOK, NEW i \in Invoices,
           NEW type \in {"invoice.expired", "payment.paid", "payment.underpaid",
                         "payment.overpaid"},
           events' = [events EXCEPT ![i] = Append(@, type)]
    PROVE  /\ events' \in [Invoices -> Seq({"invoice.expired", "payment.paid",
                                      "payment.underpaid", "payment.overpaid"})]
           /\ \A j \in Invoices \ {i} : events'[j] = events[j]
<1> DEFINE types == {"invoice.expired", "payment.paid", "payment.underpaid",
                     "payment.overpaid"}
<1>1. events \in [Invoices -> Seq(types)]
  BY DEF TypeOK
<1>2. type \in types
  OBVIOUS
<1> HIDE DEF types
<1>3. Append(events[i], type) \in Seq(types)
  BY <1>1, <1>2
<1>4. /\ events' \in [Invoices -> Seq(types)]
      /\ \A j \in Invoices \ {i} : events'[j] = events[j]
  BY <1>1, <1>3
<1> QED
  BY <1>4 DEF types

\* An invoice on the list is PENDING, overdue and untold: it expires alone.
LEMMA ExpireOverdueInvoiceKeeps ==
    ASSUME FakeInv, NEW t \in Tickers, NEW i \in Invoices, ExpireOverdueInvoice(t, i)
    PROVE  /\ FakeInv'
           /\ invoice[i] = "PENDING" /\ i \in overdue /\ events[i] = << >>
<1> DEFINE left == tick[t].overdue \ {i}
           to == [tick[t] EXCEPT !.overdue = left]
<1>1. /\ tick[t].pc = "expire"
      /\ i \in tick[t].overdue
      /\ Goto(t, to)
      /\ UNCHANGED <<block, chain, lastScannedBlock, ticking, caller, overdue,
                     payment, faults, looked>>
  BY DEF ExpireOverdueInvoice
<1>2. tick[t] \in TickState
  BY DEF FakeInv, TypeOK
<1>3. left \subseteq Invoices /\ left \subseteq tick[t].overdue /\ i \notin left
  BY <1>2 DEF TickState
<1> HIDE DEF left
<1>4. /\ to \in TickState
      /\ to.pc = tick[t].pc
      /\ to.overdue = left
      /\ to.active = tick[t].active
  BY <1>2, <1>3 DEF TickState
<1> HIDE DEF to
<1>5. Running(t)
  BY <1>1 DEF Running
<1>6. /\ tick' \in [Tickers -> TickState]
      /\ tick'[t] = to
      /\ Alone'
      /\ \A u \in Tickers \ {t} : Fresh(tick[u])'
  BY <1>1, <1>4, <1>5, TickSteps
<1>7. invoice[i] = "PENDING" /\ i \in overdue /\ events[i] = << >>
  BY <1>1 DEF FakeInv, Fresh, FreshList, TablesOK, Untold
<1>8. /\ invoice' \in [Invoices -> InvoiceStatus \cup {Absent}]
      /\ invoice'[i] = "EXPIRED"
      /\ \A j \in Invoices \ {i} : invoice'[j] = invoice[j]
  BY DEF FakeInv, TypeOK, ExpireOverdueInvoice, InvoiceStatus
<1>9. /\ events' \in [Invoices -> Seq({"invoice.expired", "payment.paid",
                                      "payment.underpaid", "payment.overpaid"})]
      /\ \A j \in Invoices \ {i} : events'[j] = events[j]
  BY EventAdded DEF FakeInv, ExpireOverdueInvoice
<1>10. \A h \in Txs : payment[h].status # Absent => payment[h].invoice \in Invoices \ {i}
  BY <1>7 DEF FakeInv, TablesOK, PaymentOK
<1>11. Fresh(tick[t])'
  <2>1. \A h \in Txs : tick'[t].active[h] = Nothing
    BY <1>1, <1>4, <1>6 DEF FakeInv, Fresh, FreshEntry
  <2>2. \A j \in left : invoice'[j] = "PENDING" /\ j \in overdue'
    BY <1>1, <1>2, <1>3, <1>8 DEF FakeInv, Fresh, FreshList
  <2>3. tick'[t].pc = "expire" /\ tick'[t].overdue = left
    BY <1>1, <1>4, <1>6
  <2> QED
    BY <2>1, <2>2, <2>3 DEF Fresh, FreshList, FreshEntry
<1>12. TablesOK'
  <2>1. \A h \in Txs : PaymentOK(h)'
    BY <1>1, <1>8, <1>10 DEF FakeInv, TablesOK, PaymentOK, Settling
  <2>2. OneRowPerInvoice'
    BY <1>1 DEF FakeInv, TablesOK, OneRowPerInvoice
  <2>3. Untold'
    BY <1>8, <1>9 DEF FakeInv, TablesOK, Untold, Absent
  <2> QED
    BY <2>1, <2>2, <2>3 DEF TablesOK
<1>13. TypeOK'
  BY <1>1, <1>6, <1>8, <1>9 DEF FakeInv, TypeOK
<1> QED
  BY <1>6, <1>7, <1>11, <1>12, <1>13 DEF FakeInv

\* What is selected for a transfer is a PENDING invoice's terms.
LEMMA SelectedIsPending ==
    ASSUME NEW h \in Txs, NEW c \in Selected(h)
    PROVE  /\ payment[h].status = Absent
           /\ c.id \in Invoices
           /\ invoice[c.id] = "PENDING"
<1>1. payment[h].status = Absent /\ c \in SelectMatchingInvoice(Candidates(h), Transfer(h))
  BY DEF Selected
<1>2. c \in Candidates(h)
  BY <1>1 DEF SelectMatchingInvoice
<1>3. PICK i \in Invoices : invoice[i] = "PENDING" /\ c = Terms[i]
  BY <1>2 DEF Candidates
<1>4. Terms[i].id = i
  BY FakeAssumption
<1> QED
  BY <1>1, <1>3, <1>4

\* The new payment's invoice was nobody's: it was PENDING.
LEMMA DetectKeepsTables ==
    ASSUME FakeInv, NEW h \in Txs, NEW i \in Invoices, NEW row \in PaymentRow,
           payment[h].status = Absent,
           invoice[i] = "PENDING",
           row.status = "DETECTED",
           row.invoice = i,
           payment' = [payment EXCEPT ![h] = row],
           invoice' = [invoice EXCEPT ![i] = "DETECTED"],
           UNCHANGED events
    PROVE  /\ TablesOK'
           /\ payment' \in [Txs -> PaymentRow]
           /\ invoice' \in [Invoices -> InvoiceStatus \cup {Absent}]
<1>1. /\ payment' \in [Txs -> PaymentRow]
      /\ payment'[h] = row
      /\ \A g \in Txs \ {h} : payment'[g] = payment[g]
  BY DEF FakeInv, TypeOK
<1>2. /\ invoice' \in [Invoices -> InvoiceStatus \cup {Absent}]
      /\ invoice'[i] = "DETECTED"
      /\ \A j \in Invoices \ {i} : invoice'[j] = invoice[j]
  BY DEF FakeInv, TypeOK, InvoiceStatus
<1>3. \A g \in Txs : payment[g].status # Absent => payment[g].invoice \in Invoices \ {i}
  BY DEF FakeInv, TablesOK, PaymentOK
<1>4. ASSUME NEW g \in Txs PROVE PaymentOK(g)'
  <2>1. CASE g = h
    BY <2>1, <1>1, <1>2 DEF PaymentOK, Settling, Absent
  <2>2. CASE g # h
    <3>1. payment'[g] = payment[g] /\ PaymentOK(g)
      BY <2>2, <1>1 DEF FakeInv, TablesOK
    <3> QED
      BY <3>1, <1>2, <1>3 DEF PaymentOK, Settling
  <2> QED
    BY <2>1, <2>2
<1>5. OneRowPerInvoice'
  BY <1>1, <1>3 DEF FakeInv, TablesOK, OneRowPerInvoice
<1>6. Untold'
  BY <1>2 DEF FakeInv, TablesOK, Untold, Absent
<1> QED
  BY <1>1, <1>2, <1>4, <1>5, <1>6 DEF TablesOK

LEMMA TryMatchTransferKeeps ==
    ASSUME FakeInv, NEW t \in Tickers, NEW h \in Txs, TryMatchTransfer(t, h)
    PROVE  /\ FakeInv'
           /\ UNCHANGED <<overdue, events>>
           /\ \/ UNCHANGED invoice
              \/ \E i \in Invoices : /\ invoice[i] = "PENDING"
                                     /\ invoice' = [invoice EXCEPT ![i] = "DETECTED"]
<1> DEFINE left == tick[t].transfers \ {h}
           to == [tick[t] EXCEPT !.transfers = left]
<1>1. /\ tick[t].pc = "match"
      /\ Goto(t, to)
      /\ UNCHANGED <<block, chain, lastScannedBlock, ticking, caller, overdue,
                     events, faults>>
      /\ looked' = looked \cup {h}
  BY DEF TryMatchTransfer
<1>2. tick[t] \in TickState
  BY DEF FakeInv, TypeOK
<1>3. left \subseteq Txs
  BY <1>2 DEF TickState
<1> HIDE DEF left
<1>4. /\ to \in TickState
      /\ to.pc = tick[t].pc
      /\ to.overdue = tick[t].overdue
      /\ to.active = tick[t].active
  BY <1>2, <1>3 DEF TickState
<1> HIDE DEF to
<1>5. Running(t)
  BY <1>1 DEF Running
<1>6. /\ tick' \in [Tickers -> TickState]
      /\ tick'[t] = to
      /\ Alone'
      /\ \A u \in Tickers \ {t} : Fresh(tick[u])'
  BY <1>1, <1>4, <1>5, TickSteps
<1>7. Fresh(tick[t])'
  <2>1. tick[t].overdue = {} /\ \A g \in Txs : tick[t].active[g] = Nothing
    BY <1>1 DEF FakeInv, Fresh, FreshList, FreshEntry
  <2>2. tick'[t].overdue = {} /\ \A g \in Txs : tick'[t].active[g] = Nothing
    BY <2>1, <1>4, <1>6
  <2> QED
    BY <2>2 DEF Fresh, FreshList, FreshEntry
<1>8. /\ TablesOK'
      /\ payment' \in [Txs -> PaymentRow]
      /\ invoice' \in [Invoices -> InvoiceStatus \cup {Absent}]
      /\ \/ UNCHANGED invoice
         \/ \E i \in Invoices : /\ invoice[i] = "PENDING"
                                /\ invoice' = [invoice EXCEPT ![i] = "DETECTED"]
  <2>1. CASE UNCHANGED <<invoice, payment>>
    <3>1. TablesOK'
      BY <1>1, <2>1
         DEF FakeInv, TablesOK, PaymentOK, OneRowPerInvoice, Untold, Settling
    <3> QED
      BY <3>1, <2>1 DEF FakeInv, TypeOK
  <2>2. ASSUME NEW c \in Selected(h),
               payment' = [payment EXCEPT ![h] =
                   [status |-> "DETECTED", invoice |-> c.id,
                    received |-> Transfer(h).amount, confirmations |-> 0]],
               invoice' = [invoice EXCEPT ![c.id] = "DETECTED"]
        PROVE  /\ TablesOK'
               /\ payment' \in [Txs -> PaymentRow]
               /\ invoice' \in [Invoices -> InvoiceStatus \cup {Absent}]
               /\ \E i \in Invoices : /\ invoice[i] = "PENDING"
                                      /\ invoice' = [invoice EXCEPT ![i] = "DETECTED"]
    <3> DEFINE row == [status |-> "DETECTED", invoice |-> c.id,
                       received |-> Transfer(h).amount, confirmations |-> 0]
    <3>1. /\ payment[h].status = Absent
          /\ c.id \in Invoices
          /\ invoice[c.id] = "PENDING"
      BY SelectedIsPending
    <3>2. Transfer(h).amount \in Nat
      BY FakeAssumption DEF Transfer
    <3>3. row \in PaymentRow /\ row.status = "DETECTED" /\ row.invoice = c.id
      BY <3>1, <3>2 DEF PaymentRow, PaymentStatus
    <3>4. payment' = [payment EXCEPT ![h] = row]
      BY <2>2
    <3> HIDE DEF row
    <3> QED
      BY <1>1, <2>2, <3>1, <3>3, <3>4, DetectKeepsTables
  <2> QED
    BY <2>1, <2>2 DEF TryMatchTransfer
<1>9. TypeOK'
  <2>1. looked' \subseteq Txs
    BY <1>1 DEF FakeInv, TypeOK
  <2> QED
    BY <1>1, <1>6, <1>8, <2>1 DEF FakeInv, TypeOK
<1> QED
  BY <1>1, <1>6, <1>7, <1>8, <1>9 DEF FakeInv

----------------------------------------------------------------------------
\* A step that writes payment row h and its invoice, as every advance does.
Advance(h, row, status) ==
    /\ payment' = [payment EXCEPT ![h] = row]
    /\ invoice' = [invoice EXCEPT ![payment[h].invoice] = status]
    /\ \A j \in Invoices \ {payment[h].invoice} : events'[j] = events[j]

\* The two statuses it may leave behind.
Agreed(row, status) ==
    /\ status \notin {Absent, "PENDING"}
    /\ row.status # Absent
    /\ row.status \in {"DETECTED", "CONFIRMING"} => status = row.status

\* A payment in flight has an invoice, in flight as well.
LEMMA InFlight ==
    ASSUME FakeInv, NEW h \in Txs, Settling(h)
    PROVE  /\ payment[h] \in PaymentRow
           /\ payment[h].status \in {"DETECTED", "CONFIRMING"}
           /\ payment[h].status # Absent
           /\ payment[h].invoice \in Invoices
           /\ invoice[payment[h].invoice] = payment[h].status
<1>1. payment[h].status \in {"DETECTED", "CONFIRMING"}
  BY DEF Settling
<1>2. payment[h].status # Absent
  BY <1>1 DEF Absent
<1> QED
  BY <1>1, <1>2 DEF FakeInv, TypeOK, TablesOK, PaymentOK

\* No other payment shares the invoice, so that no other row is concerned.
LEMMA AdvanceSpares ==
    ASSUME FakeInv, NEW h \in Txs, Settling(h), NEW row \in PaymentRow,
           NEW status \in InvoiceStatus, Advance(h, row, status)
    PROVE  /\ payment' \in [Txs -> PaymentRow]
           /\ payment'[h] = row
           /\ invoice' \in [Invoices -> InvoiceStatus \cup {Absent}]
           /\ invoice'[payment[h].invoice] = status
           /\ \A j \in Invoices \ {payment[h].invoice} : invoice'[j] = invoice[j]
           /\ \A g \in Txs \ {h} :
                 /\ payment'[g] = payment[g]
                 /\ payment[g].status # Absent =>
                       /\ payment[g].invoice \in Invoices \ {payment[h].invoice}
                       /\ invoice'[payment[g].invoice] = invoice[payment[g].invoice]
<1>1. /\ payment[h].invoice \in Invoices
      /\ payment[h].status # Absent
  BY InFlight
<1>2. /\ payment' \in [Txs -> PaymentRow]
      /\ payment'[h] = row
      /\ \A g \in Txs \ {h} : payment'[g] = payment[g]
  BY DEF FakeInv, TypeOK, Advance
<1>3. /\ invoice' \in [Invoices -> InvoiceStatus \cup {Absent}]
      /\ invoice'[payment[h].invoice] = status
      /\ \A j \in Invoices \ {payment[h].invoice} : invoice'[j] = invoice[j]
  BY <1>1 DEF FakeInv, TypeOK, Advance
<1>4. \A g \in Txs \ {h} : payment[g].status # Absent =>
          payment[g].invoice \in Invoices \ {payment[h].invoice}
  BY <1>1 DEF FakeInv, TablesOK, PaymentOK, OneRowPerInvoice
<1> QED
  BY <1>2, <1>3, <1>4

LEMMA AdvanceKeepsTables ==
    ASSUME FakeInv, NEW h \in Txs, Settling(h), NEW row \in PaymentRow,
           NEW status \in InvoiceStatus, Advance(h, row, status),
           row.invoice = payment[h].invoice,
           Agreed(row, status)
    PROVE  TablesOK'
<1> DEFINE i == payment[h].invoice
<1>1. i \in Invoices /\ payment[h].status # Absent
  BY InFlight
<1>2. /\ payment'[h] = row
      /\ invoice'[i] = status
      /\ \A j \in Invoices \ {i} : invoice'[j] = invoice[j]
      /\ \A g \in Txs \ {h} :
            /\ payment'[g] = payment[g]
            /\ payment[g].status # Absent =>
                  invoice'[payment[g].invoice] = invoice[payment[g].invoice]
  BY AdvanceSpares
<1>3. ASSUME NEW g \in Txs PROVE PaymentOK(g)'
  <2>1. CASE g = h
    BY <2>1, <1>1, <1>2 DEF PaymentOK, Settling, Agreed
  <2>2. CASE g # h
    <3>1. payment'[g] = payment[g] /\ PaymentOK(g)
      BY <2>2, <1>2 DEF FakeInv, TablesOK
    <3> QED
      BY <3>1, <2>2, <1>2 DEF PaymentOK, Settling
  <2> QED
    BY <2>1, <2>2
<1>4. OneRowPerInvoice'
  <2>1. \A g \in Txs : /\ payment'[g].invoice = payment[g].invoice
                       /\ payment'[g].status # Absent => payment[g].status # Absent
    BY <1>1, <1>2
  <2> QED
    BY <2>1 DEF FakeInv, TablesOK, OneRowPerInvoice
<1>5. Untold'
  BY <1>1, <1>2 DEF FakeInv, TablesOK, Untold, Advance, Agreed
<1> QED
  BY <1>3, <1>4, <1>5 DEF TablesOK

\* A row with a new status and count is still that payment's row.
LEMMA RowAdvances ==
    ASSUME NEW row \in PaymentRow, NEW new \in PaymentStatus, NEW count \in Nat
    PROVE  LET to == [row EXCEPT !.status = new, !.confirmations = count]
           IN  /\ to \in PaymentRow
               /\ to.status = new
               /\ to.invoice = row.invoice
  BY DEF PaymentRow

LEMMA ConfirmationsNat ==
    ASSUME TypeOK, NEW h \in Txs
    PROVE  Confirmations(h) \in Nat
<1>1. block \in 0..MaxBlock
  BY DEF TypeOK
<1>2. chain[h] \in {-1} \cup 0..MaxBlock
  BY DEF TypeOK, NotMined
<1> DEFINE mined == chain[h]
<1> HIDE DEF mined
<1>3. mined \in {-1} \cup 0..MaxBlock
  BY <1>2 DEF mined
<1>4. (IF block > mined THEN block - mined ELSE 0) \in Nat
  BY <1>1, <1>3, FakeAssumption
<1> QED
  BY <1>4 DEF Confirmations, mined

\* Each way to advance a payment from its current row: the invoice's life
\* goes on, or stands still.
LEMMA BranchAdvances ==
    ASSUME FakeInv, NEW h \in Txs, NEW snapshot, Settling(h),
           snapshot.row = payment[h],
           snapshot.invoice = invoice[payment[h].invoice],
           \/ FailOrphanedPayment(h, snapshot)
           \/ MoveToConfirming(h, snapshot)
           \/ UpdateConfirmations(h, snapshot)
           \/ FinalizePayment(h, snapshot),
           UNCHANGED overdue
    PROVE  /\ \E row \in PaymentRow, status \in InvoiceStatus :
                 /\ Advance(h, row, status)
                 /\ row.invoice = payment[h].invoice
                 /\ Agreed(row, status)
           /\ events' \in [Invoices -> Seq({"invoice.expired", "payment.paid",
                                      "payment.underpaid", "payment.overpaid"})]
           /\ \/ UNCHANGED <<invoice, overdue, events>>
              \/ \E i \in Invoices : Life!LifeStep(i)
<1> DEFINE i == payment[h].invoice
           Types == {"invoice.expired", "payment.paid", "payment.underpaid",
                     "payment.overpaid"}
           Row(new, count) == [payment[h] EXCEPT !.status = new, !.confirmations = count]
<1>1. /\ payment[h] \in PaymentRow
      /\ payment[h].status \in {"DETECTED", "CONFIRMING"}
      /\ i \in Invoices
      /\ invoice[i] = payment[h].status
      /\ payment[h].confirmations \in Nat
      /\ invoice \in [Invoices -> InvoiceStatus \cup {Absent}]
      /\ events \in [Invoices -> Seq(Types)]
  BY InFlight DEF FakeInv, TypeOK, PaymentRow
<1>2. Confirmations(h) \in Nat
  BY ConfirmationsNat DEF FakeInv
<1>3. \A new \in PaymentStatus, count \in Nat :
          /\ Row(new, count) \in PaymentRow
          /\ Row(new, count).status = new
          /\ Row(new, count).invoice = i
  BY <1>1, RowAdvances
<1>4. ASSUME NEW new \in PaymentStatus, NEW count \in Nat, NEW status \in InvoiceStatus,
             Write(h, i, new, count, status),
             status # "PENDING", new # Absent, status # Absent,
             new \in {"DETECTED", "CONFIRMING"} => status = new,
             \A j \in Invoices \ {i} : events'[j] = events[j]
      PROVE  \E row \in PaymentRow, st \in InvoiceStatus :
                 /\ Advance(h, row, st)
                 /\ row.invoice = i
                 /\ Agreed(row, st)
  <2> DEFINE row == Row(new, count)
  <2>1. row \in PaymentRow /\ row.status = new /\ row.invoice = i
    BY <1>3
  <2>2. payment' = [payment EXCEPT ![h] = row] /\ invoice' = [invoice EXCEPT ![i] = status]
    BY <1>4, <1>1 DEF Write
  <2> HIDE DEF row
  <2>3. Advance(h, row, status) /\ Agreed(row, status)
    BY <1>4, <2>1, <2>2 DEF Advance, Agreed
  <2> QED
    BY <2>1, <2>3
<1> HIDE DEF Row
<1>5. CASE FailOrphanedPayment(h, snapshot)
  <2>1. /\ Write(h, i, "FAILED", payment[h].confirmations, "FAILED")
        /\ UNCHANGED events
    BY <1>5 DEF FailOrphanedPayment
  <2>2. Life!LifeStep(i)
    BY <2>1, <1>1 DEF Write, Life!LifeStep, Life!Fail, Life!Become
  <2> QED
    BY <2>1, <2>2, <1>1, <1>4 DEF PaymentStatus, InvoiceStatus, Absent
<1>6. CASE MoveToConfirming(h, snapshot)
  <2>1. /\ payment[h].status = "DETECTED"
        /\ Write(h, i, "CONFIRMING", Confirmations(h), "CONFIRMING")
        /\ UNCHANGED events
    BY <1>6 DEF MoveToConfirming
  <2>2. Life!LifeStep(i)
    BY <2>1, <1>1 DEF Write, Life!LifeStep, Life!Confirm, Life!Become
  <2> QED
    BY <2>1, <2>2, <1>1, <1>2, <1>4 DEF PaymentStatus, InvoiceStatus, Absent
<1>7. CASE UpdateConfirmations(h, snapshot)
  <2>1. /\ payment[h].status = "CONFIRMING"
        /\ payment' = [payment EXCEPT ![h].confirmations = Confirmations(h)]
        /\ UNCHANGED <<invoice, events>>
    BY <1>7 DEF UpdateConfirmations
  <2> DEFINE row == [payment[h] EXCEPT !.confirmations = Confirmations(h)]
  <2>2. row \in PaymentRow /\ row.status = "CONFIRMING" /\ row.invoice = i
    BY <1>1, <1>2, <2>1 DEF PaymentRow
  <2>3. payment' = [payment EXCEPT ![h] = row]
    BY <2>1
  <2> HIDE DEF row
  <2>4. invoice' = [invoice EXCEPT ![i] = "CONFIRMING"]
    BY <1>1, <2>1
  <2>5. Advance(h, row, "CONFIRMING") /\ Agreed(row, "CONFIRMING")
    BY <2>1, <2>2, <2>3, <2>4 DEF Advance, Agreed, Absent
  <2> QED
    BY <1>1, <2>1, <2>2, <2>5 DEF InvoiceStatus
<1>8. CASE FinalizePayment(h, snapshot)
  <2>1. payment[h].status = "CONFIRMING"
    BY <1>8 DEF FinalizePayment
  <2>2. PICK new \in PaymentVerdicts, verdict \in InvoiceVerdicts, type \in Types :
            /\ type = Life!EventOf(verdict)
            /\ Write(h, i, new, Confirmations(h), verdict)
            /\ events' = [events EXCEPT ![i] = Append(@, type)]
    <3> DEFINE outcome == EvaluatePaymentAmount(Terms[i].amount, payment[h].received)
               verdict == CASE outcome = "exact" -> <<"CONFIRMED", "PAID", "payment.paid">>
                     [] outcome = "underpaid" ->
                          <<"UNDERPAID", "UNDERPAID", "payment.underpaid">>
                     [] outcome = "overpaid" ->
                          <<"OVERPAID", "OVERPAID", "payment.overpaid">>
    <3>1. Terms[i].amount \in Nat /\ payment[h].received \in Nat
      BY <1>1, FakeAssumption DEF Term, PaymentRow
    <3>2. outcome \in {"exact", "underpaid", "overpaid"}
      BY <3>1 DEF EvaluatePaymentAmount
    <3>3. /\ Write(h, i, verdict[1], Confirmations(h), verdict[2])
          /\ events' = [events EXCEPT ![i] = Append(@, verdict[3])]
      BY <1>8 DEF FinalizePayment
    <3> HIDE DEF outcome
    <3>4. \/ verdict[1] = "CONFIRMED" /\ verdict[2] = "PAID" /\ verdict[3] = "payment.paid"
          \/ /\ verdict[1] = "UNDERPAID" /\ verdict[2] = "UNDERPAID"
             /\ verdict[3] = "payment.underpaid"
          \/ /\ verdict[1] = "OVERPAID" /\ verdict[2] = "OVERPAID"
             /\ verdict[3] = "payment.overpaid"
      BY <3>2
    <3> HIDE DEF verdict
    <3>5. /\ verdict[1] \in PaymentVerdicts
          /\ verdict[2] \in InvoiceVerdicts
          /\ verdict[3] \in Types
          /\ verdict[3] = Life!EventOf(verdict[2])
      BY <3>4 DEF PaymentVerdicts, InvoiceVerdicts, Life!EventOf
    <3> QED
      BY <3>3, <3>5
  <2>3. /\ events' \in [Invoices -> Seq(Types)]
        /\ \A j \in Invoices \ {i} : events'[j] = events[j]
    BY <1>1, <2>2, EventAdded DEF FakeInv
  <2>4. Life!LifeStep(i)
    <3>1. Life!Settle(i, verdict)
      BY <1>1, <2>1, <2>2 DEF Write, Life!Settle, Life!BecomeAndTell
    <3> QED
      BY <3>1, <2>2 DEF Life!LifeStep, Life!InvoiceVerdicts, InvoiceVerdicts
  <2>5. /\ new \in PaymentStatus \ {Absent, "DETECTED", "CONFIRMING"}
        /\ verdict \in InvoiceStatus \ {Absent, "PENDING"}
    BY DEF PaymentVerdicts, InvoiceVerdicts, PaymentStatus, InvoiceStatus, Absent
  <2> QED
    BY <1>1, <1>2, <1>4, <2>2, <2>3, <2>4, <2>5
<1> QED
  BY <1>5, <1>6, <1>7, <1>8

\* The tick's copy of a payment is the payment: it advances from there, and
\* the copies of the others stay true.
LEMMA AdvancePaymentKeeps ==
    ASSUME FakeInv, NEW t \in Tickers, NEW h \in Txs, AdvancePayment(t, h)
    PROVE  /\ FakeInv'
           /\ \/ UNCHANGED <<invoice, overdue, events>>
              \/ \E i \in Invoices : Life!LifeStep(i)
<1> DEFINE left == [tick[t].active EXCEPT ![h] = Nothing]
           to == [tick[t] EXCEPT !.active = left]
           snapshot == tick[t].active[h]
<1>1. /\ tick[t].pc = "advance"
      /\ snapshot # Nothing
      /\ Goto(t, to)
      /\ UNCHANGED <<block, chain, lastScannedBlock, ticking, caller, overdue,
                     faults, looked>>
  BY DEF AdvancePayment
<1>2. tick[t] \in TickState /\ tick[t].active \in [Txs -> Entry]
  BY DEF FakeInv, TypeOK, TickState, Entry
<1>3. Nothing \in Entry
  <2>1. NoPayment \in PaymentRow
    BY DEF NoPayment, PaymentRow
  <2> QED
    BY <2>1 DEF Nothing, Entry
<1>4. /\ left \in [Txs -> Entry]
      /\ left[h] = Nothing
      /\ \A g \in Txs \ {h} : left[g] = tick[t].active[g]
  BY <1>2, <1>3
<1> HIDE DEF left
<1>5. /\ to \in TickState
      /\ to.pc = "advance"
      /\ to.overdue = tick[t].overdue
      /\ to.active = left
  BY <1>1, <1>2, <1>4 DEF TickState, Entry
<1> HIDE DEF to
<1>6. Running(t)
  BY <1>1 DEF Running
<1>7. /\ tick' \in [Tickers -> TickState]
      /\ tick'[t] = to
      /\ Alone'
      /\ \A u \in Tickers \ {t} : Fresh(tick[u])'
  BY <1>1, <1>5, <1>6, TickSteps
<1>8. /\ Settling(h)
      /\ snapshot.row = payment[h]
      /\ snapshot.invoice = invoice[payment[h].invoice]
  BY <1>1 DEF FakeInv, Fresh, FreshEntry
<1>9. \/ FailOrphanedPayment(h, snapshot)
      \/ MoveToConfirming(h, snapshot)
      \/ UpdateConfirmations(h, snapshot)
      \/ FinalizePayment(h, snapshot)
  BY DEF AdvancePayment
<1> HIDE DEF snapshot
<1>10. /\ \E row \in PaymentRow, status \in InvoiceStatus :
             /\ Advance(h, row, status)
             /\ row.invoice = payment[h].invoice
             /\ Agreed(row, status)
       /\ events' \in [Invoices -> Seq({"invoice.expired", "payment.paid",
                                      "payment.underpaid", "payment.overpaid"})]
       /\ \/ UNCHANGED <<invoice, overdue, events>>
          \/ \E i \in Invoices : Life!LifeStep(i)
  BY <1>1, <1>8, <1>9, BranchAdvances
<1>11. PICK row \in PaymentRow, status \in InvoiceStatus :
           /\ Advance(h, row, status)
           /\ row.invoice = payment[h].invoice
           /\ Agreed(row, status)
  BY <1>10
<1>12. TablesOK'
  BY <1>8, <1>11, AdvanceKeepsTables
<1>13. /\ payment' \in [Txs -> PaymentRow]
       /\ invoice' \in [Invoices -> InvoiceStatus \cup {Absent}]
       /\ \A g \in Txs \ {h} :
             /\ payment'[g] = payment[g]
             /\ payment[g].status # Absent =>
                   invoice'[payment[g].invoice] = invoice[payment[g].invoice]
  BY <1>8, <1>11, AdvanceSpares
<1>14. Fresh(tick[t])'
  <2>1. FreshList(tick[t])'
    BY <1>1, <1>5, <1>7 DEF FakeInv, Fresh, FreshList
  <2>2. ASSUME NEW g \in Txs, tick'[t].active[g] # Nothing
        PROVE  /\ Settling(g)'
               /\ tick'[t].active[g].row = payment'[g]
               /\ tick'[t].active[g].invoice = invoice'[payment'[g].invoice]
    <3>1. g # h /\ tick'[t].active[g] = tick[t].active[g]
      BY <2>2, <1>4, <1>5, <1>7
    <3>2. /\ Settling(g)
          /\ tick[t].active[g].row = payment[g]
          /\ tick[t].active[g].invoice = invoice[payment[g].invoice]
      BY <2>2, <3>1 DEF FakeInv, Fresh, FreshEntry
    <3>3. payment[g].status # Absent
      BY <3>2 DEF Settling, Absent
    <3> QED
      BY <3>1, <3>2, <3>3, <1>13 DEF Settling
  <2>3. \A g \in Txs : FreshEntry(tick[t], g)'
    BY <2>2, <1>5, <1>7 DEF FreshEntry
  <2> QED
    BY <2>1, <2>3 DEF Fresh
<1>15. TypeOK'
  BY <1>1, <1>7, <1>10, <1>13 DEF FakeInv, TypeOK
<1> QED
  BY <1>7, <1>10, <1>12, <1>14, <1>15 DEF FakeInv

----------------------------------------------------------------------------
\* What the merchant sees of a step: one of the invoice's life, or nothing.
LifeGoesOn ==
    \/ UNCHANGED <<invoice, overdue, events>>
    \/ \E i \in Invoices : Life!LifeStep(i)

LEMMA TickStepKeeps ==
    ASSUME FakeInv, NEW t \in Tickers, TickStep(t)
    PROVE  FakeInv' /\ LifeGoesOn
<1>1. ASSUME NEW i \in Invoices, ExpireOverdueInvoice(t, i)
      PROVE  FakeInv' /\ LifeGoesOn
  <2>1. /\ FakeInv'
        /\ invoice[i] = "PENDING" /\ i \in overdue /\ events[i] = << >>
    BY <1>1, ExpireOverdueInvoiceKeeps
  <2>2. Life!EventOf("EXPIRED") = "invoice.expired"
    BY DEF Life!EventOf
  <2>3. Life!Expire(i)
    BY <1>1, <2>1, <2>2 DEF ExpireOverdueInvoice, Life!Expire, Life!BecomeAndTell
  <2> QED
    BY <2>1, <2>3 DEF LifeGoesOn, Life!LifeStep
<1>2. CASE DetectNewPayments(t)
  <2>1. UNCHANGED <<invoice, overdue, events>>
    BY <1>2 DEF DetectNewPayments, database
  <2> QED
    BY <1>2, <2>1, DetectNewPaymentsKeeps DEF LifeGoesOn
<1>3. ASSUME NEW h \in Txs, TryMatchTransfer(t, h)
      PROVE  FakeInv' /\ LifeGoesOn
  <2>1. /\ FakeInv'
        /\ UNCHANGED <<overdue, events>>
        /\ \/ UNCHANGED invoice
           \/ \E i \in Invoices : /\ invoice[i] = "PENDING"
                                  /\ invoice' = [invoice EXCEPT ![i] = "DETECTED"]
    BY <1>3, TryMatchTransferKeeps
  <2>2. ASSUME NEW i \in Invoices, invoice[i] = "PENDING",
               invoice' = [invoice EXCEPT ![i] = "DETECTED"]
        PROVE  Life!LifeStep(i)
    BY <2>1, <2>2 DEF Life!LifeStep, Life!Detect, Life!Become
  <2> QED
    BY <2>1, <2>2 DEF LifeGoesOn
<1>4. ASSUME NEW h \in Txs, AdvancePayment(t, h)
      PROVE  FakeInv' /\ LifeGoesOn
  BY <1>4, AdvancePaymentKeeps DEF LifeGoesOn
<1>5. CASE AdvanceConfirmations(t)
  <2>1. UNCHANGED <<invoice, overdue, events>>
    BY <1>5 DEF AdvanceConfirmations, database
  <2> QED
    BY <1>5, <2>1, AdvanceConfirmationsKeeps DEF LifeGoesOn
<1>6. CASE TickReturns(t)
  <2>1. UNCHANGED <<invoice, overdue, events>>
    BY <1>6 DEF TickReturns, database
  <2> QED
    BY <1>6, <2>1, TickReturnsKeeps DEF LifeGoesOn
<1> QED
  BY <1>1, <1>2, <1>3, <1>4, <1>5, <1>6 DEF TickStep

LEMMA StepKeeps == ASSUME FakeInv, [Next]_vars PROVE FakeInv' /\ LifeGoesOn
<1>1. ASSUME NEW i \in Invoices, CreateInvoice(i) PROVE FakeInv' /\ LifeGoesOn
  <2>1. Life!Create(i)
    BY <1>1 DEF CreateInvoice, Life!Create, Life!Become, Life!Absent, Absent
  <2> QED
    BY <1>1, <2>1, CreateInvoiceKeeps DEF LifeGoesOn, Life!LifeStep
<1>2. ASSUME NEW i \in Invoices, ExpiryPasses(i) PROVE FakeInv' /\ LifeGoesOn
  <2>1. Life!Lapse(i)
    BY <1>2 DEF ExpiryPasses, Life!Lapse
  <2> QED
    BY <1>2, <2>1, ExpiryPassesKeeps DEF LifeGoesOn, Life!LifeStep
<1>3. CASE NextBlock
  BY <1>3, NextBlockKeeps DEF LifeGoesOn, NextBlock, database
<1>4. ASSUME NEW h \in Txs, AskToSimulate(h) \/ Answer(h) PROVE FakeInv' /\ LifeGoesOn
  BY <1>4, RequestKeeps DEF LifeGoesOn, AskToSimulate, Answer, database
<1>5. ASSUME NEW h \in Txs, Broadcast(h) PROVE FakeInv' /\ LifeGoesOn
  BY <1>5, BroadcastKeeps DEF LifeGoesOn, Broadcast, database
<1>6. CASE IntervalTick
  BY <1>6, IntervalTickKeeps DEF LifeGoesOn, IntervalTick, database
<1>7. ASSUME NEW t \in Tickers, TickStep(t) PROVE FakeInv' /\ LifeGoesOn
  BY <1>7, TickStepKeeps
<1>8. ASSUME NEW t \in Tickers, TickThrows(t) PROVE FakeInv' /\ LifeGoesOn
  BY <1>8, TickThrowsKeeps DEF LifeGoesOn, TickThrows, database
<1>9. CASE Restart
  BY <1>9, RestartKeeps DEF LifeGoesOn, Restart, database
<1>10. CASE UNCHANGED vars
  <2>1. UNCHANGED <<block, chain, lastScannedBlock, ticking, tick, caller, invoice,
                    overdue, payment, events, faults, looked>>
    BY <1>10 DEF vars
  <2>2. TypeOK'
    BY <2>1 DEF FakeInv, TypeOK
  <2> QED
    BY <2>1, <2>2, TablesStay DEF FakeInv, LifeGoesOn
<1> QED
  BY <1>1, <1>2, <1>3, <1>4, <1>5, <1>6, <1>7, <1>8, <1>9, <1>10 DEF Next

LEMMA FakeInvAlways == Spec => []FakeInv
<1>1. Init => FakeInv
  BY InitOK
<1>2. FakeInv /\ [Next]_vars => FakeInv'
  BY StepKeeps
<1> QED
  BY <1>1, <1>2, PTL DEF Spec

\* The fake chain, PaymentsService's fields and locals and the tables keep
\* their types: a tick's list of payments in flight never names a payment
\* without its invoice.
THEOREM TypeCorrect == Spec => []TypeOK
<1>1. FakeInv => TypeOK
  BY DEF FakeInv
<1> QED
  BY <1>1, FakeInvAlways, PTL

\* tryMatchTransfer never gives an invoice a second live payment, however many
\* transfers are simulated for it, scanned again, or cut off by an error.
THEOREM OneLiveAttemptAlways == Spec => []OneLiveAttempt
<1>1. FakeInv => OneLiveAttempt
  BY DEF FakeInv, TablesOK, OneRowPerInvoice, OneLiveAttempt, Live
<1> QED
  BY <1>1, FakeInvAlways, PTL

\* PaymentsService implements InvoiceLife without the expiry race: `ticking`
\* keeps expireOverdueInvoices and detectNewPayments apart.
THEOREM ImplementsLife == Spec => ImplementsInvoiceLife
<1>1. Init => Life!Init
  BY DEF Init, Life!Init, Life!Absent, Absent
<1>2. FakeInv /\ [Next]_vars => [Life!Next]_Life!lifeVars
  <2> SUFFICES ASSUME FakeInv, [Next]_vars PROVE [Life!Next]_Life!lifeVars
    OBVIOUS
  <2>1. LifeGoesOn
    BY StepKeeps
  <2> QED
    BY <2>1 DEF LifeGoesOn, Life!Next, Life!lifeVars
<1> QED
  BY <1>1, <1>2, FakeInvAlways, PTL DEF Spec, ImplementsInvoiceLife, Life!Spec
=============================================================================
