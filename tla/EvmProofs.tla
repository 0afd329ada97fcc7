----------------------------- MODULE EvmProofs -----------------------------
(***************************************************************************)
(* The safety promises of the evm pipeline, for every instance.            *)
(*                                                                         *)
(*   1. Type correctness.                                                  *)
(*   2. The scan cursor never passes over a transfer.                      *)
(*   3. What is settled is on the chain.                                   *)
(*   4. What a confirmer's steps write.                                    *)
(*   5. One payment per invoice.                                           *)
(*   6. Legal payment steps.                                               *)
(*   7. One story for payment and invoice, and the life the merchant sees. *)
(*                                                                         *)
(* Sections 1 to 4 are about any number of overlapping passes; 5 needs     *)
(* scanners that do not overlap, 6 confirmers that do not, 7 both.         *)
(***************************************************************************)
EXTENDS EvmPromises, TLAPS

----------------------------------------------------------------------------
(***************************************************************************)
(* 1. Type correctness, for every instance and any number of overlapping   *)
(* passes, and the lemmas about rows, snapshots and locals the other       *)
(* proofs cite.                                                            *)
(***************************************************************************)

\* The amount verdict is always one of the three names the pipeline maps on.
LEMMA OutcomeType ==
    ASSUME NEW expected \in Nat, NEW received \in Nat
    PROVE  EvaluatePaymentAmount(expected, received)
              \in {"exact", "underpaid", "overpaid"}
  BY DEF EvaluatePaymentAmount

\* Whatever selectMatchingInvoice returns was one of its candidates.
LEMMA SelectionIsCandidate ==
    ASSUME NEW candidates, NEW transfer,
           NEW selected \in SelectMatchingInvoice(candidates, transfer)
    PROVE  selected \in candidates
  BY DEF SelectMatchingInvoice

\* The locals a pass starts from, and falls back to, are well typed.
LEMMA IdleTypes ==
    /\ ScanIdle \in ScannerState
    /\ ConfirmIdle \in ConfirmerState
    /\ Nothing \in Snapshot
    /\ \A h \in Txs : ConfirmIdle.active[h] = Nothing
  <1>1. NoPayment \in PaymentRow
    BY DEF NoPayment, PaymentRow
  <1>2. Nothing \in Snapshot
    BY <1>1 DEF Nothing, Snapshot
  <1>3. ScanIdle \in ScannerState
    BY DEF ScanIdle, ScannerState, NotMined
  <1>4. ConfirmIdle \in ConfirmerState
    BY <1>2 DEF ConfirmIdle, ConfirmerState
  <1> QED  BY <1>2, <1>3, <1>4 DEF ConfirmIdle

\* Empty tables, idle passes.
LEMMA InitType == Init => TypeOK
  <1> SUFFICES ASSUME Init PROVE TypeOK
    OBVIOUS
  <1> USE DEF Init
  <1>1. ChainOK
    BY DEF ChainOK
  <1>2. DatabaseOK
    BY DEF DatabaseOK, NoPayment, PaymentRow, Absent
  <1>3. ScanOK
    BY IdleTypes DEF ScanOK, ScanIdle
  <1>4. ConfirmOK
    BY IdleTypes DEF ConfirmOK, ConfirmIdle, EntryOK
  <1>5. HistoryOK
    BY DEF HistoryOK
  <1> QED  BY <1>1, <1>2, <1>3, <1>4, <1>5 DEF TypeOK

\* A pass that only touches its own locals keeps them typed if it takes them
\* to typed ones.
LEMMA ScanStepType ==
    ASSUME ScanOK, NEW s \in Scanners, NEW to \in ScannerState,
           to.pc \in {"seen", "attach"} => to.log \in Logs /\ to.invoice \in Invoices,
           scan' = [scan EXCEPT ![s] = to]
    PROVE  ScanOK'
  BY DEF ScanOK

\* The locals after a log is done with.
LEMMA ScannedType ==
    ASSUME ScanOK, NEW s \in Scanners
    PROVE  Scanned(s) \in ScannerState /\ Scanned(s).pc = "match"
  BY DEF ScanOK, Scanned, ScannerState

\* ConfirmOK is about the payment table too: entries stay good as long as no
\* row goes away or changes its invoice or amount.
LEMMA ConfirmUnchanged ==
    ASSUME ConfirmOK, confirm' = confirm,
           \A h \in Txs : payment[h].status # Absent =>
              /\ payment'[h].status # Absent
              /\ payment'[h].invoice = payment[h].invoice
              /\ payment'[h].received = payment[h].received
    PROVE  ConfirmOK'
  BY DEF ConfirmOK, EntryOK

\* One confirmer takes its locals to typed ones, and no row goes away or
\* changes its invoice or amount.
LEMMA ConfirmStepType ==
    ASSUME ConfirmOK, NEW c \in Confirmers, NEW to \in ConfirmerState,
           \A h \in Txs : payment[h].status # Absent =>
              /\ payment'[h].status # Absent
              /\ payment'[h].invoice = payment[h].invoice
              /\ payment'[h].received = payment[h].received,
           \A h \in Txs : EntryOK(to.active[h], h)',
           to.pc \in {"tip", "missing", "apply"} =>
              to.tx \in Txs /\ to.active[to.tx] # Nothing,
           confirm' = [confirm EXCEPT ![c] = to]
    PROVE  ConfirmOK'
  BY DEF ConfirmOK, EntryOK

\* A new invoice touches no other table.
LEMMA CreateInvoiceType ==
    ASSUME TypeOK, NEW i \in Invoices, CreateInvoice(i) PROVE TypeOK'
  <1> USE DEF TypeOK, CreateInvoice, chain, history
  <1>1. DatabaseOK'
    BY DEF DatabaseOK, InvoiceStatus
  <1>2. ConfirmOK'
    BY ConfirmUnchanged
  <1> QED  BY <1>1, <1>2 DEF ChainOK, ScanOK, HistoryOK

\* Only existing invoices become overdue.
LEMMA ExpiryPassesType ==
    ASSUME TypeOK, NEW i \in Invoices, ExpiryPasses(i) PROVE TypeOK'
  <1> USE DEF TypeOK, ExpiryPasses, chain, history
  <1>1. DatabaseOK'
    BY BoundsAssumption DEF DatabaseOK
  <1>2. ConfirmOK'
    BY ConfirmUnchanged
  <1> QED  BY <1>1, <1>2 DEF ChainOK, ScanOK, HistoryOK

\* The grace flag is the only part of the row that changes.
LEMMA GracePassesType ==
    ASSUME TypeOK, NEW h \in Txs, GracePasses(h) PROVE TypeOK'
  <1> USE DEF TypeOK, GracePasses, chain, history
  <1>1. DatabaseOK'
    BY DEF DatabaseOK, PaymentRow
  <1>2. ConfirmOK'
    BY ConfirmUnchanged DEF DatabaseOK, PaymentRow
  <1> QED  BY <1>1, <1>2 DEF ChainOK, ScanOK, HistoryOK

\* Mining gives the included transactions the number of the new block.
LEMMA MineType ==
    ASSUME TypeOK, NEW included \in SUBSET Txs, NEW failing \in SUBSET Txs,
           Mine(included, failing)
    PROVE  TypeOK'
  <1> USE DEF TypeOK, Mine, database, history
  <1>1. ChainOK'
    BY BoundsAssumption DEF ChainOK
  <1>2. ConfirmOK'
    BY ConfirmUnchanged
  <1> QED  BY <1>1, <1>2 DEF DatabaseOK, ScanOK, HistoryOK

\* A reorganisation gives the lost transactions a block, or none.
LEMMA ReorgType ==
    ASSUME TypeOK, NEW depth \in 1..MaxHeight, Reorg(depth) PROVE TypeOK'
  <1> USE DEF TypeOK, Reorg, database
  <1>1. ChainOK'
    BY BoundsAssumption DEF ChainOK
  <1>2. ConfirmOK'
    BY ConfirmUnchanged
  <1>3. HistoryOK'
    BY DEF HistoryOK
  <1> QED  BY <1>1, <1>2, <1>3 DEF DatabaseOK, ScanOK

\* A scanner step that leaves the tables alone.
LEMMA ScanLocalType ==
    ASSUME TypeOK, NEW s \in Scanners, NEW to \in ScannerState,
           to.pc \in {"seen", "attach"} => to.log \in Logs /\ to.invoice \in Invoices,
           ScanStep(s, to), UNCHANGED <<invoice, payment>>,
           cursor' \in {-1} \cup Nat, scanned' \subseteq Logs
    PROVE  TypeOK'
  <1> USE DEF TypeOK, ScanStep, chain
  <1>1. ScanOK'
    BY ScanStepType
  <1>2. ConfirmOK'
    BY ConfirmUnchanged
  <1> QED  BY <1>1, <1>2 DEF ChainOK, DatabaseOK, HistoryOK

\* The block after the cursor is a natural number: the cursor starts at -1.
LEMMA ScanBeginType ==
    ASSUME TypeOK, NEW s \in Scanners, ScanBegin(s) PROVE TypeOK'
  <1> DEFINE next == cursor + 1
             to == [scan[s] EXCEPT !.pc = "latest", !.from = next]
  <1>1. next \in Nat
    BY DEF TypeOK, DatabaseOK
  <1> HIDE DEF next
  <1>2. to \in ScannerState /\ to.pc = "latest"
    BY <1>1 DEF TypeOK, ScanOK, ScannerState
  <1>3. ScanStep(s, to) /\ UNCHANGED <<invoice, payment, cursor, scanned>>
    BY DEF ScanBegin, next
  <1> QED  BY <1>2, <1>3, ScanLocalType DEF TypeOK, DatabaseOK, HistoryOK

\* A pass with no new block goes idle, the others keep the tip.
LEMMA ScanLatestType ==
    ASSUME TypeOK, NEW s \in Scanners, ScanLatest(s) PROVE TypeOK'
  <1> DEFINE on == [scan[s] EXCEPT !.pc = "fetch", !.latest = height]
             to == IF height < scan[s].from THEN ScanIdle ELSE on
  <1>1. on \in ScannerState /\ on.pc = "fetch"
    BY DEF TypeOK, ScanOK, ChainOK, ScannerState
  <1>2. to \in ScannerState /\ to.pc \in {"idle", "fetch"}
    BY <1>1, IdleTypes DEF ScanIdle
  <1> HIDE DEF to
  <1>3. ScanStep(s, to) /\ UNCHANGED <<invoice, payment, cursor, scanned>>
    BY DEF ScanLatest, to
  <1> QED  BY <1>2, <1>3, ScanLocalType DEF TypeOK, DatabaseOK, HistoryOK

\* The logs of the range carry the block they were found in.
LEMMA ScanFetchType ==
    ASSUME TypeOK, NEW s \in Scanners, ScanFetch(s) PROVE TypeOK'
  <1> DEFINE fetched == GetTokenTransfers(scan[s].from, scan[s].latest)
             to == [scan[s] EXCEPT !.pc = "match", !.logs = fetched]
  <1>1. fetched \in [Logs -> {NotMined} \cup Nat]
    BY TransferAssumption DEF TypeOK, ChainOK, GetTokenTransfers, TransferLog
  <1> HIDE DEF fetched
  <1>2. to \in ScannerState /\ to.pc = "match"
    BY <1>1 DEF TypeOK, ScanOK, ScannerState
  <1>3. ScanStep(s, to) /\ UNCHANGED <<invoice, payment, cursor, scanned>>
    BY DEF ScanFetch, fetched
  <1> QED  BY <1>2, <1>3, ScanLocalType DEF TypeOK, DatabaseOK, HistoryOK

\* The invoice a scanner selects is one of the table's.
LEMMA CandidateType ==
    ASSUME NEW l \in Logs,
           NEW c \in SelectMatchingInvoice(Candidates(l), Transfer[l])
    PROVE  c.id \in Invoices /\ c = Terms[c.id] /\ invoice[c.id] = "PENDING"
  <1>1. c \in Candidates(l)
    BY SelectionIsCandidate
  <1> QED  BY <1>1, TermsAssumption DEF Candidates

\* The chosen invoice was a candidate, so it is an invoice of the table.
LEMMA ScanMatchType ==
    ASSUME TypeOK, NEW s \in Scanners, NEW l \in Logs, ScanMatch(s, l) PROVE TypeOK'
  <1> DEFINE rest == [scan[s] EXCEPT !.logs[l] = NotMined]
  <1>1. rest \in ScannerState /\ rest.pc = "match"
    BY DEF TypeOK, ScanOK, ScannerState, ScanMatch
  <1>2. CASE ScanStep(s, rest) /\ scanned' = scanned \cup {l}
    <2>1. UNCHANGED <<invoice, payment, cursor>>
      BY DEF ScanMatch
    <2> QED  BY <1>1, <1>2, <2>1, ScanLocalType DEF TypeOK, DatabaseOK, HistoryOK
  <1>3. ASSUME NEW c \in SelectMatchingInvoice(Candidates(l), Transfer[l]),
               ScanStep(s, [rest EXCEPT !.pc = "seen", !.log = l, !.invoice = c.id]),
               UNCHANGED scanned
        PROVE  TypeOK'
    <2> DEFINE to == [rest EXCEPT !.pc = "seen", !.log = l, !.invoice = c.id]
    <2> HIDE DEF rest
    <2>1. to \in ScannerState /\ to.pc = "seen" /\ to.log = l /\ to.invoice = c.id
      BY <1>1, CandidateType DEF ScannerState
    <2>2. UNCHANGED <<invoice, payment, cursor>>
      BY DEF ScanMatch
    <2> HIDE DEF to
    <2>3. ScanStep(s, to)
      BY <1>3 DEF to
    <2> QED
      BY <1>3, <2>1, <2>2, <2>3, CandidateType, ScanLocalType DEF TypeOK, DatabaseOK, HistoryOK
  <1> QED  BY <1>2, <1>3 DEF ScanMatch

\* Log and invoice stay in hand on the way to the insert.
LEMMA ScanSeenType ==
    ASSUME TypeOK, NEW s \in Scanners, ScanSeen(s) PROVE TypeOK'
  <1> DEFINE on == [scan[s] EXCEPT !.pc = "attach"]
  <1>1. scan[s].log \in Logs /\ scan[s].invoice \in Invoices
    BY DEF TypeOK, ScanOK, ScanSeen
  <1>2. on \in ScannerState /\ on.log = scan[s].log /\ on.invoice = scan[s].invoice
    BY DEF TypeOK, ScanOK, ScannerState
  <1>3. UNCHANGED <<invoice, payment, cursor>>
    BY DEF ScanSeen
  <1>4. CASE ScanStep(s, Scanned(s)) /\ scanned' = scanned \cup {scan[s].log}
    BY <1>1, <1>3, <1>4, ScannedType, ScanLocalType DEF TypeOK, DatabaseOK, HistoryOK
  <1>5. CASE ScanStep(s, on) /\ UNCHANGED scanned
    <2> HIDE DEF on
    <2> QED  BY <1>1, <1>2, <1>3, <1>5, ScanLocalType DEF TypeOK, DatabaseOK, HistoryOK
  <1> QED  BY <1>4, <1>5 DEF ScanSeen

\* The new row is complete, and no row that existed is replaced.
LEMMA ScanAttachType ==
    ASSUME TypeOK, NEW s \in Scanners, ScanAttach(s) PROVE TypeOK'
  <1> DEFINE l == scan[s].log
             h == Transfer[l].txHash
             i == scan[s].invoice
             row == [status |-> "DETECTED", invoice |-> i,
                     received |-> Transfer[l].amount,
                     confirmations |-> 0, graceOver |-> FALSE]
  <1>1. l \in Logs /\ i \in Invoices /\ h \in Txs
    BY TransferAssumption DEF TypeOK, ScanOK, ScanAttach, TransferLog
  <1>2. row \in PaymentRow
    BY <1>1, TransferAssumption DEF PaymentRow, PaymentStatus, TransferLog
  <1>3. CASE ScanStep(s, ScanIdle) /\ UNCHANGED <<invoice, payment, cursor, scanned>>
    BY <1>3, IdleTypes, ScanLocalType DEF ScanIdle, TypeOK, DatabaseOK, HistoryOK
  <1>4. CASE /\ payment[h].status = Absent
             /\ payment' = [payment EXCEPT ![h] = row]
             /\ invoice' = [invoice EXCEPT ![i] = "DETECTED"]
             /\ ScanStep(s, Scanned(s))
             /\ scanned' = scanned \cup {l}
             /\ UNCHANGED cursor
    <2> HIDE DEF h
    <2>1. ScanOK'
      BY <1>4, ScannedType, ScanStepType DEF TypeOK, ScanStep
    <2>2. ConfirmOK'
      BY <1>1, <1>2, <1>4, ConfirmUnchanged DEF TypeOK, DatabaseOK, ScanStep
    <2>3. DatabaseOK'
      BY <1>1, <1>2, <1>4 DEF TypeOK, DatabaseOK, ScanStep, InvoiceStatus
    <2> QED  BY <1>1, <1>4, <2>1, <2>2, <2>3 DEF TypeOK, ChainOK, HistoryOK, ScanStep, chain
  <1> QED  BY <1>3, <1>4 DEF ScanAttach

\* The cursor goes to the tip the pass had read.
LEMMA ScanAdvanceType ==
    ASSUME TypeOK, NEW s \in Scanners, ScanAdvance(s) PROVE TypeOK'
  BY IdleTypes, ScanLocalType
     DEF ScanAdvance, ScanIdle, TypeOK, DatabaseOK, ScanOK, HistoryOK, ScannerState

\* An interrupted scanner leaves the tables as they were.
LEMMA ScanInterruptedType ==
    ASSUME TypeOK, NEW s \in Scanners, ScanInterrupted(s) PROVE TypeOK'
  <1> USE DEF TypeOK, ScanInterrupted, chain, database
  <1>1. ScanOK'
    BY IdleTypes, ScanStepType DEF ScanIdle
  <1>2. ConfirmOK'
    BY ConfirmUnchanged
  <1> QED  BY <1>1, <1>2 DEF ChainOK, DatabaseOK, HistoryOK

\* A confirmer's step that leaves the tables alone.
LEMMA ConfirmLocalType ==
    ASSUME TypeOK, NEW c \in Confirmers, NEW to \in ConfirmerState,
           \A h \in Txs : EntryOK(to.active[h], h),
           to.pc \in {"tip", "missing", "apply"} =>
              to.tx \in Txs /\ to.active[to.tx] # Nothing,
           ConfirmStep(c, to), UNCHANGED <<invoice, payment, events>>
    PROVE  TypeOK'
  <1> USE DEF TypeOK, ConfirmStep, chain, history
  <1>1. \A h \in Txs : EntryOK(to.active[h], h)'
    BY DEF EntryOK
  <1>2. ConfirmOK'
    BY <1>1, ConfirmStepType
  <1> QED  BY <1>2 DEF ChainOK, DatabaseOK, ScanOK, HistoryOK

\* The overdue list holds invoices of the table.
LEMMA ConfirmBeginType ==
    ASSUME TypeOK, NEW c \in Confirmers, ConfirmBegin(c) PROVE TypeOK'
  <1> DEFINE late == OverdueInvoices
             to == [confirm[c] EXCEPT !.pc = "expire", !.overdue = late]
  <1>1. late \subseteq Invoices
    BY DEF TypeOK, DatabaseOK, OverdueInvoices
  <1> HIDE DEF late
  <1>2. to \in ConfirmerState /\ to.pc = "expire" /\ to.active = confirm[c].active
    BY <1>1 DEF TypeOK, ConfirmOK, ConfirmerState
  <1>3. ConfirmStep(c, to) /\ UNCHANGED <<invoice, payment, events>>
    BY DEF ConfirmBegin, late
  <1> HIDE DEF to
  <1> QED  BY <1>2, <1>3, ConfirmLocalType DEF TypeOK, ConfirmOK

\* Expiring writes an invoice and an event, no payment.
LEMMA ConfirmExpireType ==
    ASSUME TypeOK, NEW c \in Confirmers, NEW i \in Invoices, ConfirmExpire(c, i)
    PROVE  TypeOK'
  <1> USE DEF ConfirmExpire
  <1> DEFINE left == confirm[c].overdue \ {i}
             to == [confirm[c] EXCEPT !.overdue = left]
  <1>1. to \in ConfirmerState /\ to.pc = "expire" /\ to.active = confirm[c].active
    BY DEF TypeOK, ConfirmOK, ConfirmerState
  <1>2. confirm' = [confirm EXCEPT ![c] = to]
    BY DEF ConfirmStep
  <1> HIDE DEF to
  <1>3. ConfirmOK'
    <2>1. UNCHANGED payment /\ ConfirmOK
      BY DEF TypeOK
    <2>2. \A h \in Txs : EntryOK(confirm[c].active[h], h)
      BY <2>1 DEF ConfirmOK
    <2> HIDE DEF ConfirmExpire
    <2>3. \A h \in Txs : payment[h].status # Absent =>
             /\ payment'[h].status # Absent
             /\ payment'[h].invoice = payment[h].invoice
             /\ payment'[h].received = payment[h].received
      BY <2>1
    <2>4. \A h \in Txs : \A entry : EntryOK(entry, h) => EntryOK(entry, h)'
      BY <2>1 DEF EntryOK
    <2>5. to \in ConfirmerState /\ to.pc = "expire"
          /\ \A h \in Txs : to.active[h] = confirm[c].active[h]
      BY <1>1
    <2> QED  BY <1>2, <2>1, <2>2, <2>3, <2>4, <2>5, ConfirmStepType
  <1>4. Append(events[i], "invoice.expired") \in Seq(EventTypes)
    BY DEF TypeOK, DatabaseOK, EventTypes
  <1>5. DatabaseOK'
    BY <1>4 DEF TypeOK, DatabaseOK, InvoiceStatus, ConfirmStep
  <1> QED
    BY <1>3, <1>5 DEF TypeOK, ChainOK, ScanOK, HistoryOK, ConfirmStep, chain, history

\* The snapshot is made of rows as they are: its entries are good.
LEMMA ConfirmListType ==
    ASSUME TypeOK, NEW c \in Confirmers, ConfirmList(c) PROVE TypeOK'
  <1> DEFINE list == [h \in Txs |->
                 IF payment[h].status \in {"DETECTED", "CONFIRMING", "REORG_DETECTED"}
                 THEN [row |-> payment[h], invoice |-> invoice[payment[h].invoice]]
                 ELSE Nothing]
             to == [confirm[c] EXCEPT !.pc = "pick", !.active = list]
  <1>1. ASSUME NEW h \in Txs
        PROVE  list[h] \in Snapshot /\ EntryOK(list[h], h)
    <2>1. CASE payment[h].status \in {"DETECTED", "CONFIRMING", "REORG_DETECTED"}
      <3>1. payment[h] \in PaymentRow /\ payment[h].status # Absent
        BY <2>1 DEF TypeOK, DatabaseOK, Absent
      <3>2. payment[h].invoice \in Invoices
        BY <3>1 DEF TypeOK, DatabaseOK
      <3>3. invoice[payment[h].invoice] \in InvoiceStatus \cup {Absent}
        BY <3>2 DEF TypeOK, DatabaseOK
      <3>4. list[h] = [row |-> payment[h], invoice |-> invoice[payment[h].invoice]]
        BY <2>1
      <3> QED  BY <2>1, <3>1, <3>2, <3>3, <3>4 DEF Snapshot, EntryOK
    <2>2. CASE payment[h].status \notin {"DETECTED", "CONFIRMING", "REORG_DETECTED"}
      BY <2>2, IdleTypes DEF EntryOK
    <2> QED  BY <2>1, <2>2
  <1>2. list \in [Txs -> Snapshot]
    BY <1>1
  <1>3. ConfirmStep(c, to) /\ UNCHANGED <<invoice, payment, events>>
    BY DEF ConfirmList
  <1> HIDE DEF list
  <1>4. to \in ConfirmerState /\ to.pc = "pick" /\ to.active = list
    BY <1>2 DEF TypeOK, ConfirmOK, ConfirmerState
  <1> HIDE DEF to
  <1> QED  BY <1>1, <1>3, <1>4, ConfirmLocalType

\* The payment taken in hand is one of the snapshot.
LEMMA ConfirmReceiptType ==
    ASSUME TypeOK, NEW c \in Confirmers, NEW h \in Txs, ConfirmReceipt(c, h)
    PROVE  TypeOK'
  <1> DEFINE gone == [confirm[c] EXCEPT !.pc = "missing", !.tx = h]
             mined == [confirm[c] EXCEPT !.pc = "tip", !.tx = h, !.receipt = block[h]]
             to == IF block[h] = NotMined THEN gone ELSE mined
  <1>1. gone \in ConfirmerState /\ gone.tx = h /\ gone.active = confirm[c].active
    BY DEF TypeOK, ConfirmOK, ConfirmerState
  <1>2. mined \in ConfirmerState /\ mined.tx = h /\ mined.active = confirm[c].active
    BY DEF TypeOK, ChainOK, ConfirmOK, ConfirmerState
  <1>3. confirm[c].active[h] # Nothing
    BY DEF ConfirmReceipt, Active
  <1>4. ConfirmStep(c, to) /\ UNCHANGED <<invoice, payment, events>>
    BY DEF ConfirmReceipt
  <1> HIDE DEF gone, mined
  <1>5. to \in ConfirmerState /\ to.tx = h /\ to.active = confirm[c].active
    BY <1>1, <1>2
  <1> HIDE DEF to
  <1> QED  BY <1>3, <1>4, <1>5, ConfirmLocalType DEF TypeOK, ConfirmOK

\* The number of confirmations is never negative.
LEMMA ConfirmTipType ==
    ASSUME TypeOK, NEW c \in Confirmers, ConfirmTip(c) PROVE TypeOK'
  <1> DEFINE found == Depth(confirm[c].receipt, height)
             to == [confirm[c] EXCEPT !.pc = "apply", !.confirmations = found]
  <1>1. confirm[c] \in ConfirmerState
    BY DEF TypeOK, ConfirmOK
  <1>2. confirm[c].receipt \in Int /\ height \in Int
    BY <1>1 DEF ConfirmerState, TypeOK, ChainOK, NotMined
  <1>3. found \in Nat
    BY <1>2 DEF Depth
  <1>4. ConfirmStep(c, to) /\ UNCHANGED <<invoice, payment, events>>
    BY DEF ConfirmTip
  <1> HIDE DEF found
  <1>5. to \in ConfirmerState /\ to.tx = confirm[c].tx /\ to.active = confirm[c].active
    BY <1>1, <1>3 DEF ConfirmerState
  <1> HIDE DEF to
  <1> QED  BY <1>4, <1>5, ConfirmLocalType DEF TypeOK, ConfirmOK, ConfirmTip

InHand(c) == confirm[c].pc \in {"tip", "missing", "apply"}

\* What a confirmer holding a payment knows of it, stale or not.
LEMMA RowInHand ==
    ASSUME TypeOK, NEW c \in Confirmers, InHand(c)
    PROVE  /\ confirm[c].tx \in Txs
           /\ confirm[c].confirmations \in Nat
           /\ Row(c) \in PaymentRow
           /\ Row(c).status \in {"DETECTED", "CONFIRMING", "REORG_DETECTED"}
           /\ Row(c).invoice \in Invoices
           /\ payment[confirm[c].tx] \in PaymentRow
           /\ payment[confirm[c].tx].status # Absent
           /\ payment[confirm[c].tx].status \in PaymentStatus
           /\ payment[confirm[c].tx].invoice = Row(c).invoice
           /\ payment[confirm[c].tx].received = Row(c).received
  <1> DEFINE h == confirm[c].tx
  <1>1. confirm[c] \in ConfirmerState
    BY DEF TypeOK, ConfirmOK
  <1>2. h \in Txs /\ confirm[c].active[h] # Nothing
    BY DEF TypeOK, ConfirmOK, InHand
  <1>3. confirm[c].active[h] \in Snapshot /\ confirm[c].confirmations \in Nat
    BY <1>1, <1>2 DEF ConfirmerState
  <1>4. EntryOK(confirm[c].active[h], h)
    BY <1>2 DEF TypeOK, ConfirmOK
  <1>5. payment[h] \in PaymentRow
    BY <1>2 DEF TypeOK, DatabaseOK
  <1> QED
    BY <1>2, <1>3, <1>4, <1>5 DEF Row, Snapshot, EntryOK, PaymentRow

\* The amount verdict of the payment in hand, under its three names.
LEMMA VerdictTypes ==
    ASSUME NEW outcome \in {"exact", "underpaid", "overpaid"}
    PROVE  /\ PaymentVerdict(outcome) \in PaymentStatus
           /\ InvoiceVerdict(outcome) \in InvoiceStatus
           /\ EventType(outcome) \in EventTypes
  BY DEF PaymentVerdict, InvoiceVerdict, EventType, PaymentStatus, InvoiceStatus,
         EventTypes

\* `continue` keeps the locals typed and forgets the payment in hand only.
LEMMA ContinueType ==
    ASSUME TypeOK, NEW c \in Confirmers, InHand(c), Continue(c)
    PROVE  /\ confirm'[c] \in ConfirmerState
           /\ confirm' = [confirm EXCEPT ![c] = confirm'[c]]
           /\ confirm'[c].pc = "pick"
           /\ \A h \in Txs : confirm'[c].active[h] =
                 IF h = confirm[c].tx THEN Nothing ELSE confirm[c].active[h]
           /\ UNCHANGED <<chain, overdue, cursor, scan, history>>
  <1> DEFINE rest == [confirm[c].active EXCEPT ![confirm[c].tx] = Nothing]
             to == [confirm[c] EXCEPT !.pc = "pick", !.active = rest,
                       !.tx = NoTx, !.receipt = NotMined, !.confirmations = 0]
  <1>1. confirm[c] \in ConfirmerState /\ confirm \in [Confirmers -> ConfirmerState]
    BY DEF TypeOK, ConfirmOK
  <1>2. rest \in [Txs -> Snapshot]
    BY <1>1, IdleTypes DEF ConfirmerState
  <1>3. \A h \in Txs : rest[h] =
           IF h = confirm[c].tx THEN Nothing ELSE confirm[c].active[h]
    BY <1>1 DEF ConfirmerState
  <1>4. confirm' = [confirm EXCEPT ![c] = to]
    BY DEF Continue, ConfirmStep
  <1> HIDE DEF rest
  <1>5. to \in ConfirmerState /\ to.pc = "pick" /\ to.active = rest
    BY <1>1, <1>2 DEF ConfirmerState
  <1> HIDE DEF to
  <1>6. confirm'[c] = to
    BY <1>1, <1>4
  <1> QED  BY <1>3, <1>4, <1>5, <1>6 DEF Continue, ConfirmStep

\* On to the next payment with nothing written.
LEMMA ContinueUnwritten ==
    ASSUME TypeOK, NEW c \in Confirmers, InHand(c), Continue(c),
           UNCHANGED <<invoice, payment, events>>
    PROVE  TypeOK'
  <1> DEFINE to == confirm'[c]
  <1>1. ConfirmStep(c, to) /\ to \in ConfirmerState /\ to.pc = "pick"
    BY ContinueType DEF ConfirmStep
  <1>2. \A h \in Txs : EntryOK(to.active[h], h)
    BY ContinueType DEF TypeOK, ConfirmOK, EntryOK
  <1> QED  BY <1>1, <1>2, ConfirmLocalType

\* Every write of a confirmer: the payment in hand, perhaps its invoice and
\* an event, and on to the next payment.
LEMMA WriteType ==
    ASSUME TypeOK, NEW c \in Confirmers, InHand(c), Continue(c),
           NEW status \in PaymentStatus, NEW n \in Nat,
           WritePayment(c, status, n),
           invoice' \in [Invoices -> InvoiceStatus \cup {Absent}],
           events' \in [Invoices -> Seq(EventTypes)]
    PROVE  TypeOK'
  <1> DEFINE h == confirm[c].tx
             row == [payment[h] EXCEPT !.status = status, !.confirmations = n,
                                       !.graceOver = FALSE]
  <1>1. h \in Txs /\ payment[h] \in PaymentRow /\ payment[h].status # Absent
    BY RowInHand
  <1>2. row \in PaymentRow /\ row.invoice = payment[h].invoice
        /\ row.received = payment[h].received /\ row.status = status
    BY <1>1 DEF PaymentRow
  <1>3. status # Absent
    BY DEF PaymentStatus, Absent
  <1>4. payment' = [payment EXCEPT ![h] = row]
    BY DEF WritePayment
  <1> HIDE DEF row, h
  <1>5. \A g \in Txs : payment[g].status # Absent =>
           /\ payment'[g].status # Absent
           /\ payment'[g].invoice = payment[g].invoice
           /\ payment'[g].received = payment[g].received
    BY <1>1, <1>2, <1>3, <1>4 DEF TypeOK, DatabaseOK
  <1>6. DatabaseOK'
    BY <1>1, <1>2, <1>3, <1>4, ContinueType DEF TypeOK, DatabaseOK
  <1>7. PICK to \in ConfirmerState :
           /\ confirm' = [confirm EXCEPT ![c] = to]
           /\ to.pc = "pick"
           /\ \A g \in Txs : to.active[g] \in {Nothing, confirm[c].active[g]}
    <2> DEFINE kept == confirm'[c]
    <2>1. kept \in ConfirmerState /\ kept.pc = "pick" /\ confirm' = [confirm EXCEPT ![c] = kept]
      BY ContinueType
    <2>2. \A g \in Txs : kept.active[g] \in {Nothing, confirm[c].active[g]}
      BY ContinueType
    <2> HIDE DEF kept
    <2> QED  BY <2>1, <2>2
  <1>8. ConfirmOK'
    <2>1. ConfirmOK
      BY DEF TypeOK
    <2>2. \A g \in Txs : EntryOK(confirm[c].active[g], g)
      BY <2>1 DEF ConfirmOK
    <2>3. \A g \in Txs : \/ to.active[g] = Nothing
                         \/ to.active[g] = confirm[c].active[g]
      BY <1>7
    <2>4. confirm' = [confirm EXCEPT ![c] = to] /\ to.pc = "pick"
      BY <1>7
    <2>5. \A g \in Txs : EntryOK(to.active[g], g)'
      BY <1>5, <2>2, <2>3 DEF EntryOK
    <2> QED  BY <1>5, <2>1, <2>4, <2>5, ConfirmStepType
  <1> QED
    BY <1>6, <1>8, ContinueType DEF TypeOK, ChainOK, ScanOK, HistoryOK, chain, history

\* An assert that throws drops the locals only.
LEMMA AbortType ==
    ASSUME TypeOK, NEW c \in Confirmers, Abort(c) PROVE TypeOK'
  BY IdleTypes, ConfirmLocalType DEF Abort, ConfirmIdle, EntryOK

\* A failed payment keeps its row, its invoice and its amount.
LEMMA FailPaymentType ==
    ASSUME TypeOK, NEW c \in Confirmers, InHand(c), FailPayment(c) PROVE TypeOK'
  <1>1. CASE Abort(c)
    BY <1>1, AbortType
  <1>2. CASE /\ WritePayment(c, "FAILED", payment[confirm[c].tx].confirmations)
             /\ WriteInvoice(c, "FAILED")
             /\ Continue(c)
             /\ UNCHANGED events
    <2>1. payment[confirm[c].tx].confirmations \in Nat /\ Row(c).invoice \in Invoices
      BY RowInHand DEF PaymentRow
    <2>2. invoice' \in [Invoices -> InvoiceStatus \cup {Absent}]
      BY <1>2, <2>1 DEF TypeOK, DatabaseOK, WriteInvoice, InvoiceStatus
    <2>3. "FAILED" \in PaymentStatus
      BY DEF PaymentStatus
    <2> QED  BY <1>2, <2>1, <2>2, <2>3, WriteType DEF TypeOK, DatabaseOK
  <1> QED  BY <1>1, <1>2 DEF FailPayment

\* Each branch for a missing transaction writes a status, or nothing.
LEMMA HandleMissingTransactionType ==
    ASSUME TypeOK, NEW c \in Confirmers, HandleMissingTransaction(c) PROVE TypeOK'
  <1>1. InHand(c)
    BY DEF HandleMissingTransaction, InHand
  <1>2. CASE FailPayment(c)
    BY <1>1, <1>2, FailPaymentType
  <1>3. CASE /\ WritePayment(c, "REORG_DETECTED", payment[confirm[c].tx].confirmations)
             /\ Continue(c)
             /\ UNCHANGED <<invoice, events>>
    <2>1. payment[confirm[c].tx].confirmations \in Nat
      BY <1>1, RowInHand DEF PaymentRow
    <2>2. "REORG_DETECTED" \in PaymentStatus
      BY DEF PaymentStatus
    <2> QED  BY <1>1, <1>3, <2>1, <2>2, WriteType DEF TypeOK, DatabaseOK
  <1>4. CASE Continue(c) /\ UNCHANGED <<invoice, payment, events>>
    BY <1>1, <1>4, ContinueUnwritten
  <1> QED  BY <1>2, <1>3, <1>4 DEF HandleMissingTransaction

\* Payment and invoice go to CONFIRMING together.
LEMMA MoveToConfirmingType ==
    ASSUME TypeOK, NEW c \in Confirmers, MoveToConfirming(c) PROVE TypeOK'
  <1>1. InHand(c)
    BY DEF MoveToConfirming, InHand
  <1>2. CASE Abort(c)
    BY <1>2, AbortType
  <1>3. CASE /\ WritePayment(c, "CONFIRMING", confirm[c].confirmations)
             /\ WriteInvoice(c, "CONFIRMING")
             /\ Continue(c)
             /\ UNCHANGED events
    <2>1. confirm[c].confirmations \in Nat /\ Row(c).invoice \in Invoices
      BY <1>1, RowInHand
    <2>2. invoice' \in [Invoices -> InvoiceStatus \cup {Absent}]
      BY <1>3, <2>1 DEF TypeOK, DatabaseOK, WriteInvoice, InvoiceStatus
    <2>3. "CONFIRMING" \in PaymentStatus
      BY DEF PaymentStatus
    <2> QED  BY <1>1, <1>3, <2>1, <2>2, <2>3, WriteType DEF TypeOK, DatabaseOK
  <1> QED  BY <1>2, <1>3 DEF MoveToConfirming

\* The row keeps whatever status it has by now.
LEMMA UpdateConfirmationsType ==
    ASSUME TypeOK, NEW c \in Confirmers, UpdateConfirmations(c) PROVE TypeOK'
  <1>1. InHand(c) /\ Continue(c) /\ UNCHANGED <<invoice, events>>
    BY DEF UpdateConfirmations, InHand
  <1>2. CASE UNCHANGED payment
    BY <1>1, <1>2, ContinueUnwritten
  <1>3. CASE WritePayment(c, payment[confirm[c].tx].status, confirm[c].confirmations)
    <2>1. /\ confirm[c].confirmations \in Nat
          /\ payment[confirm[c].tx].status \in PaymentStatus
      BY <1>1, RowInHand
    <2> QED  BY <1>1, <1>3, <2>1, WriteType DEF TypeOK, DatabaseOK
  <1> QED  BY <1>2, <1>3 DEF UpdateConfirmations

\* The amounts of an invoice and of the payment attached to it compare.
LEMMA OutcomeInHand ==
    ASSUME TypeOK, NEW c \in Confirmers, InHand(c)
    PROVE  EvaluatePaymentAmount(Terms[Row(c).invoice].amount, Row(c).received)
              \in {"exact", "underpaid", "overpaid"}
  <1>1. Row(c).invoice \in Invoices /\ Row(c).received \in Nat
    BY RowInHand DEF PaymentRow
  <1>2. Terms[Row(c).invoice].amount \in Nat
    BY <1>1, TermsAssumption DEF Term
  <1> QED  BY <1>1, <1>2, OutcomeType

\* The verdict has a name for the payment, the invoice and the event.
LEMMA FinalizePaymentType ==
    ASSUME TypeOK, NEW c \in Confirmers, FinalizePayment(c) PROVE TypeOK'
  <1> DEFINE i == Row(c).invoice
             outcome == EvaluatePaymentAmount(Terms[i].amount, Row(c).received)
  <1>1. InHand(c) /\ Continue(c)
    BY DEF FinalizePayment, InHand
  <1>2. confirm[c].confirmations \in Nat /\ i \in Invoices
    BY <1>1, RowInHand
  <1>3. outcome \in {"exact", "underpaid", "overpaid"}
    BY <1>1, OutcomeInHand
  <1>4. /\ WritePayment(c, PaymentVerdict(outcome), confirm[c].confirmations)
        /\ WriteInvoice(c, InvoiceVerdict(outcome))
        /\ events' = [events EXCEPT ![i] = Append(@, EventType(outcome))]
    BY DEF FinalizePayment
  <1> HIDE DEF outcome
  <1>5. /\ PaymentVerdict(outcome) \in PaymentStatus
        /\ InvoiceVerdict(outcome) \in InvoiceStatus
        /\ EventType(outcome) \in EventTypes
    BY <1>3, VerdictTypes
  <1>6. invoice' \in [Invoices -> InvoiceStatus \cup {Absent}]
    BY <1>2, <1>4, <1>5 DEF TypeOK, DatabaseOK, WriteInvoice
  <1>7. events' \in [Invoices -> Seq(EventTypes)]
    BY <1>2, <1>4, <1>5 DEF TypeOK, DatabaseOK
  <1> QED  BY <1>1, <1>2, <1>4, <1>5, <1>6, <1>7, WriteType

\* The end of a pass drops the locals only.
LEMMA ConfirmEndType ==
    ASSUME TypeOK, NEW c \in Confirmers, ConfirmEnd(c) PROVE TypeOK'
  BY AbortType DEF ConfirmEnd, Abort

\* An interrupted confirmer leaves the tables as they were.
LEMMA ConfirmInterruptedType ==
    ASSUME TypeOK, NEW c \in Confirmers, ConfirmInterrupted(c) PROVE TypeOK'
  <1> USE DEF ConfirmInterrupted, chain, database
  <1>1. ConfirmOK'
    BY IdleTypes, ConfirmStepType DEF TypeOK, ConfirmIdle, EntryOK
  <1> QED  BY <1>1 DEF TypeOK, ChainOK, DatabaseOK, ScanOK, HistoryOK

----------------------------------------------------------------------------
\* Every step keeps the types.
LEMMA TypeStep == TypeOK /\ [Next]_vars => TypeOK'
  <1> SUFFICES ASSUME TypeOK, [Next]_vars PROVE TypeOK'
    OBVIOUS
  <1>1. CASE Environment
    BY <1>1, CreateInvoiceType, ExpiryPassesType, GracePassesType, MineType,
       ReorgType DEF Environment
  <1>2. ASSUME NEW s \in Scanners, ScanPass(s) \/ ScanInterrupted(s) PROVE TypeOK'
    BY <1>2, ScanBeginType, ScanLatestType, ScanFetchType, ScanMatchType,
       ScanSeenType, ScanAttachType, ScanAdvanceType, ScanInterruptedType
       DEF ScanPass
  <1>3. ASSUME NEW c \in Confirmers, ConfirmPass(c) \/ ConfirmInterrupted(c)
        PROVE  TypeOK'
    BY <1>3, ConfirmBeginType, ConfirmExpireType, ConfirmListType,
       ConfirmReceiptType, ConfirmTipType, HandleMissingTransactionType,
       MoveToConfirmingType, UpdateConfirmationsType, FinalizePaymentType,
       ConfirmEndType, ConfirmInterruptedType
       DEF ConfirmPass
  <1>4. CASE UNCHANGED vars
    <2>1. ConfirmOK'
      BY <1>4, ConfirmUnchanged DEF vars, TypeOK
    <2> QED  BY <1>4, <2>1 DEF vars, TypeOK, ChainOK, DatabaseOK, ScanOK, HistoryOK
  <1> QED  BY <1>1, <1>2, <1>3, <1>4 DEF Next

\* Whatever the passes do to each other, the tables and the locals of every
\* pass stay well formed: no row is written through a stale snapshot that
\* names a payment or an invoice that does not exist.
THEOREM TypeCorrect == Spec => []TypeOK
  <1>1. Init => TypeOK
    BY InitType
  <1>2. TypeOK /\ [Next]_vars => TypeOK'
    BY TypeStep
  <1> QED  BY <1>1, <1>2, PTL DEF Spec

----------------------------------------------------------------------------
(***************************************************************************)
(* 2. The scan cursor never passes a transfer: CursorCoversTransfers,      *)
(* for every instance and any number of overlapping scanners.  A scanner   *)
(* covers the blocks below its range because the cursor did when it read   *)
(* it, and the blocks of its range because each log found there is either  *)
(* finished, still to do, or in its hand.                                  *)
(***************************************************************************)
Hash(l) == Transfer[l].txHash

\* A log on the chain, whose transaction no reorganisation moved.
Settled(l) == Hash(l) \notin displaced /\ Hash(l) \notin reverted

\* Every such log up to block n went through the matcher.
CoversUpTo(n) == \A l \in Logs : Settled(l) /\ block[Hash(l)] \in 0..n => l \in scanned

BlocksBelowTip == cursor <= height /\ \A h \in Txs : block[h] <= height

\* What a scanner's range promises of the blocks below it, of its tip, and of
\* the logs it still has to deal with.
RangeOK(s) ==
    /\ scan[s].pc # "idle" => scan[s].from <= height + 1 /\ CoversUpTo(scan[s].from - 1)
    /\ scan[s].pc \in {"fetch", "match", "seen", "attach"} => scan[s].latest <= height

LogsOK(s) ==
    scan[s].pc \in {"match", "seen", "attach"} =>
        \A l \in Logs :
            Settled(l) /\ block[Hash(l)] \in 0..scan[s].latest =>
                \/ l \in scanned
                \/ scan[s].logs[l] # NotMined
                \/ scan[s].pc # "match" /\ scan[s].log = l

CoverInv == /\ BlocksBelowTip
            /\ CoversUpTo(cursor)
            /\ \A s \in Scanners : RangeOK(s) /\ LogsOK(s)

----------------------------------------------------------------------------
\* A transfer's transaction, and the block it is in, if any.
LEMMA HashType ==
    ASSUME TypeOK, NEW l \in Logs
    PROVE  Hash(l) \in Txs /\ block[Hash(l)] \in {-1} \cup Nat
  BY TransferAssumption DEF Hash, TransferLog, TypeOK, ChainOK, NotMined

\* The types of a scanner's locals.
LEMMA ScanLocals ==
    ASSUME TypeOK, NEW s \in Scanners
    PROVE  /\ scan[s].from \in Nat /\ scan[s].latest \in Nat
           /\ scan[s].logs \in [Logs -> {NotMined} \cup Nat]
           /\ scan[s].log \in Logs \cup {NoLog}
           /\ scan[s].pc \in {"idle", "latest", "fetch", "match", "seen", "attach"}
  BY DEF TypeOK, ScanOK, ScannerState

\* Nothing scanned yet, and no block above the genesis block.
LEMMA InitCovers == Init => CoverInv
  BY DEF Init, CoverInv, BlocksBelowTip, CoversUpTo, RangeOK, LogsOK, ScanIdle, NotMined

\* Steps that leave the chain, the cursor and the scanners alone.
LEMMA CoverUnchanged ==
    ASSUME CoverInv,
           UNCHANGED <<height, block, reverted, displaced, cursor, scan, scanned>>
    PROVE  CoverInv'
  BY DEF CoverInv, BlocksBelowTip, CoversUpTo, RangeOK, LogsOK, Settled

\* A change of the chain that only adds blocks above the old tip, or touches
\* transactions it marks as displaced.
LEMMA ChainStepCovers ==
    ASSUME TypeOK, CoverInv, height' >= height, height' \in Nat,
           UNCHANGED <<cursor, scan, scanned>>,
           \A h \in Txs : block'[h] <= height',
           \A h \in Txs \ displaced' :
              /\ h \notin displaced
              /\ \/ block'[h] > height
                 \/ block'[h] = block[h] /\ (h \in reverted => h \in reverted')
    PROVE  CoverInv'
  <1>1. \A l \in Logs, n \in Int : n <= height =>
           (Settled(l)' /\ block'[Hash(l)] \in 0..n
              => Settled(l) /\ block[Hash(l)] \in 0..n)
    <2> SUFFICES ASSUME NEW l \in Logs, NEW n \in Int, n <= height,
                        Settled(l)', block'[Hash(l)] \in 0..n
                 PROVE  Settled(l) /\ block[Hash(l)] \in 0..n
      OBVIOUS
    <2>1. Hash(l) \in Txs \ displaced' /\ Hash(l) \notin reverted'
      BY HashType DEF Settled, Hash
    <2>2. ~(block'[Hash(l)] > height)
      BY DEF TypeOK, ChainOK
    <2> QED  BY <2>1, <2>2 DEF Settled
  <1>2. ASSUME NEW n \in Int, n <= height, CoversUpTo(n) PROVE CoversUpTo(n)'
    BY <1>1, <1>2 DEF CoversUpTo, Hash
  <1>3. cursor \in Int /\ height \in Nat
    BY DEF TypeOK, ChainOK, DatabaseOK
  <1>4. BlocksBelowTip' /\ CoversUpTo(cursor)'
    BY <1>2, <1>3 DEF CoverInv, BlocksBelowTip
  <1>5. ASSUME NEW s \in Scanners PROVE RangeOK(s)' /\ LogsOK(s)'
    <2>1. RangeOK(s) /\ LogsOK(s) /\ scan[s].from \in Nat /\ scan[s].latest \in Nat
      BY ScanLocals DEF CoverInv
    <2>2. RangeOK(s)'
      BY <1>2, <1>3, <2>1 DEF RangeOK
    <2>3. LogsOK(s)'
      BY <1>1, <1>3, <2>1 DEF LogsOK, RangeOK, Hash
    <2> QED  BY <2>2, <2>3
  <1> QED  BY <1>4, <1>5 DEF CoverInv

\* A block is mined at the new tip.
LEMMA MineCovers ==
    ASSUME TypeOK, CoverInv, NEW included \in SUBSET Txs,
           NEW failing \in SUBSET Txs, Mine(included, failing)
    PROVE  CoverInv'
  <1> USE DEF Mine, database, history
  <1>1. height' = height + 1 /\ height \in Nat
    BY DEF TypeOK, ChainOK
  <1>2. \A h \in Txs : block'[h] <= height'
    BY <1>1 DEF CoverInv, BlocksBelowTip, TypeOK, ChainOK, NotMined
  <1>3. ASSUME NEW h \in Txs \ displaced'
        PROVE  /\ h \notin displaced
               /\ \/ block'[h] > height
                  \/ block'[h] = block[h] /\ (h \in reverted => h \in reverted')
    BY <1>1
  <1> QED  BY <1>1, <1>2, <1>3, ChainStepCovers

\* What a reorganisation moves it also marks.
LEMMA ReorgCovers ==
    ASSUME TypeOK, CoverInv, NEW depth \in 1..MaxHeight, Reorg(depth)
    PROVE  CoverInv'
  <1> DEFINE lost == {h \in Txs : block[h] > height - depth}
  <1>1. height' = height /\ height \in Nat /\ UNCHANGED <<cursor, scan, scanned>>
    BY DEF TypeOK, ChainOK, Reorg, database
  <1>2. PICK place \in [lost -> {NotMined} \cup (height - depth + 1)..height] :
          \E failing \in SUBSET {h \in lost \cap MayRevert : place[h] # NotMined} :
              /\ block' = [h \in Txs |-> IF h \in lost THEN place[h] ELSE block[h]]
              /\ reverted' = (reverted \ lost) \cup failing
    BY DEF Reorg
  <1>3. displaced' = displaced \cup lost
    BY DEF Reorg
  <1>4. \A h \in Txs : block'[h] <= height'
    BY <1>1, <1>2 DEF CoverInv, BlocksBelowTip, NotMined
  <1>5. ASSUME NEW h \in Txs \ displaced'
        PROVE  /\ h \notin displaced
               /\ block'[h] = block[h]
               /\ (h \in reverted => h \in reverted')
    BY <1>2, <1>3
  <1> QED  BY <1>1, <1>4, <1>5, ChainStepCovers

----------------------------------------------------------------------------
\* The scanner

\* A step of one scanner: the others keep their promises, since scanned only
\* grows.
LEMMA ScanStepCovers ==
    ASSUME CoverInv, NEW s \in Scanners, NEW to,
           UNCHANGED <<height, block, reverted, displaced>>,
           scan' = [scan EXCEPT ![s] = to], DOMAIN scan = Scanners,
           scanned \subseteq scanned',
           cursor' <= height, CoversUpTo(cursor)',
           RangeOK(s)', LogsOK(s)'
    PROVE  CoverInv'
  <1>1. \A n : CoversUpTo(n) => CoversUpTo(n)'
    BY DEF CoversUpTo, Settled
  <1>2. BlocksBelowTip'
    BY DEF CoverInv, BlocksBelowTip
  <1>3. ASSUME NEW t \in Scanners, t # s PROVE RangeOK(t)' /\ LogsOK(t)'
    <2>1. scan'[t] = scan[t] /\ RangeOK(t) /\ LogsOK(t)
      BY <1>3 DEF CoverInv
    <2>2. RangeOK(t)'
      BY <1>1, <2>1 DEF RangeOK
    <2>3. LogsOK(t)'
      BY <2>1 DEF LogsOK, Settled
    <2> QED  BY <2>2, <2>3
  <1> QED  BY <1>2, <1>3 DEF CoverInv

\* A scanner that goes idle, the cursor where it was.
LEMMA ScanEndsCovers ==
    ASSUME TypeOK, CoverInv, NEW s \in Scanners,
           UNCHANGED <<height, block, reverted, displaced, cursor, scanned>>,
           scan' = [scan EXCEPT ![s] = ScanIdle]
    PROVE  CoverInv'
  <1>1. DOMAIN scan = Scanners
    BY DEF TypeOK, ScanOK
  <1>2. scan'[s].pc = "idle"
    BY <1>1 DEF ScanIdle
  <1>3. RangeOK(s)' /\ LogsOK(s)'
    BY <1>2 DEF RangeOK, LogsOK
  <1>4. CoversUpTo(cursor)' /\ cursor' <= height
    BY DEF CoverInv, BlocksBelowTip, CoversUpTo, Settled
  <1> QED  BY <1>1, <1>3, <1>4, ScanStepCovers

\* The range starts right above the cursor.
LEMMA ScanBeginCovers ==
    ASSUME TypeOK, CoverInv, NEW s \in Scanners, ScanBegin(s) PROVE CoverInv'
  <1> DEFINE to == [scan[s] EXCEPT !.pc = "latest", !.from = cursor + 1]
  <1>1. /\ UNCHANGED <<height, block, reverted, displaced, cursor, scanned>>
        /\ scan' = [scan EXCEPT ![s] = to]
    BY DEF ScanBegin, ScanStep, chain
  <1>2. DOMAIN scan = Scanners /\ cursor \in Int /\ height \in Nat
        /\ scan[s] \in ScannerState
    BY DEF TypeOK, ScanOK, DatabaseOK, ChainOK
  <1>3. scan'[s].pc = "latest" /\ scan'[s].from = cursor + 1
    BY <1>1, <1>2 DEF ScannerState
  <1>4. CoversUpTo(cursor)' /\ cursor <= height
    BY <1>1 DEF CoverInv, BlocksBelowTip, CoversUpTo, Settled
  <1>5. (cursor + 1) - 1 = cursor /\ cursor + 1 <= height + 1
    BY <1>2, <1>4
  <1>6. cursor' = scan'[s].from - 1 /\ scan'[s].from <= height' + 1
    BY <1>1, <1>3, <1>5
  <1> HIDE DEF to
  <1>7. CoversUpTo(scan[s].from - 1)'
    BY <1>4, <1>6
  <1>8. RangeOK(s)' /\ LogsOK(s)'
    BY <1>3, <1>6, <1>7 DEF RangeOK, LogsOK
  <1>9. cursor' <= height
    BY <1>1, <1>4
  <1> QED  BY <1>1, <1>2, <1>4, <1>8, <1>9, ScanStepCovers

\* The range ends at the tip.
LEMMA ScanLatestCovers ==
    ASSUME TypeOK, CoverInv, NEW s \in Scanners, ScanLatest(s) PROVE CoverInv'
  <1> DEFINE to == [scan[s] EXCEPT !.pc = "fetch", !.latest = height]
  <1>1. /\ UNCHANGED <<height, block, reverted, displaced, cursor, scanned>>
        /\ scan[s].pc = "latest"
        /\ \/ scan' = [scan EXCEPT ![s] = ScanIdle]
           \/ scan' = [scan EXCEPT ![s] = to]
    BY DEF ScanLatest, ScanStep, chain
  <1>2. CASE scan' = [scan EXCEPT ![s] = ScanIdle]
    BY <1>1, <1>2, ScanEndsCovers
  <1>3. CASE scan' = [scan EXCEPT ![s] = to]
    <2>1. DOMAIN scan = Scanners /\ scan[s] \in ScannerState /\ height \in Nat
      BY DEF TypeOK, ScanOK, ChainOK
    <2>2. /\ scan'[s].pc = "fetch" /\ scan'[s].latest = height
          /\ scan'[s].from = scan[s].from
      BY <1>3, <2>1 DEF ScannerState
    <2>3. RangeOK(s) /\ CoversUpTo(cursor)' /\ cursor' <= height
      BY <1>1 DEF CoverInv, BlocksBelowTip, CoversUpTo, Settled
    <2>4. RangeOK(s)' /\ LogsOK(s)'
      BY <1>1, <2>1, <2>2, <2>3 DEF RangeOK, LogsOK, CoversUpTo, Settled
    <2> QED  BY <1>1, <1>3, <2>1, <2>3, <2>4, ScanStepCovers
  <1> QED  BY <1>1, <1>2, <1>3

\* getTokenTransfers finds every log of the range, and the blocks below the
\* range were covered when it was taken.
LEMMA ScanFetchCovers ==
    ASSUME TypeOK, CoverInv, NEW s \in Scanners, ScanFetch(s) PROVE CoverInv'
  <1> DEFINE found == GetTokenTransfers(scan[s].from, scan[s].latest)
             to == [scan[s] EXCEPT !.pc = "match", !.logs = found]
  <1>1. /\ UNCHANGED <<height, block, reverted, displaced, cursor, scanned>>
        /\ scan[s].pc = "fetch"
        /\ scan' = [scan EXCEPT ![s] = to]
    BY DEF ScanFetch, ScanStep, chain
  <1>2. DOMAIN scan = Scanners /\ scan[s] \in ScannerState
    BY DEF TypeOK, ScanOK
  <1>3. /\ scan'[s].pc = "match" /\ scan'[s].latest = scan[s].latest
        /\ scan'[s].from = scan[s].from /\ scan'[s].logs = found
    BY <1>1, <1>2 DEF ScannerState
  <1>4. RangeOK(s) /\ CoversUpTo(cursor)' /\ cursor' <= height
    BY <1>1 DEF CoverInv, BlocksBelowTip, CoversUpTo, Settled
  <1>5. RangeOK(s)'
    BY <1>1, <1>3, <1>4 DEF RangeOK, CoversUpTo, Settled
  <1>6. ASSUME NEW l \in Logs, Settled(l), block[Hash(l)] \in 0..scan[s].latest,
               l \notin scanned
        PROVE  found[l] # NotMined
    <2>1. scan[s].from \in Nat /\ scan[s].latest \in Nat
          /\ block[Hash(l)] \in {-1} \cup Nat
      BY ScanLocals, HashType
    <2>2. block[Hash(l)] \notin 0..(scan[s].from - 1)
      BY <1>1, <1>4, <1>6 DEF RangeOK, CoversUpTo
    <2>3. block[Hash(l)] \in scan[s].from..scan[s].latest
      BY <1>6, <2>1, <2>2
    <2>4. found[l] = block[Hash(l)]
      BY <1>6, <2>3 DEF GetTokenTransfers, Hash, Settled
    <2> QED  BY <1>6, <2>4 DEF NotMined
  <1> HIDE DEF found
  <1>7. LogsOK(s)'
    BY <1>1, <1>3, <1>6 DEF LogsOK, Settled
  <1> QED  BY <1>1, <1>2, <1>4, <1>5, <1>7, ScanStepCovers

\* A step of the loop of pass s to the locals `to`: a log leaves the pass's
\* list for its hand or for scanned.
LoopStep(s, to) ==
    /\ UNCHANGED <<height, block, reverted, displaced, cursor>>
    /\ scan' = [scan EXCEPT ![s] = to]
    /\ scanned \subseteq scanned'
    /\ scan[s].pc \in {"match", "seen", "attach"}
    /\ to.pc \in {"match", "seen", "attach"}
    /\ to.from = scan[s].from
    /\ to.latest = scan[s].latest
    /\ \A l \in Logs :
          \/ scan[s].logs[l] # NotMined
          \/ scan[s].pc # "match" /\ scan[s].log = l
          => \/ l \in scanned'
             \/ to.logs[l] # NotMined
             \/ to.pc # "match" /\ to.log = l

\* Such a step keeps every transfer covered.
LEMMA LoopStepCovers ==
    ASSUME TypeOK, CoverInv, NEW s \in Scanners, NEW to, LoopStep(s, to)
    PROVE  CoverInv'
  <1> USE DEF LoopStep
  <1>1. DOMAIN scan = Scanners
    BY DEF TypeOK, ScanOK
  <1>2. scan'[s] = to
    BY <1>1
  <1>3. RangeOK(s) /\ LogsOK(s) /\ cursor <= height /\ CoversUpTo(cursor)
    BY DEF CoverInv, BlocksBelowTip
  <1>4. \A n : CoversUpTo(n) => CoversUpTo(n)'
    BY DEF CoversUpTo, Settled
  <1>5. RangeOK(s)'
    BY <1>2, <1>3, <1>4 DEF RangeOK
  <1>6. LogsOK(s)'
    BY <1>2, <1>3 DEF LogsOK, Settled
  <1> QED  BY <1>1, <1>3, <1>4, <1>5, <1>6, ScanStepCovers

\* A log without an invoice is done with; a matched one goes to the hand.
LEMMA ScanMatchCovers ==
    ASSUME TypeOK, CoverInv, NEW s \in Scanners, NEW l \in Logs, ScanMatch(s, l)
    PROVE  CoverInv'
  <1> DEFINE rest == [scan[s] EXCEPT !.logs[l] = NotMined]
  <1>1. /\ UNCHANGED <<height, block, reverted, displaced, cursor>>
        /\ scan[s].pc = "match"
        /\ \/ scan' = [scan EXCEPT ![s] = rest] /\ scanned' = scanned \cup {l}
           \/ /\ \E c \in SelectMatchingInvoice(Candidates(l), Transfer[l]) :
                    scan' = [scan EXCEPT ![s] =
                        [rest EXCEPT !.pc = "seen", !.log = l, !.invoice = c.id]]
              /\ scanned' = scanned
    BY DEF ScanMatch, ScanStep, chain
  <1>2. scan[s] \in ScannerState
    BY DEF TypeOK, ScanOK
  <1>a. /\ UNCHANGED <<height, block, reverted, displaced, cursor>>
        /\ scan[s].pc = "match"
    BY <1>1
  <1>3. CASE scan' = [scan EXCEPT ![s] = rest] /\ scanned' = scanned \cup {l}
    <2>1. /\ rest.pc = "match" /\ rest.from = scan[s].from
          /\ rest.latest = scan[s].latest
          /\ rest.logs = [scan[s].logs EXCEPT ![l] = NotMined]
      BY <1>1, <1>2 DEF ScannerState
    <2>2. \A k \in Logs \ {l} : rest.logs[k] = scan[s].logs[k]
      BY <1>2, <2>1 DEF ScannerState
    <2> HIDE DEF rest
    <2>3. \A k \in Logs : scan[s].logs[k] # NotMined =>
             k \in scanned' \/ rest.logs[k] # NotMined
      BY <1>3, <2>2
    <2>4. LoopStep(s, rest)
      BY <1>a, <1>3, <2>1, <2>3 DEF LoopStep
    <2> QED  BY <2>4, LoopStepCovers
  <1>4. ASSUME NEW c, scanned' = scanned,
               scan' = [scan EXCEPT ![s] =
                        [rest EXCEPT !.pc = "seen", !.log = l, !.invoice = c.id]]
        PROVE  CoverInv'
    <2> DEFINE to == [rest EXCEPT !.pc = "seen", !.log = l, !.invoice = c.id]
    <2>1. /\ to.pc = "seen" /\ to.from = scan[s].from /\ to.log = l
          /\ to.latest = scan[s].latest
          /\ to.logs = [scan[s].logs EXCEPT ![l] = NotMined]
      BY <1>2 DEF ScannerState
    <2>2. \A k \in Logs \ {l} : to.logs[k] = scan[s].logs[k]
      BY <1>2, <2>1 DEF ScannerState
    <2>3. scan' = [scan EXCEPT ![s] = to] /\ scanned' = scanned
      BY <1>4
    <2> HIDE DEF to
    <2>4. \A k \in Logs :
             \/ scan[s].logs[k] # NotMined
             \/ scan[s].pc # "match" /\ scan[s].log = k
             => \/ k \in scanned'
                \/ to.logs[k] # NotMined
                \/ to.pc # "match" /\ to.log = k
      BY <1>a, <2>1, <2>2
    <2>5. to.pc = "seen" /\ to.from = scan[s].from /\ to.latest = scan[s].latest
      BY <2>1
    <2>6. LoopStep(s, to)
      BY <1>a, <2>3, <2>4, <2>5 DEF LoopStep
    <2> QED  BY <2>6, LoopStepCovers
  <1> QED  BY <1>1, <1>3, <1>4

\* A pass done with the log in its hand.
LEMMA ScannedCovers ==
    ASSUME TypeOK, CoverInv, NEW s \in Scanners,
           scan[s].pc \in {"seen", "attach"},
           UNCHANGED <<height, block, reverted, displaced, cursor>>,
           scan' = [scan EXCEPT ![s] = Scanned(s)],
           scanned' = scanned \cup {scan[s].log}
    PROVE  CoverInv'
  <1>1. scan[s] \in ScannerState
    BY DEF TypeOK, ScanOK
  <1>2. /\ Scanned(s).pc = "match" /\ Scanned(s).from = scan[s].from
        /\ Scanned(s).latest = scan[s].latest /\ Scanned(s).logs = scan[s].logs
    BY <1>1 DEF ScannerState, Scanned
  <1>3. LoopStep(s, Scanned(s))
    BY <1>2 DEF LoopStep
  <1> QED  BY <1>3, LoopStepCovers

\* A hash that has a payment is done with; a new one stays in the hand.
LEMMA ScanSeenCovers ==
    ASSUME TypeOK, CoverInv, NEW s \in Scanners, ScanSeen(s) PROVE CoverInv'
  <1>1. /\ UNCHANGED <<height, block, reverted, displaced, cursor>>
        /\ scan[s].pc = "seen"
        /\ \/ /\ scan' = [scan EXCEPT ![s] = Scanned(s)]
              /\ scanned' = scanned \cup {scan[s].log}
           \/ /\ scan' = [scan EXCEPT ![s] = [scan[s] EXCEPT !.pc = "attach"]]
              /\ scanned' = scanned
    BY DEF ScanSeen, ScanStep, chain
  <1>2. CASE scan' = [scan EXCEPT ![s] = [scan[s] EXCEPT !.pc = "attach"]]
             /\ scanned' = scanned
    <2> DEFINE to == [scan[s] EXCEPT !.pc = "attach"]
    <2>1. scan[s] \in ScannerState
      BY DEF TypeOK, ScanOK
    <2>2. /\ to.pc = "attach" /\ to.from = scan[s].from /\ to.log = scan[s].log
          /\ to.latest = scan[s].latest /\ to.logs = scan[s].logs
      BY <2>1 DEF ScannerState
    <2>3. scan' = [scan EXCEPT ![s] = to] /\ scanned' = scanned
      BY <1>2
    <2>4. UNCHANGED <<height, block, reverted, displaced, cursor>> /\ scan[s].pc = "seen"
      BY <1>1
    <2> HIDE DEF to
    <2>5. LoopStep(s, to)
      BY <2>2, <2>3, <2>4 DEF LoopStep
    <2> QED  BY <2>5, LoopStepCovers
  <1> QED  BY <1>1, <1>2, ScannedCovers

\* The log is done with, or the unique index ends the pass, cursor unmoved.
LEMMA ScanAttachCovers ==
    ASSUME TypeOK, CoverInv, NEW s \in Scanners, ScanAttach(s) PROVE CoverInv'
  <1>1. /\ UNCHANGED <<height, block, reverted, displaced, cursor>>
        /\ scan[s].pc = "attach"
        /\ \/ scan' = [scan EXCEPT ![s] = ScanIdle] /\ scanned' = scanned
           \/ /\ scan' = [scan EXCEPT ![s] = Scanned(s)]
              /\ scanned' = scanned \cup {scan[s].log}
    BY DEF ScanAttach, ScanStep, chain
  <1> QED  BY <1>1, ScanEndsCovers, ScannedCovers

\* The cursor goes to the tip the range ended at, once its logs are done.
LEMMA ScanAdvanceCovers ==
    ASSUME TypeOK, CoverInv, NEW s \in Scanners, ScanAdvance(s) PROVE CoverInv'
  <1>1. /\ UNCHANGED <<height, block, reverted, displaced, scanned>>
        /\ scan[s].pc = "match" /\ Unprocessed(s) = {}
        /\ cursor' = scan[s].latest /\ scan' = [scan EXCEPT ![s] = ScanIdle]
    BY DEF ScanAdvance, ScanStep, chain
  <1>2. RangeOK(s) /\ LogsOK(s) /\ DOMAIN scan = Scanners
    BY DEF CoverInv, TypeOK, ScanOK
  <1>3. CoversUpTo(scan[s].latest)
    BY <1>1, <1>2 DEF LogsOK, CoversUpTo, Unprocessed
  <1>4. CoversUpTo(cursor)' /\ cursor' <= height
    BY <1>1, <1>2, <1>3 DEF RangeOK, CoversUpTo, Settled
  <1>5. scan'[s].pc = "idle"
    BY <1>1, <1>2 DEF ScanIdle
  <1>6. RangeOK(s)' /\ LogsOK(s)'
    BY <1>5 DEF RangeOK, LogsOK
  <1> QED  BY <1>1, <1>2, <1>4, <1>6, ScanStepCovers

\* An interrupted pass never moved the cursor.
LEMMA ScanInterruptedCovers ==
    ASSUME TypeOK, CoverInv, NEW s \in Scanners, ScanInterrupted(s) PROVE CoverInv'
  BY ScanEndsCovers DEF ScanInterrupted, chain, database

----------------------------------------------------------------------------
\* The confirmer touches nothing the cursor's promise is about.
LEMMA ConfirmLeavesScan ==
    ASSUME NEW c \in Confirmers, ConfirmPass(c) \/ ConfirmInterrupted(c)
    PROVE  UNCHANGED <<height, block, reverted, displaced, cursor, scan, scanned>>
  BY DEF ConfirmPass, ConfirmInterrupted, ConfirmBegin, ConfirmExpire, ConfirmList,
         ConfirmReceipt, ConfirmTip, HandleMissingTransaction, FailPayment,
         MoveToConfirming, UpdateConfirmations, FinalizePayment, ConfirmEnd,
         Continue, Abort, ConfirmStep, chain, history, database

\* Every step keeps the cursor's promise.
LEMMA CoverStep == TypeOK /\ CoverInv /\ [Next]_vars => CoverInv'
  <1> SUFFICES ASSUME TypeOK, CoverInv, [Next]_vars PROVE CoverInv'
    OBVIOUS
  <1>1. ASSUME NEW i \in Invoices, CreateInvoice(i) \/ ExpiryPasses(i) PROVE CoverInv'
    BY <1>1, CoverUnchanged DEF CreateInvoice, ExpiryPasses, chain, history
  <1>2. ASSUME NEW h \in Txs, GracePasses(h) PROVE CoverInv'
    BY <1>2, CoverUnchanged DEF GracePasses, chain, history
  <1>3. CASE Environment
    BY <1>1, <1>2, <1>3, MineCovers, ReorgCovers DEF Environment
  <1>4. ASSUME NEW s \in Scanners, ScanPass(s) \/ ScanInterrupted(s) PROVE CoverInv'
    BY <1>4, ScanBeginCovers, ScanLatestCovers, ScanFetchCovers, ScanMatchCovers,
       ScanSeenCovers, ScanAttachCovers, ScanAdvanceCovers, ScanInterruptedCovers
       DEF ScanPass
  <1>5. ASSUME NEW c \in Confirmers, ConfirmPass(c) \/ ConfirmInterrupted(c)
        PROVE  CoverInv'
    BY <1>5, ConfirmLeavesScan, CoverUnchanged
  <1>6. CASE UNCHANGED vars
    BY <1>6, CoverUnchanged DEF vars
  <1> QED  BY <1>3, <1>4, <1>5, <1>6 DEF Next

\* However many scanners overlap, crash or abort, no log at or below the cursor
\* is left unread, unless a reorganisation put it there.
THEOREM CursorNeverSkips == Spec => []CursorCoversTransfers
  <1>1. Init => CoverInv
    BY InitCovers
  <1>2. TypeOK /\ CoverInv /\ [Next]_vars => CoverInv'
    BY CoverStep
  <1>3. CoverInv => CursorCoversTransfers
    BY DEF CoverInv, CoversUpTo, Settled, Hash, CursorCoversTransfers
  <1> QED  BY <1>1, <1>2, <1>3, TypeCorrect, PTL DEF Spec

----------------------------------------------------------------------------
(***************************************************************************)
(* 3. What is settled is on the chain: SettledIsOnChain, for every         *)
(* instance and any number of overlapping passes.  The chain's word goes   *)
(* from hand to hand: a log a scanner has fetched, the payment made from   *)
(* it, the receipt and the depth a confirmer was told.                     *)
(***************************************************************************)
OnChain(h) == h \notin displaced => block[h] # NotMined /\ h \notin reverted

Deep(h, n) == h \notin displaced => height - block[h] + 1 >= n

ScanSees(s) ==
    /\ \A l \in Logs : scan[s].logs[l] # NotMined => OnChain(Hash(l))
    /\ scan[s].pc \in {"seen", "attach"} => OnChain(Hash(scan[s].log))

ConfirmSees(c) ==
    LET h == confirm[c].tx
    IN  /\ confirm[c].pc = "tip" => (h \notin displaced => confirm[c].receipt = block[h])
        /\ confirm[c].pc = "apply" => Deep(h, confirm[c].confirmations)

PaymentSees(h) ==
    /\ payment[h].status # Absent => OnChain(h)
    /\ payment[h].status \in PaymentVerdicts => Deep(h, RequiredConfirmations)

SettleInv ==
    /\ \A h \in Txs : PaymentSees(h)
    /\ \A s \in Scanners : ScanSees(s)
    /\ \A c \in Confirmers : ConfirmSees(c)

----------------------------------------------------------------------------
\* No payment, no locals, no claim.
LEMMA InitSettles == Init => SettleInv
  BY IdleTypes DEF Init, SettleInv, PaymentSees, ScanSees, ConfirmSees, ScanIdle,
     ConfirmIdle, NoPayment, Absent, PaymentVerdicts

\* The chain moves on: what an undisplaced transaction had, it keeps.
LEMMA ChainStepSettles ==
    ASSUME TypeOK, SettleInv, height' >= height, height' \in Nat,
           UNCHANGED <<payment, scan, confirm>>,
           \A h \in Txs \ displaced' :
              /\ h \notin displaced
              /\ block[h] # NotMined =>
                    block'[h] = block[h] /\ (h \in reverted' => h \in reverted)
    PROVE  SettleInv'
  <1>1. \A h \in Txs : OnChain(h) => OnChain(h)'
    BY DEF OnChain
  <1>2. height \in Nat /\ \A h \in Txs : block[h] \in Int
    BY DEF TypeOK, ChainOK, NotMined
  <1>3. \A h \in Txs, n \in Nat : OnChain(h) /\ Deep(h, n) => Deep(h, n)'
    BY <1>2 DEF OnChain, Deep
  <1>4. RequiredConfirmations \in Nat
    BY BoundsAssumption
  <1>5. ASSUME NEW h \in Txs PROVE PaymentSees(h)'
    <2>1. payment[h].status \in PaymentVerdicts => payment[h].status # Absent
      BY DEF PaymentVerdicts, Absent
    <2>2. PaymentSees(h)
      BY DEF SettleInv
    <2> QED  BY <1>1, <1>3, <1>4, <2>1, <2>2 DEF PaymentSees
  <1>6. ASSUME NEW s \in Scanners PROVE ScanSees(s)'
    <2>1. scan[s].pc \in {"seen", "attach"} => scan[s].log \in Logs
      BY DEF TypeOK, ScanOK
    <2>2. \A l \in Logs : OnChain(Hash(l)) => OnChain(Hash(l))'
      BY <1>1, HashType
    <2>3. ScanSees(s)
      BY DEF SettleInv
    <2> QED  BY <2>1, <2>2, <2>3 DEF ScanSees, Hash
  <1>7. ASSUME NEW c \in Confirmers PROVE ConfirmSees(c)'
    <2> DEFINE h == confirm[c].tx
    <2>1. CASE ~InHand(c)
      BY <2>1 DEF ConfirmSees, InHand
    <2>2. CASE InHand(c)
      <3>1. h \in Txs /\ payment[h].status # Absent /\ confirm[c].confirmations \in Nat
        BY <2>2, RowInHand
      <3>2. OnChain(h) /\ ConfirmSees(c)
        BY <3>1 DEF SettleInv, PaymentSees
      <3>3. confirm[c].pc = "apply" => Deep(h, confirm[c].confirmations)'
        BY <1>3, <3>1, <3>2 DEF ConfirmSees
      <3>4. confirm[c].pc = "tip" => (h \notin displaced' => confirm[c].receipt = block'[h])
        BY <3>1, <3>2 DEF ConfirmSees, OnChain
      <3> QED  BY <3>3, <3>4 DEF ConfirmSees, Deep
    <2> QED  BY <2>1, <2>2
  <1> QED  BY <1>5, <1>6, <1>7 DEF SettleInv

\* A new block only buries deeper what is mined.
LEMMA MineSettles ==
    ASSUME TypeOK, SettleInv, NEW included \in SUBSET Txs,
           NEW failing \in SUBSET Txs, Mine(included, failing)
    PROVE  SettleInv'
  <1>1. height' >= height /\ height' \in Nat /\ UNCHANGED <<payment, scan, confirm>>
    BY DEF Mine, TypeOK, ChainOK, database
  <1>2. ASSUME NEW h \in Txs \ displaced'
        PROVE  /\ h \notin displaced
               /\ block[h] # NotMined =>
                     block'[h] = block[h] /\ (h \in reverted' => h \in reverted)
    BY DEF Mine, history
  <1> QED  BY <1>1, <1>2, ChainStepSettles

\* What a reorganisation moves it marks as displaced.
LEMMA ReorgSettles ==
    ASSUME TypeOK, SettleInv, NEW depth \in 1..MaxHeight, Reorg(depth)
    PROVE  SettleInv'
  <1> DEFINE lost == {h \in Txs : block[h] > height - depth}
  <1>1. height' >= height /\ height' \in Nat /\ UNCHANGED <<payment, scan, confirm>>
    BY DEF Reorg, TypeOK, ChainOK, database
  <1>2. PICK place \in [lost -> {NotMined} \cup (height - depth + 1)..height] :
          \E failing \in SUBSET {h \in lost \cap MayRevert : place[h] # NotMined} :
              /\ block' = [h \in Txs |-> IF h \in lost THEN place[h] ELSE block[h]]
              /\ reverted' = (reverted \ lost) \cup failing
    BY DEF Reorg
  <1>3. displaced' = displaced \cup lost
    BY DEF Reorg
  <1>4. ASSUME NEW h \in Txs \ displaced'
        PROVE  /\ h \notin displaced
               /\ block'[h] = block[h] /\ (h \in reverted' => h \in reverted)
    BY <1>2, <1>3
  <1> QED  BY <1>1, <1>4, ChainStepSettles

----------------------------------------------------------------------------
\* Steps on an unchanged chain.  A payment comes only from a log that is on
\* the chain, and a verdict only at the required depth.
LEMMA TableStepSettles ==
    ASSUME SettleInv, UNCHANGED <<height, block, reverted, displaced>>,
           \A h \in Txs : payment'[h].status # Absent =>
              payment[h].status # Absent \/ OnChain(h),
           \A h \in Txs : payment'[h].status \in PaymentVerdicts =>
              payment[h].status \in PaymentVerdicts \/ Deep(h, RequiredConfirmations),
           \A s \in Scanners : ScanSees(s) => ScanSees(s)',
           \A c \in Confirmers : ConfirmSees(c) => ConfirmSees(c)'
    PROVE  SettleInv'
  BY DEF SettleInv, PaymentSees, OnChain, Deep

\* A scanner that does not step keeps what it sees.
LEMMA ScanUnchangedSees ==
    ASSUME NEW s \in Scanners, scan'[s] = scan[s],
           UNCHANGED <<height, block, reverted, displaced>>
    PROVE  ScanSees(s) => ScanSees(s)'
  BY DEF ScanSees, OnChain

\* A confirmer that does not step keeps what it sees.
LEMMA ConfirmUnchangedSees ==
    ASSUME NEW c \in Confirmers, confirm'[c] = confirm[c],
           UNCHANGED <<height, block, reverted, displaced>>
    PROVE  ConfirmSees(c) => ConfirmSees(c)'
  BY DEF ConfirmSees, Deep

\* The API and the clock touch no payment's status.
LEMMA EnvironmentSettles ==
    ASSUME TypeOK, SettleInv,
           \/ \E i \in Invoices : CreateInvoice(i) \/ ExpiryPasses(i)
           \/ \E h \in Txs : GracePasses(h)
    PROVE  SettleInv'
  <1>1. UNCHANGED <<height, block, reverted, displaced, scan, confirm>>
    BY DEF CreateInvoice, ExpiryPasses, GracePasses, chain, history
  <1>2. ASSUME NEW h \in Txs PROVE payment'[h].status = payment[h].status
    <2>1. CASE UNCHANGED payment
      BY <2>1
    <2>2. ASSUME NEW g \in Txs, GracePasses(g) PROVE payment'[h].status = payment[h].status
      BY <2>2 DEF GracePasses, TypeOK, DatabaseOK, PaymentRow
    <2> QED  BY <2>1, <2>2 DEF CreateInvoice, ExpiryPasses
  <1> QED
    BY <1>1, <1>2, TableStepSettles, ScanUnchangedSees, ConfirmUnchangedSees

----------------------------------------------------------------------------
\* A scanner's step takes its own locals from sound to sound.
LEMMA ScanStepSettles ==
    ASSUME TypeOK, SettleInv, NEW s \in Scanners, NEW to,
           UNCHANGED <<height, block, reverted, displaced, confirm>>,
           scan' = [scan EXCEPT ![s] = to],
           \A l \in Logs : to.logs[l] # NotMined => OnChain(Hash(l)),
           to.pc \in {"seen", "attach"} => OnChain(Hash(to.log)),
           \A h \in Txs : payment'[h].status # Absent =>
              payment[h].status # Absent \/ OnChain(h),
           \A h \in Txs : payment'[h].status \in PaymentVerdicts =>
              payment[h].status \in PaymentVerdicts
    PROVE  SettleInv'
  <1>1. DOMAIN scan = Scanners
    BY DEF TypeOK, ScanOK
  <1>2. ScanSees(s)'
    BY <1>1 DEF ScanSees, OnChain
  <1>3. ASSUME NEW t \in Scanners, t # s PROVE ScanSees(t) => ScanSees(t)'
    BY <1>1, <1>3, ScanUnchangedSees
  <1> QED  BY <1>2, <1>3, TableStepSettles, ConfirmUnchangedSees

\* A scanner that only drops logs, or goes idle, stays sound.
LEMMA ScanLocalSettles ==
    ASSUME TypeOK, SettleInv, NEW s \in Scanners, NEW to,
           UNCHANGED <<height, block, reverted, displaced, confirm, payment>>,
           scan' = [scan EXCEPT ![s] = to],
           \A l \in Logs : to.logs[l] # NotMined => scan[s].logs[l] # NotMined,
           to.pc \in {"seen", "attach"} => OnChain(Hash(to.log))
    PROVE  SettleInv'
  BY ScanStepSettles DEF SettleInv, ScanSees

\* The end of a scanner's pass, whether it got there or not.
LEMMA ScanIdleSettles ==
    ASSUME TypeOK, SettleInv, NEW s \in Scanners,
           UNCHANGED <<height, block, reverted, displaced, confirm, payment>>,
           scan' = [scan EXCEPT ![s] = ScanIdle]
    PROVE  SettleInv'
  <1> DEFINE to == ScanIdle
  <1>1. to.pc = "idle" /\ \A l \in Logs : to.logs[l] = NotMined
    BY DEF ScanIdle
  <1>2. scan' = [scan EXCEPT ![s] = to]
    OBVIOUS
  <1> HIDE DEF to
  <1>3. \A l \in Logs : to.logs[l] # NotMined => scan[s].logs[l] # NotMined
    BY <1>1
  <1>4. to.pc \in {"seen", "attach"} => OnChain(Hash(to.log))
    BY <1>1
  <1> QED  BY <1>2, <1>3, <1>4, ScanLocalSettles

\* The cursor is read.
LEMMA ScanBeginSettles ==
    ASSUME TypeOK, SettleInv, NEW s \in Scanners, ScanBegin(s) PROVE SettleInv'
  <1> DEFINE to == [scan[s] EXCEPT !.pc = "latest", !.from = cursor + 1]
  <1>1. UNCHANGED <<height, block, reverted, displaced, confirm, payment>>
    BY DEF ScanBegin, ScanStep, chain
  <1>2. scan' = [scan EXCEPT ![s] = to] /\ scan[s] \in ScannerState
    BY DEF ScanBegin, ScanStep, TypeOK, ScanOK
  <1>3. to.pc = "latest" /\ to.logs = scan[s].logs
    BY <1>2 DEF ScannerState
  <1>4. scan' = [scan EXCEPT ![s] = to]
    BY <1>2
  <1> HIDE DEF to
  <1>5. \A l \in Logs : to.logs[l] # NotMined => scan[s].logs[l] # NotMined
    BY <1>3
  <1>6. to.pc \in {"seen", "attach"} => OnChain(Hash(to.log))
    BY <1>3
  <1> QED  BY <1>1, <1>4, <1>5, <1>6, ScanLocalSettles

\* The tip is read.
LEMMA ScanLatestSettles ==
    ASSUME TypeOK, SettleInv, NEW s \in Scanners, ScanLatest(s) PROVE SettleInv'
  <1> DEFINE to == [scan[s] EXCEPT !.pc = "fetch", !.latest = height]
  <1>1. UNCHANGED <<height, block, reverted, displaced, confirm, payment>>
    BY DEF ScanLatest, ScanStep, chain
  <1>2. scan[s] \in ScannerState
    BY DEF TypeOK, ScanOK
  <1>3. to.pc = "fetch" /\ to.logs = scan[s].logs
    BY <1>2 DEF ScannerState
  <1>4. scan' = [scan EXCEPT ![s] = ScanIdle] \/ scan' = [scan EXCEPT ![s] = to]
    BY DEF ScanLatest, ScanStep
  <1> HIDE DEF to
  <1> QED  BY <1>1, <1>3, <1>4, ScanLocalSettles, ScanIdleSettles

\* getTokenTransfers answers with logs that are on the chain.
LEMMA ScanFetchSettles ==
    ASSUME TypeOK, SettleInv, NEW s \in Scanners, ScanFetch(s) PROVE SettleInv'
  <1> DEFINE found == GetTokenTransfers(scan[s].from, scan[s].latest)
             to == [scan[s] EXCEPT !.pc = "match", !.logs = found]
  <1>1. UNCHANGED <<height, block, reverted, displaced, confirm, payment>>
    BY DEF ScanFetch, ScanStep, chain
  <1>2. scan' = [scan EXCEPT ![s] = to] /\ scan[s] \in ScannerState
    BY DEF ScanFetch, ScanStep, TypeOK, ScanOK
  <1>3. \A l \in Logs : found[l] # NotMined => OnChain(Hash(l))
    BY DEF GetTokenTransfers, OnChain, Hash
  <1> HIDE DEF found
  <1>4. to.pc = "match" /\ to.logs = found
    BY <1>2 DEF ScannerState
  <1> HIDE DEF to
  <1> QED  BY <1>1, <1>2, <1>3, <1>4, ScanStepSettles

\* The log that goes to the hand is one of those fetched.
LEMMA ScanMatchSettles ==
    ASSUME TypeOK, SettleInv, NEW s \in Scanners, NEW l \in Logs, ScanMatch(s, l)
    PROVE  SettleInv'
  <1> DEFINE rest == [scan[s] EXCEPT !.logs[l] = NotMined]
             seen(c) == [rest EXCEPT !.pc = "seen", !.log = l, !.invoice = c.id]
  <1>1. UNCHANGED <<height, block, reverted, displaced, confirm, payment>>
        /\ scan[s].pc = "match" /\ scan[s].logs[l] # NotMined
    BY DEF ScanMatch, ScanStep, chain, NextLogs, Unprocessed
  <1>2. scan[s] \in ScannerState
    BY DEF TypeOK, ScanOK
  <1>3. OnChain(Hash(l))
    BY <1>1 DEF SettleInv, ScanSees
  <1>4. rest.pc = "match" /\ rest.logs = [scan[s].logs EXCEPT ![l] = NotMined]
    BY <1>1, <1>2 DEF ScannerState
  <1>5. \A k \in Logs : rest.logs[k] # NotMined => scan[s].logs[k] # NotMined
    BY <1>2, <1>4 DEF ScannerState
  <1>6. \A c : seen(c).pc = "seen" /\ seen(c).log = l /\ seen(c).logs = rest.logs
    BY <1>2 DEF ScannerState
  <1>7. scan' = [scan EXCEPT ![s] = rest] \/ \E c : scan' = [scan EXCEPT ![s] = seen(c)]
    BY DEF ScanMatch, ScanStep
  <1> HIDE DEF rest, seen
  <1>8. CASE scan' = [scan EXCEPT ![s] = rest]
    <2>1. rest.pc \in {"seen", "attach"} => OnChain(Hash(rest.log))
      BY <1>4
    <2> QED  BY <1>1, <1>5, <1>8, <2>1, ScanLocalSettles
  <1>9. ASSUME NEW c, scan' = [scan EXCEPT ![s] = seen(c)] PROVE SettleInv'
    <2> DEFINE to == seen(c)
    <2>1. scan' = [scan EXCEPT ![s] = to]
      BY <1>9
    <2>2. to.pc = "seen" /\ to.log = l /\ to.logs = rest.logs
      BY <1>6
    <2> HIDE DEF to
    <2>3. \A k \in Logs : to.logs[k] # NotMined => scan[s].logs[k] # NotMined
      BY <1>5, <2>2
    <2>4. to.pc \in {"seen", "attach"} => OnChain(Hash(to.log))
      BY <1>3, <2>2
    <2> QED  BY <1>1, <2>1, <2>3, <2>4, ScanLocalSettles
  <1> QED  BY <1>7, <1>8, <1>9

\* The log stays in the hand, or is done with.
LEMMA ScanSeenSettles ==
    ASSUME TypeOK, SettleInv, NEW s \in Scanners, ScanSeen(s) PROVE SettleInv'
  <1> DEFINE done == Scanned(s)
             to == [scan[s] EXCEPT !.pc = "attach"]
  <1>1. UNCHANGED <<height, block, reverted, displaced, confirm, payment>>
    BY DEF ScanSeen, ScanStep, chain
  <1>2. scan[s].pc = "seen" /\ scan[s] \in ScannerState
    BY DEF ScanSeen, TypeOK, ScanOK
  <1>3. OnChain(Hash(scan[s].log))
    BY <1>2 DEF SettleInv, ScanSees
  <1>4. /\ done.pc = "match" /\ done.logs = scan[s].logs
        /\ to.log = scan[s].log /\ to.logs = scan[s].logs
    BY <1>2 DEF ScannerState, Scanned
  <1>5. scan' = [scan EXCEPT ![s] = done] \/ scan' = [scan EXCEPT ![s] = to]
    BY DEF ScanSeen, ScanStep
  <1> HIDE DEF done, to
  <1> QED  BY <1>1, <1>3, <1>4, <1>5, ScanLocalSettles

\* The new payment's transaction is the one of the log in hand.
LEMMA ScanAttachSettles ==
    ASSUME TypeOK, SettleInv, NEW s \in Scanners, ScanAttach(s) PROVE SettleInv'
  <1> DEFINE h == Hash(scan[s].log)
             done == Scanned(s)
  <1>1. UNCHANGED <<height, block, reverted, displaced, confirm>>
    BY DEF ScanAttach, ScanStep, chain
  <1>2. scan[s].pc = "attach" /\ scan[s] \in ScannerState
    BY DEF ScanAttach, TypeOK, ScanOK
  <1>3. OnChain(h) /\ \A l \in Logs : scan[s].logs[l] # NotMined => OnChain(Hash(l))
    BY <1>2 DEF SettleInv, ScanSees
  <1>4. done.pc = "match" /\ done.logs = scan[s].logs
    BY <1>2 DEF ScannerState, Scanned
  <1>5. CASE UNCHANGED payment /\ scan' = [scan EXCEPT ![s] = ScanIdle]
    BY <1>1, <1>5, ScanIdleSettles
  <1>6. CASE /\ payment' = [payment EXCEPT ![h] =
                    [status |-> "DETECTED", invoice |-> scan[s].invoice,
                     received |-> Transfer[scan[s].log].amount,
                     confirmations |-> 0, graceOver |-> FALSE]]
             /\ scan' = [scan EXCEPT ![s] = done]
    <2>1. DOMAIN payment = Txs
      BY DEF TypeOK, DatabaseOK
    <2>2. \A g \in Txs : g # h => payment'[g] = payment[g]
      BY <1>6, <2>1
    <2>3. h \in Txs => payment'[h].status = "DETECTED"
      BY <1>6, <2>1
    <2>4. "DETECTED" \notin PaymentVerdicts
      BY DEF PaymentVerdicts
    <2>5. scan' = [scan EXCEPT ![s] = done]
      BY <1>6
    <2> HIDE DEF h, done
    <2>6. \A g \in Txs : payment'[g].status # Absent =>
             payment[g].status # Absent \/ OnChain(g)
      BY <1>3, <2>2
    <2>7. \A g \in Txs : payment'[g].status \in PaymentVerdicts =>
             payment[g].status \in PaymentVerdicts
      BY <2>2, <2>3, <2>4
    <2> QED  BY <1>1, <1>3, <1>4, <2>5, <2>6, <2>7, ScanStepSettles
  <1> QED  BY <1>5, <1>6 DEF ScanAttach, ScanStep, Hash

\* Every step of a scanner, with its interruption.
LEMMA ScanPassSettles ==
    ASSUME TypeOK, SettleInv, NEW s \in Scanners, ScanPass(s) \/ ScanInterrupted(s)
    PROVE  SettleInv'
  <1>1. CASE ScanAdvance(s) \/ ScanInterrupted(s)
    BY <1>1, ScanIdleSettles DEF ScanAdvance, ScanInterrupted, ScanStep, chain, database
  <1> QED
    BY <1>1, ScanBeginSettles, ScanLatestSettles, ScanFetchSettles,
       ScanMatchSettles, ScanSeenSettles, ScanAttachSettles DEF ScanPass
----------------------------------------------------------------------------
\* A confirmer's step: its new locals are sound, no payment appears, and a
\* verdict is written at the required depth only.
LEMMA ConfirmStepSettles ==
    ASSUME TypeOK, SettleInv, NEW c \in Confirmers, NEW to,
           UNCHANGED <<height, block, reverted, displaced, scan>>,
           confirm' = [confirm EXCEPT ![c] = to],
           to.pc = "tip" => (to.tx \notin displaced => to.receipt = block[to.tx]),
           to.pc = "apply" => Deep(to.tx, to.confirmations),
           \A h \in Txs : payment'[h].status # Absent => payment[h].status # Absent,
           \A h \in Txs : payment'[h].status \in PaymentVerdicts =>
              payment[h].status \in PaymentVerdicts \/ Deep(h, RequiredConfirmations)
    PROVE  SettleInv'
  <1>1. DOMAIN confirm = Confirmers
    BY DEF TypeOK, ConfirmOK
  <1>2. ConfirmSees(c)'
    BY <1>1 DEF ConfirmSees, Deep
  <1>3. ASSUME NEW d \in Confirmers, d # c PROVE ConfirmSees(d) => ConfirmSees(d)'
    BY <1>1, <1>3, ConfirmUnchangedSees
  <1> QED  BY <1>2, <1>3, TableStepSettles, ScanUnchangedSees

\* A confirmer that lets go of the payment in its hand has nothing to prove.
LEMMA ConfirmLetsGoSettles ==
    ASSUME TypeOK, SettleInv, NEW c \in Confirmers, NEW to,
           UNCHANGED <<height, block, reverted, displaced, scan, payment>>,
           confirm' = [confirm EXCEPT ![c] = to],
           to.pc \in {"idle", "expire", "pick", "missing"}
    PROVE  SettleInv'
  BY ConfirmStepSettles

\* The end of a pass, whether it got there or not.
LEMMA ConfirmIdleSettles ==
    ASSUME TypeOK, SettleInv, NEW c \in Confirmers,
           UNCHANGED <<height, block, reverted, displaced, scan, payment>>,
           confirm' = [confirm EXCEPT ![c] = ConfirmIdle]
    PROVE  SettleInv'
  <1> DEFINE to == ConfirmIdle
  <1>1. to.pc = "idle"
    BY DEF ConfirmIdle
  <1>2. confirm' = [confirm EXCEPT ![c] = to]
    OBVIOUS
  <1> HIDE DEF to
  <1> QED  BY <1>1, <1>2, ConfirmLetsGoSettles

\* The list of overdue invoices is read.
LEMMA ConfirmBeginSettles ==
    ASSUME TypeOK, SettleInv, NEW c \in Confirmers, ConfirmBegin(c) PROVE SettleInv'
  <1> DEFINE to == [confirm[c] EXCEPT !.pc = "expire", !.overdue = OverdueInvoices]
  <1>1. UNCHANGED <<height, block, reverted, displaced, scan, payment>>
    BY DEF ConfirmBegin, ConfirmStep, chain, history
  <1>2. confirm[c] \in ConfirmerState
    BY DEF TypeOK, ConfirmOK
  <1>3. to.pc = "expire"
    BY <1>2 DEF ConfirmerState
  <1>4. confirm' = [confirm EXCEPT ![c] = to]
    BY DEF ConfirmBegin, ConfirmStep
  <1> HIDE DEF to
  <1> QED  BY <1>1, <1>3, <1>4, ConfirmLetsGoSettles

\* An overdue invoice is closed: no payment is touched.
LEMMA ConfirmExpireSettles ==
    ASSUME TypeOK, SettleInv, NEW c \in Confirmers, NEW i \in Invoices,
           ConfirmExpire(c, i)
    PROVE  SettleInv'
  <1> DEFINE to == [confirm[c] EXCEPT !.overdue = @ \ {i}]
  <1>1. UNCHANGED <<height, block, reverted, displaced, scan, payment>>
        /\ confirm[c].pc = "expire"
    BY DEF ConfirmExpire, ConfirmStep, chain, history
  <1>2. confirm[c] \in ConfirmerState
    BY DEF TypeOK, ConfirmOK
  <1>3. to.pc = "expire"
    BY <1>1, <1>2 DEF ConfirmerState
  <1>4. confirm' = [confirm EXCEPT ![c] = to]
    BY DEF ConfirmExpire, ConfirmStep
  <1> HIDE DEF to
  <1> QED  BY <1>1, <1>3, <1>4, ConfirmLetsGoSettles

\* The snapshot of the active payments is taken.
LEMMA ConfirmListSettles ==
    ASSUME TypeOK, SettleInv, NEW c \in Confirmers, ConfirmList(c) PROVE SettleInv'
  <1> DEFINE listed == [h \in Txs |->
                IF payment[h].status \in {"DETECTED", "CONFIRMING", "REORG_DETECTED"}
                THEN [row |-> payment[h], invoice |-> invoice[payment[h].invoice]]
                ELSE Nothing]
             to == [confirm[c] EXCEPT !.pc = "pick", !.active = listed]
  <1>1. UNCHANGED <<height, block, reverted, displaced, scan, payment>>
    BY DEF ConfirmList, ConfirmStep, chain, history
  <1>2. confirm[c] \in ConfirmerState
    BY DEF TypeOK, ConfirmOK
  <1>4. confirm' = [confirm EXCEPT ![c] = to]
    BY DEF ConfirmList, ConfirmStep
  <1> HIDE DEF listed
  <1>3. to.pc = "pick"
    BY <1>2 DEF ConfirmerState
  <1> HIDE DEF to
  <1> QED  BY <1>1, <1>3, <1>4, ConfirmLetsGoSettles

\* The receipt names the block the transaction is in.
LEMMA ConfirmReceiptSettles ==
    ASSUME TypeOK, SettleInv, NEW c \in Confirmers, NEW h \in Txs,
           ConfirmReceipt(c, h)
    PROVE  SettleInv'
  <1> DEFINE gone  == [confirm[c] EXCEPT !.pc = "missing", !.tx = h]
             mined == [confirm[c] EXCEPT !.pc = "tip", !.tx = h, !.receipt = block[h]]
  <1>1. UNCHANGED <<height, block, reverted, displaced, scan, payment>>
    BY DEF ConfirmReceipt, ConfirmStep, chain, history
  <1>2. confirm[c] \in ConfirmerState
    BY DEF TypeOK, ConfirmOK
  <1>3. gone.pc = "missing"
    BY <1>2 DEF ConfirmerState
  <1>4. mined.pc = "tip" /\ mined.tx = h /\ mined.receipt = block[h]
    BY <1>2 DEF ConfirmerState
  <1>5. \/ confirm' = [confirm EXCEPT ![c] = gone]
        \/ confirm' = [confirm EXCEPT ![c] = mined]
    BY DEF ConfirmReceipt, ConfirmStep
  <1> HIDE DEF gone, mined
  <1>6. CASE confirm' = [confirm EXCEPT ![c] = gone]
    BY <1>1, <1>3, <1>6, ConfirmLetsGoSettles
  <1>7. CASE confirm' = [confirm EXCEPT ![c] = mined]
    BY <1>1, <1>4, <1>7, ConfirmStepSettles
  <1> QED  BY <1>5, <1>6, <1>7

\* The depth counted from that block and the tip is the true one: the tip may
\* have grown since the receipt, but never shrinks.
LEMMA ConfirmTipSettles ==
    ASSUME TypeOK, BlocksBelowTip, SettleInv, NEW c \in Confirmers, ConfirmTip(c)
    PROVE  SettleInv'
  <1> DEFINE found == Depth(confirm[c].receipt, height)
             to == [confirm[c] EXCEPT !.pc = "apply", !.confirmations = found]
  <1>1. UNCHANGED <<height, block, reverted, displaced, scan, payment>>
        /\ confirm[c].pc = "tip"
    BY DEF ConfirmTip, ConfirmStep, chain, history
  <1>2. confirm[c] \in ConfirmerState /\ confirm[c].tx \in Txs
    BY <1>1, RowInHand DEF TypeOK, ConfirmOK, InHand
  <1>3. block[confirm[c].tx] \in Int /\ height \in Nat /\ block[confirm[c].tx] <= height
    BY <1>2 DEF TypeOK, ChainOK, NotMined, BlocksBelowTip
  <1>4. confirm[c].tx \notin displaced => confirm[c].receipt = block[confirm[c].tx]
    BY <1>1 DEF SettleInv, ConfirmSees
  <1>5. Deep(confirm[c].tx, found)
    BY <1>3, <1>4 DEF Deep, Depth
  <1>6. confirm' = [confirm EXCEPT ![c] = to]
    BY DEF ConfirmTip, ConfirmStep
  <1> HIDE DEF found
  <1>7. to.pc = "apply" /\ to.tx = confirm[c].tx /\ to.confirmations = found
    BY <1>2 DEF ConfirmerState
  <1> HIDE DEF to
  <1>8. to.pc = "apply" => Deep(to.tx, to.confirmations)
    BY <1>5, <1>7
  <1> QED  BY <1>1, <1>6, <1>7, <1>8, ConfirmStepSettles

\* On to the next payment, this one left as it was.
LEMMA ContinueSettles ==
    ASSUME TypeOK, SettleInv, NEW c \in Confirmers, InHand(c), Continue(c),
           UNCHANGED payment
    PROVE  SettleInv'
  <1> DEFINE to == confirm'[c]
  <1>1. UNCHANGED <<height, block, reverted, displaced, scan, payment>>
    BY ContinueType DEF chain, history
  <1>2. to.pc = "pick" /\ confirm' = [confirm EXCEPT ![c] = to]
    BY ContinueType
  <1> HIDE DEF to
  <1> QED  BY <1>1, <1>2, ConfirmLetsGoSettles

\* A write on the payment in hand and on to the next: a verdict it did not
\* have needs the depth.
LEMMA WriteSettles ==
    ASSUME TypeOK, SettleInv, NEW c \in Confirmers, InHand(c), Continue(c),
           NEW status, NEW n, WritePayment(c, status, n),
           status \in PaymentVerdicts =>
              \/ status = payment[confirm[c].tx].status
              \/ Deep(confirm[c].tx, RequiredConfirmations)
    PROVE  SettleInv'
  <1> DEFINE h == confirm[c].tx
             to == confirm'[c]
             row == [payment[h] EXCEPT !.status = status, !.confirmations = n,
                                       !.graceOver = FALSE]
  <1>1. UNCHANGED <<height, block, reverted, displaced, scan>>
    BY ContinueType DEF chain, history
  <1>2. to.pc = "pick" /\ confirm' = [confirm EXCEPT ![c] = to]
    BY ContinueType
  <1>3. h \in Txs /\ payment[h] \in PaymentRow /\ payment[h].status # Absent
    BY RowInHand
  <1>4. row.status = status
    BY <1>3 DEF PaymentRow
  <1>5. payment' = [payment EXCEPT ![h] = row] /\ DOMAIN payment = Txs
    BY DEF WritePayment, TypeOK, DatabaseOK
  <1>6. status \in PaymentVerdicts =>
            status = payment[h].status \/ Deep(h, RequiredConfirmations)
    OBVIOUS
  <1> HIDE DEF row, to, h
  <1>7. payment'[h].status = status /\ \A g \in Txs : g # h => payment'[g] = payment[g]
    BY <1>3, <1>4, <1>5
  <1>8. \A g \in Txs : payment'[g].status # Absent => payment[g].status # Absent
    BY <1>3, <1>7
  <1>9. \A g \in Txs : payment'[g].status \in PaymentVerdicts =>
           payment[g].status \in PaymentVerdicts \/ Deep(g, RequiredConfirmations)
    BY <1>6, <1>7
  <1> QED  BY <1>1, <1>2, <1>8, <1>9, ConfirmStepSettles

\* Failing, waiting for a reorganisation and starting to confirm are no
\* verdicts, so a write that finds the payment settled meanwhile is harmless.
LEMMA NoVerdictSettles ==
    ASSUME TypeOK, SettleInv, NEW c \in Confirmers, InHand(c), Continue(c), NEW n,
           NEW status \in {"FAILED", "REORG_DETECTED", "CONFIRMING"},
           WritePayment(c, status, n)
    PROVE  SettleInv'
  <1>1. status \notin PaymentVerdicts
    BY DEF PaymentVerdicts
  <1> QED  BY <1>1, WriteSettles

\* An assert that threw writes nothing.
LEMMA AbortSettles ==
    ASSUME TypeOK, SettleInv, NEW c \in Confirmers, Abort(c) PROVE SettleInv'
  BY ConfirmIdleSettles DEF Abort, ConfirmStep, chain, history

\* The transaction has no receipt.
LEMMA HandleMissingTransactionSettles ==
    ASSUME TypeOK, SettleInv, NEW c \in Confirmers, HandleMissingTransaction(c)
    PROVE  SettleInv'
  <1> DEFINE n == payment[confirm[c].tx].confirmations
  <1>1. InHand(c)
    BY DEF HandleMissingTransaction, InHand
  <1>2. \/ Abort(c)
        \/ Continue(c) /\ WritePayment(c, "FAILED", n)
        \/ Continue(c) /\ WritePayment(c, "REORG_DETECTED", n)
        \/ Continue(c) /\ UNCHANGED payment
    BY DEF HandleMissingTransaction, FailPayment
  <1> HIDE DEF n
  <1>3. CASE Continue(c) /\ WritePayment(c, "FAILED", n)
    BY <1>1, <1>3, NoVerdictSettles
  <1>4. CASE Continue(c) /\ WritePayment(c, "REORG_DETECTED", n)
    BY <1>1, <1>4, NoVerdictSettles
  <1>5. CASE Continue(c) /\ UNCHANGED payment
    BY <1>1, <1>5, ContinueSettles
  <1> QED  BY <1>2, <1>3, <1>4, <1>5, AbortSettles

\* The payment starts to confirm.
LEMMA MoveToConfirmingSettles ==
    ASSUME TypeOK, SettleInv, NEW c \in Confirmers, MoveToConfirming(c)
    PROVE  SettleInv'
  <1>1. InHand(c)
    BY DEF MoveToConfirming, InHand
  <1>2. \/ Abort(c)
        \/ Continue(c) /\ WritePayment(c, "CONFIRMING", confirm[c].confirmations)
    BY DEF MoveToConfirming
  <1>3. CASE Continue(c) /\ WritePayment(c, "CONFIRMING", confirm[c].confirmations)
    BY <1>1, <1>3, NoVerdictSettles
  <1> QED  BY <1>2, <1>3, AbortSettles

\* The new number of confirmations: the status stays, whatever it is by now.
LEMMA UpdateConfirmationsSettles ==
    ASSUME TypeOK, SettleInv, NEW c \in Confirmers, UpdateConfirmations(c)
    PROVE  SettleInv'
  <1>1. InHand(c) /\ Continue(c)
    BY DEF UpdateConfirmations, InHand
  <1>2. CASE UNCHANGED payment
    BY <1>1, <1>2, ContinueSettles
  <1>3. CASE WritePayment(c, payment[confirm[c].tx].status, confirm[c].confirmations)
    BY <1>1, <1>3, WriteSettles
  <1> QED  BY <1>2, <1>3 DEF UpdateConfirmations

\* The verdict is given on the depth the confirmer was told, which still holds.
LEMMA FinalizePaymentSettles ==
    ASSUME TypeOK, SettleInv, NEW c \in Confirmers, FinalizePayment(c)
    PROVE  SettleInv'
  <1> DEFINE h == confirm[c].tx
             outcome == EvaluatePaymentAmount(Terms[Row(c).invoice].amount, Row(c).received)
  <1>1. InHand(c) /\ Continue(c) /\ confirm[c].pc = "apply" /\ Confirmed(c)
    BY DEF FinalizePayment, InHand
  <1>2. Deep(h, confirm[c].confirmations)
    BY <1>1 DEF SettleInv, ConfirmSees
  <1>3. /\ confirm[c].confirmations \in Nat /\ RequiredConfirmations \in Nat
        /\ height \in Nat /\ block[h] \in Int
    BY <1>1, RowInHand, BoundsAssumption DEF TypeOK, ChainOK, NotMined
  <1>4. Deep(h, RequiredConfirmations)
    BY <1>1, <1>2, <1>3 DEF Deep, Confirmed
  <1>5. WritePayment(c, PaymentVerdict(outcome), confirm[c].confirmations)
    BY DEF FinalizePayment
  <1> HIDE DEF outcome
  <1> QED  BY <1>1, <1>4, <1>5, WriteSettles

\* The end of a pass and its interruption.
LEMMA ConfirmEndSettles ==
    ASSUME TypeOK, SettleInv, NEW c \in Confirmers,
           ConfirmEnd(c) \/ ConfirmInterrupted(c)
    PROVE  SettleInv'
  BY ConfirmIdleSettles
     DEF ConfirmEnd, ConfirmInterrupted, ConfirmStep, chain, history, database

----------------------------------------------------------------------------
\* Every step keeps what is settled on the chain.
LEMMA SettleStep == TypeOK /\ CoverInv /\ SettleInv /\ [Next]_vars => SettleInv'
  <1> SUFFICES ASSUME TypeOK, CoverInv, SettleInv, [Next]_vars PROVE SettleInv'
    OBVIOUS
  <1>1. CASE Environment
    BY <1>1, EnvironmentSettles, MineSettles, ReorgSettles DEF Environment
  <1>2. ASSUME NEW s \in Scanners, ScanPass(s) \/ ScanInterrupted(s) PROVE SettleInv'
    BY <1>2, ScanPassSettles
  <1>3. ASSUME NEW c \in Confirmers, ConfirmPass(c) \/ ConfirmInterrupted(c)
        PROVE  SettleInv'
    BY <1>3, ConfirmBeginSettles, ConfirmExpireSettles, ConfirmListSettles,
       ConfirmReceiptSettles, ConfirmTipSettles, HandleMissingTransactionSettles,
       MoveToConfirmingSettles, UpdateConfirmationsSettles,
       FinalizePaymentSettles, ConfirmEndSettles
       DEF ConfirmPass, CoverInv
  <1>4. CASE UNCHANGED vars
    BY <1>4, TableStepSettles, ScanUnchangedSees, ConfirmUnchangedSees DEF vars
  <1> QED  BY <1>1, <1>2, <1>3, <1>4 DEF Next

\* However many passes overlap, on stale snapshots and through crashes, a
\* payment that was given its verdict is on the chain, successful, under the
\* required confirmations, unless a reorganisation moved its transaction.
THEOREM SettledStaysOnChain == Spec => []SettledIsOnChain
  <1>1. Init => CoverInv /\ SettleInv
    BY InitCovers, InitSettles
  <1>2. TypeOK /\ CoverInv /\ SettleInv /\ [Next]_vars => (CoverInv /\ SettleInv)'
    BY CoverStep, SettleStep
  <1>3. SettleInv => SettledIsOnChain
    <2>1. \A status : status \in PaymentVerdicts => status # Absent
      BY DEF PaymentVerdicts, Absent
    <2> QED  BY <2>1 DEF SettleInv, PaymentSees, OnChain, Deep, SettledIsOnChain
  <1> QED  BY <1>1, <1>2, <1>3, TypeCorrect, PTL DEF Spec

----------------------------------------------------------------------------
(***************************************************************************)
(* 4. What the steps of a confirmer write, overlapping others or not.      *)
(***************************************************************************)
Present(h) == payment[h].status # Absent

\* The payment in hand gets a status, its invoice perhaps one too.
Writes(c) ==
    /\ InHand(c)
    /\ Continue(c)
    /\ \E status \in PaymentStatus, n \in Nat : WritePayment(c, status, n)
    /\ \/ UNCHANGED invoice
       \/ \E side \in InvoiceStatus \ {"PENDING"} : WriteInvoice(c, side)

\* Nothing is written, and no entry is added to the snapshot.
Passes(c) ==
    /\ UNCHANGED <<invoice, overdue, payment, events, scan>>
    /\ \A d \in Confirmers \ {c} : confirm'[d] = confirm[d]
    /\ \A h \in Txs : confirm'[c].active[h] \in {Nothing, confirm[c].active[h]}

\* A written row keeps its invoice and amount, and the other rows stay.
LEMMA RowWritten ==
    ASSUME TypeOK, NEW c \in Confirmers, InHand(c),
           NEW status, NEW n, WritePayment(c, status, n)
    PROVE  /\ payment'[confirm[c].tx].status = status
           /\ payment'[confirm[c].tx].invoice = payment[confirm[c].tx].invoice
           /\ payment'[confirm[c].tx].received = payment[confirm[c].tx].received
           /\ \A g \in Txs \ {confirm[c].tx} : payment'[g] = payment[g]
  <1> DEFINE h == confirm[c].tx
             row == [payment[h] EXCEPT !.status = status, !.confirmations = n,
                                       !.graceOver = FALSE]
  <1>1. h \in Txs /\ payment[h] \in PaymentRow
    BY RowInHand
  <1>2. /\ row.status = status
        /\ row.invoice = payment[h].invoice
        /\ row.received = payment[h].received
    BY <1>1 DEF PaymentRow
  <1>3. payment' = [payment EXCEPT ![h] = row]
    BY DEF WritePayment
  <1> HIDE DEF row, h
  <1>4. payment'[h] = row /\ \A g \in Txs \ {h} : payment'[g] = payment[g]
    BY <1>1, <1>3 DEF TypeOK, DatabaseOK
  <1> QED  BY <1>2, <1>4 DEF h

\* No row comes, goes or changes its invoice by a confirmer's hand.
LEMMA WritesKeepRows ==
    ASSUME TypeOK, NEW c \in Confirmers, Writes(c), NEW h \in Txs
    PROVE  /\ Present(h)' <=> Present(h)
           /\ payment'[h].invoice = payment[h].invoice
  <1>1. PICK status \in PaymentStatus, n \in Nat : WritePayment(c, status, n)
    BY DEF Writes
  <1>2. InHand(c) /\ status # Absent
    BY DEF Writes, PaymentStatus, Absent
  <1>3. payment[confirm[c].tx].status # Absent
    BY <1>2, RowInHand
  <1> QED  BY <1>1, <1>2, <1>3, RowWritten DEF Present

\* Every branch of handleMissingTransaction.
LEMMA HandleMissingWrites ==
    ASSUME TypeOK, NEW c \in Confirmers, HandleMissingTransaction(c)
    PROVE  Writes(c) \/ Abort(c) \/ (Continue(c) /\ UNCHANGED <<invoice, payment, events>>)
  <1>1. InHand(c)
    BY DEF HandleMissingTransaction, InHand
  <1>2. payment[confirm[c].tx].confirmations \in Nat
    BY <1>1, RowInHand DEF PaymentRow
  <1>3. {"FAILED", "REORG_DETECTED"} \subseteq PaymentStatus
        /\ "FAILED" \in InvoiceStatus \ {"PENDING"}
    BY DEF PaymentStatus, InvoiceStatus
  <1> QED  BY <1>1, <1>2, <1>3 DEF HandleMissingTransaction, FailPayment, Writes

\* The three other writers.
LEMMA ApplyWrites ==
    ASSUME TypeOK, NEW c \in Confirmers,
           MoveToConfirming(c) \/ UpdateConfirmations(c) \/ FinalizePayment(c)
    PROVE  Writes(c) \/ Abort(c) \/ (Continue(c) /\ UNCHANGED <<invoice, payment, events>>)
  <1>1. InHand(c)
    BY DEF MoveToConfirming, UpdateConfirmations, FinalizePayment, InHand
  <1>2. confirm[c].confirmations \in Nat /\ payment[confirm[c].tx].status \in PaymentStatus
    BY <1>1, RowInHand
  <1>3. CASE MoveToConfirming(c)
    <2>1. "CONFIRMING" \in PaymentStatus /\ "CONFIRMING" \in InvoiceStatus \ {"PENDING"}
      BY DEF PaymentStatus, InvoiceStatus
    <2> QED  BY <1>1, <1>2, <1>3, <2>1 DEF MoveToConfirming, Writes
  <1>4. CASE UpdateConfirmations(c)
    BY <1>1, <1>2, <1>4 DEF UpdateConfirmations, Writes
  <1>5. CASE FinalizePayment(c)
    <2> DEFINE outcome == EvaluatePaymentAmount(Terms[Row(c).invoice].amount, Row(c).received)
    <2>1. outcome \in {"exact", "underpaid", "overpaid"}
      BY <1>1, OutcomeInHand
    <2>2. /\ WritePayment(c, PaymentVerdict(outcome), confirm[c].confirmations)
          /\ WriteInvoice(c, InvoiceVerdict(outcome))
          /\ Continue(c)
      BY <1>5 DEF FinalizePayment
    <2> HIDE DEF outcome
    <2>3. /\ PaymentVerdict(outcome) \in PaymentStatus
          /\ InvoiceVerdict(outcome) \in InvoiceStatus \ {"PENDING"}
      BY <2>1 DEF PaymentVerdict, InvoiceVerdict, PaymentStatus, InvoiceStatus
    <2> QED  BY <1>1, <1>2, <2>2, <2>3 DEF Writes
  <1> QED  BY <1>3, <1>4, <1>5

\* A confirmer's local state after a step of its own.
LEMMA ConfirmStepReads ==
    ASSUME TypeOK, NEW c \in Confirmers, NEW to, ConfirmStep(c, to)
    PROVE  /\ confirm'[c] = to
           /\ \A d \in Confirmers \ {c} : confirm'[d] = confirm[d]
           /\ UNCHANGED <<overdue, scan>>
  BY DEF ConfirmStep, TypeOK, ConfirmOK

\* The locals are gone.
LEMMA DropsPasses ==
    ASSUME TypeOK, NEW c \in Confirmers,
           confirm' = [confirm EXCEPT ![c] = ConfirmIdle],
           UNCHANGED <<invoice, overdue, payment, events, scan>>
    PROVE  Passes(c)
  <1>1. confirm'[c] = ConfirmIdle /\ \A d \in Confirmers \ {c} : confirm'[d] = confirm[d]
    BY DEF TypeOK, ConfirmOK
  <1> QED  BY <1>1, IdleTypes DEF Passes

\* A pass begins with the overdue invoices; a row in hand is a listed one.
LEMMA BeginAndReadPass ==
    ASSUME TypeOK, NEW c \in Confirmers,
           \/ ConfirmBegin(c)
           \/ \E h \in Txs : ConfirmReceipt(c, h)
           \/ ConfirmTip(c)
    PROVE  Passes(c)
  <1>1. PICK to : ConfirmStep(c, to) /\ to.active = confirm[c].active
    <2>1. confirm[c] \in ConfirmerState
      BY DEF TypeOK, ConfirmOK
    <2>2. CASE ConfirmBegin(c)
      <3> DEFINE to == [confirm[c] EXCEPT !.pc = "expire", !.overdue = OverdueInvoices]
      <3>1. to.active = confirm[c].active
        BY <2>1 DEF ConfirmerState
      <3>2. ConfirmStep(c, to)
        BY <2>2 DEF ConfirmBegin
      <3> HIDE DEF to
      <3> QED  BY <3>1, <3>2
    <2>3. ASSUME NEW h \in Txs, ConfirmReceipt(c, h)
          PROVE  \E to : ConfirmStep(c, to) /\ to.active = confirm[c].active
      <3> DEFINE gone == [confirm[c] EXCEPT !.pc = "missing", !.tx = h]
                 mined == [confirm[c] EXCEPT !.pc = "tip", !.tx = h, !.receipt = block[h]]
      <3>1. gone.active = confirm[c].active /\ mined.active = confirm[c].active
        BY <2>1 DEF ConfirmerState
      <3>2. ConfirmStep(c, gone) \/ ConfirmStep(c, mined)
        BY <2>3 DEF ConfirmReceipt
      <3> HIDE DEF gone, mined
      <3> QED  BY <3>1, <3>2
    <2>4. CASE ConfirmTip(c)
      <3> DEFINE to == [confirm[c] EXCEPT !.pc = "apply",
                           !.confirmations = Depth(confirm[c].receipt, height)]
      <3>1. to.active = confirm[c].active
        BY <2>1 DEF ConfirmerState
      <3>2. ConfirmStep(c, to)
        BY <2>4 DEF ConfirmTip
      <3> HIDE DEF to
      <3> QED  BY <3>1, <3>2
    <2> QED  BY <2>2, <2>3, <2>4
  <1>2. UNCHANGED <<invoice, payment, events>>
    BY DEF ConfirmBegin, ConfirmReceipt, ConfirmTip
  <1> QED  BY <1>1, <1>2, ConfirmStepReads DEF Passes

\* A confirmer lists what it will handle, expires an invoice, writes the payment
\* in hand, or writes nothing.
LEMMA ConfirmCases ==
    ASSUME TypeOK, NEW c \in Confirmers, ConfirmPass(c) \/ ConfirmInterrupted(c)
    PROVE  \/ ConfirmList(c)
           \/ \E i \in Invoices : ConfirmExpire(c, i)
           \/ Writes(c)
           \/ Passes(c)
  <1>1. CASE HandleMissingTransaction(c) \/ MoveToConfirming(c)
             \/ UpdateConfirmations(c) \/ FinalizePayment(c)
    <2>1. InHand(c)
      BY <1>1 DEF HandleMissingTransaction, MoveToConfirming, UpdateConfirmations,
                  FinalizePayment, InHand
    <2>2. ASSUME Abort(c) PROVE Passes(c)
      BY <2>2, DropsPasses DEF Abort, ConfirmStep
    <2>3. ASSUME Continue(c), UNCHANGED <<invoice, payment, events>> PROVE Passes(c)
      <3>1. confirm' = [confirm EXCEPT ![c] = confirm'[c]]
        BY <2>1, <2>3, ContinueType
      <3>2. \A d \in Confirmers \ {c} : confirm'[d] = confirm[d]
        BY <3>1 DEF TypeOK, ConfirmOK
      <3> QED  BY <2>1, <2>3, <3>2, ContinueType DEF Passes
    <2> QED  BY <1>1, <2>2, <2>3, HandleMissingWrites, ApplyWrites
  <1>2. CASE ConfirmEnd(c) \/ ConfirmInterrupted(c)
    BY <1>2, DropsPasses DEF ConfirmEnd, ConfirmInterrupted, ConfirmStep, database
  <1> QED  BY <1>1, <1>2, BeginAndReadPass DEF ConfirmPass

----------------------------------------------------------------------------
(***************************************************************************)
(* 5. One live attempt per invoice, when scanners do not overlap.  An       *)
(* attached invoice is PENDING no more, so no later transfer can choose    *)
(* it; and the invoice a scanner has chosen has no payment until it        *)
(* attaches its own, for nobody else attaches.                             *)
(***************************************************************************)
Selecting(s) == scan[s].pc \in {"seen", "attach"}

Taken(i) == invoice[i] \notin {Absent, "PENDING"}

\* What the code keeps, and the documents do not ask for: not even a failed
\* payment is ever followed by another.  The induction needs it.
OneRowPerInvoice ==
    \A g, h \in Txs :
        Present(g) /\ Present(h) /\ payment[g].invoice = payment[h].invoice => g = h

AttachInv ==
    /\ \A h \in Txs : Present(h) => Taken(payment[h].invoice)
    /\ \A s \in Scanners, h \in Txs :
          Selecting(s) /\ Present(h) => payment[h].invoice # scan[s].invoice
    /\ OneRowPerInvoice

\* No invoice is attached to anything.
LEMMA InitAttach == Init => AttachInv
  BY DEF Init, AttachInv, OneRowPerInvoice, Present, NoPayment

\* No row comes, goes or moves, no invoice is given back, and no scanner takes
\* another invoice in hand.
LEMMA AttachKept ==
    ASSUME AttachInv,
           \A h \in Txs : /\ Present(h)' => Present(h)
                          /\ payment'[h].invoice = payment[h].invoice,
           \A h \in Txs : Present(h) /\ Taken(payment[h].invoice)
                             => Taken(payment[h].invoice)',
           \A s \in Scanners :
              Selecting(s)' => Selecting(s) /\ scan'[s].invoice = scan[s].invoice
    PROVE  AttachInv'
  BY DEF AttachInv, OneRowPerInvoice, Present, Taken

\* The environment attaches nothing, and a new invoice was Absent before.
LEMMA EnvironmentAttach ==
    ASSUME TypeOK, AttachInv, Environment PROVE AttachInv'
  <1>1. ASSUME NEW i \in Invoices, CreateInvoice(i) PROVE AttachInv'
    <2>1. UNCHANGED <<payment, scan>> /\ invoice' = [invoice EXCEPT ![i] = "PENDING"]
          /\ invoice[i] = Absent
      BY <1>1 DEF CreateInvoice
    <2>2. \A h \in Txs : Present(h) /\ Taken(payment[h].invoice)
                            => Taken(payment[h].invoice)'
      BY <2>1 DEF Taken, Present, TypeOK, DatabaseOK
    <2> QED  BY <2>1, <2>2, AttachKept DEF Present, Selecting
  <1>2. ASSUME NEW h \in Txs, GracePasses(h) PROVE AttachInv'
    <2>1. UNCHANGED <<invoice, scan>> /\ payment' = [payment EXCEPT ![h].graceOver = TRUE]
      BY <1>2 DEF GracePasses
    <2>2. \A g \in Txs : payment'[g].status = payment[g].status
                         /\ payment'[g].invoice = payment[g].invoice
      BY <2>1 DEF TypeOK, DatabaseOK, PaymentRow
    <2> QED  BY <2>1, <2>2, AttachKept DEF Present, Selecting, Taken
  <1>3. CASE UNCHANGED <<invoice, payment, scan>>
    BY <1>3, AttachKept DEF Present, Selecting, Taken
  <1>4. \/ \E i \in Invoices : CreateInvoice(i)
        \/ \E h \in Txs : GracePasses(h)
        \/ UNCHANGED <<invoice, payment, scan>>
    BY DEF Environment, ExpiryPasses, Mine, Reorg, database
  <1> QED  BY <1>1, <1>2, <1>3, <1>4

\* A scanner step that writes no table.
LEMMA ScanReadAttach ==
    ASSUME TypeOK, AttachInv, NEW s \in Scanners, NEW to \in ScannerState,
           scan' = [scan EXCEPT ![s] = to], UNCHANGED <<invoice, payment>>,
           to.pc \in {"seen", "attach"} =>
              \/ Selecting(s) /\ to.invoice = scan[s].invoice
              \/ \A h \in Txs : Present(h) => payment[h].invoice # to.invoice
    PROVE  AttachInv'
  <1>1. scan'[s] = to /\ \A t \in Scanners \ {s} : scan'[t] = scan[t]
    BY DEF TypeOK, ScanOK
  <1>2. ASSUME NEW t \in Scanners, NEW h \in Txs, Selecting(t)', Present(h)'
        PROVE  payment'[h].invoice # scan'[t].invoice
    BY <1>1, <1>2 DEF AttachInv, Selecting, Present
  <1> QED  BY <1>2 DEF AttachInv, OneRowPerInvoice, Present, Taken

\* The invoice chosen is PENDING, so it has no payment.
LEMMA ScanMatchAttach ==
    ASSUME TypeOK, AttachInv, NEW s \in Scanners, NEW l \in Logs, ScanMatch(s, l)
    PROVE  AttachInv'
  <1> DEFINE rest == [scan[s] EXCEPT !.logs[l] = NotMined]
  <1>1. rest \in ScannerState /\ rest.pc = "match"
    BY DEF TypeOK, ScanOK, ScannerState, ScanMatch
  <1>2. UNCHANGED <<invoice, payment>>
    BY DEF ScanMatch
  <1>3. CASE ScanStep(s, rest)
    BY <1>1, <1>2, <1>3, ScanReadAttach DEF ScanStep
  <1>4. ASSUME NEW c \in SelectMatchingInvoice(Candidates(l), Transfer[l]),
               ScanStep(s, [rest EXCEPT !.pc = "seen", !.log = l, !.invoice = c.id])
        PROVE  AttachInv'
    <2> DEFINE to == [rest EXCEPT !.pc = "seen", !.log = l, !.invoice = c.id]
    <2> HIDE DEF rest
    <2>1. to \in ScannerState /\ to.invoice = c.id
      BY <1>1, CandidateType DEF ScannerState
    <2>2. \A h \in Txs : Present(h) => payment[h].invoice # c.id
      BY CandidateType DEF AttachInv, Taken
    <2>3. scan' = [scan EXCEPT ![s] = to]
      BY <1>4 DEF ScanStep
    <2> HIDE DEF to
    <2> QED  BY <1>2, <2>1, <2>2, <2>3, ScanReadAttach
  <1> QED  BY <1>3, <1>4 DEF ScanMatch

\* The payment inserted is the first of its invoice, and the invoice is not
\* in the hand of another scanner.
LEMMA ScanAttachAttach ==
    ASSUME OneScanner, TypeOK, AttachInv, NEW s \in Scanners, ScanAttach(s)
    PROVE  AttachInv'
  <1> DEFINE l == scan[s].log
             h == Transfer[l].txHash
             i == scan[s].invoice
             row == [status |-> "DETECTED", invoice |-> i,
                     received |-> Transfer[l].amount,
                     confirmations |-> 0, graceOver |-> FALSE]
  <1>1. l \in Logs /\ i \in Invoices /\ h \in Txs /\ Selecting(s)
    BY TransferAssumption DEF TypeOK, ScanOK, ScanAttach, TransferLog, Selecting
  <1>2. CASE ScanStep(s, ScanIdle) /\ UNCHANGED <<invoice, payment>>
    BY <1>2, IdleTypes, ScanReadAttach DEF ScanIdle, ScanStep
  <1>3. CASE /\ payment[h].status = Absent
             /\ payment' = [payment EXCEPT ![h] = row]
             /\ invoice' = [invoice EXCEPT ![i] = "DETECTED"]
             /\ ScanStep(s, Scanned(s))
    <2>1. row.status = "DETECTED" /\ row.invoice = i
      OBVIOUS
    <2> HIDE DEF row, i, h, l
    <2>2. /\ payment'[h] = row
          /\ \A g \in Txs \ {h} : payment'[g] = payment[g]
          /\ invoice'[i] = "DETECTED"
          /\ \A j \in Invoices \ {i} : invoice'[j] = invoice[j]
      BY <1>1, <1>3 DEF TypeOK, DatabaseOK
    <2>3. \A t \in Scanners : ~Selecting(t)'
      <3>1. scan'[s].pc = "match"
        BY <1>3, ScannedType DEF ScanStep, TypeOK, ScanOK
      <3> QED  BY <3>1 DEF OneScanner, Selecting
    <2>4. \A g \in Txs \ {h} : Present(g)' => Present(g) /\ payment'[g].invoice # i
      BY <1>1, <2>2 DEF AttachInv, Present, i
    <2>5. ASSUME NEW g \in Txs, Present(g)' PROVE Taken(payment[g].invoice)'
      <3>1. CASE g = h
        BY <2>1, <2>2, <3>1 DEF Taken, Absent
      <3>2. CASE g # h
        <4>1. payment'[g] = payment[g] /\ Present(g) /\ payment[g].invoice # i
          BY <2>2, <2>4, <2>5, <3>2
        <4>2. payment[g].invoice \in Invoices \ {i} /\ Taken(payment[g].invoice)
          BY <4>1 DEF AttachInv, Present, TypeOK, DatabaseOK
        <4> QED  BY <2>2, <4>1, <4>2 DEF Taken
      <3> QED  BY <3>1, <3>2
    <2>6. OneRowPerInvoice'
      BY <2>1, <2>2, <2>4 DEF OneRowPerInvoice, AttachInv, Present
    <2> QED  BY <2>3, <2>5, <2>6 DEF AttachInv
  <1> QED  BY <1>2, <1>3 DEF ScanAttach

\* Most steps of a scanner write no invoice, payment or event, and choose no
\* invoice.
LEMMA ScanReads ==
    ASSUME TypeOK, NEW s \in Scanners,
           \/ ScanBegin(s) \/ ScanLatest(s) \/ ScanFetch(s) \/ ScanSeen(s)
           \/ ScanAdvance(s) \/ ScanInterrupted(s)
    PROVE  /\ UNCHANGED <<invoice, overdue, payment, events, confirm>>
           /\ \A t \in Scanners :
                 Selecting(t)' => Selecting(t) /\ scan'[t].invoice = scan[t].invoice
  <1>1. PICK to : /\ scan' = [scan EXCEPT ![s] = to]
                  /\ to.pc \in {"seen", "attach"} =>
                        Selecting(s) /\ to.invoice = scan[s].invoice
    <2>1. scan[s] \in ScannerState
      BY DEF TypeOK, ScanOK
    <2>2. ASSUME NEW n PROVE [scan[s] EXCEPT !.pc = "latest", !.from = n].pc = "latest"
      BY <2>1 DEF ScannerState
    <2>3. [scan[s] EXCEPT !.pc = "fetch", !.latest = height].pc = "fetch"
      BY <2>1 DEF ScannerState
    <2>4. ASSUME NEW f PROVE [scan[s] EXCEPT !.pc = "match", !.logs = f].pc = "match"
      BY <2>1 DEF ScannerState
    <2>5. [scan[s] EXCEPT !.pc = "attach"].invoice = scan[s].invoice
      BY <2>1 DEF ScannerState
    <2>6. ScanIdle.pc = "idle" /\ Scanned(s).pc = "match"
      BY ScannedType DEF ScanIdle, TypeOK
    <2>7. CASE ScanBegin(s)
      BY <2>2, <2>7 DEF ScanBegin, ScanStep
    <2>8. CASE ScanLatest(s)
      BY <2>3, <2>6, <2>8 DEF ScanLatest, ScanStep
    <2>9. CASE ScanFetch(s)
      BY <2>4, <2>9 DEF ScanFetch, ScanStep
    <2>10. CASE ScanSeen(s)
      BY <2>5, <2>6, <2>10 DEF ScanSeen, ScanStep, Selecting
    <2>11. CASE ScanAdvance(s) \/ ScanInterrupted(s)
      BY <2>6, <2>11 DEF ScanAdvance, ScanInterrupted, ScanStep
    <2> QED  BY <2>7, <2>8, <2>9, <2>10, <2>11
  <1>2. UNCHANGED <<invoice, overdue, payment, events, confirm>>
    BY DEF ScanBegin, ScanLatest, ScanFetch, ScanSeen, ScanAdvance,
           ScanInterrupted, ScanStep, database
  <1> QED  BY <1>1, <1>2 DEF TypeOK, ScanOK, Selecting

\* Every step of a scanner.
LEMMA ScanPassAttach ==
    ASSUME OneScanner, TypeOK, AttachInv, NEW s \in Scanners,
           ScanPass(s) \/ ScanInterrupted(s)
    PROVE  AttachInv'
  <1>1. CASE \/ ScanBegin(s) \/ ScanLatest(s) \/ ScanFetch(s) \/ ScanSeen(s)
             \/ ScanAdvance(s) \/ ScanInterrupted(s)
    BY <1>1, ScanReads, AttachKept DEF Present, Taken
  <1>2. CASE \E l \in Logs : ScanMatch(s, l)
    BY <1>2, ScanMatchAttach
  <1>3. CASE ScanAttach(s)
    BY <1>3, ScanAttachAttach
  <1> QED  BY <1>1, <1>2, <1>3 DEF ScanPass

\* Confirmers never give an invoice back to PENDING.
LEMMA ConfirmPassAttach ==
    ASSUME TypeOK, AttachInv, NEW c \in Confirmers,
           ConfirmPass(c) \/ ConfirmInterrupted(c)
    PROVE  AttachInv'
  <1>1. CASE Writes(c)
    <2>1. InHand(c) /\ Continue(c)
      BY <1>1 DEF Writes
    <2>2. UNCHANGED scan
      BY <2>1 DEF Continue, ConfirmStep
    <2>3. \A i \in Invoices : Taken(i) => Taken(i)'
      BY <1>1, <2>1, RowInHand DEF Writes, WriteInvoice, Taken, TypeOK, DatabaseOK,
                                   InvoiceStatus, Absent
    <2>4. \A h \in Txs : Present(h) => payment[h].invoice \in Invoices
      BY DEF TypeOK, DatabaseOK, Present
    <2>5. \A h \in Txs : /\ Present(h)' => Present(h)
                         /\ payment'[h].invoice = payment[h].invoice
      BY <1>1, WritesKeepRows
    <2> QED  BY <2>2, <2>3, <2>4, <2>5, AttachKept DEF Selecting, Taken
  <1>2. ASSUME NEW i \in Invoices, ConfirmExpire(c, i) PROVE AttachInv'
    <2>1. UNCHANGED <<payment, scan>> /\ invoice' = [invoice EXCEPT ![i] = "EXPIRED"]
      BY <1>2 DEF ConfirmExpire, ConfirmStep
    <2>2. \A j \in Invoices : Taken(j) => Taken(j)'
      BY <2>1 DEF TypeOK, DatabaseOK, Taken, Absent
    <2>3. \A h \in Txs : Present(h) => payment[h].invoice \in Invoices
      BY DEF TypeOK, DatabaseOK, Present
    <2> QED  BY <2>1, <2>2, <2>3, AttachKept DEF Present, Selecting, Taken
  <1>3. CASE UNCHANGED <<invoice, payment, scan>>
    BY <1>3, AttachKept DEF Present, Selecting, Taken
  <1>4. ConfirmList(c) \/ Passes(c) => UNCHANGED <<invoice, payment, scan>>
    BY DEF ConfirmList, ConfirmStep, Passes
  <1> QED  BY <1>1, <1>2, <1>3, <1>4, ConfirmCases

\* Every step keeps invoices and payments paired.
LEMMA AttachStep ==
    OneScanner /\ TypeOK /\ AttachInv /\ [Next]_vars => AttachInv'
  <1> SUFFICES ASSUME OneScanner, TypeOK, AttachInv, [Next]_vars PROVE AttachInv'
    OBVIOUS
  <1>1. CASE UNCHANGED vars
    BY <1>1, AttachKept DEF vars, Present, Selecting, Taken
  <1> QED
    BY <1>1, EnvironmentAttach, ScanPassAttach, ConfirmPassAttach DEF Next

\* While invoices lapse and transfers to one address compete, tryMatchTransfer
\* never attaches a payment to an invoice that has a live one, however many
\* confirmers overlap, as long as scanners do not.
THEOREM OneLiveAttemptAlways == ASSUME OneScanner PROVE Spec => []OneLiveAttempt
  <1>1. TypeOK /\ AttachInv /\ [Next]_vars => AttachInv'
    BY AttachStep
  <1>2. AttachInv => OneLiveAttempt
    BY DEF AttachInv, OneRowPerInvoice, OneLiveAttempt, Live, Present
  <1> QED  BY <1>1, <1>2, InitAttach, TypeCorrect, PTL DEF Spec

----------------------------------------------------------------------------
(***************************************************************************)
(* 6. Legal payment steps, when confirmers do not overlap.  Then nobody    *)
(* else writes the status of a row between the findMany that lists it and  *)
(* the update that ends its turn: the assert made on the snapshot is as    *)
(* good as one made on the row.                                            *)
(***************************************************************************)
SnapshotInv ==
    \A c \in Confirmers, h \in Txs :
        confirm[c].active[h] # Nothing =>
            confirm[c].active[h].row.status = payment[h].status

\* The row in hand has the status it was listed with.
LEMMA RowIsCurrent ==
    ASSUME TypeOK, SnapshotInv, NEW c \in Confirmers, InHand(c)
    PROVE  Row(c).status = payment[confirm[c].tx].status
  BY DEF SnapshotInv, TypeOK, ConfirmOK, InHand, Row

\* The passes start with empty snapshots.
LEMMA InitSnapshot == Init => SnapshotInv
  BY IdleTypes DEF Init, SnapshotInv

\* No entry is new, and no listed row changes its status.
LEMMA SnapshotKept ==
    ASSUME SnapshotInv,
           \A c \in Confirmers, h \in Txs :
              confirm'[c].active[h] \in {Nothing, confirm[c].active[h]},
           \A c \in Confirmers, h \in Txs :
              confirm[c].active[h] # Nothing => payment'[h].status = payment[h].status
    PROVE  SnapshotInv'
  BY DEF SnapshotInv

\* The environment writes no status; a scanner writes those of new rows only,
\* which no snapshot lists.
LEMMA OthersSnapshot ==
    ASSUME TypeOK, SnapshotInv,
           Environment \/ (\E s \in Scanners : ScanPass(s) \/ ScanInterrupted(s))
    PROVE  SnapshotInv' /\ PaymentStepLegal
  <1>1. UNCHANGED confirm
    BY DEF Environment, CreateInvoice, ExpiryPasses, GracePasses, Mine, Reorg, ScanPass,
           ScanBegin, ScanLatest, ScanFetch, ScanMatch, ScanSeen, ScanAttach, ScanAdvance,
           ScanInterrupted, ScanStep
  <1>2. \A h \in Txs : Present(h) => payment'[h].status = payment[h].status
    <2>1. ASSUME NEW h \in Txs, GracePasses(h), NEW g \in Txs
          PROVE  payment'[g].status = payment[g].status
      BY <2>1 DEF GracePasses, TypeOK, DatabaseOK, PaymentRow
    <2>2. ASSUME NEW s \in Scanners, ScanAttach(s), NEW g \in Txs, Present(g)
          PROVE  payment'[g].status = payment[g].status
      BY <2>2 DEF ScanAttach, Present, TypeOK, DatabaseOK
    <2>3. \/ UNCHANGED payment
          \/ \E h \in Txs : GracePasses(h)
          \/ \E s \in Scanners : ScanAttach(s)
      BY DEF Environment, CreateInvoice, ExpiryPasses, Mine, Reorg, ScanPass,
             ScanBegin, ScanLatest, ScanFetch, ScanMatch, ScanSeen, ScanAdvance,
             ScanInterrupted, database
    <2> QED  BY <2>1, <2>2, <2>3
  <1>3. \A c \in Confirmers, h \in Txs : confirm[c].active[h] # Nothing => Present(h)
    BY DEF TypeOK, ConfirmOK, EntryOK, Present
  <1> QED  BY <1>1, <1>2, <1>3, SnapshotKept DEF PaymentStepLegal, Present

\* The snapshot is made of the rows as they are.
LEMMA ListSnapshot ==
    ASSUME OneConfirmer, TypeOK, NEW c \in Confirmers, ConfirmList(c)
    PROVE  SnapshotInv'
  <1> DEFINE entry(h) ==
                 IF payment[h].status \in {"DETECTED", "CONFIRMING", "REORG_DETECTED"}
                 THEN [row |-> payment[h], invoice |-> invoice[payment[h].invoice]]
                 ELSE Nothing
             to == [confirm[c] EXCEPT !.pc = "pick", !.active = [h \in Txs |-> entry(h)]]
  <1>1. ASSUME NEW h \in Txs, entry(h) # Nothing
        PROVE  entry(h).row.status = payment[h].status
    BY <1>1
  <1>2. ConfirmStep(c, to) /\ UNCHANGED payment
    BY DEF ConfirmList
  <1> HIDE DEF entry
  <1>3. \A h \in Txs : to.active[h] = entry(h)
    BY DEF TypeOK, ConfirmOK, ConfirmerState
  <1> HIDE DEF to
  <1>4. confirm'[c] = to
    BY <1>2, ConfirmStepReads
  <1> QED  BY <1>1, <1>2, <1>3, <1>4 DEF SnapshotInv, OneConfirmer

\* The row written leaves the snapshot with the same step.
LEMMA WritesSnapshot ==
    ASSUME OneConfirmer, TypeOK, SnapshotInv, NEW c \in Confirmers, Writes(c)
    PROVE  SnapshotInv'
  <1>1. InHand(c) /\ Continue(c)
    BY DEF Writes
  <1>2. PICK status, n : WritePayment(c, status, n)
    BY DEF Writes
  <1>3. \A g \in Txs \ {confirm[c].tx} : payment'[g] = payment[g]
    BY <1>1, <1>2, RowWritten
  <1>4. \A g \in Txs : confirm'[c].active[g] =
           IF g = confirm[c].tx THEN Nothing ELSE confirm[c].active[g]
    BY <1>1, ContinueType
  <1> QED  BY <1>3, <1>4 DEF SnapshotInv, OneConfirmer

\* Every step of the confirmer.
LEMMA ConfirmSnapshot ==
    ASSUME OneConfirmer, TypeOK, SnapshotInv, NEW c \in Confirmers,
           ConfirmPass(c) \/ ConfirmInterrupted(c)
    PROVE  SnapshotInv'
  <1>1. ASSUME NEW i \in Invoices, ConfirmExpire(c, i) PROVE SnapshotInv'
    <2> DEFINE to == [confirm[c] EXCEPT !.overdue = @ \ {i}]
    <2>1. ConfirmStep(c, to) /\ UNCHANGED payment
      BY <1>1 DEF ConfirmExpire
    <2>2. to.active = confirm[c].active
      BY DEF TypeOK, ConfirmOK, ConfirmerState
    <2> HIDE DEF to
    <2> QED  BY <2>1, <2>2, ConfirmStepReads, SnapshotKept
  <1>2. CASE Passes(c)
    BY <1>2, SnapshotKept DEF Passes
  <1> QED  BY <1>1, <1>2, ConfirmCases, ListSnapshot, WritesSnapshot

\* A status is written over the one the assert was made on.
LEMMA ConfirmLegal ==
    ASSUME TypeOK, SnapshotInv, NEW c \in Confirmers,
           ConfirmPass(c) \/ ConfirmInterrupted(c)
    PROVE  PaymentStepLegal
  <1> DEFINE h == confirm[c].tx
  <1>1. ASSUME NEW status, NEW n, WritePayment(c, status, n), InHand(c),
               status = Row(c).status \/ CanTransitionPayment(Row(c).status, status)
        PROVE  PaymentStepLegal
    <2>1. Row(c).status = payment[h].status
      BY <1>1, RowIsCurrent
    <2> QED  BY <1>1, <2>1, RowWritten DEF PaymentStepLegal
  <1>2. ASSUME UNCHANGED payment PROVE PaymentStepLegal
    BY <1>2 DEF PaymentStepLegal
  <1>3. CASE HandleMissingTransaction(c)
    <2>1. InHand(c)
      BY <1>3 DEF HandleMissingTransaction, InHand
    <2>2. CanTransitionPayment("CONFIRMING", "REORG_DETECTED")
      BY DEF CanTransitionPayment, PaymentTransitions
    <2> QED
      BY <1>1, <1>2, <1>3, <2>1, <2>2
         DEF HandleMissingTransaction, FailPayment, MayFail, Abort, ReorgsIfMissing
  <1>4. CASE MoveToConfirming(c)
    <2>1. InHand(c)
      BY <1>4 DEF MoveToConfirming, InHand
    <2>2. \A from \in {"DETECTED", "REORG_DETECTED"} : CanTransitionPayment(from, "CONFIRMING")
      BY DEF CanTransitionPayment, PaymentTransitions
    <2> QED  BY <1>1, <1>2, <1>4, <2>1, <2>2 DEF MoveToConfirming, Abort
  <1>5. CASE UpdateConfirmations(c)
    <2>1. InHand(c)
      BY <1>5 DEF UpdateConfirmations, InHand
    <2> QED  BY <1>1, <1>2, <1>5, <2>1, RowIsCurrent DEF UpdateConfirmations
  <1>6. CASE FinalizePayment(c)
    <2> DEFINE outcome == EvaluatePaymentAmount(Terms[Row(c).invoice].amount, Row(c).received)
    <2>1. InHand(c) /\ Row(c).status = "CONFIRMING"
      BY <1>6 DEF FinalizePayment, InHand
    <2>2. outcome \in {"exact", "underpaid", "overpaid"}
      BY <2>1, OutcomeInHand
    <2>3. WritePayment(c, PaymentVerdict(outcome), confirm[c].confirmations)
      BY <1>6 DEF FinalizePayment
    <2> HIDE DEF outcome
    <2>4. CanTransitionPayment("CONFIRMING", PaymentVerdict(outcome))
      BY <2>2 DEF PaymentVerdict, CanTransitionPayment, PaymentTransitions
    <2> QED  BY <1>1, <2>1, <2>3, <2>4
  <1>7. \/ UNCHANGED payment
        \/ HandleMissingTransaction(c) \/ MoveToConfirming(c)
        \/ UpdateConfirmations(c) \/ FinalizePayment(c)
    BY DEF ConfirmPass, ConfirmBegin, ConfirmExpire, ConfirmList, ConfirmReceipt,
           ConfirmTip, ConfirmEnd, ConfirmInterrupted, database
  <1> QED  BY <1>2, <1>3, <1>4, <1>5, <1>6, <1>7

\* Every step keeps the snapshot current and makes a legal transition.
LEMMA SnapshotStep ==
    OneConfirmer /\ TypeOK /\ SnapshotInv /\ [Next]_vars
        => SnapshotInv' /\ [PaymentStepLegal]_vars
  <1> SUFFICES ASSUME OneConfirmer, TypeOK, SnapshotInv, [Next]_vars
               PROVE  SnapshotInv' /\ [PaymentStepLegal]_vars
    OBVIOUS
  <1>1. CASE UNCHANGED vars
    BY <1>1, SnapshotKept DEF vars
  <1> QED  BY <1>1, OthersSnapshot, ConfirmSnapshot, ConfirmLegal DEF Next

\* The passes write by id and assert on what findMany returned some awaits ago:
\* one confirmer at a time is enough for every Payment.status written to be a
\* transition of the payment state machine, however many scanners overlap.
THEOREM PaymentsStepLegally == ASSUME OneConfirmer PROVE Spec => PaymentStepsLegal
  <1>1. TypeOK /\ SnapshotInv /\ [Next]_vars => SnapshotInv' /\ [PaymentStepLegal]_vars
    BY SnapshotStep
  <1> QED  BY <1>1, InitSnapshot, TypeCorrect, PTL DEF Spec, PaymentStepsLegal

----------------------------------------------------------------------------
(***************************************************************************)
(* 7. One story for payment and invoice, and the life the merchant sees,   *)
(* when neither scanners nor confirmers overlap.  Between the two queues   *)
(* one race is left: a scanner may attach an invoice the confirmer has     *)
(* listed as overdue.                                                      *)
(***************************************************************************)

\* Payment h and its invoice tell the same story, but for the expiry race.
Agrees(h) ==
    Present(h) =>
        \/ invoice[payment[h].invoice] = InvoiceSide(payment[h].status)
        \/ /\ payment[h].invoice \in overdue
           /\ payment[h].status = "DETECTED"
           /\ invoice[payment[h].invoice] = "EXPIRED"

\* The verdict is the one the amount deserves.
JustVerdict(h) ==
    payment[h].status \in PaymentVerdicts =>
        payment[h].status =
            PaymentVerdict(EvaluatePaymentAmount(
                Terms[payment[h].invoice].amount, payment[h].received))

PaidFor(i) ==
    invoice[i] \notin {Absent, "PENDING", "EXPIRED"} =>
        \E h \in Txs : Present(h) /\ payment[h].invoice = i

Untold(i) == invoice[i] \in {Absent, "PENDING"} => events[i] = << >>

TablesAgree ==
    /\ \A h \in Txs : Agrees(h) /\ JustVerdict(h)
    /\ \A i \in Invoices : PaidFor(i) /\ Untold(i)

\* What is in hand is as it was read, the expiry race apart.
ChosenOK(s) == Selecting(s) => invoice[scan[s].invoice] \in {"PENDING", "EXPIRED"}

ListOK(c) ==
    /\ confirm[c].pc # "expire" => confirm[c].overdue = {}
    /\ \A i \in confirm[c].overdue :
          /\ i \in overdue
          /\ events[i] = << >>
          /\ invoice[i] \in {"PENDING", "DETECTED"}

SideOK(c) ==
    \A h \in Txs :
        confirm[c].active[h] # Nothing =>
            /\ confirm[c].pc \in {"pick", "tip", "missing", "apply"}
            /\ confirm[c].active[h].invoice = invoice[payment[h].invoice]

LifeInv ==
    /\ TablesAgree
    /\ \A s \in Scanners : ChosenOK(s)
    /\ \A c \in Confirmers : ListOK(c) /\ SideOK(c)

EvmInv == TypeOK /\ AttachInv /\ SnapshotInv /\ LifeInv

\* What the merchant sees of a step: one of the invoice's life, or nothing.
LifeGoesOn ==
    \/ UNCHANGED <<invoice, overdue, events>>
    \/ \E i \in Invoices : Life!LifeStep(i)

\* Nothing is listed, chosen or attached.
LEMMA InitLife == Init => LifeInv
  BY IdleTypes
     DEF Init, LifeInv, TablesAgree, Agrees, JustVerdict, PaidFor, Untold, ChosenOK,
         ListOK, SideOK, Present, Selecting, NoPayment, ScanIdle, ConfirmIdle, Absent,
         PaymentVerdicts

\* The tables tell the same story as before.
LEMMA TablesStay ==
    ASSUME TablesAgree, UNCHANGED <<invoice, events>>, overdue \subseteq overdue',
           \A h \in Txs : /\ payment'[h].status = payment[h].status
                          /\ payment'[h].invoice = payment[h].invoice
                          /\ payment'[h].received = payment[h].received
    PROVE  TablesAgree'
  BY DEF TablesAgree, Agrees, JustVerdict, PaidFor, Untold, Present

\* A confirmer's locals stay good while no invoice and no event is touched.
LEMMA LocalsStay ==
    ASSUME LifeInv, UNCHANGED <<invoice, events, confirm>>, overdue \subseteq overdue',
           \A h \in Txs : payment'[h].invoice = payment[h].invoice
    PROVE  \A c \in Confirmers : ListOK(c)' /\ SideOK(c)'
  BY DEF LifeInv, ListOK, SideOK

\* A listed row's invoice is on no scanner's mind, and any two have two invoices.
LEMMA InvoiceOfEntry ==
    ASSUME TypeOK, AttachInv, NEW c \in Confirmers, NEW h \in Txs,
           confirm[c].active[h] # Nothing
    PROVE  /\ Present(h) /\ payment[h].invoice \in Invoices
           /\ Taken(payment[h].invoice)
           /\ \A s \in Scanners : Selecting(s) => scan[s].invoice # payment[h].invoice
           /\ \A g \in Txs : Present(g) /\ payment[g].invoice = payment[h].invoice => g = h
  <1>1. Present(h)
    BY DEF TypeOK, ConfirmOK, EntryOK, Present
  <1> QED
    BY <1>1 DEF TypeOK, DatabaseOK, AttachInv, OneRowPerInvoice, Present

----------------------------------------------------------------------------
\* The environment

\* A new invoice is on no list and in no hand.
LEMMA CreateInvoiceLife ==
    ASSUME EvmInv, NEW i \in Invoices, CreateInvoice(i) PROVE LifeInv' /\ LifeGoesOn
  <1>1. /\ invoice[i] = Absent
        /\ UNCHANGED <<overdue, payment, events, scan, confirm>>
        /\ invoice' = [invoice EXCEPT ![i] = "PENDING"]
    BY DEF CreateInvoice
  <1>2. invoice'[i] = "PENDING" /\ \A j \in Invoices \ {i} : invoice'[j] = invoice[j]
    BY <1>1 DEF EvmInv, TypeOK, DatabaseOK
  <1>3. \A h \in Txs : Present(h) => payment[h].invoice \in Invoices \ {i}
    BY <1>1 DEF EvmInv, TypeOK, DatabaseOK, AttachInv, Taken, Present
  <1>4. TablesAgree'
    <2>1. \A h \in Txs : Agrees(h)' /\ JustVerdict(h)'
      BY <1>1, <1>2, <1>3 DEF EvmInv, LifeInv, TablesAgree, Agrees, JustVerdict, Present
    <2>2. \A j \in Invoices : PaidFor(j)' /\ Untold(j)'
      BY <1>1, <1>2 DEF EvmInv, LifeInv, TablesAgree, PaidFor, Untold, Present
    <2> QED  BY <2>1, <2>2 DEF TablesAgree
  <1>5. \A s \in Scanners : ChosenOK(s)'
    <2>1. \A s \in Scanners : Selecting(s) => scan[s].invoice \in Invoices
      BY DEF EvmInv, TypeOK, ScanOK, Selecting
    <2> QED  BY <1>1, <1>2, <2>1 DEF EvmInv, LifeInv, ChosenOK, Selecting
  <1>6. \A c \in Confirmers : ListOK(c)'
    <2>1. \A c \in Confirmers : confirm[c].overdue \subseteq Invoices
      BY DEF EvmInv, TypeOK, ConfirmOK, ConfirmerState
    <2> QED  BY <1>1, <1>2, <2>1 DEF EvmInv, LifeInv, ListOK
  <1>7. ASSUME NEW c \in Confirmers PROVE SideOK(c)'
    <2>1. \A h \in Txs : confirm[c].active[h] # Nothing => payment[h].invoice \in Invoices \ {i}
      BY <1>3, InvoiceOfEntry DEF EvmInv
    <2> QED  BY <1>1, <1>2, <2>1 DEF EvmInv, LifeInv, SideOK
  <1>8. Life!Create(i)
    BY <1>1 DEF Life!Create, Life!Become, Life!Absent, Absent
  <1> QED  BY <1>4, <1>5, <1>6, <1>7, <1>8 DEF LifeInv, LifeGoesOn, Life!LifeStep

\* Time and chain write nothing the merchant sees but the lapse.
LEMMA EnvironmentLife ==
    ASSUME EvmInv, Environment PROVE LifeInv' /\ LifeGoesOn
  <1>1. ASSUME UNCHANGED <<invoice, events, scan, confirm>>, overdue \subseteq overdue',
               \A h \in Txs : /\ payment'[h].status = payment[h].status
                              /\ payment'[h].invoice = payment[h].invoice
                              /\ payment'[h].received = payment[h].received
        PROVE  LifeInv'
    <2>1. \A s \in Scanners : ChosenOK(s)'
      BY <1>1 DEF EvmInv, LifeInv, ChosenOK, Selecting
    <2> QED  BY <1>1, <2>1, TablesStay, LocalsStay DEF EvmInv, LifeInv
  <1>2. ASSUME NEW i \in Invoices, ExpiryPasses(i) PROVE LifeInv' /\ LifeGoesOn
    <2>1. LifeInv'
      BY <1>1, <1>2 DEF ExpiryPasses
    <2>2. Life!Lapse(i)
      BY <1>2 DEF ExpiryPasses, Life!Lapse
    <2> QED  BY <2>1, <2>2 DEF LifeGoesOn, Life!LifeStep
  <1>3. ASSUME NEW h \in Txs, GracePasses(h) PROVE LifeInv' /\ LifeGoesOn
    <2>1. \A g \in Txs : /\ payment'[g].status = payment[g].status
                         /\ payment'[g].invoice = payment[g].invoice
                         /\ payment'[g].received = payment[g].received
      BY <1>3 DEF GracePasses, EvmInv, TypeOK, DatabaseOK, PaymentRow
    <2> QED  BY <1>1, <1>3, <2>1 DEF GracePasses, LifeGoesOn
  <1>4. CASE UNCHANGED <<database, scan, confirm>>
    BY <1>1, <1>4 DEF database, LifeGoesOn
  <1>5. \/ \E i \in Invoices : CreateInvoice(i) \/ ExpiryPasses(i)
        \/ \E h \in Txs : GracePasses(h)
        \/ UNCHANGED <<database, scan, confirm>>
    BY DEF Environment, Mine, Reorg
  <1> QED  BY <1>2, <1>3, <1>4, <1>5, CreateInvoiceLife

----------------------------------------------------------------------------
\* The scanner

\* A step that writes no table and chooses no invoice, or a PENDING one.
LEMMA ScanReadLife ==
    ASSUME EvmInv, UNCHANGED <<invoice, overdue, payment, events, confirm>>,
           \A s \in Scanners :
              Selecting(s)' =>
                 \/ Selecting(s) /\ scan'[s].invoice = scan[s].invoice
                 \/ invoice[scan'[s].invoice] = "PENDING"
    PROVE  LifeInv' /\ LifeGoesOn
  <1>1. \A s \in Scanners : ChosenOK(s)'
    BY DEF EvmInv, LifeInv, ChosenOK
  <1>2. TablesAgree'
    BY TablesStay DEF EvmInv, LifeInv
  <1>3. \A c \in Confirmers : ListOK(c)' /\ SideOK(c)'
    BY LocalsStay DEF EvmInv
  <1> QED  BY <1>1, <1>2, <1>3 DEF LifeInv, LifeGoesOn

\* The invoice chosen is PENDING.
LEMMA ScanMatchLife ==
    ASSUME EvmInv, NEW s \in Scanners, NEW l \in Logs, ScanMatch(s, l)
    PROVE  LifeInv' /\ LifeGoesOn
  <1> DEFINE rest == [scan[s] EXCEPT !.logs[l] = NotMined]
  <1>1. rest \in ScannerState /\ rest.pc = "match"
    BY DEF EvmInv, TypeOK, ScanOK, ScannerState, ScanMatch
  <1>2. UNCHANGED <<invoice, overdue, payment, events, confirm>>
    BY DEF ScanMatch, ScanStep
  <1>3. PICK to : /\ scan' = [scan EXCEPT ![s] = to]
                  /\ to.pc = "match" \/ invoice[to.invoice] = "PENDING"
    <2>1. CASE ScanStep(s, rest)
      BY <1>1, <2>1 DEF ScanStep
    <2>2. ASSUME NEW c \in SelectMatchingInvoice(Candidates(l), Transfer[l]),
                 ScanStep(s, [rest EXCEPT !.pc = "seen", !.log = l, !.invoice = c.id])
          PROVE  \E to : /\ scan' = [scan EXCEPT ![s] = to]
                         /\ to.pc = "match" \/ invoice[to.invoice] = "PENDING"
      <3> DEFINE to == [rest EXCEPT !.pc = "seen", !.log = l, !.invoice = c.id]
      <3> HIDE DEF rest
      <3>1. to.invoice = c.id
        BY <1>1 DEF ScannerState
      <3>2. scan' = [scan EXCEPT ![s] = to]
        BY <2>2 DEF ScanStep
      <3> HIDE DEF to
      <3> QED  BY <3>1, <3>2, CandidateType
    <2> QED  BY <2>1, <2>2 DEF ScanMatch
  <1>4. \A t \in Scanners :
           Selecting(t)' => \/ Selecting(t) /\ scan'[t].invoice = scan[t].invoice
                            \/ invoice[scan'[t].invoice] = "PENDING"
    BY <1>3 DEF Selecting, EvmInv, TypeOK, ScanOK
  <1> QED  BY <1>2, <1>4, ScanReadLife

\* The invoice attached was PENDING, or EXPIRED a moment ago, and nobody's.
LEMMA ScanAttachLife ==
    ASSUME OneScanner, EvmInv, NEW s \in Scanners, ScanAttach(s)
    PROVE  LifeInv' /\ LifeGoesOn
  <1> DEFINE l == scan[s].log
             h == Transfer[l].txHash
             i == scan[s].invoice
             row == [status |-> "DETECTED", invoice |-> i,
                     received |-> Transfer[l].amount,
                     confirmations |-> 0, graceOver |-> FALSE]
  <1>1. l \in Logs /\ i \in Invoices /\ h \in Txs /\ Selecting(s)
    BY TransferAssumption DEF EvmInv, TypeOK, ScanOK, ScanAttach, TransferLog, Selecting
  <1>2. UNCHANGED <<overdue, events, confirm>>
    BY DEF ScanAttach, ScanStep
  <1>3. CASE ScanStep(s, ScanIdle) /\ UNCHANGED <<invoice, payment>>
    <2>1. \A t \in Scanners :
             Selecting(t)' => Selecting(t) /\ scan'[t].invoice = scan[t].invoice
      BY <1>3 DEF ScanStep, ScanIdle, Selecting, EvmInv, TypeOK, ScanOK
    <2> QED  BY <1>2, <1>3, <2>1, ScanReadLife
  <1>4. CASE /\ payment[h].status = Absent
             /\ payment' = [payment EXCEPT ![h] = row]
             /\ invoice' = [invoice EXCEPT ![i] = "DETECTED"]
             /\ ScanStep(s, Scanned(s))
    <2>1. row.status = "DETECTED" /\ row.invoice = i
      OBVIOUS
    <2>2. invoice[i] \in {"PENDING", "EXPIRED"}
      BY <1>1 DEF EvmInv, LifeInv, ChosenOK
    <2>3. \A g \in Txs : Present(g) => payment[g].invoice \in Invoices \ {i}
      BY <1>1 DEF EvmInv, TypeOK, DatabaseOK, AttachInv, Present
    <2>4. ~Present(h)
      BY <1>4 DEF Present
    <2> HIDE DEF row, i, h, l
    <2>5. /\ payment'[h] = row
          /\ \A g \in Txs \ {h} : payment'[g] = payment[g]
          /\ invoice'[i] = "DETECTED"
          /\ \A j \in Invoices \ {i} : invoice'[j] = invoice[j]
      BY <1>1, <1>4 DEF EvmInv, TypeOK, DatabaseOK
    <2>6. PICK paid \in Txs : paid = h
      BY <1>1
    <2>7. Present(paid)' /\ payment'[paid].invoice = i
      BY <2>1, <2>5, <2>6 DEF Present, Absent
    <2>8. \A t \in Scanners : ChosenOK(t)'
      <3>1. scan'[s].pc = "match"
        BY <1>4, ScannedType DEF ScanStep, EvmInv, TypeOK, ScanOK
      <3> QED  BY <3>1 DEF OneScanner, Selecting, ChosenOK
    <2>9. ASSUME NEW g \in Txs PROVE Agrees(g)' /\ JustVerdict(g)'
      <3>1. CASE g = h
        BY <2>1, <2>5, <3>1 DEF Agrees, JustVerdict, InvoiceSide, PaymentVerdicts
      <3>2. CASE g # h
        <4>1. payment'[g] = payment[g] /\ Agrees(g) /\ JustVerdict(g)
          BY <2>5, <3>2 DEF EvmInv, LifeInv, TablesAgree
        <4>2. Present(g) => invoice'[payment[g].invoice] = invoice[payment[g].invoice]
          BY <2>3, <2>5
        <4> QED  BY <1>2, <4>1, <4>2 DEF Agrees, JustVerdict, Present
      <3> QED  BY <3>1, <3>2
    <2>10. ASSUME NEW j \in Invoices PROVE PaidFor(j)' /\ Untold(j)'
      <3>1. CASE j = i
        BY <2>5, <2>7, <3>1 DEF PaidFor, Untold, Absent
      <3>2. CASE j # i
        <4>1. invoice'[j] = invoice[j] /\ PaidFor(j) /\ Untold(j)
          BY <2>5, <3>2 DEF EvmInv, LifeInv, TablesAgree
        <4>2. \A g \in Txs : Present(g) => Present(g)' /\ payment'[g].invoice = payment[g].invoice
          BY <2>4, <2>5 DEF Present
        <4> QED  BY <1>2, <4>1, <4>2 DEF PaidFor, Untold
      <3> QED  BY <3>1, <3>2
    <2>11. ASSUME NEW c \in Confirmers PROVE ListOK(c)' /\ SideOK(c)'
      <3>1. ListOK(c)'
        <4>1. ListOK(c) /\ confirm[c].overdue \subseteq Invoices
          BY DEF EvmInv, LifeInv, TypeOK, ConfirmOK, ConfirmerState
        <4> QED  BY <1>2, <2>5, <4>1 DEF ListOK
      <3>2. ASSUME NEW g \in Txs, confirm[c].active[g] # Nothing
            PROVE  /\ payment'[g] = payment[g]
                   /\ invoice'[payment[g].invoice] = invoice[payment[g].invoice]
        <4>1. Present(g)
          BY <3>2, InvoiceOfEntry DEF EvmInv
        <4> QED  BY <2>3, <2>4, <2>5, <4>1
      <3>3. SideOK(c)
        BY DEF EvmInv, LifeInv
      <3> QED  BY <1>2, <3>1, <3>2, <3>3 DEF SideOK
    <2>12. Life!Detect(i)
      BY <1>2, <1>4, <2>2 DEF Life!Detect, Life!Become, i
    <2> QED
      BY <1>1, <2>8, <2>9, <2>10, <2>11, <2>12
         DEF LifeInv, TablesAgree, LifeGoesOn, Life!LifeStep
  <1> QED  BY <1>3, <1>4 DEF ScanAttach

LEMMA ScanLife ==
    ASSUME OneScanner, EvmInv, NEW s \in Scanners, ScanPass(s) \/ ScanInterrupted(s)
    PROVE  LifeInv' /\ LifeGoesOn
  <1>1. CASE \/ ScanBegin(s) \/ ScanLatest(s) \/ ScanFetch(s) \/ ScanSeen(s)
             \/ ScanAdvance(s) \/ ScanInterrupted(s)
    BY <1>1, ScanReads, ScanReadLife DEF EvmInv
  <1> QED  BY <1>1, ScanMatchLife, ScanAttachLife DEF ScanPass

----------------------------------------------------------------------------
\* The confirmer

\* A step that writes no table, and leaves locals that are good.
LEMMA ConfirmReadLife ==
    ASSUME OneConfirmer, EvmInv, NEW c \in Confirmers, NEW to, ConfirmStep(c, to),
           UNCHANGED <<invoice, payment, events>>,
           to.pc # "expire" => to.overdue = {},
           \A i \in to.overdue :
              i \in overdue /\ events[i] = << >> /\ invoice[i] \in {"PENDING", "DETECTED"},
           \A h \in Txs : to.active[h] # Nothing =>
              /\ to.pc \in {"pick", "tip", "missing", "apply"}
              /\ to.active[h].invoice = invoice[payment[h].invoice]
    PROVE  LifeInv' /\ LifeGoesOn
  <1>1. confirm'[c] = to /\ UNCHANGED <<overdue, scan>>
    BY ConfirmStepReads DEF EvmInv
  <1>2. TablesAgree'
    BY <1>1, TablesStay DEF EvmInv, LifeInv
  <1>3. \A s \in Scanners : ChosenOK(s)'
    BY <1>1 DEF EvmInv, LifeInv, ChosenOK, Selecting
  <1>4. ListOK(c)' /\ SideOK(c)'
    BY <1>1 DEF ListOK, SideOK
  <1> QED  BY <1>1, <1>2, <1>3, <1>4 DEF LifeInv, LifeGoesOn, OneConfirmer

\* A pass that ends, one way or the other, leaves nothing to be wrong about.
LEMMA ConfirmDropsLife ==
    ASSUME OneConfirmer, EvmInv, NEW c \in Confirmers,
           Abort(c) \/ ConfirmEnd(c) \/ ConfirmInterrupted(c)
    PROVE  LifeInv' /\ LifeGoesOn
  <1>1. ConfirmIdle.pc = "idle" /\ ConfirmIdle.overdue = {}
        /\ \A h \in Txs : ConfirmIdle.active[h] = Nothing
    BY DEF ConfirmIdle
  <1>2. /\ confirm' = [confirm EXCEPT ![c] = ConfirmIdle]
        /\ UNCHANGED <<invoice, overdue, payment, events, scan>>
    BY DEF Abort, ConfirmEnd, ConfirmInterrupted, ConfirmStep, database
  <1>3. confirm'[c] = ConfirmIdle
    BY <1>2 DEF EvmInv, TypeOK, ConfirmOK
  <1> HIDE DEF ConfirmIdle
  <1>4. TablesAgree'
    BY <1>2, TablesStay DEF EvmInv, LifeInv
  <1>5. \A s \in Scanners : ChosenOK(s)'
    BY <1>2 DEF EvmInv, LifeInv, ChosenOK, Selecting
  <1>6. ListOK(c)' /\ SideOK(c)'
    BY <1>1, <1>3 DEF ListOK, SideOK
  <1> QED  BY <1>2, <1>4, <1>5, <1>6 DEF LifeInv, LifeGoesOn, OneConfirmer

\* The overdue invoices are PENDING: nothing was told of them.
LEMMA ConfirmBeginLife ==
    ASSUME OneConfirmer, EvmInv, NEW c \in Confirmers, ConfirmBegin(c)
    PROVE  LifeInv' /\ LifeGoesOn
  <1> DEFINE to == [confirm[c] EXCEPT !.pc = "expire", !.overdue = OverdueInvoices]
  <1>1. to.pc = "expire" /\ to.overdue = OverdueInvoices /\ to.active = confirm[c].active
    BY DEF EvmInv, TypeOK, ConfirmOK, ConfirmerState
  <1>2. ConfirmStep(c, to) /\ UNCHANGED <<invoice, payment, events>>
    BY DEF ConfirmBegin
  <1> HIDE DEF to
  <1>3. \A h \in Txs : confirm[c].active[h] = Nothing
    BY DEF ConfirmBegin, EvmInv, LifeInv, SideOK
  <1>4. \A i \in OverdueInvoices :
           i \in overdue /\ events[i] = << >> /\ invoice[i] \in {"PENDING", "DETECTED"}
    BY DEF OverdueInvoices, EvmInv, TypeOK, DatabaseOK, LifeInv, TablesAgree, Untold
  <1> QED  BY <1>1, <1>2, <1>3, <1>4, ConfirmReadLife

\* The expiry: the invoice may have been attached since it was listed, but
\* nothing was told of it, and its payment is DETECTED at most.
LEMMA ConfirmExpireLife ==
    ASSUME OneConfirmer, EvmInv, NEW c \in Confirmers, NEW i \in Invoices,
           ConfirmExpire(c, i)
    PROVE  LifeInv' /\ LifeGoesOn
  <1> DEFINE to == [confirm[c] EXCEPT !.overdue = @ \ {i}]
  <1>1. /\ i \in confirm[c].overdue /\ confirm[c].pc = "expire"
        /\ UNCHANGED payment
        /\ invoice' = [invoice EXCEPT ![i] = "EXPIRED"]
        /\ events' = [events EXCEPT ![i] = Append(@, "invoice.expired")]
        /\ ConfirmStep(c, to)
    BY DEF ConfirmExpire
  <1>2. to.pc = "expire" /\ to.overdue = confirm[c].overdue \ {i}
        /\ to.active = confirm[c].active
    BY <1>1 DEF EvmInv, TypeOK, ConfirmOK, ConfirmerState
  <1> HIDE DEF to
  <1>3. confirm'[c] = to /\ UNCHANGED <<overdue, scan>>
    BY <1>1, ConfirmStepReads DEF EvmInv
  <1>4. i \in overdue /\ events[i] = << >> /\ invoice[i] \in {"PENDING", "DETECTED"}
    BY <1>1 DEF EvmInv, LifeInv, ListOK
  <1>5. /\ invoice'[i] = "EXPIRED"
        /\ \A j \in Invoices \ {i} : invoice'[j] = invoice[j] /\ events'[j] = events[j]
    BY <1>1 DEF EvmInv, TypeOK, DatabaseOK
  <1>6. ASSUME NEW h \in Txs PROVE Agrees(h)' /\ JustVerdict(h)'
    <2>1. Agrees(h) /\ JustVerdict(h)
      BY DEF EvmInv, LifeInv, TablesAgree
    <2>2. CASE payment[h].invoice = i
      <3>1. Present(h) => invoice[i] = InvoiceSide(payment[h].status)
                          /\ payment[h].status \in PaymentStatus
        BY <1>4, <2>1, <2>2 DEF Agrees, Present, EvmInv, TypeOK, DatabaseOK, PaymentRow
      <3>2. Present(h) => payment[h].status = "DETECTED"
        <4>1. Present(h) => invoice[i] = "DETECTED"
          BY <1>4, <2>2 DEF EvmInv, AttachInv, Taken
        <4> QED  BY <3>1, <4>1 DEF InvoiceSide, PaymentStatus
      <3> QED
        BY <1>1, <1>3, <1>4, <1>5, <2>1, <2>2, <3>2 DEF Agrees, JustVerdict, Present
    <2>3. CASE payment[h].invoice # i
      <3>1. Present(h) => payment[h].invoice \in Invoices \ {i}
        BY <2>3 DEF EvmInv, TypeOK, DatabaseOK, Present
      <3> QED
        BY <1>1, <1>3, <1>5, <2>1, <3>1 DEF Agrees, JustVerdict, Present
    <2> QED  BY <2>2, <2>3
  <1>7. ASSUME NEW j \in Invoices PROVE PaidFor(j)' /\ Untold(j)'
    <2>1. PaidFor(j) /\ Untold(j)
      BY DEF EvmInv, LifeInv, TablesAgree
    <2> QED  BY <1>1, <1>5, <2>1 DEF PaidFor, Untold, Present, Absent
  <1>8. ASSUME NEW s \in Scanners PROVE ChosenOK(s)'
    <2>1. Selecting(s) => scan[s].invoice \in Invoices
      BY DEF EvmInv, TypeOK, ScanOK, Selecting
    <2> QED  BY <1>3, <1>5, <2>1 DEF EvmInv, LifeInv, ChosenOK, Selecting
  <1>9. ListOK(c)'
    <2>1. ListOK(c) /\ confirm[c].overdue \subseteq Invoices
      BY DEF EvmInv, LifeInv, TypeOK, ConfirmOK, ConfirmerState
    <2> QED  BY <1>2, <1>3, <1>5, <2>1 DEF ListOK
  <1>10. SideOK(c)'
    <2>1. \A h \in Txs : confirm[c].active[h] = Nothing
      BY <1>1 DEF EvmInv, LifeInv, SideOK
    <2> QED  BY <1>2, <1>3, <2>1 DEF SideOK
  <1>11. Life!Expire(i)
    BY <1>1, <1>3, <1>4 DEF Life!Expire, Life!BecomeAndTell, Life!EventOf
  <1> QED
    BY <1>6, <1>7, <1>8, <1>9, <1>10, <1>11
       DEF LifeInv, TablesAgree, OneConfirmer, LifeGoesOn, Life!LifeStep

\* The snapshot is made of rows and invoices as they are.
LEMMA ConfirmListLife ==
    ASSUME OneConfirmer, EvmInv, NEW c \in Confirmers, ConfirmList(c)
    PROVE  LifeInv' /\ LifeGoesOn
  <1> DEFINE entry(h) ==
                 IF payment[h].status \in {"DETECTED", "CONFIRMING", "REORG_DETECTED"}
                 THEN [row |-> payment[h], invoice |-> invoice[payment[h].invoice]]
                 ELSE Nothing
             to == [confirm[c] EXCEPT !.pc = "pick", !.active = [h \in Txs |-> entry(h)]]
  <1>1. ASSUME NEW h \in Txs, entry(h) # Nothing
        PROVE  entry(h).invoice = invoice[payment[h].invoice]
    BY <1>1
  <1>2. ConfirmStep(c, to) /\ UNCHANGED <<invoice, payment, events>>
    BY DEF ConfirmList
  <1> HIDE DEF entry
  <1>3. to.pc = "pick" /\ to.overdue = confirm[c].overdue
        /\ \A h \in Txs : to.active[h] = entry(h)
    BY DEF EvmInv, TypeOK, ConfirmOK, ConfirmerState
  <1> HIDE DEF to
  <1>4. confirm[c].overdue = {}
    BY DEF ConfirmList
  <1> QED  BY <1>1, <1>2, <1>3, <1>4, ConfirmReadLife

\* The two RPC calls change nothing of what was listed.
LEMMA ConfirmAskLife ==
    ASSUME OneConfirmer, EvmInv, NEW c \in Confirmers,
           (\E h \in Txs : ConfirmReceipt(c, h)) \/ ConfirmTip(c)
    PROVE  LifeInv' /\ LifeGoesOn
  <1>1. confirm[c] \in ConfirmerState /\ confirm[c].pc \in {"pick", "tip"}
    BY DEF EvmInv, TypeOK, ConfirmOK, ConfirmReceipt, ConfirmTip
  <1>2. confirm[c].overdue = {} /\ SideOK(c)
    BY <1>1 DEF EvmInv, LifeInv, ListOK
  <1>3. UNCHANGED <<invoice, payment, events>>
    BY DEF ConfirmReceipt, ConfirmTip
  <1>4. PICK to : /\ ConfirmStep(c, to)
                  /\ to.pc \in {"missing", "tip", "apply"}
                  /\ to.overdue = confirm[c].overdue
                  /\ to.active = confirm[c].active
    <2>1. ASSUME NEW h \in Txs, ConfirmReceipt(c, h)
          PROVE  \E to : /\ ConfirmStep(c, to)
                         /\ to.pc \in {"missing", "tip", "apply"}
                         /\ to.overdue = confirm[c].overdue
                         /\ to.active = confirm[c].active
      <3> DEFINE gone == [confirm[c] EXCEPT !.pc = "missing", !.tx = h]
                 mined == [confirm[c] EXCEPT !.pc = "tip", !.tx = h, !.receipt = block[h]]
      <3>1. /\ gone.pc = "missing" /\ gone.overdue = confirm[c].overdue
            /\ gone.active = confirm[c].active
            /\ mined.pc = "tip" /\ mined.overdue = confirm[c].overdue
            /\ mined.active = confirm[c].active
        BY <1>1 DEF ConfirmerState
      <3>2. ConfirmStep(c, gone) \/ ConfirmStep(c, mined)
        BY <2>1 DEF ConfirmReceipt
      <3> HIDE DEF gone, mined
      <3> QED  BY <3>1, <3>2
    <2>2. CASE ConfirmTip(c)
      <3> DEFINE to == [confirm[c] EXCEPT !.pc = "apply",
                           !.confirmations = Depth(confirm[c].receipt, height)]
      <3>1. to.pc = "apply" /\ to.overdue = confirm[c].overdue
            /\ to.active = confirm[c].active
        BY <1>1 DEF ConfirmerState
      <3>2. ConfirmStep(c, to)
        BY <2>2 DEF ConfirmTip
      <3> HIDE DEF to
      <3> QED  BY <3>1, <3>2
    <2> QED  BY <2>1, <2>2
  <1> QED  BY <1>2, <1>3, <1>4, ConfirmReadLife DEF SideOK

\* `continue`: the entry of the payment in hand goes, the others stay.
LEMMA ContinueReads ==
    ASSUME TypeOK, NEW c \in Confirmers, InHand(c), Continue(c)
    PROVE  /\ confirm'[c].overdue = confirm[c].overdue
           /\ confirm'[c].pc = "pick"
           /\ \A h \in Txs : confirm'[c].active[h] =
                 IF h = confirm[c].tx THEN Nothing ELSE confirm[c].active[h]
           /\ UNCHANGED <<overdue, scan>>
  <1> DEFINE rest == [confirm[c].active EXCEPT ![confirm[c].tx] = Nothing]
             to == [confirm[c] EXCEPT !.pc = "pick", !.active = rest,
                       !.tx = NoTx, !.receipt = NotMined, !.confirmations = 0]
  <1>1. ConfirmStep(c, to)
    BY DEF Continue
  <1> HIDE DEF rest
  <1>2. to.overdue = confirm[c].overdue
    BY DEF TypeOK, ConfirmOK, ConfirmerState
  <1> HIDE DEF to
  <1> QED  BY <1>1, <1>2, ConfirmStepReads, ContinueType

LEMMA ContinueLife ==
    ASSUME OneConfirmer, EvmInv, NEW c \in Confirmers, InHand(c), Continue(c),
           UNCHANGED <<invoice, payment, events>>
    PROVE  LifeInv' /\ LifeGoesOn
  <1> DEFINE to == confirm'[c]
  <1>1. ConfirmStep(c, to)
    BY ContinueType DEF EvmInv, ConfirmStep
  <1>2. confirm[c].overdue = {} /\ SideOK(c)
    BY DEF EvmInv, LifeInv, ListOK, InHand
  <1>3. to.overdue = {} /\ to.pc = "pick"
        /\ \A h \in Txs : to.active[h] \in {Nothing, confirm[c].active[h]}
    BY <1>2, ContinueReads DEF EvmInv
  <1> HIDE DEF to
  <1> QED  BY <1>1, <1>2, <1>3, ConfirmReadLife DEF SideOK

\* What the confirmer knows of the payment in hand and its invoice is so.
LEMMA InHandIsCurrent ==
    ASSUME EvmInv, NEW c \in Confirmers, InHand(c)
    PROVE  /\ Row(c).status = payment[confirm[c].tx].status
           /\ RowInvoice(c) = invoice[Row(c).invoice]
           /\ Row(c).status \in {"CONFIRMING", "REORG_DETECTED"}
                 => invoice[Row(c).invoice] = "CONFIRMING"
  <1> DEFINE h == confirm[c].tx
  <1>1. /\ h \in Txs /\ payment[h].status # Absent
        /\ payment[h].invoice = Row(c).invoice
    BY RowInHand DEF EvmInv
  <1>2. Row(c).status = payment[h].status
    BY RowIsCurrent DEF EvmInv
  <1>3. confirm[c].active[h] # Nothing
    BY DEF EvmInv, TypeOK, ConfirmOK, InHand
  <1>4. RowInvoice(c) = invoice[payment[h].invoice]
    BY <1>1, <1>3 DEF EvmInv, LifeInv, SideOK, RowInvoice
  <1>5. Agrees(h)
    BY <1>1 DEF EvmInv, LifeInv, TablesAgree
  <1>6. /\ InvoiceSide("CONFIRMING") = "CONFIRMING"
        /\ InvoiceSide("REORG_DETECTED") = "CONFIRMING"
    BY DEF InvoiceSide
  <1> QED  BY <1>1, <1>2, <1>4, <1>5, <1>6 DEF Agrees, Present

\* Payment and invoice are written together, and to the same effect.
LEMMA WriteLife ==
    ASSUME OneConfirmer, EvmInv, NEW c \in Confirmers, InHand(c), Continue(c),
           NEW status \in PaymentStatus, NEW n, WritePayment(c, status, n),
           WriteInvoice(c, InvoiceSide(status)),
           InvoiceSide(status) \notin {Absent, "PENDING"},
           status \in PaymentVerdicts =>
              status = PaymentVerdict(EvaluatePaymentAmount(
                          Terms[Row(c).invoice].amount, Row(c).received)),
           \A j \in Invoices : j # Row(c).invoice => events'[j] = events[j]
    PROVE  LifeInv'
  <1> DEFINE h == confirm[c].tx
             i == Row(c).invoice
  <1>1. /\ h \in Txs /\ i \in Invoices /\ Present(h)
        /\ payment[h].invoice = i /\ payment[h].received = Row(c).received
    BY RowInHand DEF EvmInv, Present
  <1>2. /\ payment'[h].status = status
        /\ payment'[h].invoice = i
        /\ payment'[h].received = payment[h].received
        /\ \A g \in Txs \ {h} : payment'[g] = payment[g]
    BY <1>1, RowWritten DEF EvmInv
  <1>3. /\ invoice'[i] = InvoiceSide(status)
        /\ \A j \in Invoices \ {i} : invoice'[j] = invoice[j]
    BY <1>1 DEF WriteInvoice, EvmInv, TypeOK, DatabaseOK
  <1>4. /\ confirm'[c].overdue = confirm[c].overdue
        /\ confirm'[c].pc = "pick"
        /\ \A g \in Txs : confirm'[c].active[g] =
              IF g = h THEN Nothing ELSE confirm[c].active[g]
        /\ UNCHANGED <<overdue, scan>>
    BY ContinueReads DEF EvmInv
  <1>5. \A g \in Txs \ {h} : Present(g) => payment[g].invoice \in Invoices \ {i}
    BY <1>1 DEF EvmInv, AttachInv, OneRowPerInvoice, Present, TypeOK, DatabaseOK
  <1>6. status # Absent
    BY DEF PaymentStatus, Absent
  <1>7. confirm[c].active[h] # Nothing
    BY DEF EvmInv, TypeOK, ConfirmOK, InHand
  <1>8. \A s \in Scanners : Selecting(s) => scan[s].invoice \in Invoices \ {i}
    BY <1>1, <1>7, InvoiceOfEntry DEF EvmInv, TypeOK, ScanOK, Selecting
  <1> HIDE DEF h, i
  <1>9. ASSUME NEW g \in Txs PROVE Agrees(g)' /\ JustVerdict(g)'
    <2>1. CASE g = h
      BY <1>1, <1>2, <1>3, <2>1 DEF Agrees, JustVerdict, i
    <2>2. CASE g # h
      <3>1. payment'[g] = payment[g] /\ Agrees(g) /\ JustVerdict(g)
        BY <1>2, <2>2 DEF EvmInv, LifeInv, TablesAgree
      <3>2. Present(g) => invoice'[payment[g].invoice] = invoice[payment[g].invoice]
        BY <1>3, <1>5, <2>2
      <3> QED  BY <1>4, <3>1, <3>2 DEF Agrees, JustVerdict, Present
    <2> QED  BY <2>1, <2>2
  <1>10. ASSUME NEW j \in Invoices PROVE PaidFor(j)' /\ Untold(j)'
    <2>1. PaidFor(j) /\ Untold(j)
      BY DEF EvmInv, LifeInv, TablesAgree
    <2>2. \A g \in Txs : Present(g) => Present(g)' /\ payment'[g].invoice = payment[g].invoice
      BY <1>1, <1>2, <1>6 DEF Present
    <2>3. CASE j = i
      BY <1>1, <1>3, <2>2, <2>3 DEF PaidFor, Untold
    <2>4. CASE j # i
      <3>1. invoice'[j] = invoice[j] /\ events'[j] = events[j]
        BY <1>3, <2>4 DEF i
      <3> QED  BY <2>1, <2>2, <3>1 DEF PaidFor, Untold
    <2> QED  BY <2>3, <2>4
  <1>11. \A s \in Scanners : ChosenOK(s)'
    BY <1>3, <1>4, <1>8 DEF EvmInv, LifeInv, ChosenOK, Selecting
  <1>12. ListOK(c)'
    BY <1>4 DEF EvmInv, LifeInv, ListOK, InHand
  <1>13. ASSUME NEW g \in Txs, confirm'[c].active[g] # Nothing
         PROVE  confirm'[c].active[g].invoice = invoice'[payment'[g].invoice]
    <2>1. g # h /\ confirm'[c].active[g] = confirm[c].active[g]
      BY <1>4, <1>13
    <2>2. Present(g)
      BY <1>13, <2>1, InvoiceOfEntry DEF EvmInv
    <2>3. payment'[g] = payment[g] /\ invoice'[payment[g].invoice] = invoice[payment[g].invoice]
      BY <1>2, <1>3, <1>5, <2>1, <2>2
    <2> QED  BY <1>13, <2>1, <2>3 DEF EvmInv, LifeInv, SideOK
  <1>14. SideOK(c)'
    BY <1>4, <1>13 DEF SideOK
  <1> QED
    BY <1>9, <1>10, <1>11, <1>12, <1>14 DEF LifeInv, TablesAgree, OneConfirmer

\* The sides of each status the confirmer writes.
LEMMA Sides ==
    /\ InvoiceSide("FAILED") = "FAILED"
    /\ InvoiceSide("CONFIRMING") = "CONFIRMING"
    /\ InvoiceSide("REORG_DETECTED") = "CONFIRMING"
    /\ \A outcome \in {"exact", "underpaid", "overpaid"} :
          /\ InvoiceSide(PaymentVerdict(outcome)) = InvoiceVerdict(outcome)
          /\ InvoiceVerdict(outcome) \in InvoiceVerdicts
          /\ EventType(outcome) = Life!EventOf(InvoiceVerdict(outcome))
  BY DEF InvoiceSide, PaymentVerdict, InvoiceVerdict, InvoiceVerdicts, EventType,
         Life!EventOf

\* Rewriting an invoice with the status it has is a stutter.
LEMMA SameInvoice ==
    ASSUME TypeOK, NEW c \in Confirmers, NEW side, invoice[Row(c).invoice] = side
    PROVE  WriteInvoice(c, side) <=> UNCHANGED invoice
  BY DEF WriteInvoice, TypeOK, DatabaseOK

\* FAILED goes to payment and invoice, or the assert stops the pass.
LEMMA FailPaymentLife ==
    ASSUME OneConfirmer, EvmInv, NEW c \in Confirmers, InHand(c), FailPayment(c)
    PROVE  LifeInv' /\ LifeGoesOn
  <1>1. CASE Abort(c)
    BY <1>1, ConfirmDropsLife
  <1>2. CASE /\ MayFail(c)
             /\ WritePayment(c, "FAILED", payment[confirm[c].tx].confirmations)
             /\ WriteInvoice(c, "FAILED")
             /\ Continue(c)
             /\ UNCHANGED events
    <2>1. "FAILED" \in PaymentStatus /\ "FAILED" \notin PaymentVerdicts \cup {Absent, "PENDING"}
      BY DEF PaymentStatus, PaymentVerdicts, Absent
    <2>2. LifeInv'
      BY <1>2, <2>1, Sides, WriteLife
    <2>3. Row(c).invoice \in Invoices
      BY RowInHand DEF EvmInv
    <2>4. invoice[Row(c).invoice] \in {"DETECTED", "CONFIRMING"}
      BY <1>2, InHandIsCurrent DEF MayFail, CanTransitionInvoice, InvoiceTransitions
    <2>5. UNCHANGED overdue
      BY <1>2, ContinueReads DEF EvmInv
    <2>6. Life!Fail(Row(c).invoice)
      BY <1>2, <2>4, <2>5 DEF WriteInvoice, Life!Fail, Life!Become
    <2> QED  BY <2>2, <2>3, <2>6 DEF LifeGoesOn, Life!LifeStep
  <1> QED  BY <1>1, <1>2 DEF FailPayment

\* The merchant hears nothing of a reorganisation.
LEMMA HandleMissingLife ==
    ASSUME OneConfirmer, EvmInv, NEW c \in Confirmers, HandleMissingTransaction(c)
    PROVE  LifeInv' /\ LifeGoesOn
  <1>1. InHand(c)
    BY DEF HandleMissingTransaction, InHand
  <1>2. CASE /\ ReorgsIfMissing(Row(c))
             /\ WritePayment(c, "REORG_DETECTED", payment[confirm[c].tx].confirmations)
             /\ Continue(c)
             /\ UNCHANGED <<invoice, events>>
    <2>1. "REORG_DETECTED" \in PaymentStatus /\ "REORG_DETECTED" \notin PaymentVerdicts
          /\ "CONFIRMING" \notin {Absent, "PENDING"}
      BY DEF PaymentStatus, PaymentVerdicts, Absent
    <2>2. invoice[Row(c).invoice] = "CONFIRMING"
      BY <1>1, <1>2, InHandIsCurrent DEF ReorgsIfMissing
    <2>3. WriteInvoice(c, "CONFIRMING")
      BY <1>2, <2>2, SameInvoice DEF EvmInv
    <2>4. LifeInv'
      BY <1>1, <1>2, <2>1, <2>3, Sides, WriteLife
    <2>5. UNCHANGED overdue
      BY <1>1, <1>2, ContinueReads DEF EvmInv
    <2> QED  BY <1>2, <2>4, <2>5 DEF LifeGoesOn
  <1> QED
    BY <1>1, <1>2, FailPaymentLife, ContinueLife DEF HandleMissingTransaction

\* The first time the merchant sees CONFIRMING; after a reorganisation nothing.
LEMMA MoveToConfirmingLife ==
    ASSUME OneConfirmer, EvmInv, NEW c \in Confirmers, MoveToConfirming(c)
    PROVE  LifeInv' /\ LifeGoesOn
  <1>1. InHand(c)
    BY DEF MoveToConfirming, InHand
  <1>2. CASE Abort(c)
    BY <1>2, ConfirmDropsLife
  <1>3. CASE /\ InvoiceMayConfirm(RowInvoice(c))
             /\ WritePayment(c, "CONFIRMING", confirm[c].confirmations)
             /\ WriteInvoice(c, "CONFIRMING")
             /\ Continue(c)
             /\ UNCHANGED events
    <2>1. "CONFIRMING" \in PaymentStatus
          /\ "CONFIRMING" \notin PaymentVerdicts \cup {Absent, "PENDING"}
      BY DEF PaymentStatus, PaymentVerdicts, Absent
    <2>2. LifeInv'
      BY <1>1, <1>3, <2>1, Sides, WriteLife
    <2>3. Row(c).invoice \in Invoices
      BY <1>1, RowInHand DEF EvmInv
    <2>4. UNCHANGED overdue
      BY <1>1, <1>3, ContinueReads DEF EvmInv
    <2>5. invoice[Row(c).invoice] \in {"CONFIRMING", "DETECTED"}
      BY <1>1, <1>3, InHandIsCurrent
         DEF InvoiceMayConfirm, CanTransitionInvoice, InvoiceTransitions
    <2>6. CASE invoice[Row(c).invoice] = "CONFIRMING"
      BY <1>3, <2>2, <2>4, <2>6, SameInvoice DEF EvmInv, LifeGoesOn
    <2>7. CASE invoice[Row(c).invoice] = "DETECTED"
      <3>1. Life!Confirm(Row(c).invoice)
        BY <1>3, <2>4, <2>7 DEF WriteInvoice, Life!Confirm, Life!Become
      <3> QED  BY <2>2, <2>3, <3>1 DEF LifeGoesOn, Life!LifeStep
    <2> QED  BY <2>5, <2>6, <2>7
  <1> QED  BY <1>2, <1>3 DEF MoveToConfirming

\* The count of confirmations is not the merchant's.
LEMMA UpdateConfirmationsLife ==
    ASSUME OneConfirmer, EvmInv, NEW c \in Confirmers, UpdateConfirmations(c)
    PROVE  LifeInv' /\ LifeGoesOn
  <1>1. InHand(c) /\ Continue(c) /\ UNCHANGED <<invoice, events>>
        /\ Row(c).status = "CONFIRMING"
    BY DEF UpdateConfirmations, InHand
  <1>2. CASE UNCHANGED payment
    BY <1>1, <1>2, ContinueLife
  <1>3. CASE WritePayment(c, payment[confirm[c].tx].status, confirm[c].confirmations)
    <2>1. "CONFIRMING" \in PaymentStatus
          /\ "CONFIRMING" \notin PaymentVerdicts \cup {Absent, "PENDING"}
      BY DEF PaymentStatus, PaymentVerdicts, Absent
    <2>2. /\ payment[confirm[c].tx].status = "CONFIRMING"
          /\ invoice[Row(c).invoice] = "CONFIRMING"
      BY <1>1, InHandIsCurrent
    <2>3. WriteInvoice(c, "CONFIRMING")
      BY <1>1, <2>2, SameInvoice DEF EvmInv
    <2>4. LifeInv'
      BY <1>1, <1>3, <2>1, <2>2, <2>3, Sides, WriteLife
    <2>5. UNCHANGED overdue
      BY <1>1, ContinueReads DEF EvmInv
    <2> QED  BY <1>1, <2>4, <2>5 DEF LifeGoesOn
  <1> QED  BY <1>2, <1>3 DEF UpdateConfirmations

\* One verdict in three places: payment, invoice, event.
LEMMA FinalizePaymentLife ==
    ASSUME OneConfirmer, EvmInv, NEW c \in Confirmers, FinalizePayment(c)
    PROVE  LifeInv' /\ LifeGoesOn
  <1> DEFINE i == Row(c).invoice
             outcome == EvaluatePaymentAmount(Terms[i].amount, Row(c).received)
  <1>1. InHand(c) /\ Row(c).status = "CONFIRMING"
    BY DEF FinalizePayment, InHand
  <1>2. outcome \in {"exact", "underpaid", "overpaid"}
    BY <1>1, OutcomeInHand DEF EvmInv
  <1>3. /\ Continue(c)
        /\ WritePayment(c, PaymentVerdict(outcome), confirm[c].confirmations)
        /\ WriteInvoice(c, InvoiceVerdict(outcome))
        /\ events' = [events EXCEPT ![i] = Append(@, EventType(outcome))]
    BY DEF FinalizePayment
  <1>4. i \in Invoices /\ invoice[i] = "CONFIRMING"
    BY <1>1, RowInHand, InHandIsCurrent DEF EvmInv
  <1>5. \A j \in Invoices : j # i => events'[j] = events[j]
    BY <1>3 DEF EvmInv, TypeOK, DatabaseOK
  <1>6. UNCHANGED overdue
    BY <1>1, <1>3, ContinueReads DEF EvmInv
  <1>7. LifeInv'
    <2> DEFINE status == PaymentVerdict(outcome)
    <2>1. status = PaymentVerdict(EvaluatePaymentAmount(
                      Terms[Row(c).invoice].amount, Row(c).received))
      OBVIOUS
    <2>2. status \in PaymentStatus
      BY <1>2, VerdictTypes
    <2>3. InvoiceSide(status) = InvoiceVerdict(outcome)
      BY <1>2, Sides
    <2>4. InvoiceVerdict(outcome) \notin {Absent, "PENDING"}
      BY <1>2 DEF InvoiceVerdict, Absent
    <2>5. WritePayment(c, status, confirm[c].confirmations)
      BY <1>3
    <2> HIDE DEF status, outcome
    <2> QED  BY <1>1, <1>3, <1>5, <2>1, <2>2, <2>3, <2>4, <2>5, WriteLife
  <1>8. Life!Settle(i, InvoiceVerdict(outcome)) /\ InvoiceVerdict(outcome) \in InvoiceVerdicts
    <2> HIDE DEF outcome
    <2>1. EventType(outcome) = Life!EventOf(InvoiceVerdict(outcome))
          /\ InvoiceVerdict(outcome) \in InvoiceVerdicts
      BY <1>2, Sides
    <2> QED
      BY <1>3, <1>4, <1>6, <2>1 DEF WriteInvoice, Life!Settle, Life!BecomeAndTell
  <1> HIDE DEF outcome
  <1>9. InvoiceVerdict(outcome) \in Life!InvoiceVerdicts
    BY <1>8 DEF InvoiceVerdicts, Life!InvoiceVerdicts
  <1> QED  BY <1>4, <1>7, <1>8, <1>9 DEF LifeGoesOn, Life!LifeStep

LEMMA ConfirmLife ==
    ASSUME OneConfirmer, EvmInv, NEW c \in Confirmers,
           ConfirmPass(c) \/ ConfirmInterrupted(c)
    PROVE  LifeInv' /\ LifeGoesOn
  BY ConfirmBeginLife, ConfirmExpireLife, ConfirmListLife, ConfirmAskLife,
     HandleMissingLife, MoveToConfirmingLife, UpdateConfirmationsLife,
     FinalizePaymentLife, ConfirmDropsLife
     DEF ConfirmPass

----------------------------------------------------------------------------
\* Every step keeps the two stories one, and shows the merchant a step of the
\* life of an invoice or nothing.
LEMMA LifeStep ==
    OneScanner /\ OneConfirmer /\ EvmInv /\ [Next]_vars => LifeInv' /\ LifeGoesOn
  <1> SUFFICES ASSUME OneScanner, OneConfirmer, EvmInv, [Next]_vars
               PROVE  LifeInv' /\ LifeGoesOn
    OBVIOUS
  <1>1. CASE UNCHANGED vars
    <2>1. \A s \in Scanners : ChosenOK(s)'
      BY <1>1 DEF vars, EvmInv, LifeInv, ChosenOK, Selecting
    <2> QED
      BY <1>1, <2>1, TablesStay, LocalsStay DEF vars, EvmInv, LifeInv, LifeGoesOn
  <1> QED  BY <1>1, EnvironmentLife, ScanLife, ConfirmLife DEF Next

LEMMA EvmInvAlways == ASSUME OneScanner, OneConfirmer PROVE Spec => []EvmInv
  <1>1. Init => EvmInv
    BY InitType, InitAttach, InitSnapshot, InitLife DEF EvmInv
  <1>2. EvmInv /\ [Next]_vars => EvmInv'
    BY TypeStep, AttachStep, SnapshotStep, LifeStep DEF EvmInv
  <1> QED  BY <1>1, <1>2, PTL DEF Spec

\* In the worker's tables payment and invoice never tell two stories, through
\* crashes, aborted passes and reorganisations: the expiry race, an EXPIRED
\* invoice over a DETECTED payment, is the one exception.
THEOREM StatusesAgreeAlways ==
    ASSUME OneScanner, OneConfirmer PROVE Spec => []StatusesAgree
  <1>1. EvmInv => StatusesAgree
    BY DEF EvmInv, LifeInv, TablesAgree, Agrees, JustVerdict, PaidFor, Present, StatusesAgree
  <1> QED  BY <1>1, EvmInvAlways, PTL

\* runBlockchainScan and runPaymentConfirm, at every interleaving of their
\* awaits, implement InvoiceLife: the merchant is told one verdict, once, and
\* an invoice leaves EXPIRED only for the transfer it lost the race to.
THEOREM ImplementsLife ==
    ASSUME OneScanner, OneConfirmer PROVE Spec => ImplementsInvoiceLife
  <1>1. Init => Life!Init
    BY DEF Init, Life!Init, Life!Absent, Absent
  <1>2. EvmInv /\ [Next]_vars => [Life!Next]_Life!lifeVars
    <2> SUFFICES ASSUME EvmInv, [Next]_vars PROVE [Life!Next]_Life!lifeVars
      OBVIOUS
    <2>1. LifeGoesOn
      BY LifeStep
    <2> QED  BY <2>1 DEF LifeGoesOn, Life!Next, Life!lifeVars
  <1> QED  BY <1>1, <1>2, EvmInvAlways, PTL DEF Spec, ImplementsInvoiceLife, Life!Spec

=============================================================================
