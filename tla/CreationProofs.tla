--------------------------- MODULE CreationProofs ---------------------------
(***************************************************************************)
(* Proofs about invoice creation, for any requests, addresses and          *)
(* interruptions.                                                          *)
(*                                                                         *)
(* The argument: a request that is past its insert, or that a replay       *)
(* answers, has an invoice of its own externalId and terms in hand, and    *)
(* the unique key leaves one invoice to an externalId; an address is       *)
(* provisioned only while there never was any.  Each request that is to    *)
(* write an audit record has an unaudited invoice of its own.              *)
(***************************************************************************)
EXTENDS InvoiceCreation, FiniteSetTheorems, TLAPS

Places == {Generated(c) : c \in Clients} \cup {Typed(a) : a \in Addresses}

InvoiceRow == [external : {input[c].external : c \in Clients},
               terms : {input[c].terms : c \in Clients},
               address : Places]

Pcs == Running \cup {"new", "error", "ok", "conflict", "unauthorized", "forbidden",
                  "no address"}

Request == [pc : Pcs, address : Places \cup {NoAddress}, invoice : Nat]

\* The address an organization has, and those it had.
AddressOK ==
    /\ past \subseteq Places
    /\ address \in past \cup {NoAddress}
    /\ address = NoAddress => past = {}
    /\ \A c, d \in Clients : {Generated(c), Generated(d)} \subseteq past => c = d

RowsOK ==
    /\ rows \in Seq(InvoiceRow)
    /\ \A n \in DOMAIN rows : rows[n].address \in past
    /\ \A m, n \in DOMAIN rows :
          rows[m].external = rows[n].external /\ rows[n].external # NoExternalId => m = n

\* The invoice a request has in hand is the one it asked for.
GoodRequest(c, r) ==
    /\ r.pc = "insert" => r.address \in past
    /\ r.pc \in {"audit", "ok"} =>
          /\ r.invoice \in DOMAIN rows
          /\ rows[r.invoice].external = input[c].external
          /\ rows[r.invoice].terms = input[c].terms

RequestsOK ==
    /\ request \in [Clients -> Request]
    /\ \A c \in Clients : GoodRequest(c, request[c])

CreationInv == AddressOK /\ RowsOK /\ RequestsOK

----------------------------------------------------------------------------
\* Addresses of different origin differ.
LEMMA PlacesDiffer ==
    /\ NoAddress \notin Places
    /\ \A c \in Clients, a \in Addresses : Generated(c) # Typed(a)
    /\ \A c, d \in Clients : Generated(c) = Generated(d) => c = d
  BY DEF Places, Generated, Typed, NoAddress

\* A request moves on and keeps what it has in hand.
LEMMA MovedRequest ==
    ASSUME NEW r \in Request, NEW pc \in Pcs
    PROVE  /\ [r EXCEPT !.pc = pc] \in Request
           /\ [r EXCEPT !.pc = pc].pc = pc
           /\ [r EXCEPT !.pc = pc].address = r.address
           /\ [r EXCEPT !.pc = pc].invoice = r.invoice
  BY DEF Request

\* One request changes to a good one.
LEMMA RequestChanges ==
    ASSUME CreationInv, NEW c \in Clients, NEW r \in Request, GoodRequest(c, r),
           request' = [request EXCEPT ![c] = r],
           UNCHANGED <<input, address, past, rows>>
    PROVE  CreationInv'
<1>1. request' \in [Clients -> Request] /\ \A d \in Clients : GoodRequest(d, request'[d])
  BY DEF CreationInv, RequestsOK
<1>2. RequestsOK'
  BY <1>1 DEF RequestsOK, GoodRequest, Request
<1>3. AddressOK' /\ RowsOK'
  BY DEF CreationInv, AddressOK, RowsOK, InvoiceRow
<1> QED
  BY <1>2, <1>3 DEF CreationInv

\* A request goes on without an invoice.
LEMMA GotoStep ==
    ASSUME CreationInv, NEW c \in Clients, NEW pc \in Pcs \ {"insert", "audit", "ok"},
           Goto(c, pc), UNCHANGED <<input, address, past, rows>>
    PROVE  CreationInv'
<1> DEFINE r == [request[c] EXCEPT !.pc = pc]
<1>1. request[c] \in Request
  BY DEF CreationInv, RequestsOK
<1>2. r \in Request /\ r.pc = pc
  BY <1>1, MovedRequest
<1>3. request' = [request EXCEPT ![c] = r]
  BY DEF Goto
<1> HIDE DEF r
<1>4. GoodRequest(c, r)
  BY <1>2 DEF GoodRequest
<1> QED
  BY <1>2, <1>3, <1>4, RequestChanges

----------------------------------------------------------------------------
\* At first there is no invoice and no address.
LEMMA InitCreation == Init => CreationInv
<1> SUFFICES ASSUME Init PROVE CreationInv
  OBVIOUS
<1>1. Unsent \in Request /\ Unsent.pc = "new"
  BY DEF Unsent, Request, Pcs
<1>2. RequestsOK
  BY <1>1 DEF Init, RequestsOK, GoodRequest
<1>3. RowsOK
  BY DEF Init, RowsOK
<1>4. AddressOK
  BY DEF Init, AddressOK
<1> QED
  BY <1>2, <1>3, <1>4 DEF CreationInv

\* The dashboard's address is one the organization has had from then on.
LEMMA SetAddressCreation ==
    ASSUME CreationInv, NEW a \in Addresses, SetAddress(a)
    PROVE  CreationInv'
<1>1. /\ address' = Typed(a) /\ past' = past \cup {Typed(a)}
      /\ UNCHANGED <<input, rows, request>>
  BY DEF SetAddress, given
<1>2. Typed(a) \in Places
  BY DEF Places
<1>3. AddressOK'
  <2>1. \A c \in Clients : Generated(c) \in past' => Generated(c) \in past
    BY <1>1, PlacesDiffer
  <2>2. Typed(a) # NoAddress
    BY <1>2, PlacesDiffer
  <2> HIDE DEF Typed
  <2> QED
    BY <1>1, <1>2, <2>1, <2>2 DEF CreationInv, AddressOK, Places
<1>4. RowsOK'
  BY <1>1 DEF CreationInv, RowsOK, InvoiceRow
<1>5. RequestsOK'
  BY <1>1 DEF CreationInv, RequestsOK, GoodRequest
<1> QED
  BY <1>3, <1>4, <1>5 DEF CreationInv

\* What a request does before it writes anything.
LEMMA ReadsCreation ==
    ASSUME CreationInv, NEW c \in Clients,
           Send(c) \/ CanActivate(c) \/ FindExternalId(c) \/ GetDepositAddress(c)
    PROVE  CreationInv'
<1> USE DEF given
<1>1. CASE Send(c)
  <2> DEFINE r == [Unsent EXCEPT !.pc = "guard"]
  <2>1. r \in Request /\ r.pc = "guard"
    BY DEF Unsent, Request, Pcs, Running
  <2>2. request' = [request EXCEPT ![c] = r] /\ UNCHANGED <<input, address, past, rows>>
    BY <1>1 DEF Send
  <2> HIDE DEF r
  <2>3. GoodRequest(c, r)
    BY <2>1 DEF GoodRequest
  <2> QED
    BY <2>1, <2>2, <2>3, RequestChanges
<1>2. CASE CanActivate(c)
  <2>1. \E pc \in {"lookup", "unauthorized", "forbidden"} : Goto(c, pc)
    BY <1>2 DEF CanActivate, Verdict
  <2>2. {"lookup", "unauthorized", "forbidden"} \subseteq Pcs \ {"insert", "audit", "ok"}
    BY DEF Pcs, Running
  <2> QED
    BY <1>2, <2>1, <2>2, GotoStep DEF CanActivate
<1>3. CASE FindExternalId(c)
  <2>1. UNCHANGED <<input, address, past, rows>>
    BY <1>3 DEF FindExternalId
  <2>2. ASSUME NEW pc \in {"address", "conflict"}, Goto(c, pc) PROVE CreationInv'
    <3>1. pc \in Pcs \ {"insert", "audit", "ok"}
      BY DEF Pcs, Running
    <3> QED
      BY <2>1, <2>2, <3>1, GotoStep
  <2>3. ASSUME NEW n \in WithExternalId(c), AssertIdempotentReplay(c, n), AnswerWith(c, n)
        PROVE  CreationInv'
    <3> DEFINE r == [request[c] EXCEPT !.pc = "ok", !.invoice = n]
    <3>1. /\ n \in DOMAIN rows
          /\ rows[n].external = input[c].external
          /\ rows[n].terms = input[c].terms
      BY <2>3 DEF WithExternalId, AssertIdempotentReplay
    <3>2. request[c] \in Request /\ n \in Nat
      BY <3>1 DEF CreationInv, RequestsOK, RowsOK
    <3>3. r \in Request /\ r.pc = "ok" /\ r.invoice = n
      BY <3>2 DEF Request, Pcs
    <3>4. request' = [request EXCEPT ![c] = r]
      BY <2>3 DEF AnswerWith
    <3> HIDE DEF r
    <3>5. GoodRequest(c, r)
      BY <3>1, <3>3 DEF GoodRequest
    <3> QED
      BY <2>1, <3>3, <3>4, <3>5, RequestChanges
  <2> QED
    BY <1>3, <2>2, <2>3 DEF FindExternalId
<1>4. CASE GetDepositAddress(c)
  <2>1. UNCHANGED <<input, address, past, rows>>
    BY <1>4 DEF GetDepositAddress
  <2>2. ASSUME NEW pc \in {"provision", "no address"}, Goto(c, pc) PROVE CreationInv'
    <3>1. pc \in Pcs \ {"insert", "audit", "ok"}
      BY DEF Pcs, Running
    <3> QED
      BY <2>1, <2>2, <3>1, GotoStep
  <2>3. CASE HasAddress
    <3> DEFINE r == [request[c] EXCEPT !.pc = "insert", !.address = address]
    <3>1. request[c] \in Request /\ address \in past /\ address \in Places
      BY <2>3 DEF CreationInv, RequestsOK, AddressOK, HasAddress
    <3>2. r \in Request /\ r.pc = "insert" /\ r.address = address
      BY <3>1 DEF Request, Pcs, Running
    <3>3. request' = [request EXCEPT ![c] = r]
      BY <1>4, <2>3 DEF GetDepositAddress
    <3> HIDE DEF r
    <3>4. GoodRequest(c, r)
      BY <3>1, <3>2 DEF GoodRequest
    <3> QED
      BY <2>1, <3>2, <3>3, <3>4, RequestChanges
  <2> QED
    BY <1>4, <2>2, <2>3 DEF GetDepositAddress
<1> QED
  BY <1>1, <1>2, <1>3, <1>4

\* The unique key of the address: none is generated beside another.
LEMMA ProvisionCreation ==
    ASSUME CreationInv, NEW c \in Clients, ProvisionAddress(c)
    PROVE  CreationInv'
<1>1. CASE ~MayProvision
  <2>1. "error" \in Pcs \ {"insert", "audit", "ok"}
    BY DEF Pcs
  <2> QED
    BY <1>1, <2>1, GotoStep DEF ProvisionAddress, given
<1>2. CASE MayProvision
  <2> DEFINE r == [request[c] EXCEPT !.pc = "insert", !.address = Generated(c)]
  <2>1. /\ address' = Generated(c) /\ past' = past \cup {Generated(c)}
        /\ request' = [request EXCEPT ![c] = r]
        /\ UNCHANGED <<input, rows>>
    BY <1>2 DEF ProvisionAddress, given
  <2>2. past = {}
    BY <1>2 DEF CreationInv, AddressOK, MayProvision
  <2>3. Generated(c) \in Places
    BY DEF Places
  <2>4. r \in Request /\ r.pc = "insert" /\ r.address = Generated(c)
    <3>1. request[c] \in Request
      BY DEF CreationInv, RequestsOK
    <3> QED
      BY <2>3, <3>1 DEF Request, Pcs, Running
  <2> HIDE DEF r
  <2>5. AddressOK'
    <3>1. Generated(c) # NoAddress
      BY <2>3, PlacesDiffer
    <3>2. past' = {Generated(c)}
      BY <2>1, <2>2
    <3>3. \A d, e \in Clients : {Generated(d), Generated(e)} \subseteq past' => d = e
      BY <3>2, PlacesDiffer
    <3> QED
      BY <2>1, <2>3, <3>1, <3>2, <3>3 DEF AddressOK, Places
  <2>6. RowsOK'
    BY <2>1 DEF CreationInv, RowsOK, InvoiceRow
  <2>7. request' \in [Clients -> Request]
    BY <2>1, <2>4 DEF CreationInv, RequestsOK
  <2>8. ASSUME NEW d \in Clients PROVE GoodRequest(d, request[d])'
    <3>1. CASE d = c
      <4>1. request'[d] = r
        BY <2>1, <3>1 DEF CreationInv, RequestsOK
      <4> QED
        BY <2>1, <2>4, <4>1 DEF GoodRequest
    <3>2. CASE d # c
      <4>1. request'[d] = request[d]
        BY <2>1, <3>2 DEF CreationInv, RequestsOK
      <4>2. GoodRequest(d, request[d])
        BY DEF CreationInv, RequestsOK
      <4> QED
        BY <2>1, <4>1, <4>2 DEF GoodRequest
    <3> QED
      BY <3>1, <3>2
  <2>9. RequestsOK'
    BY <2>7, <2>8 DEF RequestsOK, Request
  <2> QED
    BY <2>5, <2>6, <2>9 DEF CreationInv
<1> QED
  BY <1>1, <1>2

\* The unique key of the externalId: no second invoice for it.
LEMMA InsertCreation ==
    ASSUME CreationInv, NEW c \in Clients, CreateInvoice(c)
    PROVE  CreationInv'
<1>1. CASE ~MayInsert(c)
  <2>1. "error" \in Pcs \ {"insert", "audit", "ok"}
    BY DEF Pcs
  <2> QED
    BY <1>1, <2>1, GotoStep DEF CreateInvoice, given
<1>2. CASE MayInsert(c)
  <2> DEFINE n == Len(rows) + 1
             r == [request[c] EXCEPT !.pc = "audit", !.invoice = n]
             row == Row(c)
  <2>1. /\ rows' = Append(rows, row) /\ request' = [request EXCEPT ![c] = r]
        /\ UNCHANGED <<input, address, past>>
    BY <1>2 DEF CreateInvoice, given
  <2>2. request[c] \in Request /\ request[c].pc = "insert" /\ GoodRequest(c, request[c])
    BY DEF CreationInv, RequestsOK, CreateInvoice, At
  <2>3. /\ row.external = input[c].external /\ row.terms = input[c].terms
        /\ row.address = request[c].address
    BY DEF Row
  <2>4. row.address \in past /\ row \in InvoiceRow
    <3>1. request[c].address \in past /\ request[c].address \in Places
      BY <2>2 DEF GoodRequest, CreationInv, AddressOK
    <3> QED
      BY <3>1 DEF Row, InvoiceRow
  <2>5. rows \in Seq(InvoiceRow)
    BY DEF CreationInv, RowsOK
  <2> HIDE DEF row
  <2>6. /\ rows' \in Seq(InvoiceRow)
        /\ DOMAIN rows' = DOMAIN rows \cup {n}
        /\ n \notin DOMAIN rows /\ n \in Nat
        /\ rows'[n] = row
        /\ \A m \in DOMAIN rows : rows'[m] = rows[m]
    BY <2>1, <2>4, <2>5
  <2>7. r \in Request /\ r.pc = "audit" /\ r.invoice = n
    BY <2>2, <2>6 DEF Request, Pcs, Running
  <2> HIDE DEF n, r
  <2>8. \A m \in DOMAIN rows : rows[m].external = row.external => row.external = NoExternalId
    BY <1>2, <2>3 DEF MayInsert, WithExternalId
  <2>9. RowsOK'
    <3>1. \A m \in DOMAIN rows' : rows'[m].address \in past
      BY <2>4, <2>6 DEF CreationInv, RowsOK
    <3>2. \A l, m \in DOMAIN rows' :
             rows'[l].external = rows'[m].external /\ rows'[m].external # NoExternalId => l = m
      BY <2>6, <2>8 DEF CreationInv, RowsOK
    <3> QED
      BY <2>1, <2>6, <3>1, <3>2 DEF RowsOK, InvoiceRow
  <2>10. ASSUME NEW d \in Clients PROVE GoodRequest(d, request[d])'
    <3>1. CASE d = c
      <4>1. request'[d] = r
        BY <2>1, <3>1 DEF CreationInv, RequestsOK
      <4> QED
        BY <2>1, <2>3, <2>6, <2>7, <3>1, <4>1 DEF GoodRequest
    <3>2. CASE d # c
      <4>1. request'[d] = request[d] /\ GoodRequest(d, request[d])
        BY <2>1, <3>2 DEF CreationInv, RequestsOK
      <4> QED
        BY <2>1, <2>6, <4>1 DEF GoodRequest
    <3> QED
      BY <3>1, <3>2
  <2>11. RequestsOK'
    BY <2>1, <2>7, <2>10 DEF CreationInv, RequestsOK, Request
  <2>12. AddressOK'
    BY <2>1 DEF CreationInv, AddressOK
  <2> QED
    BY <2>9, <2>11, <2>12 DEF CreationInv
<1> QED
  BY <1>1, <1>2

\* What is left of a request once its invoice is there.
LEMMA RestCreation ==
    ASSUME CreationInv, NEW c \in Clients, RecordAudit(c) \/ Interrupted(c)
    PROVE  CreationInv'
<1>1. CASE RecordAudit(c)
  <2> DEFINE id == request[c].invoice
             r == [request[c] EXCEPT !.pc = "ok", !.invoice = id]
  <2>1. request[c] \in Request /\ request[c].pc = "audit" /\ GoodRequest(c, request[c])
    BY <1>1 DEF CreationInv, RequestsOK, RecordAudit, At
  <2>2. r \in Request /\ r.pc = "ok" /\ r.invoice = request[c].invoice
    BY <2>1 DEF Request, Pcs
  <2>3. request' = [request EXCEPT ![c] = r] /\ UNCHANGED <<input, address, past, rows>>
    BY <1>1 DEF RecordAudit, AnswerWith, given
  <2> HIDE DEF r
  <2>4. GoodRequest(c, r)
    BY <2>1, <2>2 DEF GoodRequest
  <2> QED
    BY <2>2, <2>3, <2>4, RequestChanges
<1>2. CASE Interrupted(c)
  <2>1. "error" \in Pcs \ {"insert", "audit", "ok"}
    BY DEF Pcs
  <2> QED
    BY <1>2, <2>1, GotoStep DEF Interrupted, given
<1> QED
  BY <1>1, <1>2

\* The invariant is inductive.
LEMMA NextCreation == CreationInv /\ [Next]_vars => CreationInv'
<1> SUFFICES ASSUME CreationInv, [Next]_vars PROVE CreationInv'
  OBVIOUS
<1>1. CASE RevokeKey \/ UNCHANGED vars
  <2>1. UNCHANGED <<input, address, past, rows, request>>
    BY <1>1 DEF RevokeKey, vars, given
  <2> QED
    BY <2>1 DEF CreationInv, AddressOK, RowsOK, RequestsOK, GoodRequest, InvoiceRow
<1>2. ASSUME NEW c \in Clients, RequestStep(c) \/ Interrupted(c) PROVE CreationInv'
  BY <1>2, ReadsCreation, ProvisionCreation, InsertCreation, RestCreation DEF RequestStep
<1> QED
  BY <1>1, <1>2, SetAddressCreation DEF Next

\* All who are answered have the one invoice of their externalId.
LEMMA AnswersAgree == CreationInv => ReplaysAgree
<1> SUFFICES ASSUME CreationInv, NEW c \in Clients, Answered(c)
    PROVE  /\ rows[request[c].invoice].terms = input[c].terms
           /\ \A d \in Clients :
                 Answered(d) /\ input[c].external = input[d].external
                             /\ input[c].external # NoExternalId
                     => request[c].invoice = request[d].invoice
  BY DEF ReplaysAgree
<1>1. \A d \in Clients : Answered(d) =>
         /\ request[d].invoice \in DOMAIN rows
         /\ rows[request[d].invoice].external = input[d].external
         /\ rows[request[d].invoice].terms = input[d].terms
  BY DEF CreationInv, RequestsOK, GoodRequest, Answered, At
<1> QED
  BY <1>1 DEF CreationInv, RowsOK

\* InvoicesService.create is idempotent: whoever is answered gets an invoice of
\* the terms asked for, and one externalId stands for one invoice, however the
\* requests overlap, fail and are sent again.
THEOREM ReplaysAgreeAlways == Spec => []ReplaysAgree
  BY InitCreation, NextCreation, AnswersAgree, PTL DEF Spec

\* WalletAddressesService provisions at most one address, and customers are sent
\* to no other address than those the organization had.
THEOREM OneAddressAlways == Spec => []OneGeneratedAddress
<1>1. CreationInv => OneGeneratedAddress
  BY DEF CreationInv, AddressOK, RowsOK, OneGeneratedAddress
<1> QED
  BY <1>1, InitCreation, NextCreation, PTL DEF Spec

----------------------------------------------------------------------------
(* Gaps in the audit log.  An invoice without a record is either in the    *)
(* hands of a request that is about to write it, each request one of its   *)
(* own, or was left by an interruption.                                    *)

Gaps == DOMAIN rows \ audit

Auditing == {c \in Clients : At(c, "audit")}

GapsInv ==
    /\ audit \subseteq DOMAIN rows
    /\ \A c \in Auditing : request[c].invoice \notin audit
    /\ \A c, d \in Auditing : request[c].invoice = request[d].invoice => c = d
    /\ faults \in Nat
    /\ IsFiniteSet(Gaps)
    /\ IsFiniteSet(Auditing)
    /\ Cardinality(Gaps) <= Cardinality(Auditing) + faults

\* Before the first invoice there are no gaps.
LEMMA InitGaps == Init => GapsInv
<1> SUFFICES ASSUME Init PROVE GapsInv
  OBVIOUS
<1>1. rows = << >> /\ audit = {} /\ faults = 0 /\ \A c \in Clients : request[c].pc = "new"
  BY DEF Init, Unsent
<1>2. Gaps = {} /\ Auditing = {}
  BY <1>1 DEF Gaps, Auditing, At
<1> QED
  BY <1>1, <1>2, FS_EmptySet DEF GapsInv

\* A request with no invoice to audit moves on and gets none.
LEMMA GapsStay ==
    ASSUME CreationInv, GapsInv, NEW c \in Clients, ~At(c, "audit"),
           NEW r, r.pc # "audit", request' = [request EXCEPT ![c] = r],
           UNCHANGED <<rows, audit>>, faults' \in Nat, faults <= faults'
    PROVE  GapsInv'
<1>1. \A d \in Clients : /\ At(d, "audit")' <=> At(d, "audit")
                         /\ At(d, "audit") => request'[d] = request[d]
  BY DEF At, CreationInv, RequestsOK
<1>2. Auditing' = Auditing
  BY <1>1 DEF Auditing
<1>3. Gaps' = Gaps
  BY DEF Gaps
<1>4. \A d \in Auditing : request'[d] = request[d]
  BY <1>1 DEF Auditing
<1>5. Cardinality(Gaps) \in Nat /\ Cardinality(Auditing) \in Nat
  BY FS_CardinalityType DEF GapsInv
<1> QED
  BY <1>2, <1>3, <1>4, <1>5 DEF GapsInv

\* Everything up to the insert, and an insert that is refused.
LEMMA BeforeInsertGaps ==
    ASSUME CreationInv, GapsInv, NEW c \in Clients,
           \/ Send(c) \/ CanActivate(c) \/ FindExternalId(c) \/ GetDepositAddress(c)
           \/ ProvisionAddress(c) \/ (CreateInvoice(c) /\ ~MayInsert(c))
    PROVE  GapsInv'
<1>1. UNCHANGED <<rows, audit, faults>> /\ ~At(c, "audit")
  BY DEF Send, CanActivate, FindExternalId, GetDepositAddress, ProvisionAddress, CreateInvoice, At
<1>2. faults' \in Nat /\ faults <= faults'
  BY <1>1 DEF GapsInv
<1>3. request[c] \in Request
  BY DEF CreationInv, RequestsOK
<1>4. ASSUME NEW pc \in Pcs \ {"audit"}, Goto(c, pc) PROVE GapsInv'
  <2> DEFINE r == [request[c] EXCEPT !.pc = pc]
  <2>1. request' = [request EXCEPT ![c] = r]
    BY <1>4 DEF Goto
  <2>2. r.pc # "audit"
    BY <1>3, <1>4, MovedRequest
  <2> HIDE DEF r
  <2> QED
    BY <1>1, <1>2, <2>1, <2>2, GapsStay
<1>5. {"lookup", "unauthorized", "forbidden", "address", "conflict", "provision",
       "no address", "error"}
         \subseteq Pcs \ {"audit"}
  BY DEF Pcs, Running
<1>6. CASE Send(c)
  <2>1. PICK r : r.pc = "guard" /\ request' = [request EXCEPT ![c] = r]
    BY <1>6 DEF Send, Unsent
  <2> QED
    BY <1>1, <1>2, <2>1, GapsStay
<1>7. CASE CanActivate(c)
  <2>1. \E pc \in {"lookup", "unauthorized", "forbidden"} : Goto(c, pc)
    BY <1>7 DEF CanActivate, Verdict
  <2> QED
    BY <1>4, <1>5, <2>1
<1>8. CASE FindExternalId(c)
  <2>1. CASE \E pc \in {"address", "conflict"} : Goto(c, pc)
    BY <1>4, <1>5, <2>1
  <2>2. CASE \E n \in WithExternalId(c) : AnswerWith(c, n)
    <3>1. PICK n : AnswerWith(c, n)
      BY <2>2
    <3> DEFINE r == [request[c] EXCEPT !.pc = "ok", !.invoice = n]
    <3>2. r.pc = "ok" /\ request' = [request EXCEPT ![c] = r]
      BY <1>3, <3>1 DEF AnswerWith, Request
    <3> HIDE DEF r
    <3> QED
      BY <1>1, <1>2, <3>2, GapsStay
  <2> QED
    BY <1>8, <2>1, <2>2 DEF FindExternalId
<1>9. CASE GetDepositAddress(c)
  <2>1. CASE HasAddress
    <3> DEFINE r == [request[c] EXCEPT !.pc = "insert", !.address = address]
    <3>1. r.pc = "insert" /\ request' = [request EXCEPT ![c] = r]
      BY <1>3, <1>9, <2>1 DEF GetDepositAddress, Request
    <3> HIDE DEF r
    <3> QED
      BY <1>1, <1>2, <3>1, GapsStay
  <2>2. CASE ~HasAddress
    <3>1. \E pc \in {"provision", "no address"} : Goto(c, pc)
      BY <1>9, <2>2 DEF GetDepositAddress
    <3> QED
      BY <1>4, <1>5, <3>1
  <2> QED
    BY <2>1, <2>2
<1>10. CASE ProvisionAddress(c)
  <2>1. CASE MayProvision
    <3> DEFINE r == [request[c] EXCEPT !.pc = "insert", !.address = Generated(c)]
    <3>1. r.pc = "insert" /\ request' = [request EXCEPT ![c] = r]
      BY <1>3, <1>10, <2>1 DEF ProvisionAddress, Request
    <3> HIDE DEF r
    <3> QED
      BY <1>1, <1>2, <3>1, GapsStay
  <2>2. CASE ~MayProvision
    BY <1>4, <1>5, <1>10, <2>2 DEF ProvisionAddress
  <2> QED
    BY <2>1, <2>2
<1>11. CASE CreateInvoice(c) /\ ~MayInsert(c)
  BY <1>4, <1>5, <1>11 DEF CreateInvoice
<1> QED
  BY <1>6, <1>7, <1>8, <1>9, <1>10, <1>11

\* An insert opens a gap, and puts it in the hands of its request.
LEMMA InsertGaps ==
    ASSUME CreationInv, GapsInv, NEW c \in Clients, CreateInvoice(c), MayInsert(c)
    PROVE  GapsInv'
<1> DEFINE n == Len(rows) + 1
           r == [request[c] EXCEPT !.pc = "audit", !.invoice = n]
<1>1. /\ rows' = Append(rows, Row(c)) /\ request' = [request EXCEPT ![c] = r]
      /\ UNCHANGED <<audit, faults>> /\ ~At(c, "audit")
  BY DEF CreateInvoice, At
<1>2. request[c] \in Request /\ rows \in Seq(InvoiceRow)
  BY DEF CreationInv, RequestsOK, RowsOK
<1>3. r.pc = "audit" /\ r.invoice = n
  BY <1>2 DEF Request
<1>4. DOMAIN rows' = DOMAIN rows \cup {n} /\ n \notin DOMAIN rows
  BY <1>1, <1>2
<1> HIDE DEF n, r
<1>5. request'[c] = r /\ \A d \in Clients \ {c} : request'[d] = request[d]
  BY <1>1 DEF CreationInv, RequestsOK
<1>6. Auditing' = Auditing \cup {c} /\ c \notin Auditing
  BY <1>1, <1>3, <1>5 DEF Auditing, At
<1>7. n \notin audit
  BY <1>4 DEF GapsInv
<1>8. Gaps' = Gaps \cup {n} /\ n \notin Gaps
  BY <1>1, <1>4, <1>7 DEF Gaps
<1>9. \A d \in Auditing : request[d].invoice \in DOMAIN rows
  BY DEF Auditing, At, CreationInv, RequestsOK, GoodRequest
<1>10. /\ audit' \subseteq DOMAIN rows'
       /\ \A d \in Auditing' : request'[d].invoice \notin audit'
       /\ \A d, e \in Auditing' : request'[d].invoice = request'[e].invoice => d = e
  <2>1. \A d \in Auditing : d \in Clients \ {c}
    BY <1>6 DEF Auditing
  <2>2. \A d \in Auditing : request'[d] = request[d]
    BY <1>5, <2>1
  <2> QED
    BY <1>1, <1>3, <1>4, <1>5, <1>6, <1>7, <1>9, <2>2 DEF GapsInv
<1>11. /\ IsFiniteSet(Gaps \cup {n}) /\ Cardinality(Gaps \cup {n}) = Cardinality(Gaps) + 1
       /\ IsFiniteSet(Auditing \cup {c})
       /\ Cardinality(Auditing \cup {c}) = Cardinality(Auditing) + 1
  BY <1>6, <1>8, FS_AddElement DEF GapsInv
<1>12. Cardinality(Gaps) \in Nat /\ Cardinality(Auditing) \in Nat
  BY FS_CardinalityType DEF GapsInv
<1> QED
  BY <1>1, <1>6, <1>8, <1>10, <1>11, <1>12 DEF GapsInv

\* The record closes the gap its request had in hand.
LEMMA RecordGaps ==
    ASSUME CreationInv, GapsInv, NEW c \in Clients, RecordAudit(c)
    PROVE  GapsInv'
<1> DEFINE id == request[c].invoice
           r == [request[c] EXCEPT !.pc = "ok", !.invoice = id]
<1>1. /\ audit' = audit \cup {id} /\ request' = [request EXCEPT ![c] = r]
      /\ UNCHANGED <<rows, faults>> /\ At(c, "audit")
  BY DEF RecordAudit, AnswerWith, Audited
<1>2. request[c] \in Request /\ c \in Auditing /\ id \in DOMAIN rows /\ id \notin audit
  BY <1>1 DEF CreationInv, RequestsOK, GoodRequest, Auditing, At, GapsInv
<1>3. r.pc = "ok"
  BY <1>2 DEF Request
<1>4. \A d \in Auditing \ {c} : request[d].invoice # id
  BY <1>2 DEF GapsInv
<1> HIDE DEF id, r
<1>5. request'[c] = r /\ \A d \in Clients \ {c} : request'[d] = request[d]
  BY <1>1 DEF CreationInv, RequestsOK
<1>6. Auditing' = Auditing \ {c}
  BY <1>3, <1>5 DEF Auditing, At
<1>7. Gaps' = Gaps \ {id} /\ id \in Gaps
  BY <1>1, <1>2 DEF Gaps
<1>8. /\ audit' \subseteq DOMAIN rows'
      /\ \A d \in Auditing' : request'[d].invoice \notin audit'
      /\ \A d, e \in Auditing' : request'[d].invoice = request'[e].invoice => d = e
  <2>1. \A d \in Auditing' : d \in Auditing \ {c} /\ request'[d] = request[d]
    BY <1>5, <1>6 DEF Auditing
  <2> QED
    BY <1>1, <1>2, <1>4, <2>1 DEF GapsInv
<1>9. /\ IsFiniteSet(Gaps \ {id}) /\ Cardinality(Gaps \ {id}) = Cardinality(Gaps) - 1
      /\ IsFiniteSet(Auditing \ {c})
      /\ Cardinality(Auditing \ {c}) = Cardinality(Auditing) - 1
  BY <1>2, <1>7, FS_RemoveElement DEF GapsInv
<1>10. Cardinality(Gaps) \in Nat /\ Cardinality(Auditing) \in Nat
  BY FS_CardinalityType DEF GapsInv
<1> QED
  BY <1>1, <1>6, <1>7, <1>8, <1>9, <1>10 DEF GapsInv

\* An interruption drops at most one invoice.
LEMMA InterruptedGaps ==
    ASSUME CreationInv, GapsInv, NEW c \in Clients, Interrupted(c)
    PROVE  GapsInv'
<1> DEFINE r == [request[c] EXCEPT !.pc = "error"]
<1>1. /\ request' = [request EXCEPT ![c] = r] /\ faults' = faults + 1
      /\ UNCHANGED <<rows, audit>>
  BY DEF Interrupted, Goto
<1>2. request[c] \in Request /\ faults \in Nat
  BY DEF CreationInv, RequestsOK, GapsInv
<1>3. r.pc = "error"
  BY <1>2 DEF Request
<1> HIDE DEF r
<1>4. CASE ~At(c, "audit")
  <2>1. faults' \in Nat /\ faults <= faults' /\ r.pc # "audit"
    BY <1>1, <1>2, <1>3
  <2> QED
    BY <1>1, <1>4, <2>1, GapsStay
<1>5. CASE At(c, "audit")
  <2>1. request'[c] = r /\ \A d \in Clients \ {c} : request'[d] = request[d]
    BY <1>1 DEF CreationInv, RequestsOK
  <2>2. Auditing' = Auditing \ {c} /\ c \in Auditing
    BY <1>3, <1>5, <2>1 DEF Auditing, At
  <2>3. \A d \in Auditing' : d \in Auditing /\ request'[d] = request[d]
    BY <2>1, <2>2 DEF Auditing
  <2>4. Gaps' = Gaps
    BY <1>1 DEF Gaps
  <2>5. /\ IsFiniteSet(Auditing \ {c})
        /\ Cardinality(Auditing \ {c}) = Cardinality(Auditing) - 1
    BY <2>2, FS_RemoveElement DEF GapsInv
  <2>6. Cardinality(Gaps) \in Nat /\ Cardinality(Auditing) \in Nat
    BY FS_CardinalityType DEF GapsInv
  <2> QED
    BY <1>1, <1>2, <2>2, <2>3, <2>4, <2>5, <2>6 DEF GapsInv
<1> QED
  BY <1>4, <1>5

LEMMA NextGaps == CreationInv /\ GapsInv /\ [Next]_vars => GapsInv'
<1> SUFFICES ASSUME CreationInv, GapsInv, [Next]_vars PROVE GapsInv'
  OBVIOUS
<1>1. ASSUME UNCHANGED <<request, rows, audit, faults>> PROVE GapsInv'
  BY <1>1 DEF GapsInv, Gaps, Auditing, At
<1>2. CASE RevokeKey \/ UNCHANGED vars \/ \E a \in Addresses : SetAddress(a)
  BY <1>1, <1>2 DEF RevokeKey, SetAddress, vars
<1>3. ASSUME NEW c \in Clients, RequestStep(c) PROVE GapsInv'
  BY <1>3, BeforeInsertGaps, InsertGaps, RecordGaps DEF RequestStep
<1> QED
  BY <1>2, <1>3, InterruptedGaps DEF Next

\* The audit record is written after the invoice, in a call of its own: there
\* are never more invoices without one than requests about to write it and
\* interruptions so far, however the inserts overlap.
THEOREM GapsAreFaults == Spec => []AuditGapsAreFaults
<1>1. CreationInv /\ GapsInv => AuditGapsAreFaults
  BY DEF GapsInv, Gaps, Auditing, AuditGapsAreFaults
<1> QED
  BY <1>1, InitCreation, NextCreation, InitGaps, NextGaps, PTL DEF Spec

=============================================================================
