-------------------------- MODULE InvoiceCreation --------------------------
(***************************************************************************)
(* POST /v1/invoices for one organization, network and token: the API-key  *)
(* guards, the replay of an externalId, the deposit address the invoice     *)
(* copies, the insert and its audit record.  Every database call is a      *)
(* step; requests overlap, fail in mid-way, and are sent again.            *)
(***************************************************************************)
EXTENDS Naturals, Sequences, FiniteSets

CONSTANTS
    Clients,        \* one request of the merchant's shop each
    Inputs,         \* what they may ask for together: functions from Clients
    NoExternalId,   \* the externalId of an input without one
    Addresses,      \* addresses the merchant may type in the dashboard
    MaxFaults       \* bound on requests that die or lose their answer

\* The address generateFakeAddress makes for c: nobody else's.
Generated(c) == <<"generated for", c>>
NoAddress == <<"none">>
Typed(a) == <<"typed", a>>

VARIABLES
    mode,       \* BLOCKCHAIN_MODE
    input,      \* input[c]: the externalId and the terms c asks for
    apiKey,     \* ApiKey: "writes" (has invoices:write), "reads" or "revoked"
    address,    \* MerchantWalletAddress.address, or NoAddress
    rows,       \* the Invoice rows, in the order of their inserts
    audit,      \* the invoices with an invoice.create audit record
    request,    \* request[c]: where it is, what it read, what it was answered
    faults,     \* number of interruptions so far
    past        \* history: every deposit address there has been

given == <<mode, input>>
vars == <<mode, input, apiKey, address, rows, audit, request, faults, past>>

Unsent == [pc |-> "new", address |-> NoAddress, invoice |-> 0]

Init ==
    /\ mode \in {"fake", "evm"}
    /\ input \in Inputs
    /\ apiKey \in {"writes", "reads"}
    /\ address = NoAddress
    /\ rows = << >>
    /\ audit = {}
    /\ request = [c \in Clients |-> Unsent]
    /\ faults = 0
    /\ past = {}

At(c, pc) == request[c].pc = pc

Goto(c, pc) == request' = [request EXCEPT ![c].pc = pc]

AnswerWith(c, id) == request' = [request EXCEPT ![c].pc = "ok", ![c].invoice = id]

----------------------------------------------------------------------------
\* The dashboard

RevokeKey ==
    /\ apiKey # "revoked"
    /\ apiKey' = "revoked"
    /\ UNCHANGED <<given, address, rows, audit, request, faults, past>>

\* WalletAddressesService.set: an upsert.
SetAddress(a) ==
    /\ address' = Typed(a)
    /\ past' = past \cup {Typed(a)}
    /\ UNCHANGED <<given, apiKey, rows, audit, request, faults>>

----------------------------------------------------------------------------
\* The request

\* Sent for the first time, or again after an error.
Send(c) ==
    /\ At(c, "new") \/ At(c, "error")
    /\ request' = [request EXCEPT ![c] = [Unsent EXCEPT !.pc = "guard"]]
    /\ UNCHANGED <<given, apiKey, address, rows, audit, faults, past>>

\* ApiKeyAuthGuard, then ScopesGuard with what that read of the key.
Verdict == CASE apiKey = "revoked" -> "unauthorized"
             [] apiKey = "reads"   -> "forbidden"
             [] OTHER              -> "lookup"

CanActivate(c) ==
    /\ At(c, "guard")
    /\ Goto(c, Verdict)
    /\ UNCHANGED <<given, apiKey, address, rows, audit, faults, past>>

\* The row (organizationId, externalId) points at, if there is one.
WithExternalId(c) ==
    {n \in DOMAIN rows : /\ input[c].external # NoExternalId
                         /\ rows[n].external = input[c].external}

AssertIdempotentReplay(c, n) == rows[n].terms = input[c].terms

FindExternalId(c) ==
    /\ At(c, "lookup")
    /\ \/ /\ WithExternalId(c) = {}
          /\ Goto(c, "address")
       \/ \E n \in WithExternalId(c) :
             IF AssertIdempotentReplay(c, n) THEN AnswerWith(c, n) ELSE Goto(c, "conflict")
    /\ UNCHANGED <<given, apiKey, address, rows, audit, faults, past>>

\* Slip: the row found is not used.
HasAddressNever == FALSE

HasAddress == address # NoAddress

\* The findUnique of getDepositAddress.
GetDepositAddress(c) ==
    /\ At(c, "address")
    /\ IF HasAddress
       THEN request' = [request EXCEPT ![c].pc = "insert", ![c].address = address]
       ELSE Goto(c, IF mode = "fake" THEN "provision" ELSE "no address")
    /\ UNCHANGED <<given, apiKey, address, rows, audit, faults, past>>

\* Slip: the insert is an upsert.
ProvisionAgain == TRUE

\* The unique key (organizationId, network, token).
MayProvision == address = NoAddress

ProvisionAddress(c) ==
    /\ At(c, "provision")
    /\ IF MayProvision
       THEN /\ address' = Generated(c)
            /\ past' = past \cup {Generated(c)}
            /\ request' = [request EXCEPT ![c].pc = "insert", ![c].address = Generated(c)]
       ELSE /\ Goto(c, "error")
            /\ UNCHANGED <<address, past>>
    /\ UNCHANGED <<given, apiKey, rows, audit, faults>>

\* Slip: no unique key.
MayInsertTwice(c) == TRUE

\* The unique key (organizationId, externalId).
MayInsert(c) == WithExternalId(c) = {}

Row(c) == [external |-> input[c].external, terms |-> input[c].terms,
           address |-> request[c].address]

CreateInvoice(c) ==
    /\ At(c, "insert")
    /\ IF MayInsert(c)
       THEN /\ rows' = Append(rows, Row(c))
            /\ request' = [request EXCEPT ![c].pc = "audit",
                                          ![c].invoice = Len(rows) + 1]
       ELSE /\ Goto(c, "error")
            /\ UNCHANGED rows
    /\ UNCHANGED <<given, apiKey, address, audit, faults, past>>

\* Slip: the record is filed under the last invoice there is.
LastInvoice(c) == Len(rows)

Audited(c) == request[c].invoice

RecordAudit(c) ==
    /\ At(c, "audit")
    /\ audit' = audit \cup {Audited(c)}
    /\ AnswerWith(c, request[c].invoice)
    /\ UNCHANGED <<given, apiKey, address, rows, faults, past>>

Running == {"guard", "lookup", "address", "provision", "insert", "audit"}

\* The process dies, the database throws, or the answer is lost on its way.
Interrupted(c) ==
    /\ request[c].pc \in Running \cup {"ok"}
    /\ faults < MaxFaults
    /\ faults' = faults + 1
    /\ Goto(c, "error")
    /\ UNCHANGED <<given, apiKey, address, rows, audit, past>>

RequestStep(c) ==
    \/ Send(c) \/ CanActivate(c) \/ FindExternalId(c) \/ GetDepositAddress(c)
    \/ ProvisionAddress(c) \/ CreateInvoice(c) \/ RecordAudit(c)

Next ==
    \/ RevokeKey
    \/ \E a \in Addresses : SetAddress(a)
    \/ \E c \in Clients : RequestStep(c) \/ Interrupted(c)

Spec == Init /\ [][Next]_vars

\* The shop sends a request again until it gets an answer other than an error.
Fairness == \A c \in Clients : WF_vars(RequestStep(c))

FairSpec == Spec /\ Fairness

----------------------------------------------------------------------------
Answered(c) == At(c, "ok")

\* The idempotency boundary: whoever is answered with an invoice gets one of
\* the terms asked for, and all who used one externalId get the same one.
ReplaysAgree ==
    \A c \in Clients : Answered(c) =>
        /\ rows[request[c].invoice].terms = input[c].terms
        /\ \A d \in Clients :
              Answered(d) /\ input[c].external = input[d].external
                          /\ input[c].external # NoExternalId
                  => request[c].invoice = request[d].invoice

\* Overlapping first invoices provision one address, and customers are sent to
\* no address but those the organization had.
OneGeneratedAddress ==
    /\ \A n \in DOMAIN rows : rows[n].address \in past
    /\ \A c, d \in Clients : {Generated(c), Generated(d)} \subseteq past => c = d

\* An invoice goes without an audit record only while its request runs, or
\* when that request was interrupted.
AuditGapsAreFaults ==
    Cardinality(DOMAIN rows \ audit)
        <= Cardinality({c \in Clients : At(c, "audit")}) + faults

\* A request that is sent again after each error gets a definite answer: what
\* an earlier try left behind never stands in the way for ever.
RetriedRequestEnds ==
    \A c \in Clients :
        <>[](request[c].pc \in {"ok", "conflict", "unauthorized", "forbidden",
                              "no address"})

=============================================================================
