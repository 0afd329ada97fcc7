---------------------------- MODULE InvoiceLife ----------------------------
(***************************************************************************)
(* What a merchant and a customer may see of an invoice: its status, and   *)
(* the webhook events that tell of it.  Both payment pipelines, the        *)
(* worker's on a real chain and the API's on the fake one, are shown to    *)
(* implement this module.                                                  *)
(*                                                                         *)
(* Racing says whether detection and expiry run in different queues.  Then *)
(* each may act on a row the other has just written: an invoice may be     *)
(* reported expired and paid for.  Nothing else is left open: one verdict, *)
(* told once, after CONFIRMING and never taken back.                       *)
(***************************************************************************)
EXTENDS Sequences, PaymentDomain

CONSTANTS Invoices, Racing

VARIABLES
    status,     \* status[i]: Invoice.status
    lapsed,     \* the invoices whose expiresAt passed while PENDING
    heard       \* heard[i]: types of the WebhookEvents of i, oldest first

lifeVars == <<status, lapsed, heard>>

Init ==
    /\ status = [i \in Invoices |-> Absent]
    /\ lapsed = {}
    /\ heard = [i \in Invoices |-> << >>]

\* The one event each verdict is told with.
EventOf(verdict) ==
    CASE verdict = "PAID" -> "payment.paid"
      [] verdict = "UNDERPAID" -> "payment.underpaid"
      [] verdict = "OVERPAID" -> "payment.overpaid"
      [] verdict = "EXPIRED" -> "invoice.expired"

Become(i, new) ==
    /\ status' = [status EXCEPT ![i] = new]
    /\ UNCHANGED <<lapsed, heard>>

BecomeAndTell(i, new) ==
    /\ status' = [status EXCEPT ![i] = new]
    /\ heard' = [heard EXCEPT ![i] = Append(@, EventOf(new))]
    /\ UNCHANGED lapsed

Create(i) == status[i] = Absent /\ Become(i, "PENDING")

Lapse(i) ==
    /\ status[i] = "PENDING"
    /\ lapsed' = lapsed \cup {i}
    /\ UNCHANGED <<status, heard>>

Expire(i) ==
    /\ i \in lapsed
    /\ heard[i] = << >>
    /\ status[i] = "PENDING" \/ (Racing /\ status[i] = "DETECTED")
    /\ BecomeAndTell(i, "EXPIRED")

Detect(i) ==
    /\ status[i] = "PENDING" \/ (Racing /\ status[i] = "EXPIRED")
    /\ Become(i, "DETECTED")

Confirm(i) == status[i] = "DETECTED" /\ Become(i, "CONFIRMING")

Settle(i, verdict) ==
    /\ status[i] = "CONFIRMING"
    /\ BecomeAndTell(i, verdict)

Fail(i) == status[i] \in {"DETECTED", "CONFIRMING"} /\ Become(i, "FAILED")

LifeStep(i) ==
    \/ Create(i) \/ Lapse(i) \/ Expire(i) \/ Detect(i) \/ Confirm(i) \/ Fail(i)
    \/ \E verdict \in InvoiceVerdicts : Settle(i, verdict)

Next == \E i \in Invoices : LifeStep(i)

Spec == Init /\ [][Next]_lifeVars
=============================================================================
