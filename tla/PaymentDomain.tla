--------------------------- MODULE PaymentDomain ---------------------------
(***************************************************************************)
(* packages/payments: the two status machines, the amount verdict and the  *)
(* choice of the invoice an incoming transfer pays.  Everything here is a  *)
(* pure operator; the worker's and the API's modules are built from it.    *)
(***************************************************************************)
EXTENDS Naturals

\* An invoice or payment the database has no row for.
Absent == "ABSENT"

InvoiceStatus == {"CREATED", "PENDING", "DETECTED", "CONFIRMING", "PAID",
                  "UNDERPAID", "OVERPAID", "EXPIRED", "FAILED", "CANCELLED",
                  "REFUNDED"}

PaymentStatus == {"PENDING", "DETECTED", "CONFIRMING", "REORG_DETECTED",
                  "CONFIRMED", "UNDERPAID", "OVERPAID", "FAILED"}

InvoiceTransitions ==
    {<<"CREATED", "PENDING">>}
    \cup {"PENDING"} \X {"DETECTED", "EXPIRED", "CANCELLED"}
    \cup {"DETECTED"} \X {"CONFIRMING", "FAILED"}
    \cup {"CONFIRMING"} \X {"PAID", "UNDERPAID", "OVERPAID", "FAILED"}
    \cup {"PAID", "UNDERPAID", "OVERPAID"} \X {"REFUNDED"}

PaymentTransitions ==
    {"PENDING"} \X {"DETECTED", "FAILED"}
    \cup {"DETECTED"} \X {"CONFIRMING", "FAILED"}
    \cup {"CONFIRMING"} \X {"CONFIRMED", "UNDERPAID", "OVERPAID",
                            "REORG_DETECTED", "FAILED"}
    \cup {"REORG_DETECTED"} \X {"CONFIRMING", "FAILED"}

\* The asserts throw exactly when these are FALSE.
CanTransitionInvoice(from, to) == <<from, to>> \in InvoiceTransitions
CanTransitionPayment(from, to) == <<from, to>> \in PaymentTransitions

InvoiceVerdicts == {"PAID", "UNDERPAID", "OVERPAID"}
PaymentVerdicts == {"CONFIRMED", "UNDERPAID", "OVERPAID"}

EvaluatePaymentAmount(expected, received) ==
    CASE received = expected -> "exact"
      [] received < expected -> "underpaid"
      [] received > expected -> "overpaid"

(***************************************************************************)
(* An address is a record [wallet, spelling]: the 20 bytes, and the letter *)
(* case they are written in.  viem writes every log address in its         *)
(* checksum spelling; a merchant may store either.  matchesInvoice folds   *)
(* the case.                                                               *)
(***************************************************************************)
MatchesInvoice(target, transfer) ==
    /\ target.network = transfer.network
    /\ target.token = transfer.token
    /\ target.address.wallet = transfer.address.wallet

(***************************************************************************)
(* The invoices selectMatchingInvoice can return for a transfer, given the *)
(* candidates findMany produced: find() takes the first exact match in the *)
(* order of the rows, which no ORDER BY fixes; without one the oldest      *)
(* candidate wins.  The set is empty exactly when the code returns null.   *)
(***************************************************************************)
SelectMatchingInvoice(candidates, transfer) ==
    LET matching == {c \in candidates : MatchesInvoice(c, transfer)}
        exact    == {c \in matching : c.amount = transfer.amount}
        oldest   == {c \in matching :
                        \A d \in matching : c.createdAt <= d.createdAt}
    IN  IF exact # {} THEN exact ELSE oldest
=============================================================================
