---------------------------- MODULE CheckoutPage ----------------------------
(***************************************************************************)
(* The public checkout page of the web application, over the life of the   *)
(* invoices it shows.  Each tab keeps what its last fetch brought (data,   *)
(* error) and polls; at most one fetch of a tab is in flight, and its      *)
(* answer is as old as the moment the server read the row.  A tab that is  *)
(* hidden does not poll; shown again, it fetches.                          *)
(*                                                                         *)
(* The invoices live as InvoiceLife says.  The retries the query library   *)
(* makes of one fetch are part of that fetch.                              *)
(***************************************************************************)
EXTENDS InvoiceLife, Naturals

CONSTANTS
    Tabs,       \* browser tabs on a payment link
    LinkOf,     \* LinkOf[t]: the invoice of that link
    MaxErrors   \* bound on fetches that fail

ASSUME CheckoutAssumption ==
    /\ LinkOf \in [Tabs -> Invoices]
    /\ MaxErrors \in Nat

VARIABLES
    successUrl, \* the invoices that were created with a successUrl
    page,       \* page[t]: the query's state and the card's
    errors      \* number of failed fetches so far

pageVars == <<successUrl, page, errors>>
checkoutVars == <<lifeVars, pageVars>>

NoData == "no data"
NotFound == "not found"
Failed == "failed"

\* data is an InvoiceStatus or NoData; fetch is "idle", "asked" or the answer on
\* its way; late says that the countdown has ended, left that the page is gone,
\* hidden that another tab is in front of it.  isLoading: the first fetch is on
\* its way.
FreshPage == [data |-> NoData, error |-> "none", fetch |-> "asked",
              button |-> "ready", late |-> FALSE, left |-> FALSE, hidden |-> FALSE]

PageInit ==
    /\ Init
    /\ successUrl \in SUBSET Invoices
    /\ page = [t \in Tabs |-> FreshPage]
    /\ errors = 0

Update(t, new) ==
    /\ page' = [page EXCEPT ![t] = new]
    /\ UNCHANGED <<lifeVars, successUrl>>

----------------------------------------------------------------------------
\* The fetch

\* Slip: a payment that waits for its confirmations is not polled.
PendingStatuses == {"PENDING", "DETECTED"}

\* ACTIVE_STATUSES, the ones that refetchInterval keeps polling.
ActiveStatuses == {"PENDING", "DETECTED", "CONFIRMING"}

\* refetchInterval: no timer fetches in the background.
Poll(t) ==
    /\ ~page[t].left
    /\ ~page[t].hidden
    /\ page[t].fetch = "idle"
    /\ page[t].data \in ActiveStatuses
    /\ Update(t, [page[t] EXCEPT !.fetch = "asked"])
    /\ UNCHANGED errors

\* A query without data forgets its error.
Refetch(p) ==
    IF p.fetch # "idle" THEN p
    ELSE [p EXCEPT !.fetch = "asked", !.error = IF p.data = NoData THEN "none" ELSE @]

Hide(t) ==
    /\ ~page[t].left
    /\ ~page[t].hidden
    /\ Update(t, [page[t] EXCEPT !.hidden = TRUE])
    /\ UNCHANGED errors

\* refetchOnWindowFocus.
Show(t) ==
    /\ ~page[t].left
    /\ page[t].hidden
    /\ Update(t, Refetch([page[t] EXCEPT !.hidden = FALSE]))
    /\ UNCHANGED errors

\* refetchOnReconnect: the network returns.
Reconnect(t) ==
    /\ ~page[t].left
    /\ page[t].fetch = "idle"
    /\ Update(t, Refetch(page[t]))
    /\ UNCHANGED errors

\* getForCheckout reads the row.
GetForCheckout(i) == IF status[i] = Absent THEN NotFound ELSE status[i]

Serve(t) ==
    /\ page[t].fetch = "asked"
    /\ Update(t, [page[t] EXCEPT !.fetch = GetForCheckout(LinkOf[t])])
    /\ UNCHANGED errors

\* The request or its answer is lost, or the API answers with an error.
FetchFails(t) ==
    /\ page[t].fetch = "asked"
    /\ errors < MaxErrors
    /\ errors' = errors + 1
    /\ Update(t, [page[t] EXCEPT !.fetch = Failed])

\* PENDING is drawn by PendingState, whose state is lost with it.
Redraw(new) ==
    IF new.data = "PENDING" /\ new.error = "none" THEN new
    ELSE [new EXCEPT !.button = "ready"]

\* A failed fetch leaves the data of the one before.
Answer(t) ==
    LET reply == page[t].fetch
    IN  /\ reply \notin {"idle", "asked"}
        /\ Update(t, Redraw(
              IF reply \in {NotFound, Failed}
              THEN [page[t] EXCEPT !.fetch = "idle", !.error = reply]
              ELSE [page[t] EXCEPT !.fetch = "idle", !.error = "none", !.data = reply]))
        /\ UNCHANGED errors

----------------------------------------------------------------------------
\* The card

\* Slip: CONFIRMING falls through to PaidState.
ViewTooEager(t) ==
    CASE page[t].data = NoData /\ page[t].error = "none" -> "loading"
      [] page[t].error = NotFound -> NotFound
      [] page[t].error = Failed -> Failed
      [] page[t].data = "DETECTED" -> "CONFIRMING"
      [] page[t].data = "CONFIRMING" -> "PAID"
      [] OTHER -> page[t].data

\* What CheckoutCard draws: an error comes before the data.
View(t) ==
    CASE page[t].data = NoData /\ page[t].error = "none" -> "loading"
      [] page[t].error = NotFound -> NotFound
      [] page[t].error = Failed -> Failed
      [] page[t].data = "DETECTED" -> "CONFIRMING"
      [] OTHER -> page[t].data

\* useCountdown reaches zero on the browser's clock.
CountdownEnds(t) ==
    /\ View(t) = "PENDING"
    /\ ~page[t].late
    /\ Update(t, [page[t] EXCEPT !.late = TRUE])
    /\ UNCHANGED errors

SimulateClick(t) ==
    /\ View(t) = "PENDING"
    /\ ~page[t].late
    /\ page[t].button = "ready"
    /\ Update(t, [page[t] EXCEPT !.button = "simulating"])
    /\ UNCHANGED errors

\* The answer is shown if it is an error, and not used if it is an invoice.
SimulateReturns(t) ==
    /\ page[t].button = "simulating"
    /\ Update(t, [page[t] EXCEPT !.button = "ready"])
    /\ UNCHANGED errors

\* Slip: the card is drawn anew while a fetch runs, and its timer with it.
RedirectBetweenFetches(t) ==
    /\ View(t) = "PAID"
    /\ LinkOf[t] \in successUrl
    /\ ~page[t].left
    /\ page[t].fetch = "idle"
    /\ Update(t, [page[t] EXCEPT !.left = TRUE])
    /\ UNCHANGED errors

\* PaidState has been drawn for 2.5 seconds, and there is a shop to go back to.
Redirect(t) ==
    /\ View(t) = "PAID"
    /\ LinkOf[t] \in successUrl
    /\ ~page[t].left
    /\ Update(t, [page[t] EXCEPT !.left = TRUE])
    /\ UNCHANGED errors

TabStep(t) ==
    \/ Poll(t) \/ Hide(t) \/ Show(t) \/ Reconnect(t)
    \/ Serve(t) \/ FetchFails(t) \/ Answer(t)
    \/ CountdownEnds(t) \/ SimulateClick(t) \/ SimulateReturns(t) \/ Redirect(t)

PageNext ==
    \/ Next /\ UNCHANGED pageVars
    \/ \E t \in Tabs : TabStep(t)

PageSpec == PageInit /\ [][PageNext]_checkoutVars

\* Timers fire and fetches return, those that have to be retried only while the
\* tab is shown; nobody has to show it.  A redirect's timer runs in the
\* background too.
PageFairness ==
    \A t \in Tabs :
        /\ WF_checkoutVars(Poll(t))
        /\ WF_checkoutVars(~page[t].hidden /\ (Serve(t) \/ FetchFails(t)))
        /\ WF_checkoutVars(Answer(t))
        /\ WF_checkoutVars(SimulateReturns(t))
        /\ WF_checkoutVars(Redirect(t))

FairPageSpec == PageSpec /\ PageFairness

----------------------------------------------------------------------------
\* The customer reads "Payment confirmed" and is sent back to the shop only
\* when the merchant's payment.paid event is there to be delivered.
PaidPageAfterEvent ==
    \A t \in Tabs :
        View(t) = "PAID" \/ page[t].left =>
            "payment.paid" \in {heard[LinkOf[t]][n] : n \in DOMAIN heard[LinkOf[t]]}

Final == {"PAID", "UNDERPAID", "OVERPAID", "EXPIRED", "FAILED"}

Loaded(t, outcome) == page[t].data # NoData /\ status[LinkOf[t]] = outcome

Learned(t) == page[t].data = status[LinkOf[t]] \/ page[t].hidden

\* A page that has loaded once and stays in front comes to know each outcome,
\* whatever fetches fail, unless it was told EXPIRED: there its polling ends,
\* and the worker may yet find the payment.
PageFollowsInvoice ==
    \A t \in Tabs, outcome \in Final :
        Loaded(t, outcome) ~> Learned(t) \/ page[t].data = "EXPIRED"

\* The comment on useCheckout: the page polls while the invoice can still change
\* state.  Then it comes to know each outcome, without that exception.
PageLearnsOutcome ==
    \A t \in Tabs, outcome \in Final : Loaded(t, outcome) ~> Learned(t)

\* A page that says the payment is confirmed goes back to the shop, if the
\* invoice names one, unless a refetch that fails meanwhile puts its error over
\* the confirmation.
PaidPageLeaves ==
    \A t \in Tabs :
        View(t) = "PAID" /\ LinkOf[t] \in successUrl
            ~> page[t].left \/ View(t) = Failed
=============================================================================
