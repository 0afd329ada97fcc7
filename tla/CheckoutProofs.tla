--------------------------- MODULE CheckoutProofs ---------------------------
(***************************************************************************)
(* A proof about the checkout page, for any tabs on the links of any       *)
(* invoices.                                                               *)
(*                                                                         *)
(* A page learns "PAID" from an answer only, and an answer from the row.   *)
(* A row is PAID once the payment.paid event is there, and events stay; so *)
(* it does not matter how old the answer is, nor what the row says by the  *)
(* time it arrives.                                                        *)
(***************************************************************************)
EXTENDS CheckoutPage, TLAPS

Statuses == InvoiceStatus \cup {Absent}

Events == {"payment.paid", "payment.underpaid", "payment.overpaid", "invoice.expired"}

PageState == [data : Statuses \cup {NoData},
              error : {"none", NotFound, Failed},
              fetch : Statuses \cup {"idle", "asked", NotFound, Failed},
              button : {"ready", "simulating"},
              late : BOOLEAN,
              left : BOOLEAN,
              hidden : BOOLEAN]

ToldPaid(i) == "payment.paid" \in {heard[i][n] : n \in DOMAIN heard[i]}

LifeTypes ==
    /\ status \in [Invoices -> Statuses]
    /\ heard \in [Invoices -> Seq(Events)]

\* What a page has, or gets, says PAID.
SaysPaid(p) == p.data = "PAID" \/ p.fetch = "PAID" \/ p.left

CheckoutInv ==
    /\ LifeTypes
    /\ page \in [Tabs -> PageState]
    /\ \A i \in Invoices : status[i] = "PAID" => ToldPaid(i)
    /\ \A t \in Tabs : SaysPaid(page[t]) => ToldPaid(LinkOf[t])

----------------------------------------------------------------------------
\* No page knows anything at first.
LEMMA InitCheckout == PageInit => CheckoutInv
<1> SUFFICES ASSUME PageInit PROVE CheckoutInv
  OBVIOUS
<1>1. FreshPage \in PageState /\ ~SaysPaid(FreshPage)
  BY DEF FreshPage, PageState, SaysPaid, NoData
<1>2. LifeTypes /\ \A i \in Invoices : status[i] # "PAID"
  BY DEF PageInit, Init, LifeTypes, Statuses, Absent
<1> QED
  BY <1>1, <1>2 DEF PageInit, CheckoutInv

\* Events are appended and stay.
LEMMA EventsStay ==
    ASSUME LifeTypes, NEW i \in Invoices, NEW event \in Events,
           heard' = [heard EXCEPT ![i] = Append(heard[i], event)]
    PROVE  /\ heard' \in [Invoices -> Seq(Events)]
           /\ \A j \in Invoices : ToldPaid(j) => ToldPaid(j)'
           /\ event = "payment.paid" => ToldPaid(i)'
<1>1. heard[i] \in Seq(Events)
  BY DEF LifeTypes
<1>2. PICK told \in Seq(Events) : told = Append(heard[i], event)
  <2>1. ASSUME NEW s \in Seq(Events) PROVE Append(s, event) \in Seq(Events)
    OBVIOUS
  <2> QED
    BY <1>1, <2>1
<1>3. /\ \A n \in DOMAIN heard[i] : n \in DOMAIN told /\ told[n] = heard[i][n]
      /\ Len(heard[i]) + 1 \in DOMAIN told
      /\ told[Len(heard[i]) + 1] = event
  BY <1>1, <1>2
<1>4. heard' = [heard EXCEPT ![i] = told]
  BY <1>2
<1>5. /\ heard' \in [Invoices -> Seq(Events)]
      /\ heard'[i] = told
      /\ \A j \in Invoices : j # i => heard'[j] = heard[j]
  BY <1>4 DEF LifeTypes
<1>6. ToldPaid(i) => ToldPaid(i)'
  BY <1>3, <1>5 DEF ToldPaid
<1>7. event = "payment.paid" => ToldPaid(i)'
  BY <1>3, <1>5 DEF ToldPaid
<1>8. \A j \in Invoices : j # i => (ToldPaid(j) => ToldPaid(j)')
  BY <1>5 DEF ToldPaid
<1> QED
  BY <1>5, <1>6, <1>7, <1>8

\* Whatever happens to an invoice: it becomes PAID with the event, and no event
\* is taken back.
LEMMA LifeChanges ==
    ASSUME CheckoutInv, NEW i \in Invoices, LifeStep(i)
    PROVE  /\ LifeTypes'
           /\ \A j \in Invoices : ToldPaid(j) => ToldPaid(j)'
           /\ \A j \in Invoices : status'[j] = "PAID" => ToldPaid(j)'
<1>1. ASSUME NEW new \in Statuses \ {"PAID"}, Become(i, new)
      PROVE  /\ LifeTypes'
             /\ \A j \in Invoices : ToldPaid(j) => ToldPaid(j)'
             /\ \A j \in Invoices : status'[j] = "PAID" => ToldPaid(j)'
  BY <1>1 DEF Become, CheckoutInv, LifeTypes, ToldPaid
<1>2. ASSUME NEW new \in InvoiceVerdicts \cup {"EXPIRED"}, BecomeAndTell(i, new)
      PROVE  /\ LifeTypes'
             /\ \A j \in Invoices : ToldPaid(j) => ToldPaid(j)'
             /\ \A j \in Invoices : status'[j] = "PAID" => ToldPaid(j)'
  <2>1. PICK event \in Events : event = EventOf(new) /\ (new = "PAID" => event = "payment.paid")
    BY <1>2 DEF EventOf, Events, InvoiceVerdicts
  <2>2. /\ status' = [status EXCEPT ![i] = new]
        /\ heard' = [heard EXCEPT ![i] = Append(heard[i], event)]
    BY <1>2, <2>1 DEF BecomeAndTell
  <2>3. new \in Statuses
    BY DEF InvoiceVerdicts, Statuses, InvoiceStatus
  <2>4. /\ heard' \in [Invoices -> Seq(Events)]
        /\ \A j \in Invoices : ToldPaid(j) => ToldPaid(j)'
        /\ event = "payment.paid" => ToldPaid(i)'
    BY <2>2, <2>3, EventsStay DEF CheckoutInv
  <2>5. LifeTypes'
    BY <2>2, <2>3, <2>4 DEF CheckoutInv, LifeTypes
  <2>6. \A j \in Invoices : status'[j] = "PAID" => ToldPaid(j)'
    BY <2>1, <2>2, <2>4 DEF CheckoutInv, LifeTypes
  <2> QED
    BY <2>4, <2>5, <2>6
<1>3. CASE Lapse(i)
  BY <1>3 DEF Lapse, CheckoutInv, LifeTypes, ToldPaid
<1>4. CASE Create(i) \/ Detect(i) \/ Confirm(i) \/ Fail(i)
  <2>1. \E new \in {"PENDING", "DETECTED", "CONFIRMING", "FAILED"} : Become(i, new)
    BY <1>4 DEF Create, Detect, Confirm, Fail
  <2>2. {"PENDING", "DETECTED", "CONFIRMING", "FAILED"} \subseteq Statuses \ {"PAID"}
    BY DEF Statuses, InvoiceStatus
  <2> QED
    BY <1>1, <2>1, <2>2
<1>5. CASE Expire(i) \/ \E verdict \in InvoiceVerdicts : Settle(i, verdict)
  <2>1. \E new \in InvoiceVerdicts \cup {"EXPIRED"} : BecomeAndTell(i, new)
    BY <1>5 DEF Expire, Settle
  <2> QED
    BY <1>2, <2>1
<1> QED
  BY <1>3, <1>4, <1>5 DEF LifeStep

\* A page is updated from what it has, from its answer, or from the row.
LEMMA UpdateStep ==
    ASSUME CheckoutInv, NEW t \in Tabs, NEW new \in PageState, Update(t, new),
           SaysPaid(new) => SaysPaid(page[t]) \/ status[LinkOf[t]] = "PAID"
    PROVE  CheckoutInv'
<1>1. page' = [page EXCEPT ![t] = new] /\ UNCHANGED <<status, heard>>
  BY DEF Update, lifeVars
<1>2. SaysPaid(new) => ToldPaid(LinkOf[t])
  BY CheckoutAssumption DEF CheckoutInv
<1>3. \A i : ToldPaid(i)' <=> ToldPaid(i)
  BY <1>1 DEF ToldPaid
<1>4. page' \in [Tabs -> PageState]
  BY <1>1 DEF CheckoutInv
<1>5. \A u \in Tabs : SaysPaid(page'[u]) => ToldPaid(LinkOf[u])
  BY <1>1, <1>2 DEF CheckoutInv
<1>6. LifeTypes' /\ \A i \in Invoices : status'[i] = "PAID" => ToldPaid(i)'
  BY <1>1, <1>3 DEF CheckoutInv, LifeTypes
<1> QED
  BY <1>3, <1>4, <1>5, <1>6 DEF CheckoutInv

----------------------------------------------------------------------------
\* A fetch is begun, is answered from the row, or fails.
LEMMA FetchStep ==
    ASSUME CheckoutInv, NEW t \in Tabs,
           \/ Poll(t) \/ Hide(t) \/ Show(t) \/ Reconnect(t) \/ Serve(t) \/ FetchFails(t)
    PROVE  CheckoutInv'
<1>1. page[t] \in PageState
  BY DEF CheckoutInv
<1>2. CASE Poll(t) \/ FetchFails(t) \/ Serve(t)
  <2>1. PICK fetch \in Statuses \cup {"idle", "asked", NotFound, Failed} :
           /\ Update(t, [page[t] EXCEPT !.fetch = fetch])
           /\ fetch = "PAID" => status[LinkOf[t]] = "PAID"
    <3>1. CASE Poll(t) \/ FetchFails(t)
      BY <3>1 DEF Poll, FetchFails, Failed
    <3>2. CASE Serve(t)
      <4>1. GetForCheckout(LinkOf[t]) \in {status[LinkOf[t]], NotFound}
        BY DEF GetForCheckout
      <4>2. status[LinkOf[t]] \in Statuses
        BY CheckoutAssumption DEF CheckoutInv, LifeTypes
      <4> QED
        BY <3>2, <4>1, <4>2 DEF Serve, NotFound
    <3> QED
      BY <1>2, <3>1, <3>2
  <2> DEFINE new == [page[t] EXCEPT !.fetch = fetch]
  <2>2. /\ new \in PageState /\ new.fetch = fetch
        /\ new.data = page[t].data /\ new.left = page[t].left
    BY <1>1 DEF PageState
  <2> HIDE DEF new
  <2> QED
    BY <2>1, <2>2, UpdateStep DEF SaysPaid, new
<1>3. CASE Hide(t) \/ Show(t) \/ Reconnect(t)
  <2>1. PICK hidden \in BOOLEAN :
           LET p == [page[t] EXCEPT !.hidden = hidden]
           IN  Update(t, p) \/ Update(t, Refetch(p))
    <3>1. CASE Hide(t) \/ Show(t)
      BY <3>1 DEF Hide, Show
    <3>2. CASE Reconnect(t)
      <4>1. page[t].hidden \in BOOLEAN /\ page[t] = [page[t] EXCEPT !.hidden = page[t].hidden]
        BY <1>1 DEF PageState
      <4> QED
        BY <3>2, <4>1 DEF Reconnect
    <3> QED
      BY <1>3, <3>1, <3>2
  <2> DEFINE kept == [page[t] EXCEPT !.hidden = hidden]
  <2>2. /\ kept \in PageState /\ kept.fetch = page[t].fetch
        /\ kept.data = page[t].data /\ kept.left = page[t].left
    BY <1>1 DEF PageState
  <2>3. Update(t, kept) \/ Update(t, Refetch(kept))
    BY <2>1
  <2> HIDE DEF kept
  <2>4. /\ Refetch(kept) \in PageState
        /\ Refetch(kept).fetch \in {"asked", kept.fetch}
        /\ Refetch(kept).data = kept.data /\ Refetch(kept).left = kept.left
    BY <2>2 DEF Refetch, PageState
  <2>5. PICK new \in PageState :
           /\ Update(t, new)
           /\ new.fetch \in {"asked", page[t].fetch}
           /\ new.data = page[t].data /\ new.left = page[t].left
    BY <2>2, <2>3, <2>4
  <2> QED
    BY <2>5, UpdateStep DEF SaysPaid
<1> QED
  BY <1>2, <1>3

\* The answer becomes the page's data, unless it is an error.
LEMMA AnswerStep ==
    ASSUME CheckoutInv, NEW t \in Tabs, Answer(t) PROVE CheckoutInv'
<1> DEFINE reply == page[t].fetch
           got == IF reply \in {NotFound, Failed}
                  THEN [page[t] EXCEPT !.fetch = "idle", !.error = reply]
                  ELSE [page[t] EXCEPT !.fetch = "idle", !.error = "none", !.data = reply]
<1>1. page[t] \in PageState /\ reply \notin {"idle", "asked"} /\ Update(t, Redraw(got))
  BY DEF CheckoutInv, Answer
<1>2. /\ got \in PageState
      /\ got.fetch = "idle" /\ got.left = page[t].left
      /\ got.data = "PAID" => page[t].data = "PAID" \/ page[t].fetch = "PAID"
  BY <1>1 DEF PageState
<1> HIDE DEF got
<1>3. /\ Redraw(got) \in PageState
      /\ Redraw(got).fetch = "idle" /\ Redraw(got).left = page[t].left
      /\ Redraw(got).data = got.data
  BY <1>2 DEF Redraw, PageState
<1>4. PICK new \in PageState : new = Redraw(got)
  BY <1>3
<1> QED
  BY <1>1, <1>2, <1>3, <1>4, UpdateStep DEF SaysPaid

\* The card leaves the page only when the data says PAID.
LEMMA PaidView ==
    ASSUME CheckoutInv, NEW t \in Tabs, View(t) = "PAID" PROVE page[t].data = "PAID"
  BY DEF View, NotFound, Failed

LEMMA CardStep ==
    ASSUME CheckoutInv, NEW t \in Tabs,
           CountdownEnds(t) \/ SimulateClick(t) \/ SimulateReturns(t) \/ Redirect(t)
    PROVE  CheckoutInv'
<1>1. page[t] \in PageState
  BY DEF CheckoutInv
<1>2. PICK new \in PageState :
         /\ Update(t, new)
         /\ new.data = page[t].data /\ new.fetch = page[t].fetch
         /\ new.left => page[t].left \/ page[t].data = "PAID"
  <2>1. ASSUME NEW new, Update(t, new), new \in PageState,
               new.data = page[t].data, new.fetch = page[t].fetch,
               new.left => page[t].left \/ page[t].data = "PAID"
        PROVE  \E n \in PageState : /\ Update(t, n)
                                    /\ n.data = page[t].data /\ n.fetch = page[t].fetch
                                    /\ n.left => page[t].left \/ page[t].data = "PAID"
    BY <2>1
  <2>2. CASE CountdownEnds(t)
    <3> DEFINE new == [page[t] EXCEPT !.late = TRUE]
    <3>1. /\ new \in PageState /\ new.data = page[t].data /\ new.fetch = page[t].fetch
          /\ new.left = page[t].left
      BY <1>1 DEF PageState
    <3>2. Update(t, new)
      BY <2>2 DEF CountdownEnds
    <3> HIDE DEF new
    <3> QED
      BY <2>1, <3>1, <3>2
  <2>3. CASE SimulateClick(t) \/ SimulateReturns(t)
    <3>1. PICK b \in {"ready", "simulating"} : Update(t, [page[t] EXCEPT !.button = b])
      BY <2>3 DEF SimulateClick, SimulateReturns
    <3> DEFINE new == [page[t] EXCEPT !.button = b]
    <3>2. /\ new \in PageState /\ new.data = page[t].data /\ new.fetch = page[t].fetch
          /\ new.left = page[t].left
      BY <1>1 DEF PageState
    <3>3. Update(t, new)
      BY <3>1
    <3> HIDE DEF new
    <3> QED
      BY <2>1, <3>2, <3>3
  <2>4. CASE Redirect(t)
    <3> DEFINE new == [page[t] EXCEPT !.left = TRUE]
    <3>1. /\ new \in PageState /\ new.data = page[t].data /\ new.fetch = page[t].fetch
      BY <1>1 DEF PageState
    <3>2. Update(t, new) /\ page[t].data = "PAID"
      BY <2>4, PaidView DEF Redirect
    <3> HIDE DEF new
    <3> QED
      BY <2>1, <3>1, <3>2
  <2> QED
    BY <2>2, <2>3, <2>4
<1> QED
  BY <1>2, UpdateStep DEF SaysPaid

\* The invariant is inductive.
LEMMA NextCheckout == CheckoutInv /\ [PageNext]_checkoutVars => CheckoutInv'
<1> SUFFICES ASSUME CheckoutInv, [PageNext]_checkoutVars PROVE CheckoutInv'
  OBVIOUS
<1>1. CASE Next /\ UNCHANGED pageVars
  <2>1. PICK i \in Invoices : LifeStep(i)
    BY <1>1 DEF Next
  <2>2. page' = page
    BY <1>1 DEF pageVars
  <2>3. /\ LifeTypes'
        /\ \A j \in Invoices : ToldPaid(j) => ToldPaid(j)'
        /\ \A j \in Invoices : status'[j] = "PAID" => ToldPaid(j)'
    BY <2>1, LifeChanges
  <2>4. \A t \in Tabs : LinkOf[t] \in Invoices
    BY CheckoutAssumption
  <2> QED
    BY <2>2, <2>3, <2>4 DEF CheckoutInv
<1>2. ASSUME NEW t \in Tabs, TabStep(t) PROVE CheckoutInv'
  BY <1>2, FetchStep, AnswerStep, CardStep DEF TabStep
<1>3. CASE UNCHANGED checkoutVars
  <2>1. UNCHANGED <<status, heard, page>>
    BY <1>3 DEF checkoutVars, lifeVars, pageVars
  <2> QED
    BY <2>1 DEF CheckoutInv, LifeTypes, ToldPaid
<1> QED
  BY <1>1, <1>2, <1>3 DEF PageNext

\* However many tabs, however old the answers and whatever fails: a page says
\* "Payment confirmed", and sends the customer back to the shop, only after the
\* merchant's payment.paid event was recorded.
THEOREM PaidPagesAreTold == PageSpec => []PaidPageAfterEvent
<1>1. CheckoutInv => PaidPageAfterEvent
  <2> SUFFICES ASSUME CheckoutInv, NEW t \in Tabs, View(t) = "PAID" \/ page[t].left
               PROVE  ToldPaid(LinkOf[t])
    BY DEF PaidPageAfterEvent, ToldPaid
  <2>1. SaysPaid(page[t])
    BY PaidView DEF SaysPaid
  <2> QED
    BY <2>1 DEF CheckoutInv
<1> QED
  BY <1>1, InitCheckout, NextCheckout, PTL DEF PageSpec
=============================================================================
