-------------------------- MODULE WebhookDelivery --------------------------
(***************************************************************************)
(* Delivery of webhook events: runWebhookDispatch makes the first attempt  *)
(* at each enabled endpoint of the event's organization, runWebhookRetry   *)
(* the later ones, packages/webhooks sends.  As in EvmPipeline a queue has *)
(* one pass at a time unless workers overlap, one action is the code       *)
(* between two awaits, and rows are written by id.                         *)
(*                                                                         *)
(* Events are emitted by the payment pipeline; endpoints are registered    *)
(* and revoked through the API; the merchant's server answers or fails.    *)
(***************************************************************************)
EXTENDS Integers, FiniteSets

CONSTANTS
    Events, Endpoints,
    EventOrg,       \* the organization of an event
    EndpointOrg,    \* the organization of an endpoint
    Dispatchers,    \* overlapping passes of webhook.dispatch
    Retriers,       \* overlapping passes of webhook.retry
    BatchSize,      \* BATCH_SIZE
    Retries,        \* length of RETRY_SCHEDULE_MS
    MaxFaults       \* bound on crashes and errors of the passes

Pairs == {q \in Events \X Endpoints : EventOrg[q[1]] = EndpointOrg[q[2]]}
NoPair == "no pair"

ASSUME DeliveryAssumption ==
    /\ BatchSize \in Nat \ {0}
    /\ Retries \in Nat \ {0}
    /\ MaxFaults \in Nat
    /\ NoPair \notin Pairs
    /\ IsFiniteSet(Events)

VARIABLES
    emittedAt,  \* createdAt of a WebhookEvent, 0 before it exists
    endpoint,   \* "absent", "enabled" or "revoked"
    delivery,   \* the WebhookDelivery row of each pair (unique)
    dispatch,   \* the local state of each dispatcher's pass
    retry,      \* the local state of each retrier's pass
    faults,     \* number of crashes and errors so far
    tries,      \* history: how often each pair went through deliverWebhook
    missed      \* history: pairs that failed in a dispatcher's hands, until a
                \* pass takes them up again

vars == <<emittedAt, endpoint, delivery, dispatch, retry, faults, tries, missed>>

DeliveryStatus == {"PENDING", "SUCCEEDED", "FAILED", "EXHAUSTED"}

NoDelivery == [status |-> "ABSENT", attempt |-> 0, due |-> FALSE]

PassIdle == [pc |-> "idle", todo |-> {}, attempt |-> [q \in Pairs |-> 0],
             pair |-> NoPair, success |-> FALSE]

Init ==
    /\ emittedAt = [e \in Events |-> 0]
    /\ endpoint = [p \in Endpoints |-> "absent"]
    /\ delivery = [q \in Pairs |-> NoDelivery]
    /\ dispatch = [d \in Dispatchers |-> PassIdle]
    /\ retry = [r \in Retriers |-> PassIdle]
    /\ faults = 0
    /\ tries = [q \in Pairs |-> 0]
    /\ missed = {}

----------------------------------------------------------------------------
\* The environment: pipeline, API, clock

Emitted == {e \in Events : emittedAt[e] > 0}

\* createWebhookEvent, in the transaction of the status change.
Emit(e) ==
    /\ emittedAt[e] = 0
    /\ emittedAt' = [emittedAt EXCEPT ![e] = Cardinality(Emitted) + 1]
    /\ UNCHANGED <<endpoint, delivery, dispatch, retry, faults, tries, missed>>

\* WebhookEndpointsService.create
Register(p) ==
    /\ endpoint[p] = "absent"
    /\ endpoint' = [endpoint EXCEPT ![p] = "enabled"]
    /\ UNCHANGED <<emittedAt, delivery, dispatch, retry, faults, tries, missed>>

\* WebhookEndpointsService.revoke
Revoke(p) ==
    /\ endpoint[p] = "enabled"
    /\ endpoint' = [endpoint EXCEPT ![p] = "revoked"]
    /\ UNCHANGED <<emittedAt, delivery, dispatch, retry, faults, tries, missed>>

\* nextRetryAt passes.
BecomesDue(q) ==
    /\ delivery[q].status = "FAILED"
    /\ ~delivery[q].due
    /\ delivery' = [delivery EXCEPT ![q].due = TRUE]
    /\ UNCHANGED <<emittedAt, endpoint, dispatch, retry, faults, tries, missed>>

----------------------------------------------------------------------------
\* packages/webhooks

\* Slip: one delay fewer than the table holds.
ScheduleExhaustedEarly(attempt) == attempt >= Retries

\* getRetryDelayMs returns null past the end of RETRY_SCHEDULE_MS.
ScheduleExhausted(attempt) == attempt > Retries

\* One call of deliverWebhook: a 2xx answer, or anything else.
DeliverWebhook(q) == tries' = [tries EXCEPT ![q] = @ + 1]

----------------------------------------------------------------------------
\* runWebhookDispatch

DispatchStep(d, to) ==
    /\ dispatch' = [dispatch EXCEPT ![d] = to]
    /\ UNCHANGED <<emittedAt, endpoint, retry, faults>>

\* The events with no delivery at all, oldest first, at most a batch.
Undispatched == {e \in Emitted : \A q \in Pairs :
                    q[1] = e => delivery[q].status = "ABSENT"}
\* Slip: the batch is one short of its size.
BatchOneShort == {e \in Undispatched :
                    Cardinality({f \in Undispatched : emittedAt[f] < emittedAt[e]})
                        + 1 < BatchSize}

Batch == {e \in Undispatched :
            Cardinality({f \in Undispatched : emittedAt[f] < emittedAt[e]})
                < BatchSize}

\* Events and enabled endpoints are read together, once for the whole pass.
DispatchBegin(d) ==
    /\ dispatch[d].pc = "idle"
    /\ LET todo == {q \in Pairs : q[1] \in Batch /\ endpoint[q[2]] = "enabled"}
       IN  /\ DispatchStep(d, [dispatch[d] EXCEPT !.pc = "pick", !.todo = todo])
           /\ missed' = missed \ todo
    /\ UNCHANGED <<delivery, tries>>

\* Older events first; the endpoints of one event come in any order.
NextPairs(pass) == {q \in pass.todo :
                      \A o \in pass.todo : emittedAt[q[1]] <= emittedAt[o[1]]}

\* Slip: a claim that another pass holds is taken over.
MayClaimAny(q) == delivery[q].status \in {"ABSENT", "PENDING"}

\* The insert is refused when the unique (eventId, endpointId) exists.
MayClaim(q) == delivery[q].status = "ABSENT"

DispatchClaim(d, q) ==
    LET rest == [dispatch[d] EXCEPT !.todo = @ \ {q}]
    IN  /\ dispatch[d].pc = "pick"
        /\ q \in NextPairs(dispatch[d])
        /\ \/ /\ MayClaim(q)
              /\ delivery' = [delivery EXCEPT ![q] =
                    [status |-> "PENDING", attempt |-> 1, due |-> FALSE]]
              /\ DispatchStep(d, [rest EXCEPT !.pc = "post", !.pair = q])
           \/ /\ ~MayClaim(q)
              /\ DispatchStep(d, rest)
              /\ UNCHANGED delivery
        /\ UNCHANGED <<tries, missed>>

\* Any other error of the insert is swallowed like the conflict: the pass goes
\* on with the next endpoint.
DispatchClaimFails(d, q) ==
    /\ dispatch[d].pc = "pick"
    /\ q \in NextPairs(dispatch[d])
    /\ faults < MaxFaults
    /\ faults' = faults + 1
    /\ dispatch' = [dispatch EXCEPT ![d].todo = @ \ {q}]
    /\ missed' = missed \cup {q}
    /\ UNCHANGED <<emittedAt, endpoint, delivery, retry, tries>>

DispatchPost(d) ==
    /\ dispatch[d].pc = "post"
    /\ DeliverWebhook(dispatch[d].pair)
    /\ \E success \in BOOLEAN :
          DispatchStep(d, [dispatch[d] EXCEPT !.pc = "record", !.success = success])
    /\ UNCHANGED <<delivery, missed>>

\* The schedule is not empty, so the first failure always has a next retry.
DispatchRecord(d) ==
    LET q == dispatch[d].pair
    IN  /\ dispatch[d].pc = "record"
        /\ delivery' = [delivery EXCEPT ![q].status =
              IF dispatch[d].success THEN "SUCCEEDED" ELSE "FAILED"]
        /\ DispatchStep(d, [dispatch[d] EXCEPT !.pc = "pick", !.pair = NoPair,
                                               !.success = FALSE])
        /\ UNCHANGED <<tries, missed>>

DispatchEnd(d) ==
    /\ dispatch[d].pc = "pick"
    /\ dispatch[d].todo = {}
    /\ DispatchStep(d, PassIdle)
    /\ UNCHANGED <<delivery, tries, missed>>

DispatchHolds(d, q) == dispatch[d].pc \in {"post", "record"} /\ dispatch[d].pair = q

\* The process dies, a record fails, or decryptSecret throws.
DispatchInterrupted(d) ==
    /\ dispatch[d].pc # "idle"
    /\ faults < MaxFaults
    /\ faults' = faults + 1
    /\ dispatch' = [dispatch EXCEPT ![d] = PassIdle]
    /\ missed' = missed \cup {q \in Pairs : q \in dispatch[d].todo \/ DispatchHolds(d, q)}
    /\ UNCHANGED <<emittedAt, endpoint, delivery, retry, tries>>

DispatchPass(d) ==
    \/ DispatchBegin(d)
    \/ \E q \in Pairs : DispatchClaim(d, q)
    \/ DispatchPost(d) \/ DispatchRecord(d) \/ DispatchEnd(d)

----------------------------------------------------------------------------
\* runWebhookRetry

RetryStep(r, to) ==
    /\ retry' = [retry EXCEPT ![r] = to]
    /\ UNCHANGED <<emittedAt, endpoint, dispatch, faults, missed>>

\* Slips: the status is not looked at; the last slot of the schedule is lost.
DueOfAnyStatus == {q \in Pairs : delivery[q].due}
DueButTheLast == {q \in Pairs : /\ delivery[q].status = "FAILED"
                                /\ delivery[q].due
                                /\ delivery[q].attempt < Retries}

Due == {q \in Pairs : delivery[q].status = "FAILED" /\ delivery[q].due}

\* findMany with no order: any batch of the due ones, with their attempts.
\* endpoint.enabled is not looked at.
RetryBegin(r) ==
    /\ retry[r].pc = "idle"
    /\ Due # {}
    /\ \E batch \in SUBSET Due :
          /\ \/ batch = Due /\ Cardinality(Due) <= BatchSize
             \/ Cardinality(batch) = BatchSize
          /\ RetryStep(r, [retry[r] EXCEPT
                !.pc = "pick", !.todo = batch,
                !.attempt = [q \in Pairs |->
                    IF q \in batch THEN delivery[q].attempt ELSE 0]])
    /\ UNCHANGED <<delivery, tries>>

RetryPost(r, q) ==
    /\ retry[r].pc = "pick"
    /\ q \in retry[r].todo
    /\ DeliverWebhook(q)
    /\ \E success \in BOOLEAN :
          RetryStep(r, [retry[r] EXCEPT !.pc = "record", !.todo = @ \ {q},
                                        !.pair = q, !.success = success])
    /\ UNCHANGED delivery

\* Slip: the attempts left are counted, not the attempts made.
NextAttemptLeft(attempt) == attempt - 1

NextAttempt(attempt) == attempt + 1

RetryRecord(r) ==
    LET q       == retry[r].pair
        attempt == NextAttempt(retry[r].attempt[q])
    IN  /\ retry[r].pc = "record"
        /\ delivery' = [delivery EXCEPT ![q] =
              CASE retry[r].success ->
                     [status |-> "SUCCEEDED", attempt |-> attempt, due |-> @.due]
                [] ~retry[r].success /\ ScheduleExhausted(attempt) ->
                     [status |-> "EXHAUSTED", attempt |-> attempt, due |-> FALSE]
                [] ~retry[r].success /\ ~ScheduleExhausted(attempt) ->
                     [status |-> "FAILED", attempt |-> attempt, due |-> FALSE]]
        /\ RetryStep(r, [retry[r] EXCEPT !.pc = "pick", !.pair = NoPair,
                            !.attempt[q] = 0, !.success = FALSE])
        /\ UNCHANGED tries

RetryEnd(r) ==
    /\ retry[r].pc = "pick"
    /\ retry[r].todo = {}
    /\ RetryStep(r, PassIdle)
    /\ UNCHANGED <<delivery, tries>>

RetryInterrupted(r) ==
    /\ retry[r].pc # "idle"
    /\ faults < MaxFaults
    /\ faults' = faults + 1
    /\ retry' = [retry EXCEPT ![r] = PassIdle]
    /\ UNCHANGED <<emittedAt, endpoint, delivery, dispatch, tries, missed>>

RetryPass(r) ==
    \/ RetryBegin(r)
    \/ \E q \in Pairs : RetryPost(r, q)
    \/ RetryRecord(r) \/ RetryEnd(r)

----------------------------------------------------------------------------
Next ==
    \/ \E e \in Events : Emit(e)
    \/ \E p \in Endpoints : Register(p) \/ Revoke(p)
    \/ \E q \in Pairs : BecomesDue(q)
    \/ \E d \in Dispatchers : DispatchPass(d) \/ DispatchInterrupted(d)
    \/ \E d \in Dispatchers, q \in Pairs : DispatchClaimFails(d, q)
    \/ \E r \in Retriers : RetryPass(r) \/ RetryInterrupted(r)

Spec == Init /\ [][Next]_vars

\* The schedulers start passes again every 2 and 15 seconds, deliverWebhook
\* returns within its timeout, and time passes.  Nothing makes the merchant
\* answer.
Fairness ==
    /\ \A q \in Pairs : WF_vars(BecomesDue(q))
    /\ \A d \in Dispatchers : WF_vars(DispatchPass(d))
    /\ \A r \in Retriers : WF_vars(RetryPass(r))

FairSpec == Spec /\ Fairness

----------------------------------------------------------------------------
\* Types

PassState == [pc      : {"idle", "pick", "post", "record"},
              todo    : SUBSET Pairs,
              attempt : [Pairs -> Nat],
              pair    : Pairs \cup {NoPair},
              success : BOOLEAN]

\* Type correctness: a pass that posts or records has its pair in hand, and a
\* dispatcher's pair has a row.
TypeOK ==
    /\ emittedAt \in [Events -> Nat]
    /\ endpoint \in [Endpoints -> {"absent", "enabled", "revoked"}]
    /\ delivery \in [Pairs -> [status  : DeliveryStatus \cup {"ABSENT"},
                               attempt : Nat, due : BOOLEAN]]
    /\ dispatch \in [Dispatchers -> PassState]
    /\ retry \in [Retriers -> PassState]
    /\ \A d \in Dispatchers :
          dispatch[d].pc \in {"post", "record"} => dispatch[d].pair \in Pairs
    /\ \A r \in Retriers :
          retry[r].pc = "record" => retry[r].pair \in Pairs
    /\ faults \in Nat
    /\ tries \in [Pairs -> Nat]
    /\ missed \subseteq Pairs

----------------------------------------------------------------------------
\* Safety

\* The pairs that the retrier is about to post, or to record a post of.
RetryHolds(r, q) == q \in retry[r].todo \/ (retry[r].pc = "record" /\ retry[r].pair = q)

\* One pair, one sender: no two passes ever have the same event under way to
\* the same endpoint, however many dispatchers overlap.  (One retrier.)
OneSender ==
    \A q \in Pairs :
        /\ \A c, d \in Dispatchers : DispatchHolds(c, q) /\ DispatchHolds(d, q) => c = d
        /\ \A d \in Dispatchers, r \in Retriers : ~(DispatchHolds(d, q) /\ RetryHolds(r, q))

\* Retries are recorded honestly: the attempt number never runs ahead of the
\* calls really made, a settled or failed row without interruptions counts
\* every one of them, and a delivery is given up only when the schedule has
\* been used up.  (One retrier.)
AttemptsAreCounted ==
    \A q \in Pairs :
        LET row == delivery[q]
            inFlight == \/ \E d \in Dispatchers : DispatchHolds(d, q)
                        \/ \E r \in Retriers : retry[r].pc = "record" /\ retry[r].pair = q
        IN  /\ row.status \in {"SUCCEEDED", "FAILED", "EXHAUSTED"} => tries[q] >= row.attempt
            /\ faults = 0 /\ row.status # "ABSENT" /\ ~inFlight => tries[q] = row.attempt
            /\ row.status = "EXHAUSTED" => row.attempt = Retries + 1

\* A delivery only moves forward: PENDING to its first result, FAILED to the
\* next one, and SUCCEEDED and EXHAUSTED stay.  (One retrier.)
DeliveryStepsForward ==
    [][\A q \in Pairs :
          LET from == delivery[q].status
              to   == delivery'[q].status
          IN  from # to =>
                <<from, to>> \in {"ABSENT"} \X {"PENDING"}
                                \cup {"PENDING"} \X {"SUCCEEDED", "FAILED"}
                                \cup {"FAILED"} \X {"SUCCEEDED", "EXHAUSTED"}]_vars

----------------------------------------------------------------------------
\* Liveness

Waiting(q) == /\ q[1] \in Undispatched
              /\ endpoint[q[2]] = "enabled"
              /\ \A d \in Dispatchers : dispatch[d].pc = "idle"

\* Lost for good: its event has a delivery, so no pass takes the event up again,
\* and nothing is left to send or retry at this endpoint.
Stranded(q) ==
    /\ q[1] \notin Undispatched
    /\ delivery[q].status \in {"ABSENT", "PENDING"}
    /\ \A d \in Dispatchers : q \notin dispatch[d].todo /\ ~DispatchHolds(d, q)

\* Every event reaches its end at every endpoint that is enabled before a
\* pass picks the event up: delivered, or given up after the schedule, unless
\* the merchant revokes the endpoint.  What a failing pass leaves is taken up
\* again, and only a pair that failed in its own dispatcher's hands, beside a
\* delivery that did not, is stranded.  (The batch must not be filled by
\* organizations without endpoints.)
EventReachesEndpoint ==
    \A q \in Pairs :
        Waiting(q) ~> \/ delivery[q].status \in {"SUCCEEDED", "EXHAUSTED"}
                      \/ endpoint[q[2]] = "revoked"
                      \/ q \in missed /\ Stranded(q)

\* A failed delivery is retried until it succeeds or the schedule is used
\* up, crashes between the post and its record included.
FailedDeliveryEnds ==
    \A q \in Pairs :
        delivery[q].status = "FAILED" ~> delivery[q].status \in {"SUCCEEDED", "EXHAUSTED"}

=============================================================================
