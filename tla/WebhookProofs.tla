--------------------------- MODULE WebhookProofs ---------------------------
(***************************************************************************)
(* Proofs about webhook delivery, for any events, endpoints, dispatchers,  *)
(* batches, schedules and interruptions, and one retrier.                  *)
(*                                                                         *)
(* The argument goes pair by pair.  Who holds a pair decides what its row  *)
(* says: a dispatcher holds a PENDING one, which the unique key gave to it *)
(* alone, the retrier a FAILED one; and the calls made are those recorded, *)
(* but for the one that its holder has made and not recorded yet.          *)
(***************************************************************************)
EXTENDS WebhookDelivery, FiniteSetTheorems, TLAPS

\* One worker process, with BullMQ's concurrency of one on the retry queue.
SingleRetrier == \A r, s \in Retriers : r = s

DeliveryRow == [status : DeliveryStatus \cup {"ABSENT"}, attempt : Nat, due : BOOLEAN]

\* What ends a pass, or costs it a pair.
Failure ==
    \/ \E d \in Dispatchers : DispatchInterrupted(d)
    \/ \E d \in Dispatchers, q \in Pairs : DispatchClaimFails(d, q)
    \/ \E r \in Retriers : RetryInterrupted(r)

Passes == dispatch \in [Dispatchers -> PassState] /\ retry \in [Retriers -> PassState]

\* A pass that posts or records has its pair in hand.
GoodDispatch(pass) == pass.pc \in {"post", "record"} => pass.pair \in Pairs
GoodRetry(pass) == pass.pc = "record" => pass.pair \in Pairs

----------------------------------------------------------------------------
\* Types

\* An idle pass holds nothing.
LEMMA IdlePass ==
    /\ PassIdle \in PassState
    /\ PassIdle.pc = "idle"
    /\ PassIdle.todo = {}
  BY DEF PassIdle, PassState

\* A step of one dispatcher keeps the types if what it writes has them.
LEMMA DispatchStepType ==
    ASSUME TypeOK, NEW d \in Dispatchers, NEW to \in PassState, GoodDispatch(to),
           DispatchStep(d, to), missed' \subseteq Pairs,
           delivery' \in [Pairs -> DeliveryRow], tries' \in [Pairs -> Nat]
    PROVE  TypeOK'
  BY DEF TypeOK, DispatchStep, GoodDispatch, DeliveryRow

\* A step of the retrier keeps the types if what it writes has them.
LEMMA RetryStepType ==
    ASSUME TypeOK, NEW r \in Retriers, NEW to \in PassState, GoodRetry(to),
           RetryStep(r, to),
           delivery' \in [Pairs -> DeliveryRow], tries' \in [Pairs -> Nat]
    PROVE  TypeOK'
  BY DEF TypeOK, RetryStep, GoodRetry, DeliveryRow

\* One more call of deliverWebhook.
LEMMA DeliverType ==
    ASSUME TypeOK, NEW q \in Pairs, DeliverWebhook(q)
    PROVE  /\ tries' \in [Pairs -> Nat]
           /\ tries'[q] = tries[q] + 1
           /\ \A o \in Pairs \ {q} : tries'[o] = tries[o]
  BY DEF TypeOK, DeliverWebhook

\* The initial state is well typed.
LEMMA InitType == Init => TypeOK
<1> SUFFICES ASSUME Init PROVE TypeOK
  OBVIOUS
<1>1. NoDelivery \in DeliveryRow
  BY DEF NoDelivery, DeliveryRow
<1>2. delivery \in [Pairs -> DeliveryRow]
  BY <1>1 DEF Init
<1>3. Passes
  BY IdlePass DEF Init, Passes
<1>4. /\ \A d \in Dispatchers : dispatch[d].pc = "idle"
      /\ \A r \in Retriers : retry[r].pc = "idle"
  BY IdlePass DEF Init
<1> QED
  BY <1>2, <1>3, <1>4 DEF Init, TypeOK, DeliveryRow, Passes

\* The pipeline, the API and the clock keep the types.
LEMMA EnvironmentType ==
    ASSUME TypeOK,
           \/ \E e \in Events : Emit(e)
           \/ \E p \in Endpoints : Register(p) \/ Revoke(p)
           \/ \E q \in Pairs : BecomesDue(q)
    PROVE  TypeOK'
<1>1. ASSUME NEW e \in Events, Emit(e) PROVE TypeOK'
  <2>1. Cardinality(Emitted) \in Nat
    BY DeliveryAssumption, FS_Subset, FS_CardinalityType DEF Emitted
  <2> QED
    BY <1>1, <2>1 DEF TypeOK, Emit
<1>2. ASSUME NEW p \in Endpoints, Register(p) \/ Revoke(p) PROVE TypeOK'
  BY <1>2 DEF TypeOK, Register, Revoke
<1>3. ASSUME NEW q \in Pairs, BecomesDue(q) PROVE TypeOK'
  <2>1. delivery[q] \in DeliveryRow
    BY DEF TypeOK, DeliveryRow
  <2>2. [delivery[q] EXCEPT !.due = TRUE] \in DeliveryRow
    BY <2>1 DEF DeliveryRow
  <2>3. delivery' = [delivery EXCEPT ![q] = [delivery[q] EXCEPT !.due = TRUE]]
    BY <1>3 DEF BecomesDue
  <2>4. delivery' \in [Pairs -> DeliveryRow]
    BY <2>2, <2>3 DEF TypeOK, DeliveryRow
  <2> QED
    BY <1>3, <2>4 DEF TypeOK, BecomesDue, DeliveryRow
<1> QED
  BY <1>1, <1>2, <1>3

\* A failed claim leaves the pass where it is, without the pair.
LEMMA ClaimFailsMoves ==
    ASSUME TypeOK, NEW d \in Dispatchers, NEW q \in Pairs, DispatchClaimFails(d, q)
    PROVE  /\ dispatch' \in [Dispatchers -> PassState]
           /\ dispatch[d].pc = "pick" /\ dispatch'[d].pc = "pick"
           /\ \A c \in Dispatchers \ {d} : dispatch'[c] = dispatch[c]
<1> DEFINE rest == [dispatch[d] EXCEPT !.todo = @ \ {q}]
<1>1. dispatch \in [Dispatchers -> PassState] /\ dispatch[d].pc = "pick"
  BY DEF TypeOK, DispatchClaimFails
<1>2. rest \in PassState /\ rest.pc = "pick"
  BY <1>1 DEF PassState
<1>3. dispatch' = [dispatch EXCEPT ![d] = rest]
  BY DEF DispatchClaimFails
<1> HIDE DEF rest
<1> QED
  BY <1>1, <1>2, <1>3

\* A pass that dies, or loses a pair, keeps the types.
LEMMA FailureType ==
    ASSUME TypeOK, Failure
    PROVE  TypeOK'
<1>1. ASSUME NEW d \in Dispatchers, DispatchInterrupted(d) PROVE TypeOK'
  BY <1>1, IdlePass DEF TypeOK, DispatchInterrupted
<1>2. ASSUME NEW r \in Retriers, RetryInterrupted(r) PROVE TypeOK'
  BY <1>2, IdlePass DEF TypeOK, RetryInterrupted
<1>3. ASSUME NEW d \in Dispatchers, NEW q \in Pairs, DispatchClaimFails(d, q) PROVE TypeOK'
  <2>1. /\ dispatch' \in [Dispatchers -> PassState]
        /\ \A c \in Dispatchers :
              dispatch'[c].pc \in {"post", "record"} => dispatch'[c].pair \in Pairs
    BY <1>3, ClaimFailsMoves DEF TypeOK
  <2>2. faults' \in Nat /\ missed' \subseteq Pairs
        /\ UNCHANGED <<emittedAt, endpoint, delivery, retry, tries>>
    BY <1>3 DEF TypeOK, DispatchClaimFails
  <2> QED
    BY <2>1, <2>2 DEF TypeOK
<1> QED
  BY <1>1, <1>2, <1>3 DEF Failure

----------------------------------------------------------------------------
\* What each step of a pass does to the pass and to its pair.

\* A dispatcher's step writes its own pass only.
LEMMA DispatchStepMoves ==
    ASSUME TypeOK, NEW d \in Dispatchers, NEW to \in PassState, DispatchStep(d, to)
    PROVE  /\ dispatch'[d] = to
           /\ \A c \in Dispatchers \ {d} : dispatch'[c] = dispatch[c]
           /\ retry' = retry /\ faults' = faults
  BY DEF TypeOK, DispatchStep

\* A retrier's step writes its own pass only.
LEMMA RetryStepMoves ==
    ASSUME TypeOK, NEW r \in Retriers, NEW to \in PassState, RetryStep(r, to)
    PROVE  /\ retry'[r] = to
           /\ \A s \in Retriers \ {r} : retry'[s] = retry[s]
           /\ dispatch' = dispatch /\ faults' = faults
  BY DEF TypeOK, RetryStep

\* A pass that begins, or goes on without a pair.
LEMMA DispatchBeginMoves ==
    ASSUME TypeOK, NEW d \in Dispatchers, DispatchBegin(d) \/ DispatchEnd(d)
    PROVE  /\ TypeOK'
           /\ dispatch[d].pc \in {"idle", "pick"} /\ dispatch'[d].pc \in {"idle", "pick"}
           /\ \A c \in Dispatchers \ {d} : dispatch'[c] = dispatch[c]
           /\ UNCHANGED <<delivery, tries, retry, faults>>
<1>1. dispatch[d] \in PassState
  BY DEF TypeOK
<1>2. /\ delivery \in [Pairs -> DeliveryRow] /\ tries \in [Pairs -> Nat]
      /\ missed' \subseteq Pairs
  BY DEF TypeOK, DeliveryRow, DispatchBegin, DispatchEnd
<1>3. CASE DispatchBegin(d)
  <2> DEFINE picked == {q \in Pairs : q[1] \in Batch /\ endpoint[q[2]] = "enabled"}
             to == [dispatch[d] EXCEPT !.pc = "pick", !.todo = picked]
  <2>1. picked \in SUBSET Pairs
    OBVIOUS
  <2> HIDE DEF picked
  <2>2. to \in PassState /\ to.pc = "pick"
    BY <1>1, <2>1 DEF PassState
  <2>3. DispatchStep(d, to) /\ UNCHANGED <<delivery, tries>> /\ dispatch[d].pc = "idle"
    BY <1>3 DEF DispatchBegin, picked
  <2> HIDE DEF to
  <2>4. GoodDispatch(to)
    BY <2>2 DEF GoodDispatch
  <2> QED
    BY <1>2, <2>2, <2>3, <2>4, DispatchStepType, DispatchStepMoves
<1>4. CASE DispatchEnd(d)
  <2>1. GoodDispatch(PassIdle)
    BY IdlePass DEF GoodDispatch
  <2>2. DispatchStep(d, PassIdle) /\ UNCHANGED <<delivery, tries>> /\ dispatch[d].pc = "pick"
    BY <1>4 DEF DispatchEnd
  <2> QED
    BY <1>2, <2>1, <2>2, IdlePass, DispatchStepType, DispatchStepMoves
<1> QED
  BY <1>3, <1>4

\* A claim makes the row, or passes the pair over.
LEMMA DispatchClaimMoves ==
    ASSUME TypeOK, NEW d \in Dispatchers, NEW q \in Pairs, DispatchClaim(d, q)
    PROVE  /\ TypeOK'
           /\ dispatch[d].pc = "pick"
           /\ \A c \in Dispatchers \ {d} : dispatch'[c] = dispatch[c]
           /\ UNCHANGED <<tries, retry, faults>>
           /\ \A o \in Pairs \ {q} : delivery'[o] = delivery[o]
           /\ \/ /\ delivery[q].status = "ABSENT"
                 /\ delivery'[q].status = "PENDING" /\ delivery'[q].attempt = 1
                 /\ dispatch'[d].pc = "post" /\ dispatch'[d].pair = q
              \/ delivery'[q] = delivery[q] /\ dispatch'[d].pc = "pick"
<1> DEFINE rest == [dispatch[d] EXCEPT !.todo = @ \ {q}]
           held == [rest EXCEPT !.pc = "post", !.pair = q]
           claimed == [status |-> "PENDING", attempt |-> 1, due |-> FALSE]
<1>1. dispatch[d] \in PassState /\ dispatch[d].pc = "pick"
  BY DEF TypeOK, DispatchClaim
<1>2. rest \in PassState /\ rest.pc = "pick"
  BY <1>1 DEF PassState
<1>3. held \in PassState /\ held.pc = "post" /\ held.pair = q
  BY <1>1 DEF PassState
<1>4. claimed \in DeliveryRow /\ claimed.status = "PENDING" /\ claimed.attempt = 1
  BY DEF DeliveryRow, DeliveryStatus
<1>5. /\ delivery \in [Pairs -> DeliveryRow] /\ tries \in [Pairs -> Nat]
      /\ missed' \subseteq Pairs
  BY DEF TypeOK, DeliveryRow, DispatchClaim
<1>6. \/ /\ MayClaim(q)
         /\ delivery' = [delivery EXCEPT ![q] = claimed]
         /\ DispatchStep(d, held)
      \/ /\ DispatchStep(d, rest)
         /\ UNCHANGED delivery
  BY DEF DispatchClaim
<1>7. UNCHANGED tries
  BY DEF DispatchClaim
<1> HIDE DEF rest, held, claimed
<1>8. GoodDispatch(rest) /\ GoodDispatch(held)
  BY <1>2, <1>3 DEF GoodDispatch
<1>9. CASE DispatchStep(d, rest) /\ UNCHANGED delivery
  BY <1>1, <1>2, <1>5, <1>7, <1>8, <1>9, DispatchStepType, DispatchStepMoves
<1>10. CASE MayClaim(q) /\ DispatchStep(d, held)
            /\ delivery' = [delivery EXCEPT ![q] = claimed]
  <2>1. /\ delivery' \in [Pairs -> DeliveryRow]
        /\ delivery'[q] = claimed
        /\ \A o \in Pairs \ {q} : delivery'[o] = delivery[o]
    BY <1>4, <1>5, <1>10
  <2>2. TypeOK'
    BY <1>3, <1>5, <1>7, <1>8, <1>10, <2>1, DispatchStepType
  <2> QED
    BY <1>1, <1>3, <1>4, <1>7, <1>10, <2>1, <2>2, DispatchStepMoves DEF MayClaim
<1> QED
  BY <1>6, <1>9, <1>10

\* A post is one more call, and its result is in hand.
LEMMA DispatchPostMoves ==
    ASSUME TypeOK, NEW d \in Dispatchers, DispatchPost(d)
    PROVE  /\ TypeOK'
           /\ dispatch[d].pc = "post" /\ dispatch'[d].pc = "record"
           /\ dispatch[d].pair \in Pairs /\ dispatch'[d].pair = dispatch[d].pair
           /\ \A c \in Dispatchers \ {d} : dispatch'[c] = dispatch[c]
           /\ UNCHANGED <<delivery, retry, faults>>
           /\ tries'[dispatch[d].pair] = tries[dispatch[d].pair] + 1
           /\ \A o \in Pairs \ {dispatch[d].pair} : tries'[o] = tries[o]
<1>1. dispatch[d] \in PassState /\ dispatch[d].pc = "post" /\ dispatch[d].pair \in Pairs
  BY DEF TypeOK, DispatchPost
<1>2. PICK success \in BOOLEAN :
         DispatchStep(d, [dispatch[d] EXCEPT !.pc = "record", !.success = success])
  BY DEF DispatchPost
<1> DEFINE to == [dispatch[d] EXCEPT !.pc = "record", !.success = success]
<1>3. to \in PassState /\ to.pc = "record" /\ to.pair = dispatch[d].pair
  BY <1>1 DEF PassState
<1>4. DispatchStep(d, to)
  BY <1>2
<1> HIDE DEF to
<1>5. GoodDispatch(to)
  BY <1>1, <1>3 DEF GoodDispatch
<1>6. UNCHANGED delivery /\ delivery \in [Pairs -> DeliveryRow] /\ missed' \subseteq Pairs
  BY DEF TypeOK, DispatchPost, DeliveryRow
<1>7. /\ tries' \in [Pairs -> Nat]
      /\ tries'[dispatch[d].pair] = tries[dispatch[d].pair] + 1
      /\ \A o \in Pairs \ {dispatch[d].pair} : tries'[o] = tries[o]
  BY <1>1, DeliverType DEF DispatchPost
<1> QED
  BY <1>1, <1>3, <1>4, <1>5, <1>6, <1>7, DispatchStepType, DispatchStepMoves

\* A record settles the row, or leaves it to the retrier.
LEMMA DispatchRecordMoves ==
    ASSUME TypeOK, NEW d \in Dispatchers, DispatchRecord(d)
    PROVE  /\ TypeOK'
           /\ dispatch[d].pc = "record" /\ dispatch'[d].pc = "pick"
           /\ dispatch[d].pair \in Pairs
           /\ \A c \in Dispatchers \ {d} : dispatch'[c] = dispatch[c]
           /\ UNCHANGED <<tries, retry, faults>>
           /\ delivery'[dispatch[d].pair].status \in {"SUCCEEDED", "FAILED"}
           /\ delivery'[dispatch[d].pair].attempt = delivery[dispatch[d].pair].attempt
           /\ \A o \in Pairs \ {dispatch[d].pair} : delivery'[o] = delivery[o]
<1> DEFINE q == dispatch[d].pair
           status == IF dispatch[d].success THEN "SUCCEEDED" ELSE "FAILED"
           row == [delivery[q] EXCEPT !.status = status]
           to == [dispatch[d] EXCEPT !.pc = "pick", !.pair = NoPair, !.success = FALSE]
<1>1. dispatch[d] \in PassState /\ dispatch[d].pc = "record" /\ q \in Pairs
  BY DEF TypeOK, DispatchRecord
<1>2. to \in PassState /\ to.pc = "pick"
  BY <1>1 DEF PassState
<1>3. /\ delivery \in [Pairs -> DeliveryRow] /\ tries \in [Pairs -> Nat]
      /\ missed' \subseteq Pairs
  BY DEF TypeOK, DeliveryRow, DispatchRecord
<1>4. status \in {"SUCCEEDED", "FAILED"}
  OBVIOUS
<1>5. /\ DispatchStep(d, to) /\ UNCHANGED tries
      /\ delivery' = [delivery EXCEPT ![q] = row]
  BY DEF DispatchRecord
<1> HIDE DEF status, to, q
<1>6. row \in DeliveryRow /\ row.status = status /\ row.attempt = delivery[q].attempt
  <2>1. delivery[q] \in DeliveryRow
    BY <1>1, <1>3
  <2> QED
    BY <1>4, <2>1 DEF DeliveryRow, DeliveryStatus
<1> HIDE DEF row
<1>7. /\ delivery' \in [Pairs -> DeliveryRow] /\ delivery'[q] = row
      /\ \A o \in Pairs \ {q} : delivery'[o] = delivery[o]
  BY <1>1, <1>3, <1>5, <1>6
<1>8. GoodDispatch(to)
  BY <1>2 DEF GoodDispatch
<1>9. TypeOK'
  BY <1>2, <1>3, <1>5, <1>7, <1>8, DispatchStepType
<1> QED
  BY <1>1, <1>2, <1>4, <1>5, <1>6, <1>7, <1>9, DispatchStepMoves DEF q

\* A retry pass takes up failed pairs, with the attempts their rows tell.
LEMMA RetryBeginMoves ==
    ASSUME TypeOK, NEW r \in Retriers, RetryBegin(r)
    PROVE  /\ TypeOK'
           /\ retry[r].pc = "idle" /\ retry'[r].pc = "pick"
           /\ \A o \in retry'[r].todo :
                 /\ o \in Pairs
                 /\ delivery[o].status = "FAILED"
                 /\ retry'[r].attempt[o] = delivery[o].attempt
           /\ UNCHANGED <<delivery, tries, dispatch, faults>>
<1>1. /\ retry[r] \in PassState /\ retry[r].pc = "idle"
      /\ delivery \in [Pairs -> DeliveryRow] /\ tries \in [Pairs -> Nat]
      /\ UNCHANGED <<delivery, tries>>
  BY DEF TypeOK, RetryBegin, DeliveryRow
<1>2. PICK batch \in SUBSET Due :
         RetryStep(r, [retry[r] EXCEPT
            !.pc = "pick", !.todo = batch,
            !.attempt = [q \in Pairs |-> IF q \in batch THEN delivery[q].attempt ELSE 0]])
  BY DEF RetryBegin
<1> DEFINE attempt == [q \in Pairs |-> IF q \in batch THEN delivery[q].attempt ELSE 0]
<1>3. batch \in SUBSET Pairs /\ \A q \in batch : delivery[q].status = "FAILED"
  BY DEF Due
<1>4. attempt \in [Pairs -> Nat]
  BY <1>1 DEF DeliveryRow
<1>5. \A q \in batch : attempt[q] = delivery[q].attempt
  BY <1>3
<1> DEFINE to == [retry[r] EXCEPT !.pc = "pick", !.todo = batch, !.attempt = attempt]
<1>6. RetryStep(r, to)
  BY <1>2
<1> HIDE DEF attempt
<1>7. to \in PassState /\ to.pc = "pick" /\ to.todo = batch /\ to.attempt = attempt
  BY <1>1, <1>3, <1>4 DEF PassState
<1> HIDE DEF to
<1>8. GoodRetry(to)
  BY <1>7 DEF GoodRetry
<1>9. TypeOK'
  BY <1>1, <1>6, <1>7, <1>8, RetryStepType
<1> QED
  BY <1>1, <1>3, <1>5, <1>6, <1>7, <1>9, RetryStepMoves

\* A post takes its pair off the list and is one more call.
LEMMA RetryPostMoves ==
    ASSUME TypeOK, NEW r \in Retriers, NEW q \in Pairs, RetryPost(r, q)
    PROVE  /\ TypeOK'
           /\ retry[r].pc = "pick" /\ retry'[r].pc = "record"
           /\ q \in retry[r].todo /\ retry'[r].todo = retry[r].todo \ {q}
           /\ retry'[r].pair = q /\ retry'[r].attempt = retry[r].attempt
           /\ UNCHANGED <<delivery, dispatch, faults>>
           /\ tries'[q] = tries[q] + 1
           /\ \A o \in Pairs \ {q} : tries'[o] = tries[o]
<1>1. /\ retry[r] \in PassState /\ retry[r].pc = "pick" /\ q \in retry[r].todo
      /\ UNCHANGED delivery /\ delivery \in [Pairs -> DeliveryRow]
  BY DEF TypeOK, RetryPost, DeliveryRow
<1>2. PICK success \in BOOLEAN :
         RetryStep(r, [retry[r] EXCEPT !.pc = "record", !.todo = @ \ {q},
                                       !.pair = q, !.success = success])
  BY DEF RetryPost
<1> DEFINE to == [retry[r] EXCEPT !.pc = "record", !.todo = @ \ {q},
                                  !.pair = q, !.success = success]
<1>3. RetryStep(r, to)
  BY <1>2
<1>4. /\ to \in PassState /\ to.pc = "record" /\ to.todo = retry[r].todo \ {q}
      /\ to.pair = q /\ to.attempt = retry[r].attempt
  BY <1>1 DEF PassState
<1> HIDE DEF to
<1>5. GoodRetry(to)
  BY <1>4 DEF GoodRetry
<1>6. /\ tries' \in [Pairs -> Nat]
      /\ tries'[q] = tries[q] + 1
      /\ \A o \in Pairs \ {q} : tries'[o] = tries[o]
  BY DeliverType DEF RetryPost
<1>7. TypeOK'
  BY <1>1, <1>3, <1>4, <1>5, <1>6, RetryStepType
<1> QED
  BY <1>1, <1>3, <1>4, <1>6, <1>7, RetryStepMoves

\* A record counts the attempt and gives up past the schedule.
LEMMA RetryRecordMoves ==
    ASSUME TypeOK, NEW r \in Retriers, RetryRecord(r)
    PROVE  LET q == retry[r].pair IN
           /\ TypeOK'
           /\ retry[r].pc = "record" /\ retry'[r].pc = "pick" /\ q \in Pairs
           /\ retry'[r].todo = retry[r].todo
           /\ \A o \in Pairs \ {q} : retry'[r].attempt[o] = retry[r].attempt[o]
           /\ UNCHANGED <<tries, dispatch, faults>>
           /\ delivery'[q].attempt = retry[r].attempt[q] + 1
           /\ \/ delivery'[q].status = "SUCCEEDED"
              \/ delivery'[q].status = "EXHAUSTED" /\ delivery'[q].attempt > Retries
              \/ delivery'[q].status = "FAILED" /\ ~(delivery'[q].attempt > Retries)
           /\ \A o \in Pairs \ {q} : delivery'[o] = delivery[o]
<1> DEFINE q == retry[r].pair
           attempt == NextAttempt(retry[r].attempt[q])
           row == CASE retry[r].success ->
                     [status |-> "SUCCEEDED", attempt |-> attempt, due |-> delivery[q].due]
                [] ~retry[r].success /\ ScheduleExhausted(attempt) ->
                     [status |-> "EXHAUSTED", attempt |-> attempt, due |-> FALSE]
                [] ~retry[r].success /\ ~ScheduleExhausted(attempt) ->
                     [status |-> "FAILED", attempt |-> attempt, due |-> FALSE]
           to == [retry[r] EXCEPT !.pc = "pick", !.pair = NoPair,
                            !.attempt[q] = 0, !.success = FALSE]
<1>1. /\ retry[r] \in PassState /\ retry[r].pc = "record" /\ q \in Pairs
      /\ delivery \in [Pairs -> DeliveryRow] /\ tries \in [Pairs -> Nat]
  BY DEF TypeOK, RetryRecord, DeliveryRow
<1>2. /\ RetryStep(r, to) /\ UNCHANGED tries
      /\ delivery' = [delivery EXCEPT ![q] = row]
  BY DEF RetryRecord
<1>3. attempt = retry[r].attempt[q] + 1 /\ attempt \in Nat
  BY <1>1 DEF NextAttempt, PassState
<1>4. delivery[q].due \in BOOLEAN /\ retry[r].success \in BOOLEAN
  BY <1>1 DEF DeliveryRow, PassState
<1>5. /\ to \in PassState /\ to.pc = "pick" /\ to.todo = retry[r].todo
      /\ \A o \in Pairs \ {q} : to.attempt[o] = retry[r].attempt[o]
  <2> DEFINE after == [retry[r].attempt EXCEPT ![q] = 0]
  <2>1. retry[r].attempt \in [Pairs -> Nat]
    BY <1>1 DEF PassState
  <2>2. after \in [Pairs -> Nat] /\ \A o \in Pairs \ {q} : after[o] = retry[r].attempt[o]
    BY <2>1
  <2>3. to = [retry[r] EXCEPT !.pc = "pick", !.pair = NoPair, !.attempt = after, !.success = FALSE]
    BY <1>1 DEF PassState
  <2> HIDE DEF after, q, to
  <2>4. LET new == [retry[r] EXCEPT !.pc = "pick", !.pair = NoPair, !.attempt = after,
                                    !.success = FALSE]
        IN  new \in PassState /\ new.pc = "pick" /\ new.todo = retry[r].todo
            /\ new.attempt = after
    BY <1>1, <2>2 DEF PassState
  <2> QED
    BY <2>2, <2>3, <2>4
<1> HIDE DEF to, attempt, q
<1>6. /\ row \in DeliveryRow /\ row.attempt = attempt
      /\ \/ row.status = "SUCCEEDED"
         \/ row.status = "EXHAUSTED" /\ ScheduleExhausted(attempt)
         \/ row.status = "FAILED" /\ ~ScheduleExhausted(attempt)
  BY <1>3, <1>4 DEF DeliveryRow, DeliveryStatus
<1> HIDE DEF row
<1>7. /\ delivery' \in [Pairs -> DeliveryRow] /\ delivery'[q] = row
      /\ \A o \in Pairs \ {q} : delivery'[o] = delivery[o]
  BY <1>1, <1>2, <1>6
<1>8. GoodRetry(to)
  BY <1>5 DEF GoodRetry
<1>9. TypeOK'
  BY <1>1, <1>2, <1>5, <1>7, <1>8, RetryStepType
<1>10. \/ delivery'[q].status = "SUCCEEDED"
       \/ delivery'[q].status = "EXHAUSTED" /\ delivery'[q].attempt > Retries
       \/ delivery'[q].status = "FAILED" /\ ~(delivery'[q].attempt > Retries)
  BY <1>6, <1>7 DEF ScheduleExhausted
<1>11. /\ retry'[r] = to /\ dispatch' = dispatch /\ faults' = faults
  BY <1>2, <1>5, RetryStepMoves
<1> QED
  BY <1>1, <1>2, <1>3, <1>5, <1>6, <1>7, <1>9, <1>10, <1>11 DEF q

\* A pass that ends.
LEMMA RetryEndMoves ==
    ASSUME TypeOK, NEW r \in Retriers, RetryEnd(r)
    PROVE  /\ TypeOK'
           /\ retry'[r] = PassIdle
           /\ retry[r].pc = "pick"
           /\ UNCHANGED <<delivery, tries, dispatch, faults>>
<1>1. GoodRetry(PassIdle)
  BY IdlePass DEF GoodRetry
<1>2. /\ RetryStep(r, PassIdle) /\ UNCHANGED <<delivery, tries>> /\ retry[r].pc = "pick"
      /\ delivery \in [Pairs -> DeliveryRow] /\ tries \in [Pairs -> Nat]
  BY DEF TypeOK, RetryEnd, DeliveryRow
<1> QED
  BY <1>1, <1>2, IdlePass, RetryStepType, RetryStepMoves

\* Every step keeps the types.
LEMMA NextType == TypeOK /\ [Next]_vars => TypeOK'
<1> SUFFICES ASSUME TypeOK, [Next]_vars PROVE TypeOK'
  OBVIOUS
<1>1. CASE UNCHANGED vars
  BY <1>1 DEF TypeOK, vars
<1>2. ASSUME NEW d \in Dispatchers, DispatchPass(d) PROVE TypeOK'
  BY <1>2, DispatchBeginMoves, DispatchClaimMoves, DispatchPostMoves, DispatchRecordMoves
     DEF DispatchPass
<1>3. ASSUME NEW r \in Retriers, RetryPass(r) PROVE TypeOK'
  BY <1>3, RetryBeginMoves, RetryPostMoves, RetryRecordMoves, RetryEndMoves
     DEF RetryPass
<1> QED
  BY <1>1, <1>2, <1>3, EnvironmentType, FailureType DEF Next, Failure

\* What the tables and the passes of webhook delivery hold is always well typed:
\* a pass that posts or records has a pair in hand.
THEOREM TypeCorrect == Spec => []TypeOK
  BY InitType, NextType, PTL DEF Spec

----------------------------------------------------------------------------
\* Who holds a pair, and what its row and the number of calls then are.

Posting(d, q) == dispatch[d].pc = "post" /\ dispatch[d].pair = q
Recording(d, q) == dispatch[d].pc = "record" /\ dispatch[d].pair = q
Listed(r, q) == q \in retry[r].todo
Retried(r, q) == retry[r].pc = "record" /\ retry[r].pair = q

Ended == {"SUCCEEDED", "FAILED", "EXHAUSTED"}

RowOK(q) ==
    /\ delivery[q].status = "ABSENT" => tries[q] = 0
    /\ delivery[q].status = "PENDING" => delivery[q].attempt = 1
    /\ delivery[q].status = "FAILED" => ~(delivery[q].attempt > Retries)
    /\ delivery[q].status = "EXHAUSTED" => delivery[q].attempt = Retries + 1
    /\ delivery[q].status \in Ended => tries[q] >= delivery[q].attempt

DispatchersOK(q) ==
    /\ \A d \in Dispatchers :
          /\ Posting(d, q) => delivery[q].status = "PENDING" /\ tries[q] = 0
          /\ Recording(d, q) => delivery[q].status = "PENDING" /\ tries[q] = 1
    /\ \A c, d \in Dispatchers : DispatchHolds(c, q) /\ DispatchHolds(d, q) => c = d

RetriersOK(q) ==
    \A r \in Retriers :
        /\ Listed(r, q) \/ Retried(r, q) =>
              delivery[q].status = "FAILED" /\ retry[r].attempt[q] = delivery[q].attempt
        /\ Retried(r, q) => ~Listed(r, q) /\ tries[q] >= delivery[q].attempt + 1
        /\ Retried(r, q) /\ faults = 0 => tries[q] = delivery[q].attempt + 1

CountOK(q) ==
    faults = 0 =>
        /\ delivery[q].status = "PENDING" => \E d \in Dispatchers : DispatchHolds(d, q)
        /\ delivery[q].status \in Ended /\ (\A r \in Retriers : ~Retried(r, q))
              => tries[q] = delivery[q].attempt

PairOK(q) == RowOK(q) /\ DispatchersOK(q) /\ RetriersOK(q) /\ CountOK(q)

SendInv == TypeOK /\ \A q \in Pairs : PairOK(q)

\* A pair whose row and calls stay is all right when its holders stay, or when
\* one of them dies.
LEMMA PairStays ==
    ASSUME NEW q \in Pairs, PairOK(q),
           delivery'[q].status = delivery[q].status,
           delivery'[q].attempt = delivery[q].attempt,
           tries'[q] = tries[q],
           \A d \in Dispatchers : /\ Posting(d, q)' => Posting(d, q)
                                  /\ Recording(d, q)' => Recording(d, q),
           \A r \in Retriers : /\ Listed(r, q)' => Listed(r, q)
                               /\ Retried(r, q)' => Retried(r, q)
                               /\ Listed(r, q)' \/ Retried(r, q)' =>
                                     retry'[r].attempt[q] = retry[r].attempt[q],
           \/ faults' # 0
           \/ /\ faults' = faults
              /\ \A d \in Dispatchers : DispatchHolds(d, q) => DispatchHolds(d, q)'
              /\ \A r \in Retriers : Retried(r, q) => Retried(r, q)'
    PROVE  PairOK(q)'
<1>1. RowOK(q)'
  BY DEF PairOK, RowOK
<1>2. \A d \in Dispatchers : DispatchHolds(d, q)' => DispatchHolds(d, q)
  BY DEF DispatchHolds, Posting, Recording
<1>3. DispatchersOK(q)'
  <2>1. \A d \in Dispatchers :
           /\ Posting(d, q)' => delivery'[q].status = "PENDING" /\ tries'[q] = 0
           /\ Recording(d, q)' => delivery'[q].status = "PENDING" /\ tries'[q] = 1
    BY DEF PairOK, DispatchersOK
  <2>2. \A c, d \in Dispatchers : DispatchHolds(c, q)' /\ DispatchHolds(d, q)' => c = d
    BY <1>2 DEF PairOK, DispatchersOK
  <2> QED
    BY <2>1, <2>2 DEF DispatchersOK
<1>4. faults' # 0 \/ faults' = faults
  OBVIOUS
<1>5. RetriersOK(q)'
  <2> SUFFICES ASSUME NEW r \in Retriers
      PROVE /\ Listed(r, q)' \/ Retried(r, q)' =>
                 /\ delivery'[q].status = "FAILED"
                 /\ retry'[r].attempt[q] = delivery'[q].attempt
            /\ Retried(r, q)' => ~Listed(r, q)' /\ tries'[q] >= delivery'[q].attempt + 1
            /\ Retried(r, q)' /\ faults' = 0 => tries'[q] = delivery'[q].attempt + 1
    BY DEF RetriersOK
  <2> QED
    BY <1>4 DEF PairOK, RetriersOK
<1>6. CountOK(q)'
  BY DEF PairOK, CountOK
<1> QED
  BY <1>1, <1>3, <1>5, <1>6 DEF PairOK

\* At first there is nothing to hold.
LEMMA InitSend == Init => SendInv
<1> SUFFICES ASSUME Init PROVE SendInv
  OBVIOUS
<1>1. TypeOK
  BY InitType
<1>2. ASSUME NEW q \in Pairs PROVE PairOK(q)
  <2>1. delivery[q].status = "ABSENT" /\ tries[q] = 0
    BY DEF Init, NoDelivery
  <2>2. /\ \A d \in Dispatchers : dispatch[d].pc = "idle"
        /\ \A r \in Retriers : retry[r].pc = "idle" /\ retry[r].todo = {}
    BY IdlePass DEF Init
  <2> QED
    BY <2>1, <2>2 DEF PairOK, RowOK, DispatchersOK, RetriersOK, CountOK, Posting, Recording,
                      DispatchHolds, Listed, Retried, Ended
<1> QED
  BY <1>1, <1>2 DEF SendInv

\* The environment writes nothing but the flag that a delay has passed.
LEMMA EnvironmentSend ==
    ASSUME SendInv,
           \/ \E e \in Events : Emit(e)
           \/ \E p \in Endpoints : Register(p) \/ Revoke(p)
           \/ \E q \in Pairs : BecomesDue(q)
    PROVE  \A q \in Pairs : PairOK(q)'
<1> TAKE q \in Pairs
<1>1. UNCHANGED <<dispatch, retry, faults, tries>>
  BY DEF Emit, Register, Revoke, BecomesDue
<1>2. delivery'[q].status = delivery[q].status /\ delivery'[q].attempt = delivery[q].attempt
  <2>1. ASSUME NEW p \in Pairs, BecomesDue(p)
        PROVE  delivery'[q].status = delivery[q].status
               /\ delivery'[q].attempt = delivery[q].attempt
    <3>1. delivery \in [Pairs -> DeliveryRow]
      BY DEF SendInv, TypeOK, DeliveryRow
    <3> DEFINE row == [delivery[p] EXCEPT !.due = TRUE]
    <3>2. row.status = delivery[p].status /\ row.attempt = delivery[p].attempt
      BY <3>1 DEF DeliveryRow
    <3>3. delivery' = [delivery EXCEPT ![p] = row]
      BY <2>1 DEF BecomesDue
    <3> HIDE DEF row
    <3> QED
      BY <3>1, <3>2, <3>3
  <2>2. CASE UNCHANGED delivery
    BY <2>2
  <2> QED
    BY <2>1, <2>2 DEF Emit, Register, Revoke
<1>3. PairOK(q)
  BY DEF SendInv
<1> QED
  BY <1>1, <1>2, <1>3, PairStays DEF Posting, Recording, DispatchHolds, Listed, Retried

\* A pass that dies lets go of its pair.
LEMMA FailureSend ==
    ASSUME SendInv, Failure
    PROVE  \A q \in Pairs : PairOK(q)'
<1> TAKE q \in Pairs
<1>1. UNCHANGED <<delivery, tries>>
  BY DEF Failure, DispatchInterrupted, DispatchClaimFails, RetryInterrupted
<1>2. faults' # 0
  <2>1. faults \in Nat /\ faults' = faults + 1
    BY DEF SendInv, TypeOK, Failure, DispatchInterrupted, DispatchClaimFails,
           RetryInterrupted
  <2> QED
    BY <2>1
<1>3. \A d \in Dispatchers :
         dispatch'[d].pc \in {"idle", "pick"} \/ dispatch'[d] = dispatch[d]
  <2>1. ASSUME NEW c \in Dispatchers, NEW p \in Pairs, DispatchClaimFails(c, p)
        PROVE  \A d \in Dispatchers :
                  dispatch'[d].pc \in {"idle", "pick"} \/ dispatch'[d] = dispatch[d]
    BY <2>1, ClaimFailsMoves DEF SendInv
  <2> QED
    BY <2>1, IdlePass DEF SendInv, TypeOK, Failure, DispatchInterrupted, RetryInterrupted
<1>4. \A r \in Retriers : (retry'[r].pc = "idle" /\ retry'[r].todo = {}) \/ retry'[r] = retry[r]
  BY IdlePass
     DEF SendInv, TypeOK, Failure, DispatchInterrupted, DispatchClaimFails, RetryInterrupted
<1>5. PairOK(q)
  BY DEF SendInv
<1> QED
  BY <1>1, <1>2, <1>3, <1>4, <1>5, PairStays DEF Posting, Recording, Listed, Retried

\* A dispatcher's step leaves the pairs alone that it does not hold.
LEMMA DispatchSpares ==
    ASSUME SendInv, NEW d \in Dispatchers, NEW q \in Pairs,
           ~DispatchHolds(d, q), ~DispatchHolds(d, q)',
           \A c \in Dispatchers \ {d} : dispatch'[c] = dispatch[c],
           UNCHANGED <<retry, faults>>,
           delivery'[q] = delivery[q], tries'[q] = tries[q]
    PROVE  PairOK(q)'
<1>1. \A c \in Dispatchers : /\ Posting(c, q)' <=> Posting(c, q)
                             /\ Recording(c, q)' <=> Recording(c, q)
  BY DEF DispatchHolds, Posting, Recording
<1>2. \A c \in Dispatchers : DispatchHolds(c, q) => DispatchHolds(c, q)'
  BY <1>1 DEF DispatchHolds, Posting, Recording
<1>3. PairOK(q)
  BY DEF SendInv
<1> QED
  BY <1>1, <1>2, <1>3, PairStays DEF Listed, Retried

\* A pair that only one dispatcher holds, and no retrier.
LEMMA HeldByDispatcher ==
    ASSUME NEW d \in Dispatchers, NEW q \in Pairs, PairOK(q), DispatchHolds(d, q)
    PROVE  /\ delivery[q].status = "PENDING" /\ delivery[q].attempt = 1
           /\ \A c \in Dispatchers \ {d} : ~DispatchHolds(c, q)
           /\ \A r \in Retriers : ~Listed(r, q) /\ ~Retried(r, q)
<1>1. delivery[q].status = "PENDING"
  BY DEF PairOK, DispatchersOK, DispatchHolds, Posting, Recording
<1> QED
  BY <1>1 DEF PairOK, DispatchersOK, RowOK, RetriersOK

\* The unique key gives a pair nobody holds to one dispatcher.
LEMMA DispatchClaimSend ==
    ASSUME SendInv, NEW d \in Dispatchers, NEW p \in Pairs, DispatchClaim(d, p)
    PROVE  \A q \in Pairs : PairOK(q)'
<1> TAKE q \in Pairs
<1> DEFINE Claimed ==
       /\ delivery[p].status = "ABSENT"
       /\ delivery'[p].status = "PENDING" /\ delivery'[p].attempt = 1
       /\ dispatch'[d].pc = "post" /\ dispatch'[d].pair = p
<1>1. /\ dispatch[d].pc = "pick"
      /\ \A c \in Dispatchers \ {d} : dispatch'[c] = dispatch[c]
      /\ UNCHANGED <<tries, retry, faults>>
      /\ \A o \in Pairs \ {p} : delivery'[o] = delivery[o]
      /\ Claimed \/ (delivery'[p] = delivery[p] /\ dispatch'[d].pc = "pick")
  BY DispatchClaimMoves DEF SendInv
<1>2. ~DispatchHolds(d, q)
  BY <1>1 DEF DispatchHolds
<1>3. CASE q = p /\ Claimed
  <2>1. PairOK(q) /\ tries'[q] = 0
    BY <1>1, <1>3 DEF SendInv, PairOK, RowOK
  <2>2. /\ \A c \in Dispatchers : ~DispatchHolds(c, q)
        /\ \A r \in Retriers : ~Listed(r, q) /\ ~Retried(r, q)
    BY <1>3, <2>1 DEF PairOK, DispatchersOK, RetriersOK, DispatchHolds, Posting, Recording
  <2>3. /\ \A c \in Dispatchers : DispatchHolds(c, q)' => c = d
        /\ \A r \in Retriers : ~Listed(r, q)' /\ ~Retried(r, q)'
    BY <1>1, <2>2 DEF DispatchHolds, Listed, Retried
  <2>4. Posting(d, q)' /\ DispatchHolds(d, q)' /\ ~Recording(d, q)'
    BY <1>3 DEF Posting, Recording, DispatchHolds
  <2>5. \A c \in Dispatchers : Posting(c, q)' \/ Recording(c, q)' => DispatchHolds(c, q)'
    BY DEF Posting, Recording, DispatchHolds
  <2>6. DispatchersOK(q)'
    BY <1>3, <2>1, <2>3, <2>4, <2>5 DEF DispatchersOK
  <2> QED
    BY <1>3, <2>1, <2>3, <2>4, <2>6 DEF PairOK, RowOK, RetriersOK, CountOK, Ended
<1>4. CASE q # p \/ ~Claimed
  <2>1. ~DispatchHolds(d, q)' /\ delivery'[q] = delivery[q]
    BY <1>1, <1>4 DEF DispatchHolds
  <2> QED
    BY <1>1, <1>2, <2>1, DispatchSpares
<1> QED
  BY <1>3, <1>4

\* The one who claimed a pair makes its first call.
LEMMA DispatchPostSend ==
    ASSUME SendInv, NEW d \in Dispatchers, DispatchPost(d)
    PROVE  \A q \in Pairs : PairOK(q)'
<1> TAKE q \in Pairs
<1>1. /\ dispatch[d].pc = "post" /\ dispatch'[d].pc = "record"
      /\ dispatch'[d].pair = dispatch[d].pair
      /\ \A c \in Dispatchers \ {d} : dispatch'[c] = dispatch[c]
      /\ UNCHANGED <<delivery, retry, faults>>
      /\ q = dispatch[d].pair => tries'[q] = tries[q] + 1
      /\ q # dispatch[d].pair => tries'[q] = tries[q]
  BY DispatchPostMoves DEF SendInv
<1>2. CASE q = dispatch[d].pair
  <2>1. PairOK(q) /\ Posting(d, q) /\ DispatchHolds(d, q)
    BY <1>1, <1>2 DEF SendInv, Posting, DispatchHolds
  <2>2. /\ delivery[q].status = "PENDING" /\ delivery[q].attempt = 1
        /\ \A c \in Dispatchers \ {d} : ~DispatchHolds(c, q)
        /\ \A r \in Retriers : ~Listed(r, q) /\ ~Retried(r, q)
    BY <2>1, HeldByDispatcher
  <2>3. tries'[q] = 1
    BY <1>1, <1>2, <2>1 DEF PairOK, DispatchersOK
  <2>4. /\ \A c \in Dispatchers : DispatchHolds(c, q)' => c = d
        /\ \A r \in Retriers : ~Listed(r, q)' /\ ~Retried(r, q)'
    BY <1>1, <2>2 DEF DispatchHolds, Listed, Retried
  <2>5. Recording(d, q)' /\ DispatchHolds(d, q)' /\ ~Posting(d, q)'
    BY <1>1, <1>2 DEF Posting, Recording, DispatchHolds
  <2>6. \A c \in Dispatchers : Posting(c, q)' \/ Recording(c, q)' => DispatchHolds(c, q)'
    BY DEF Posting, Recording, DispatchHolds
  <2>7. DispatchersOK(q)'
    BY <1>1, <2>2, <2>3, <2>4, <2>5, <2>6 DEF DispatchersOK
  <2> QED
    BY <1>1, <2>2, <2>3, <2>4, <2>5, <2>7 DEF PairOK, RowOK, RetriersOK, CountOK, Ended
<1>3. CASE q # dispatch[d].pair
  <2>1. ~DispatchHolds(d, q) /\ ~DispatchHolds(d, q)'
    BY <1>1, <1>3 DEF DispatchHolds
  <2> QED
    BY <1>1, <1>3, <2>1, DispatchSpares
<1> QED
  BY <1>2, <1>3

\* It records the one call it made.
LEMMA DispatchRecordSend ==
    ASSUME SendInv, NEW d \in Dispatchers, DispatchRecord(d)
    PROVE  \A q \in Pairs : PairOK(q)'
<1> TAKE q \in Pairs
<1>1. /\ dispatch[d].pc = "record" /\ dispatch'[d].pc = "pick"
      /\ \A c \in Dispatchers \ {d} : dispatch'[c] = dispatch[c]
      /\ UNCHANGED <<tries, retry, faults>>
      /\ q = dispatch[d].pair =>
            /\ delivery'[q].status \in {"SUCCEEDED", "FAILED"}
            /\ delivery'[q].attempt = delivery[q].attempt
      /\ q # dispatch[d].pair => delivery'[q] = delivery[q]
  BY DispatchRecordMoves DEF SendInv
<1>2. CASE q = dispatch[d].pair
  <2>1. PairOK(q) /\ Recording(d, q) /\ DispatchHolds(d, q)
    BY <1>1, <1>2 DEF SendInv, Recording, DispatchHolds
  <2>2. /\ delivery[q].status = "PENDING" /\ delivery[q].attempt = 1
        /\ \A c \in Dispatchers \ {d} : ~DispatchHolds(c, q)
        /\ \A r \in Retriers : ~Listed(r, q) /\ ~Retried(r, q)
    BY <2>1, HeldByDispatcher
  <2>3. tries'[q] = 1 /\ delivery'[q].attempt = 1
    BY <1>1, <1>2, <2>1, <2>2 DEF PairOK, DispatchersOK
  <2>4. /\ \A c \in Dispatchers : ~DispatchHolds(c, q)'
        /\ \A r \in Retriers : ~Listed(r, q)' /\ ~Retried(r, q)'
    BY <1>1, <2>2 DEF DispatchHolds, Listed, Retried
  <2>5. \A c \in Dispatchers : Posting(c, q)' \/ Recording(c, q)' => DispatchHolds(c, q)'
    BY DEF Posting, Recording, DispatchHolds
  <2>6. ~(1 > Retries)
    BY DeliveryAssumption
  <2> QED
    BY <1>1, <1>2, <2>3, <2>4, <2>5, <2>6
       DEF PairOK, RowOK, DispatchersOK, RetriersOK, CountOK, Ended
<1>3. CASE q # dispatch[d].pair
  <2>1. ~DispatchHolds(d, q) /\ ~DispatchHolds(d, q)'
    BY <1>1, <1>3 DEF DispatchHolds
  <2> QED
    BY <1>1, <1>3, <2>1, DispatchSpares
<1> QED
  BY <1>2, <1>3

\* A dispatcher that begins, or goes on, holds nothing.
LEMMA DispatchSend ==
    ASSUME SendInv, NEW d \in Dispatchers, DispatchPass(d)
    PROVE  \A q \in Pairs : PairOK(q)'
<1>1. CASE DispatchBegin(d) \/ DispatchEnd(d)
  <2> TAKE q \in Pairs
  <2>1. /\ dispatch[d].pc \in {"idle", "pick"} /\ dispatch'[d].pc \in {"idle", "pick"}
        /\ \A c \in Dispatchers \ {d} : dispatch'[c] = dispatch[c]
        /\ UNCHANGED <<delivery, tries, retry, faults>>
    BY <1>1, DispatchBeginMoves DEF SendInv
  <2>2. ~DispatchHolds(d, q) /\ ~DispatchHolds(d, q)'
    BY <2>1 DEF DispatchHolds
  <2> QED
    BY <2>1, <2>2, DispatchSpares
<1> QED
  BY <1>1, DispatchClaimSend, DispatchPostSend, DispatchRecordSend DEF DispatchPass

\* The retrier alone: what it does not hold before or after a step, no retrier
\* holds, and the pair stays as it is.
LEMMA RetrySpares ==
    ASSUME SendInv, SingleRetrier, NEW r \in Retriers, NEW q \in Pairs,
           Listed(r, q)' => Listed(r, q) /\ retry'[r].attempt[q] = retry[r].attempt[q],
           ~Retried(r, q), ~Retried(r, q)',
           UNCHANGED <<dispatch, faults>>,
           delivery'[q] = delivery[q], tries'[q] = tries[q]
    PROVE  PairOK(q)'
<1>1. \A s \in Retriers : s = r
  BY DEF SingleRetrier
<1>2. PairOK(q)
  BY DEF SendInv
<1> QED
  BY <1>1, <1>2, PairStays DEF Posting, Recording, DispatchHolds, Listed, Retried

\* The retrier takes up pairs whose rows tell every call made.
LEMMA RetryBeginSend ==
    ASSUME SendInv, SingleRetrier, NEW r \in Retriers, RetryBegin(r)
    PROVE  \A q \in Pairs : PairOK(q)'
<1> TAKE q \in Pairs
<1>1. /\ retry[r].pc = "idle" /\ retry'[r].pc = "pick"
      /\ q \in retry'[r].todo =>
            delivery[q].status = "FAILED" /\ retry'[r].attempt[q] = delivery[q].attempt
      /\ UNCHANGED <<delivery, tries, dispatch, faults>>
  BY RetryBeginMoves DEF SendInv
<1>2. ~Retried(r, q) /\ ~Retried(r, q)' /\ PairOK(q)
  BY <1>1 DEF Retried, SendInv
<1>3. \A s \in Retriers : s = r
  BY DEF SingleRetrier
<1>4. CASE Listed(r, q)'
  <2>1. delivery[q].status = "FAILED" /\ retry'[r].attempt[q] = delivery[q].attempt
    BY <1>1, <1>4 DEF Listed
  <2>2. /\ RowOK(q)' /\ DispatchersOK(q)'
    BY <1>1, <1>2 DEF PairOK, RowOK, DispatchersOK, Posting, Recording, DispatchHolds
  <2>3. RetriersOK(q)'
    BY <1>1, <1>2, <1>3, <2>1 DEF RetriersOK
  <2>4. CountOK(q)'
    BY <1>1, <1>2, <1>3, <2>1 DEF PairOK, CountOK, Ended
  <2> QED
    BY <2>2, <2>3, <2>4 DEF PairOK
<1>5. CASE ~Listed(r, q)'
  BY <1>1, <1>2, <1>5, RetrySpares
<1> QED
  BY <1>4, <1>5

\* The call of the retrier goes beyond what the row tells.
LEMMA RetryPostSend ==
    ASSUME SendInv, SingleRetrier, NEW r \in Retriers, NEW p \in Pairs, RetryPost(r, p)
    PROVE  \A q \in Pairs : PairOK(q)'
<1> TAKE q \in Pairs
<1>1. /\ retry[r].pc = "pick" /\ retry'[r].pc = "record"
      /\ p \in retry[r].todo /\ retry'[r].todo = retry[r].todo \ {p}
      /\ retry'[r].pair = p /\ retry'[r].attempt = retry[r].attempt
      /\ UNCHANGED <<delivery, dispatch, faults>>
      /\ q = p => tries'[q] = tries[q] + 1
      /\ q # p => tries'[q] = tries[q]
  BY RetryPostMoves DEF SendInv
<1>2. PairOK(q) /\ ~Retried(r, q)
  BY <1>1 DEF SendInv, Retried
<1>3. \A s \in Retriers : s = r
  BY DEF SingleRetrier
<1>4. CASE q = p
  <2>1. Listed(r, q) /\ ~Listed(r, q)' /\ Retried(r, q)'
    BY <1>1, <1>4 DEF Listed, Retried
  <2>2. delivery[q].status = "FAILED" /\ retry[r].attempt[q] = delivery[q].attempt
    BY <1>2, <2>1 DEF PairOK, RetriersOK
  <2>3. /\ tries[q] >= delivery[q].attempt
        /\ faults = 0 => tries[q] = delivery[q].attempt
    BY <1>2, <1>3, <2>2 DEF PairOK, RowOK, CountOK, Ended
  <2>4. delivery[q].attempt \in Nat /\ tries[q] \in Nat
    BY DEF SendInv, TypeOK
  <2>5. RowOK(q)'
    BY <1>1, <1>2, <1>4, <2>2, <2>3, <2>4 DEF PairOK, RowOK, Ended
  <2>6. DispatchersOK(q)'
    BY <1>1, <1>2, <2>2 DEF PairOK, DispatchersOK, Posting, Recording, DispatchHolds
  <2>7. RetriersOK(q)'
    BY <1>1, <1>3, <1>4, <2>1, <2>2, <2>3, <2>4 DEF RetriersOK
  <2>8. CountOK(q)'
    BY <1>1, <2>1, <2>2 DEF CountOK
  <2> QED
    BY <2>5, <2>6, <2>7, <2>8 DEF PairOK
<1>5. CASE q # p
  <2>1. ~Retried(r, q)' /\ (Listed(r, q)' => Listed(r, q))
    BY <1>1, <1>5 DEF Listed, Retried
  <2> QED
    BY <1>1, <1>2, <1>5, <2>1, RetrySpares
<1> QED
  BY <1>4, <1>5

\* The record catches up with it, and gives up when the schedule is used up.
LEMMA RetryRecordSend ==
    ASSUME SendInv, SingleRetrier, NEW r \in Retriers, RetryRecord(r)
    PROVE  \A q \in Pairs : PairOK(q)'
<1> TAKE q \in Pairs
<1> DEFINE p == retry[r].pair
<1>1. /\ retry[r].pc = "record" /\ retry'[r].pc = "pick"
      /\ retry'[r].todo = retry[r].todo
      /\ UNCHANGED <<tries, dispatch, faults>>
      /\ q # p => /\ retry'[r].attempt[q] = retry[r].attempt[q]
                  /\ delivery'[q] = delivery[q]
      /\ q = p =>
            /\ delivery'[q].attempt = retry[r].attempt[q] + 1
            /\ \/ delivery'[q].status = "SUCCEEDED"
               \/ delivery'[q].status = "EXHAUSTED" /\ delivery'[q].attempt > Retries
               \/ delivery'[q].status = "FAILED" /\ ~(delivery'[q].attempt > Retries)
  BY RetryRecordMoves DEF SendInv
<1>2. PairOK(q) /\ ~Retried(r, q)'
  BY <1>1 DEF SendInv, Retried
<1>3. \A s \in Retriers : s = r
  BY DEF SingleRetrier
<1>4. CASE q = p
  <2>1. Retried(r, q)
    BY <1>1, <1>4 DEF Retried
  <2>2. /\ delivery[q].status = "FAILED" /\ retry[r].attempt[q] = delivery[q].attempt
        /\ ~Listed(r, q) /\ tries[q] >= delivery[q].attempt + 1
        /\ faults = 0 => tries[q] = delivery[q].attempt + 1
        /\ ~(delivery[q].attempt > Retries)
    BY <1>2, <2>1 DEF PairOK, RetriersOK, RowOK
  <2>3. delivery[q].attempt \in Nat /\ tries[q] \in Nat /\ Retries \in Nat
    BY DeliveryAssumption DEF SendInv, TypeOK
  <2>4. delivery'[q].attempt = delivery[q].attempt + 1
    BY <1>1, <1>4, <2>2
  <2>5. /\ delivery'[q].status \in Ended
        /\ delivery'[q].status = "FAILED" => ~(delivery'[q].attempt > Retries)
        /\ delivery'[q].status = "EXHAUSTED" => delivery'[q].attempt = Retries + 1
    BY <1>1, <1>4, <2>2, <2>3, <2>4 DEF Ended
  <2>6. RowOK(q)'
    BY <1>1, <2>2, <2>4, <2>5 DEF RowOK, Ended
  <2>7. \A c \in Dispatchers : ~DispatchHolds(c, q)
    BY <1>2, <2>2, HeldByDispatcher
  <2>8. DispatchersOK(q)'
    BY <1>1, <2>7 DEF DispatchersOK, Posting, Recording, DispatchHolds
  <2>9. RetriersOK(q)'
    BY <1>1, <1>2, <1>3, <2>2 DEF RetriersOK, Listed
  <2>10. CountOK(q)'
    BY <1>1, <2>2, <2>4, <2>5 DEF CountOK, Ended
  <2> QED
    BY <2>6, <2>8, <2>9, <2>10 DEF PairOK
<1>5. CASE q # p
  <2>1. ~Retried(r, q) /\ (Listed(r, q)' => Listed(r, q))
    BY <1>1, <1>5 DEF Listed, Retried
  <2> QED
    BY <1>1, <1>2, <1>5, <2>1, RetrySpares
<1> QED
  BY <1>4, <1>5

\* A pass that ends lets go of what it never took up.
LEMMA RetrySend ==
    ASSUME SendInv, SingleRetrier, NEW r \in Retriers, RetryPass(r)
    PROVE  \A q \in Pairs : PairOK(q)'
<1>1. CASE RetryEnd(r)
  <2> TAKE q \in Pairs
  <2>1. /\ retry'[r] = PassIdle /\ retry[r].pc = "pick"
        /\ UNCHANGED <<delivery, tries, dispatch, faults>>
    BY <1>1, RetryEndMoves DEF SendInv
  <2>2. ~Listed(r, q)' /\ ~Retried(r, q) /\ ~Retried(r, q)'
    BY <2>1, IdlePass DEF Listed, Retried
  <2> QED
    BY <2>1, <2>2, RetrySpares
<1> QED
  BY <1>1, RetryBeginSend, RetryPostSend, RetryRecordSend DEF RetryPass

\* The invariant is inductive.
LEMMA NextSend == SingleRetrier /\ SendInv /\ [Next]_vars => SendInv'
<1> SUFFICES ASSUME SingleRetrier, SendInv, [Next]_vars PROVE SendInv'
  OBVIOUS
<1>1. TypeOK'
  BY NextType DEF SendInv
<1>2. \A q \in Pairs : PairOK(q)'
  <2>1. CASE UNCHANGED vars
    BY <2>1 DEF SendInv, vars, PairOK, RowOK, DispatchersOK, RetriersOK, CountOK,
                Posting, Recording, DispatchHolds, Listed, Retried
  <2> QED
    BY <2>1, EnvironmentSend, FailureSend, DispatchSend, RetrySend
       DEF Next, Failure
<1> QED
  BY <1>1, <1>2 DEF SendInv

----------------------------------------------------------------------------
\* The row of a held pair tells the two kinds of passes apart.
LEMMA SendersAreAlone == SendInv => OneSender
<1> SUFFICES ASSUME SendInv, NEW q \in Pairs
    PROVE  /\ \A c, d \in Dispatchers : DispatchHolds(c, q) /\ DispatchHolds(d, q) => c = d
           /\ \A d \in Dispatchers, r \in Retriers : ~(DispatchHolds(d, q) /\ RetryHolds(r, q))
  BY DEF OneSender
<1>1. PairOK(q)
  BY DEF SendInv
<1>2. \A d \in Dispatchers : DispatchHolds(d, q) => delivery[q].status = "PENDING"
  BY <1>1, HeldByDispatcher
<1>3. \A r \in Retriers : RetryHolds(r, q) => delivery[q].status = "FAILED"
  BY <1>1 DEF PairOK, RetriersOK, RetryHolds, Listed, Retried
<1> QED
  BY <1>1, <1>2, <1>3 DEF PairOK, DispatchersOK

\* No call is under way for a row that counts them all.
LEMMA AttemptsAreHonest == SendInv => AttemptsAreCounted
<1> SUFFICES ASSUME SendInv, NEW q \in Pairs
    PROVE  LET row == delivery[q]
               inFlight == \/ \E d \in Dispatchers : DispatchHolds(d, q)
                           \/ \E r \in Retriers : retry[r].pc = "record" /\ retry[r].pair = q
           IN  /\ row.status \in {"SUCCEEDED", "FAILED", "EXHAUSTED"} => tries[q] >= row.attempt
               /\ faults = 0 /\ row.status # "ABSENT" /\ ~inFlight => tries[q] = row.attempt
               /\ row.status = "EXHAUSTED" => row.attempt = Retries + 1
  BY DEF AttemptsAreCounted
<1>1. PairOK(q)
  BY DEF SendInv
<1>2. delivery[q].status \in Ended \cup {"ABSENT", "PENDING"}
  BY DEF SendInv, TypeOK, DeliveryStatus, Ended
<1>3. faults = 0 /\ delivery[q].status = "PENDING" => \E d \in Dispatchers : DispatchHolds(d, q)
  BY <1>1 DEF PairOK, CountOK
<1>4. faults = 0 /\ delivery[q].status \in Ended /\ (\A r \in Retriers : ~Retried(r, q))
        => tries[q] = delivery[q].attempt
  BY <1>1 DEF PairOK, CountOK
<1> QED
  BY <1>1, <1>2, <1>3, <1>4 DEF PairOK, RowOK, Ended, Retried

\* However many dispatchers overlap, runWebhookDispatch and runWebhookRetry never
\* have the same event under way to the same endpoint twice.
THEOREM OneSenderAlways == ASSUME SingleRetrier PROVE Spec => []OneSender
<1>1. SendInv /\ [Next]_vars => SendInv'
  BY NextSend
<1> QED
  BY <1>1, InitSend, SendersAreAlone, PTL DEF Spec

\* A delivery's attempt number is the number of calls of deliverWebhook, but for
\* calls whose pass died, and EXHAUSTED means the whole schedule was used.
THEOREM AttemptsCountedAlways == ASSUME SingleRetrier PROVE Spec => []AttemptsAreCounted
<1>1. SendInv /\ [Next]_vars => SendInv'
  BY NextSend
<1> QED
  BY <1>1, InitSend, AttemptsAreHonest, PTL DEF Spec

----------------------------------------------------------------------------
\* The rows of the held pairs also say what a record may overwrite.

MayBecome == {"ABSENT"} \X {"PENDING"}
             \cup {"PENDING"} \X {"SUCCEEDED", "FAILED"}
             \cup {"FAILED"} \X {"SUCCEEDED", "EXHAUSTED"}

Forward(q) ==
    delivery'[q].status = delivery[q].status
        \/ <<delivery[q].status, delivery'[q].status>> \in MayBecome

\* A dispatcher's steps go forward.
LEMMA DispatchForward ==
    ASSUME SendInv, NEW d \in Dispatchers, DispatchPass(d)
    PROVE  \A q \in Pairs : Forward(q)
<1> TAKE q \in Pairs
<1>1. CASE DispatchBegin(d) \/ DispatchEnd(d) \/ DispatchPost(d)
  BY <1>1 DEF DispatchBegin, DispatchEnd, DispatchPost, Forward
<1>2. ASSUME NEW p \in Pairs, DispatchClaim(d, p) PROVE Forward(q)
  <2>1. delivery'[q] = delivery[q]
        \/ (delivery[q].status = "ABSENT" /\ delivery'[q].status = "PENDING")
    BY <1>2, DispatchClaimMoves DEF SendInv
  <2> QED
    BY <2>1 DEF Forward, MayBecome
<1>3. CASE DispatchRecord(d)
  <2>1. /\ dispatch[d].pc = "record"
        /\ q # dispatch[d].pair => delivery'[q] = delivery[q]
        /\ q = dispatch[d].pair => delivery'[q].status \in {"SUCCEEDED", "FAILED"}
    BY <1>3, DispatchRecordMoves DEF SendInv
  <2>2. q = dispatch[d].pair => delivery[q].status = "PENDING"
    BY <2>1 DEF SendInv, PairOK, DispatchersOK, Recording
  <2> QED
    BY <2>1, <2>2 DEF Forward, MayBecome
<1> QED
  BY <1>1, <1>2, <1>3 DEF DispatchPass

\* The retrier's steps go forward.
LEMMA RetryForward ==
    ASSUME SendInv, NEW r \in Retriers, RetryPass(r)
    PROVE  \A q \in Pairs : Forward(q)
<1> TAKE q \in Pairs
<1>1. CASE RetryBegin(r) \/ RetryEnd(r) \/ \E p \in Pairs : RetryPost(r, p)
  BY <1>1 DEF RetryBegin, RetryEnd, RetryPost, Forward
<1>2. CASE RetryRecord(r)
  <2>1. /\ retry[r].pc = "record"
        /\ q # retry[r].pair => delivery'[q] = delivery[q]
        /\ q = retry[r].pair => delivery'[q].status \in {"SUCCEEDED", "EXHAUSTED", "FAILED"}
    BY <1>2, RetryRecordMoves DEF SendInv
  <2>2. q = retry[r].pair => delivery[q].status = "FAILED"
    BY <2>1 DEF SendInv, PairOK, RetriersOK, Retried
  <2> QED
    BY <2>1, <2>2 DEF Forward, MayBecome
<1> QED
  BY <1>1, <1>2 DEF RetryPass

\* The environment, and passes that die, leave every status.
LEMMA OthersForward ==
    ASSUME SendInv,
           \/ \E e \in Events : Emit(e)
           \/ \E p \in Endpoints : Register(p) \/ Revoke(p)
           \/ \E p \in Pairs : BecomesDue(p)
           \/ Failure
    PROVE  \A q \in Pairs : Forward(q)
<1> TAKE q \in Pairs
<1>1. ASSUME NEW p \in Pairs, BecomesDue(p) PROVE Forward(q)
  <2>1. delivery \in [Pairs -> DeliveryRow]
    BY DEF SendInv, TypeOK, DeliveryRow
  <2> DEFINE row == [delivery[p] EXCEPT !.due = TRUE]
  <2>2. row.status = delivery[p].status
    BY <2>1 DEF DeliveryRow
  <2>3. delivery' = [delivery EXCEPT ![p] = row]
    BY <1>1 DEF BecomesDue
  <2> HIDE DEF row
  <2> QED
    BY <2>1, <2>2, <2>3 DEF Forward
<1>2. CASE UNCHANGED delivery
  BY <1>2 DEF Forward
<1> QED
  BY <1>1, <1>2 DEF Emit, Register, Revoke, Failure, DispatchInterrupted,
                    DispatchClaimFails, RetryInterrupted

\* Records are written by id, yet never over a result that stands: no row goes
\* back from SUCCEEDED or EXHAUSTED, nor from FAILED to PENDING.
THEOREM DeliveriesGoForward == ASSUME SingleRetrier PROVE Spec => DeliveryStepsForward
<1> DEFINE Step ==
       \A q \in Pairs :
          LET from == delivery[q].status
              to   == delivery'[q].status
          IN  from # to =>
                <<from, to>> \in {"ABSENT"} \X {"PENDING"}
                                \cup {"PENDING"} \X {"SUCCEEDED", "FAILED"}
                                \cup {"FAILED"} \X {"SUCCEEDED", "EXHAUSTED"}
<1>1. SendInv /\ [Next]_vars => SendInv'
  BY NextSend
<1>2. SendInv /\ [Next]_vars => [Step]_vars
  <2> SUFFICES ASSUME SendInv, Next PROVE Step
    OBVIOUS
  <2>1. \A q \in Pairs : Forward(q)
    BY DispatchForward, RetryForward, OthersForward DEF Next, Failure
  <2> QED
    BY <2>1 DEF Forward, MayBecome
<1>3. Spec => [][Step]_vars
  BY <1>1, <1>2, InitSend, PTL DEF Spec
<1> QED
  BY <1>3 DEF DeliveryStepsForward
=============================================================================
