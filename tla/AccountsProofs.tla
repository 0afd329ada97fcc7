--------------------------- MODULE AccountsProofs ---------------------------
(***************************************************************************)
(* Proofs about an account, for any number of tabs, any thresholds and     *)
(* bounds.                                                                 *)
(*                                                                         *)
(* A lock is earned because each request that fails brought a slip of its  *)
(* own: the counter it read, plus the requests with a slip still under     *)
(* way, itself among them, are no more than the slips made.  An enabled    *)
(* secret is confirmed because the one in the row is, or was overtaken, as *)
(* long as a tab stands between the check of a code and the write.         *)
(***************************************************************************)
EXTENDS Accounts, FiniteSetTheorems, TLAPS

UserRow == [exists : BOOLEAN, verified : BOOLEAN,
            status : {"PENDING_VERIFICATION", "ACTIVE", "LOCKED"},
            attempts : Nat, locked : BOOLEAN, enabled : BOOLEAN, secret : Nat]

Calls == {"idle", "create user", "issue token", "consume", "incr", "expire",
          "find", "failed", "succeeded", "show secret", "confirm"}

TabState == [pc : Calls,
             row : UserRow, slip : BOOLEAN, needsTotp : BOOLEAN]

Types ==
    /\ user \in UserRow
    /\ tab \in [Tabs -> TabState]
    /\ hits \in Nat
    /\ secrets \in Nat
    /\ slips \in Nat

\* The requests under way with a mistyped password.
Pending == {t \in Tabs : tab[t].slip}

\* Attempts read or written, and the slips not counted yet, were all made.
Accounted(attempts) == attempts + Cardinality(Pending) <= slips

NoSecondFactor ==
    /\ ~user.enabled
    /\ user.secret = NoSecret
    /\ \A t \in Tabs : ~At(t, "confirm")

SlipsInv ==
    secrets = 0 =>
        /\ NoSecondFactor
        /\ IsFiniteSet(Pending)
        /\ Accounted(user.attempts)
        /\ \A t \in Tabs : At(t, "failed") => tab[t].slip /\ Accounted(tab[t].row.attempts)
        /\ user.status = "LOCKED" \/ user.locked => slips >= LockThreshold

SecretInv ==
    user.enabled \/ (\E t \in Tabs : At(t, "confirm"))
        => user.secret \in confirmed \cup overtaken

----------------------------------------------------------------------------
\* One tab moves on.
Moves(t, to) == tab' = [tab EXCEPT ![t] = to]

\* The tab a request starts from, and comes back to.
LEMMA IdleTypes == NoUser \in UserRow /\ IdleTab \in TabState
  BY DEF NoUser, UserRow, IdleTab, TabState, Calls, NoSecret

\* What the ways of moving on come to.
LEMMA GotoMoves ==
    ASSUME Types, NEW t \in Tabs,
           NEW pc \in Calls,
           Goto(t, pc)
    PROVE  \E to \in TabState : /\ Moves(t, to)
                                /\ to.pc = pc
                                /\ to.row = tab[t].row
                                /\ to.slip = tab[t].slip
  <1> DEFINE to == [tab[t] EXCEPT !.pc = pc]
  <1>1. to \in TabState /\ to.pc = pc /\ to.row = tab[t].row /\ to.slip = tab[t].slip
    BY DEF Types, TabState
  <1>2. Moves(t, to)
    BY DEF Goto, Moves
  <1> HIDE DEF to
  <1> QED  BY <1>1, <1>2

LEMMA ReadMoves ==
    ASSUME Types, NEW t \in Tabs, NEW pc \in {"failed", "succeeded", "confirm"},
           ReadAndGoto(t, pc)
    PROVE  \E to \in TabState : /\ Moves(t, to)
                                /\ to.pc = pc
                                /\ to.row = user
                                /\ to.slip = tab[t].slip
  <1> DEFINE to == [tab[t] EXCEPT !.pc = pc, !.row = user]
  <1>1. to \in TabState /\ to.pc = pc /\ to.row = user /\ to.slip = tab[t].slip
    BY DEF Types, TabState, Calls
  <1>2. Moves(t, to)
    BY DEF ReadAndGoto, Moves, Types
  <1> HIDE DEF to
  <1> QED  BY <1>1, <1>2

LEMMA ReturnMoves ==
    ASSUME Types, NEW t \in Tabs, Return(t)
    PROVE  \E to \in TabState : Moves(t, to) /\ to.pc = "idle" /\ ~to.slip
  <1> DEFINE to == [IdleTab EXCEPT !.needsTotp = tab[t].needsTotp]
  <1>1. to \in TabState /\ to.pc = "idle" /\ ~to.slip
    BY IdleTypes DEF Types, TabState, Calls, IdleTab
  <1>2. Moves(t, to)
    BY DEF Return, Moves
  <1> HIDE DEF to
  <1> QED  BY <1>1, <1>2

\* A request goes on to a call that neither counts a failure nor confirms.
LEMMA CallMoves ==
    ASSUME Types, NEW t \in Tabs,
           NEW pc \in {"create user", "issue token", "consume", "expire", "find"},
           Goto(t, pc) \/ Return(t)
    PROVE  \E to \in TabState : /\ Moves(t, to)
                                /\ to.pc \notin {"failed", "confirm"}
                                /\ to.slip => tab[t].slip
  <1>1. CASE Goto(t, pc)
    <2>1. pc \in Calls
      BY DEF Calls
    <2>2. PICK to \in TabState : Moves(t, to) /\ to.pc = pc /\ to.slip = tab[t].slip
      BY <1>1, <2>1, GotoMoves
    <2> QED  BY <2>2
  <1>2. CASE Return(t)
    <2>1. PICK to \in TabState : Moves(t, to) /\ to.pc = "idle" /\ ~to.slip
      BY <1>2, ReturnMoves
    <2> QED  BY <2>1
  <1> QED  BY <1>1, <1>2

AccountInv == Types /\ SlipsInv /\ SecretInv

----------------------------------------------------------------------------
\* A new account has no slips and no secret.
LEMMA InitAccount == Init => AccountInv
  <1> SUFFICES ASSUME Init PROVE AccountInv
    OBVIOUS
  <1>1. Types
    BY IdleTypes DEF Init, Types, NoUser, UserRow, NoSecret
  <1>2. \A t \in Tabs : tab[t].pc = "idle" /\ ~tab[t].slip
    BY DEF Init, IdleTab
  <1>3. Pending = {}
    BY <1>2 DEF Pending
  <1>4. /\ ~user.enabled /\ user.secret = NoSecret /\ user.attempts = 0
        /\ user.status = "PENDING_VERIFICATION" /\ ~user.locked /\ slips = 0
    BY DEF Init, NoUser
  <1>5. SlipsInv
    BY <1>2, <1>3, <1>4, FS_EmptySet DEF SlipsInv, NoSecondFactor, Accounted, At
  <1>6. SecretInv
    BY <1>2, <1>4 DEF SecretInv, At
  <1> QED  BY <1>1, <1>5, <1>6 DEF AccountInv

\* The other tabs stay where they are.
LEMMA MoveReads ==
    ASSUME Types, NEW t \in Tabs, NEW to \in TabState, Moves(t, to)
    PROVE  /\ tab' \in [Tabs -> TabState]
           /\ tab'[t] = to
           /\ \A u \in Tabs \ {t} : tab'[u] = tab[u]
  BY DEF Types, Moves

\* A request that ends takes its slip out of the count; none is put in.
LEMMA PendingShrinks ==
    ASSUME Types, IsFiniteSet(Pending), NEW t \in Tabs, NEW to \in TabState,
           Moves(t, to), to.slip => tab[t].slip
    PROVE  /\ IsFiniteSet(Pending')
           /\ Cardinality(Pending') \in Nat /\ Cardinality(Pending) \in Nat
           /\ Cardinality(Pending') <= Cardinality(Pending)
           /\ tab[t].slip /\ ~to.slip => Cardinality(Pending') = Cardinality(Pending) - 1
  <1>1. CASE to.slip = tab[t].slip
    <2>1. Pending' = Pending
      BY <1>1, MoveReads DEF Pending
    <2> QED  BY <1>1, <2>1, FS_CardinalityType
  <1>2. CASE to.slip # tab[t].slip
    <2>1. tab[t].slip /\ ~to.slip
      BY <1>2 DEF Types, TabState
    <2>2. Pending' = Pending \ {t} /\ t \in Pending
      BY <2>1, MoveReads DEF Pending
    <2>3. /\ IsFiniteSet(Pending \ {t})
          /\ Cardinality(Pending \ {t}) = Cardinality(Pending) - 1
      BY <2>2, FS_RemoveElement
    <2>4. Cardinality(Pending) \in Nat /\ Cardinality(Pending \ {t}) \in Nat
      BY <2>3, FS_CardinalityType
    <2> QED  BY <2>2, <2>3, <2>4
  <1> QED  BY <1>1, <1>2

\* Most steps: no slip is made, none is written, no secret is generated.
LEMMA QuietStep ==
    ASSUME AccountInv, NEW t \in Tabs, NEW to \in TabState, Moves(t, to),
           UNCHANGED <<secrets, slips>>,
           user' \in UserRow, hits' \in Nat,
           user'.secret = user.secret,
           user'.attempts \in {0, user.attempts},
           user'.status = "LOCKED" => user.status = "LOCKED",
           user'.locked => user.locked,
           user'.enabled => user.enabled \/ At(t, "confirm"),
           confirmed \subseteq confirmed', overtaken \subseteq overtaken',
           to.slip => tab[t].slip,
           to.pc = "failed" /\ secrets = 0 => to = tab[t] \/ (to.slip /\ to.row = user),
           to.pc = "confirm" =>
              At(t, "confirm") \/ (user.secret # NoSecret /\ user.secret \in confirmed')
    PROVE  AccountInv'
  <1>1. Types'
    BY MoveReads DEF AccountInv, Types
  <1>2. SlipsInv'
    <2> SUFFICES ASSUME secrets = 0
                 PROVE  /\ NoSecondFactor'
                        /\ IsFiniteSet(Pending')
                        /\ Accounted(user.attempts)'
                        /\ \A u \in Tabs : At(u, "failed")' =>
                              tab'[u].slip /\ Accounted(tab[u].row.attempts)'
                        /\ user'.status = "LOCKED" \/ user'.locked => slips' >= LockThreshold
      BY DEF SlipsInv
    <2>1. /\ NoSecondFactor
          /\ IsFiniteSet(Pending)
          /\ Accounted(user.attempts)
          /\ \A u \in Tabs : At(u, "failed") => tab[u].slip /\ Accounted(tab[u].row.attempts)
          /\ user.status = "LOCKED" \/ user.locked => slips >= LockThreshold
      BY DEF AccountInv, SlipsInv
    <2>2. /\ IsFiniteSet(Pending')
          /\ Cardinality(Pending') \in Nat /\ Cardinality(Pending) \in Nat
          /\ Cardinality(Pending') <= Cardinality(Pending)
      BY <2>1, PendingShrinks DEF AccountInv
    <2>3. NoSecondFactor'
      BY <2>1, MoveReads DEF AccountInv, NoSecondFactor, At
    <2>4. ASSUME NEW n \in Nat, Accounted(n) PROVE n + Cardinality(Pending') <= slips'
      BY <2>2, <2>4 DEF Accounted, AccountInv, Types
    <2>5. user.attempts \in Nat /\ \A u \in Tabs : tab[u].row.attempts \in Nat
      BY DEF AccountInv, Types, UserRow, TabState
    <2>6. Accounted(user.attempts)'
      <3>1. Accounted(0)
        BY <2>1, <2>2, <2>5 DEF Accounted, AccountInv, Types
      <3> QED  BY <2>1, <2>4, <2>5, <3>1 DEF Accounted
    <2>7. ASSUME NEW u \in Tabs, At(u, "failed")'
          PROVE  tab'[u].slip /\ tab'[u].row.attempts + Cardinality(Pending') <= slips'
      <3>1. CASE u = t /\ to # tab[t]
        <4>1. to.slip /\ to.row = user /\ tab'[u] = to
          BY <2>7, <3>1, MoveReads DEF AccountInv, At
        <4> QED  BY <2>1, <2>4, <2>5, <4>1
      <3>2. CASE u # t \/ to = tab[t]
        <4>1. tab'[u] = tab[u] /\ At(u, "failed")
          BY <2>7, <3>2, MoveReads DEF AccountInv, At
        <4> QED  BY <2>1, <2>4, <2>5, <4>1
      <3> QED  BY <3>1, <3>2
    <2> QED  BY <2>1, <2>2, <2>3, <2>6, <2>7 DEF Accounted
  <1>3. SecretInv'
    <2>1. ASSUME user'.enabled \/ \E u \in Tabs : At(u, "confirm")'
          PROVE  user.secret \in confirmed' \cup overtaken'
      <3>1. \/ user.enabled \/ \E u \in Tabs : At(u, "confirm")
            \/ user.secret \in confirmed'
        BY <2>1, MoveReads DEF AccountInv, At
      <3> QED  BY <3>1 DEF AccountInv, SecretInv
    <2> QED  BY <2>1 DEF SecretInv
  <1> QED  BY <1>1, <1>2, <1>3 DEF AccountInv

----------------------------------------------------------------------------
\* Registration and verification leave counter, lock and secret alone.
LEMMA RegisterStep ==
    ASSUME AccountInv, NEW t \in Tabs,
           RegisterFind(t) \/ CreateUser(t) \/ IssueVerification(t)
           \/ ConsumeFind(t) \/ Consume(t)
    PROVE  AccountInv'
  <1>1. Types
    BY DEF AccountInv
  <1>2. UNCHANGED <<hits, secrets, slips, confirmed, overtaken>>
    BY DEF RegisterFind, CreateUser, IssueVerification, ConsumeFind, Consume, twoFactor,
           limiter
  <1>3. PICK to \in TabState : /\ Moves(t, to)
                               /\ to.pc \notin {"failed", "confirm"}
                               /\ to.slip => tab[t].slip
    <2>1. \/ Goto(t, "create user") \/ Goto(t, "issue token") \/ Goto(t, "consume")
          \/ Return(t)
      BY DEF RegisterFind, CreateUser, IssueVerification, ConsumeFind, Consume
    <2> QED  BY <1>1, <2>1, CallMoves
  <1>4. /\ user' \in UserRow
        /\ user'.secret = user.secret /\ user'.attempts = user.attempts
        /\ user'.locked = user.locked /\ user'.enabled = user.enabled
        /\ user'.status = "LOCKED" => user.status = "LOCKED"
    <2>1. user \in UserRow
      BY <1>1 DEF Types
    <2>2. CASE UNCHANGED user
      BY <2>1, <2>2
    <2>3. CASE user' = [user EXCEPT !.exists = TRUE]
      BY <2>1, <2>3 DEF UserRow
    <2>4. CASE user' = [user EXCEPT !.verified = TRUE, !.status = "ACTIVE"]
      BY <2>1, <2>4 DEF UserRow
    <2> QED
      BY <2>2, <2>3, <2>4
         DEF RegisterFind, CreateUser, IssueVerification, ConsumeFind, Consume
  <1> QED  BY <1>1, <1>2, <1>3, <1>4, QuietStep DEF Types

\* A slip made is a slip counted.
LEMMA SubmitLoginStep ==
    ASSUME AccountInv, NEW t \in Tabs, NEW slip \in BOOLEAN, SubmitLogin(t, slip)
    PROVE  AccountInv'
  <1> DEFINE to == [tab[t] EXCEPT !.pc = "incr", !.slip = slip]
  <1>1. to \in TabState /\ to.pc = "incr" /\ to.slip = slip
    BY DEF AccountInv, Types, TabState, Calls
  <1>2. Moves(t, to)
    BY DEF SubmitLogin, Moves
  <1>3. UNCHANGED <<user, hits, secrets, confirmed, overtaken>>
        /\ slips' = IF slip THEN slips + 1 ELSE slips
    BY DEF SubmitLogin, twoFactor, limiter
  <1> HIDE DEF to
  <1>4. CASE ~slip
    BY <1>1, <1>2, <1>3, <1>4, QuietStep DEF AccountInv, Types
  <1>5. CASE slip
    <2>1. /\ tab' \in [Tabs -> TabState] /\ tab'[t] = to
          /\ \A u \in Tabs \ {t} : tab'[u] = tab[u]
      BY <1>1, <1>2, MoveReads DEF AccountInv
    <2>2. Types'
      BY <1>3, <1>5, <2>1 DEF AccountInv, Types
    <2>3. Pending' = Pending \cup {t}
      BY <1>1, <1>5, <2>1 DEF Pending
    <2>4. ASSUME secrets = 0
          PROVE  /\ IsFiniteSet(Pending')
                 /\ \A n \in Nat : Accounted(n) => n + Cardinality(Pending') <= slips'
      <3>1. IsFiniteSet(Pending)
        BY <2>4 DEF AccountInv, SlipsInv
      <3>2. /\ IsFiniteSet(Pending \cup {t})
            /\ Cardinality(Pending \cup {t}) \in {Cardinality(Pending), Cardinality(Pending) + 1}
        BY <3>1, FS_AddElement
      <3>3. Cardinality(Pending) \in Nat
        BY <3>1, FS_CardinalityType
      <3>4. Cardinality(Pending') <= Cardinality(Pending) + 1 /\ IsFiniteSet(Pending')
        BY <2>3, <3>2, <3>3
      <3>5. Cardinality(Pending') \in Nat
        BY <3>4, FS_CardinalityType
      <3> QED  BY <1>3, <1>5, <3>3, <3>4, <3>5 DEF Accounted, AccountInv, Types
    <2>5. user.attempts \in Nat /\ \A u \in Tabs : tab[u].row.attempts \in Nat
      BY DEF AccountInv, Types, UserRow, TabState
    <2>6. SlipsInv'
      <3> SUFFICES ASSUME secrets = 0
                   PROVE  /\ NoSecondFactor'
                          /\ IsFiniteSet(Pending')
                          /\ Accounted(user.attempts)'
                          /\ \A u \in Tabs : At(u, "failed")' =>
                                tab'[u].slip /\ Accounted(tab[u].row.attempts)'
                          /\ user'.status = "LOCKED" \/ user'.locked => slips' >= LockThreshold
        BY <1>3 DEF SlipsInv
      <3>1. /\ NoSecondFactor
            /\ Accounted(user.attempts)
            /\ \A u \in Tabs : At(u, "failed") => tab[u].slip /\ Accounted(tab[u].row.attempts)
            /\ user.status = "LOCKED" \/ user.locked => slips >= LockThreshold
        BY DEF AccountInv, SlipsInv
      <3>2. NoSecondFactor'
        BY <1>1, <1>3, <2>1, <3>1 DEF NoSecondFactor, At
      <3>3. \A u \in Tabs : At(u, "failed")' => tab'[u] = tab[u] /\ At(u, "failed")
        BY <1>1, <2>1 DEF At
      <3>4. user'.status = "LOCKED" \/ user'.locked => slips' >= LockThreshold
        BY <1>3, <1>5, <3>1, AccountAssumption DEF AccountInv, Types
      <3> QED  BY <1>3, <2>4, <2>5, <3>1, <3>2, <3>3, <3>4 DEF Accounted
    <2>7. SecretInv'
      BY <1>1, <1>3, <2>1 DEF AccountInv, SecretInv, At
    <2> QED  BY <2>2, <2>6, <2>7 DEF AccountInv
  <1> QED  BY <1>4, <1>5

\* The guard lets a request through, or not.
LEMMA GuardStep ==
    ASSUME AccountInv, NEW t \in Tabs, Increment(t) \/ Expire(t)
    PROVE  AccountInv'
  <1>1. UNCHANGED <<user, secrets, slips, confirmed, overtaken>>
    BY DEF Increment, Expire, twoFactor
  <1>2. Goto(t, "expire") \/ Goto(t, "find") \/ Return(t)
    <2>1. CASE Increment(t)
      <3>1. hits \in Nat /\ RateLimit \in Nat
        BY AccountAssumption DEF AccountInv, Types
      <3>2. hits < RateLimit \/ hits >= RateLimit
        BY <3>1
      <3>3. CASE OpensWindow(hits + 1)
        BY <2>1, <3>3, Zenon DEF Increment
      <3>4. CASE ~OpensWindow(hits + 1) /\ hits < RateLimit
        BY <2>1, <3>4, Zenon DEF Increment
      <3>5. CASE ~OpensWindow(hits + 1) /\ hits >= RateLimit
        BY <2>1, <3>5, Zenon DEF Increment
      <3> QED  BY <3>2, <3>3, <3>4, <3>5
    <2>2. CASE Expire(t)
      BY <2>2 DEF Expire
    <2> QED  BY <2>1, <2>2
  <1>4. hits' \in Nat
    <2>1. hits \in Nat
      BY DEF AccountInv, Types
    <2>2. CASE Increment(t)
      <3>1. hits' = IF hits > RateLimit THEN hits ELSE hits + 1
        BY <2>2 DEF Increment
      <3> QED  BY <2>1, <3>1
    <2>3. CASE Expire(t)
      BY <2>1, <2>3 DEF Expire
    <2> QED  BY <2>2, <2>3
  <1>3. PICK to \in TabState : /\ Moves(t, to)
                               /\ to.pc \notin {"failed", "confirm"}
                               /\ to.slip => tab[t].slip
    BY <1>2, CallMoves DEF AccountInv
  <1> QED  BY <1>1, <1>3, <1>4, QuietStep DEF AccountInv, Types

\* Without a second factor only a slip fails; the row is read as it is.
LEMMA LoginFindStep ==
    ASSUME AccountInv, NEW t \in Tabs, LoginFind(t) PROVE AccountInv'
  <1>1. UNCHANGED <<user, hits, secrets, slips, confirmed, overtaken>>
    BY DEF LoginFind, twoFactor, limiter
  <1>2. secrets = 0 => ~user.enabled
    BY DEF AccountInv, SlipsInv, NoSecondFactor
  <1>3. \/ Return(t)
        \/ ReadAndGoto(t, "failed") /\ (tab[t].slip \/ secrets # 0)
        \/ tab' = [tab EXCEPT ![t].pc = "idle", ![t].needsTotp = TRUE]
        \/ ReadAndGoto(t, "succeeded")
    BY <1>2 DEF LoginFind
  <1>4. PICK to \in TabState :
           /\ Moves(t, to)
           /\ to.pc # "confirm"
           /\ to.slip => tab[t].slip
           /\ to.pc = "failed" /\ secrets = 0 => to.slip /\ to.row = user
    <2>1. CASE Return(t)
      BY <2>1, ReturnMoves DEF AccountInv
    <2>2. CASE ReadAndGoto(t, "failed") /\ (tab[t].slip \/ secrets # 0)
      BY <2>2, ReadMoves DEF AccountInv
    <2>3. CASE tab' = [tab EXCEPT ![t].pc = "idle", ![t].needsTotp = TRUE]
      <3> DEFINE to == [tab[t] EXCEPT !.pc = "idle", !.needsTotp = TRUE]
      <3>1. to \in TabState /\ to.pc = "idle" /\ to.slip = tab[t].slip
        BY DEF AccountInv, Types, TabState, Calls
      <3>2. Moves(t, to)
        BY <2>3 DEF Moves
      <3> HIDE DEF to
      <3> QED  BY <3>1, <3>2
    <2>4. CASE ReadAndGoto(t, "succeeded")
      BY <2>4, ReadMoves DEF AccountInv
    <2> QED  BY <1>3, <2>1, <2>2, <2>3, <2>4
  <1> QED  BY <1>1, <1>4, QuietStep DEF AccountInv, Types

\* The slip behind a failed login is counted, and no longer pending.
LEMMA RegisterFailedLoginStep ==
    ASSUME AccountInv, NEW t \in Tabs, RegisterFailedLogin(t) PROVE AccountInv'
  <1> DEFINE attempts == Attempts(tab[t].row)
  <1>1. tab[t].row.attempts \in Nat /\ LockThreshold \in Nat
    BY AccountAssumption DEF AccountInv, Types, TabState, UserRow
  <1>2. attempts \in Nat /\ attempts <= tab[t].row.attempts + 1
    BY <1>1 DEF Attempts
  <1>3. user' = IF attempts >= LockThreshold
                THEN [user EXCEPT !.attempts = attempts, !.locked = TRUE, !.status = "LOCKED"]
                ELSE [user EXCEPT !.attempts = attempts]
    BY DEF RegisterFailedLogin
  <1> HIDE DEF attempts
  <1>4. /\ user' \in UserRow
        /\ user'.attempts = attempts
        /\ user'.secret = user.secret /\ user'.enabled = user.enabled
        /\ user'.status = "LOCKED" \/ user'.locked =>
              attempts >= LockThreshold \/ user.status = "LOCKED" \/ user.locked
    BY <1>2, <1>3 DEF AccountInv, Types, UserRow
  <1>5. At(t, "failed") /\ UNCHANGED <<hits, secrets, slips, confirmed, overtaken>>
    BY DEF RegisterFailedLogin, twoFactor, limiter
  <1>6. PICK to \in TabState : Moves(t, to) /\ to.pc = "idle" /\ ~to.slip
    BY ReturnMoves DEF RegisterFailedLogin, AccountInv
  <1>7. /\ tab' \in [Tabs -> TabState] /\ tab'[t] = to
        /\ \A u \in Tabs \ {t} : tab'[u] = tab[u]
    BY <1>6, MoveReads DEF AccountInv
  <1>8. Types'
    BY <1>4, <1>5, <1>7 DEF AccountInv, Types
  <1>9. ASSUME secrets = 0
        PROVE  /\ NoSecondFactor'
               /\ IsFiniteSet(Pending')
               /\ Accounted(user.attempts)'
               /\ \A u \in Tabs : At(u, "failed")' =>
                     tab'[u].slip /\ Accounted(tab[u].row.attempts)'
               /\ user'.status = "LOCKED" \/ user'.locked => slips' >= LockThreshold
    <2>1. /\ NoSecondFactor
          /\ IsFiniteSet(Pending)
          /\ \A u \in Tabs : At(u, "failed") => tab[u].slip /\ Accounted(tab[u].row.attempts)
          /\ user.status = "LOCKED" \/ user.locked => slips >= LockThreshold
      BY <1>9 DEF AccountInv, SlipsInv
    <2>2. tab[t].slip /\ Accounted(tab[t].row.attempts)
      BY <1>5, <2>1
    <2>3. /\ IsFiniteSet(Pending')
          /\ Cardinality(Pending') \in Nat /\ Cardinality(Pending) \in Nat
          /\ Cardinality(Pending') = Cardinality(Pending) - 1
      BY <1>6, <2>1, <2>2, PendingShrinks DEF AccountInv
    <2>4. slips' = slips /\ slips \in Nat
      BY <1>5 DEF AccountInv, Types
    <2>5. attempts + Cardinality(Pending') <= slips'
      BY <1>1, <1>2, <2>2, <2>3, <2>4 DEF Accounted
    <2>6. NoSecondFactor'
      BY <1>4, <1>6, <1>7, <2>1 DEF NoSecondFactor, At
    <2>7. ASSUME NEW u \in Tabs, At(u, "failed")'
          PROVE  tab'[u].slip /\ tab'[u].row.attempts + Cardinality(Pending') <= slips'
      <3>1. tab'[u] = tab[u] /\ At(u, "failed")
        BY <1>6, <1>7, <2>7 DEF At
      <3>2. tab[u].row.attempts \in Nat
        BY DEF AccountInv, Types, TabState, UserRow
      <3>3. tab[u].slip /\ tab[u].row.attempts + Cardinality(Pending) <= slips
        BY <2>1, <3>1 DEF Accounted
      <3> QED  BY <2>3, <2>4, <3>1, <3>2, <3>3
    <2>8. attempts >= LockThreshold => slips' >= LockThreshold
      BY <1>1, <1>2, <2>3, <2>4, <2>5
    <2>9. user'.status = "LOCKED" \/ user'.locked => slips' >= LockThreshold
      BY <1>4, <2>1, <2>4, <2>8
    <2> QED  BY <1>4, <2>3, <2>5, <2>6, <2>7, <2>9 DEF Accounted
  <1>10. SlipsInv'
    BY <1>5, <1>9 DEF SlipsInv
  <1>11. SecretInv'
    BY <1>4, <1>5, <1>6, <1>7 DEF AccountInv, SecretInv, At
  <1> QED  BY <1>8, <1>10, <1>11 DEF AccountInv

\* A login that succeeds clears counter and lock.
LEMMA LoginSucceedsStep ==
    ASSUME AccountInv, NEW t \in Tabs, LoginSucceeds(t) PROVE AccountInv'
  <1>1. UNCHANGED <<hits, secrets, slips, confirmed, overtaken>>
    BY DEF LoginSucceeds, twoFactor, limiter
  <1>2. user' = [user EXCEPT !.attempts = 0, !.locked = FALSE, !.status = "ACTIVE"]
    BY DEF LoginSucceeds
  <1>3. /\ user' \in UserRow /\ user'.secret = user.secret
        /\ user'.attempts = 0 /\ user'.enabled = user.enabled
        /\ user'.status # "LOCKED" /\ ~user'.locked
    BY <1>2 DEF AccountInv, Types, UserRow
  <1>4. Moves(t, IdleTab)
    BY DEF LoginSucceeds, Moves
  <1>5. IdleTab.pc = "idle" /\ ~IdleTab.slip
    BY DEF IdleTab
  <1> QED  BY <1>1, <1>3, <1>4, <1>5, IdleTypes, QuietStep DEF AccountInv, Types

\* Time passes: a window, a lock or a session ends.
LEMMA TimeStep ==
    ASSUME AccountInv, WindowEnds \/ LockEnds \/ SessionEnds PROVE AccountInv'
  <1>1. UNCHANGED <<tab, secrets, slips, confirmed, overtaken>>
    BY DEF WindowEnds, LockEnds, SessionEnds, twoFactor
  <1>2. /\ user' \in UserRow /\ user'.secret = user.secret
        /\ user'.attempts = user.attempts
        /\ user'.enabled => user.enabled
        /\ user'.status = user.status
        /\ user'.locked => user.locked
    BY DEF AccountInv, Types, UserRow, WindowEnds, LockEnds, SessionEnds
  <1>3. hits' \in Nat
    BY DEF AccountInv, Types, WindowEnds, LockEnds, SessionEnds, limiter
  <1>4. Owner \in Tabs
    BY AccountAssumption
  <1>5. PICK to \in TabState : /\ Moves(Owner, to)
                               /\ to = tab[Owner]
    BY <1>1, <1>4 DEF Moves, AccountInv, Types
  <1>6. /\ to.slip => tab[Owner].slip
        /\ to.pc = "failed" /\ secrets = 0 => to = tab[Owner] \/ (to.slip /\ to.row = user)
        /\ to.pc = "confirm" =>
              At(Owner, "confirm") \/ (user.secret # NoSecret /\ user.secret \in confirmed')
    BY <1>5 DEF At
  <1>7. UNCHANGED <<secrets, slips>> /\ confirmed \subseteq confirmed'
        /\ overtaken \subseteq overtaken'
    BY <1>1
  <1>8. /\ user'.attempts \in {0, user.attempts}
        /\ user'.status = "LOCKED" => user.status = "LOCKED"
        /\ user'.locked => user.locked
        /\ user'.enabled => user.enabled \/ At(Owner, "confirm")
    BY <1>2
  <1> QED  BY <1>2, <1>3, <1>4, <1>5, <1>6, <1>7, <1>8, QuietStep

----------------------------------------------------------------------------
\* A set-up replaces the secret: one that stands between a check and its write
\* overtakes it.
LEMMA EnableTwoFactorStep ==
    ASSUME AccountInv, NEW t \in Tabs, EnableTwoFactor(t) PROVE AccountInv'
  <1>1. /\ user' = [user EXCEPT !.secret = secrets + 1, !.enabled = FALSE]
        /\ secrets' = secrets + 1 /\ secrets \in Nat
        /\ UNCHANGED <<hits, slips, confirmed>>
    BY DEF EnableTwoFactor, EnabledAfterSetUp, limiter, AccountInv, Types
  <1>2. user' \in UserRow /\ ~user'.enabled /\ user'.secret = secrets + 1
    <2>1. PICK n \in Nat : n = secrets + 1
      BY <1>1
    <2>2. user' = [user EXCEPT !.secret = n, !.enabled = FALSE]
      BY <1>1, <2>1
    <2> QED  BY <2>1, <2>2 DEF AccountInv, Types, UserRow
  <1>3. PICK row \in UserRow : row = user'
    BY <1>2
  <1> DEFINE to == [tab[t] EXCEPT !.pc = "show secret", !.row = row]
  <1>4. to \in TabState /\ to.pc = "show secret"
    BY DEF AccountInv, Types, TabState, Calls
  <1>5. Moves(t, to)
    BY <1>3 DEF EnableTwoFactor, Moves, AccountInv, Types
  <1> HIDE DEF to
  <1>6. /\ tab' \in [Tabs -> TabState] /\ tab'[t] = to
        /\ \A u \in Tabs \ {t} : tab'[u] = tab[u]
    BY <1>4, <1>5, MoveReads DEF AccountInv
  <1>7. Types'
    BY <1>1, <1>2, <1>6 DEF AccountInv, Types
  <1>8. SlipsInv'
    BY <1>1 DEF SlipsInv
  <1>9. ASSUME NEW u \in Tabs, At(u, "confirm")' PROVE user'.secret \in overtaken'
    <2>1. At(u, "confirm")
      BY <1>4, <1>6, <1>9 DEF At
    <2>2. overtaken' = overtaken \cup {secrets + 1}
      BY <2>1 DEF EnableTwoFactor
    <2> QED  BY <1>2, <2>2
  <1>10. SecretInv'
    BY <1>2, <1>9 DEF SecretInv
  <1> QED  BY <1>7, <1>8, <1>10 DEF AccountInv

\* A check of the code puts the secret of the row among the confirmed.
LEMMA ConfirmFindStep ==
    ASSUME AccountInv, NEW t \in Tabs, ConfirmFind(t) PROVE AccountInv'
  <1>1. /\ UNCHANGED <<user, hits, secrets, slips, overtaken>>
        /\ confirmed' = confirmed \cup {user.secret}
        /\ user.secret # NoSecret
    BY DEF ConfirmFind, limiter
  <1>2. PICK to \in TabState : Moves(t, to) /\ to.pc = "confirm" /\ to.slip = tab[t].slip
    BY ReadMoves DEF ConfirmFind, AccountInv
  <1>3. confirmed \subseteq confirmed' /\ user.secret \in confirmed'
    BY <1>1
  <1> QED  BY <1>1, <1>2, <1>3, QuietStep DEF AccountInv, Types

\* A request that answers, or dies, leaves the secret alone; the write that
\* follows the check turns it on.
LEMMA AnswerStep ==
    ASSUME AccountInv, NEW t \in Tabs, ShowSecret(t) \/ Confirm(t) \/ RequestDies(t)
    PROVE  AccountInv'
  <1>1. UNCHANGED <<hits, secrets, slips, confirmed, overtaken>>
    BY DEF ShowSecret, Confirm, RequestDies, twoFactor, limiter
  <1>2. /\ user' \in UserRow /\ user'.secret = user.secret
        /\ user'.attempts = user.attempts /\ user'.locked = user.locked
        /\ user'.status = user.status
        /\ user'.enabled => user.enabled \/ At(t, "confirm")
    BY DEF ShowSecret, Confirm, RequestDies, AccountInv, Types, UserRow
  <1>3. PICK to \in TabState : Moves(t, to) /\ to.pc = "idle" /\ ~to.slip
    BY ReturnMoves DEF ShowSecret, Confirm, RequestDies, AccountInv
  <1> QED  BY <1>1, <1>2, <1>3, QuietStep DEF AccountInv, Types

----------------------------------------------------------------------------
\* The invariant is inductive.
LEMMA AccountStep == AccountInv /\ [Next]_vars => AccountInv'
  <1> SUFFICES ASSUME AccountInv, [Next]_vars PROVE AccountInv'
    OBVIOUS
  <1>1. ASSUME NEW t \in Tabs, GoesOn(t) PROVE AccountInv'
    BY <1>1, RegisterStep, GuardStep, LoginFindStep, RegisterFailedLoginStep,
       LoginSucceedsStep, AnswerStep DEF GoesOn
  <1>2. ASSUME NEW t \in Tabs, Starts(t) PROVE AccountInv'
    BY <1>2, RegisterStep, SubmitLoginStep, EnableTwoFactorStep, ConfirmFindStep DEF Starts
  <1>3. ASSUME NEW t \in Tabs, RequestDies(t) PROVE AccountInv'
    BY <1>3, AnswerStep
  <1>4. CASE WindowEnds \/ LockEnds \/ SessionEnds
    BY <1>4, TimeStep
  <1>5. CASE UNCHANGED vars
    BY <1>5 DEF vars, twoFactor, limiter, AccountInv, Types, SlipsInv, SecretInv,
       NoSecondFactor, Accounted, Pending, At
  <1> QED  BY <1>1, <1>2, <1>3, <1>4, <1>5 DEF Next

\* In no run does the account get out of the invariant.
LEMMA AccountInvAlways == Spec => []AccountInv
  BY InitAccount, AccountStep, PTL DEF Spec

\* However many requests overlap, at any threshold: without a second factor the
\* counter never runs ahead of the mistyped passwords, and an account is locked
\* (by status, or until a time) only once there were as many as the threshold.
\* A failure is counted from the row its own request read.
THEOREM LockIsEarnedAlways == Spec => []LockIsEarned
  <1>1. AccountInv => LockIsEarned
    <2> SUFFICES ASSUME AccountInv, secrets = 0
                 PROVE  /\ user.attempts <= slips
                        /\ user.status = "LOCKED" \/ user.locked => slips >= LockThreshold
      BY DEF LockIsEarned
    <2>1. /\ IsFiniteSet(Pending) /\ Accounted(user.attempts)
          /\ user.status = "LOCKED" \/ user.locked => slips >= LockThreshold
      BY DEF AccountInv, SlipsInv
    <2>2. Cardinality(Pending) \in Nat
      BY <2>1, FS_CardinalityType
    <2>3. user.attempts \in Nat /\ slips \in Nat
      BY DEF AccountInv, Types, UserRow
    <2> QED  BY <2>1, <2>2, <2>3 DEF Accounted
  <1> QED  BY <1>1, AccountInvAlways, PTL

\* However set-ups, checks of a code and the writes that follow overlap: the
\* secret that is asked for at login was checked against a code, or was set up
\* between such a check and its write.
THEOREM EnabledSecretConfirmed == Spec => []EnabledSecretIsConfirmed
  <1>1. AccountInv => EnabledSecretIsConfirmed
    BY DEF AccountInv, SecretInv, EnabledSecretIsConfirmed
  <1> QED  BY <1>1, AccountInvAlways, PTL

=============================================================================
