------------------------------ MODULE Accounts ------------------------------
(***************************************************************************)
(* One dashboard account: registration, email verification, login with its *)
(* failure counter, lock and second factor, and the rate limit in front of *)
(* the login.  A request reads the user row, decides, and writes it back   *)
(* by id; the requests of several tabs overlap.                            *)
(***************************************************************************)
EXTENDS Naturals

CONSTANTS
    Tabs,           \* browser tabs, one request at a time each
    Owner,          \* the tab that keeps trying to log in correctly
    LockThreshold,  \* FAILED_LOGIN_LOCK_THRESHOLD
    RateLimit,      \* RATE_LIMIT_LOGIN_PER_MINUTE
    MaxSlips,       \* bound on mistyped passwords
    MaxSecrets,     \* bound on two-factor set-ups
    MaxFaults       \* bound on requests that die

ASSUME AccountAssumption ==
    /\ Owner \in Tabs
    /\ LockThreshold \in Nat \ {0}
    /\ RateLimit \in Nat \ {0}
    /\ MaxSecrets \in Nat

VARIABLES
    user,       \* the User row
    mail,       \* verification token: none, sent or consumed
    hits,       \* the Redis counter of this email
    expiring,   \* whether that key has an expiry
    tab,        \* tab[t]: its request, what it read, and the login form
    signedIn,   \* whether the browser holds a session cookie
    secrets,    \* number of secrets generated so far
    shown,      \* the secrets whose answer reached the browser
    confirmed,  \* history: the secrets a code was checked against
    overtaken,  \* history: the secrets made between such a check and its write
    slips,      \* number of mistyped passwords so far
    faults      \* number of dead requests so far

limiter == <<hits, expiring>>
twoFactor == <<secrets, shown, confirmed, overtaken>>
vars == <<user, mail, limiter, tab, signedIn, twoFactor, slips, faults>>

NoSecret == 0

\* attempts counts up to LockThreshold; locked is lockedUntil > now; secret is
\* the number of the secret in the row.
NoUser == [exists |-> FALSE, verified |-> FALSE, status |-> "PENDING_VERIFICATION",
           attempts |-> 0, locked |-> FALSE, enabled |-> FALSE, secret |-> NoSecret]

\* needsTotp: the login form shows the field for the code.
IdleTab == [pc |-> "idle", row |-> NoUser, slip |-> FALSE, needsTotp |-> FALSE]

Init ==
    /\ user = NoUser
    /\ mail = "none"
    /\ hits = 0
    /\ expiring = FALSE
    /\ tab = [t \in Tabs |-> IdleTab]
    /\ signedIn = FALSE
    /\ secrets = 0
    /\ shown = {}
    /\ confirmed = {}
    /\ overtaken = {}
    /\ slips = 0
    /\ faults = 0

At(t, pc) == tab[t].pc = pc

Goto(t, pc) == tab' = [tab EXCEPT ![t].pc = pc]

\* Reads the user row and goes on from what it says.
ReadAndGoto(t, pc) == tab' = [tab EXCEPT ![t].pc = pc, ![t].row = user]

Return(t) == tab' = [tab EXCEPT ![t] = [IdleTab EXCEPT !.needsTotp = tab[t].needsTotp]]

----------------------------------------------------------------------------
\* register and verifyEmail

RegisterFind(t) ==
    /\ At(t, "idle")
    /\ ~user.exists
    /\ Goto(t, "create user")
    /\ UNCHANGED <<user, mail, limiter, signedIn, twoFactor, slips, faults>>

\* The email is unique: of two overlapping registrations one fails, and its
\* form shows the same success.
CreateUser(t) ==
    /\ At(t, "create user")
    /\ IF user.exists
       THEN Return(t) /\ UNCHANGED user
       ELSE Goto(t, "issue token") /\ user' = [user EXCEPT !.exists = TRUE]
    /\ UNCHANGED <<mail, limiter, signedIn, twoFactor, slips, faults>>

IssueVerification(t) ==
    /\ At(t, "issue token")
    /\ mail' = "sent"
    /\ Return(t)
    /\ UNCHANGED <<user, limiter, signedIn, twoFactor, slips, faults>>

ConsumeFind(t) ==
    /\ At(t, "idle")
    /\ mail = "sent"
    /\ Goto(t, "consume")
    /\ UNCHANGED <<user, mail, limiter, signedIn, twoFactor, slips, faults>>

Consume(t) ==
    /\ At(t, "consume")
    /\ mail' = "consumed"
    /\ user' = [user EXCEPT !.verified = TRUE, !.status = "ACTIVE"]
    /\ Return(t)
    /\ UNCHANGED <<limiter, signedIn, twoFactor, slips, faults>>

----------------------------------------------------------------------------
\* login, behind RedisRateLimitGuard

SubmitLogin(t, slip) ==
    /\ At(t, "idle")
    /\ slip => slips < MaxSlips
    /\ slips' = IF slip THEN slips + 1 ELSE slips
    /\ tab' = [tab EXCEPT ![t].pc = "incr", ![t].slip = slip]
    /\ UNCHANGED <<user, mail, limiter, signedIn, twoFactor, faults>>

\* Slip: the count compared is that before INCR.
OpensWindowTooLate(count) == count = 0

\* `count === 1`: the first request of a window.
OpensWindow(count) == count = 1

\* INCR.  Past the limit only the fact counts.
Increment(t) ==
    /\ At(t, "incr")
    /\ hits' = IF hits > RateLimit THEN hits ELSE hits + 1
    /\ CASE OpensWindow(hits + 1) -> Goto(t, "expire")
         [] ~OpensWindow(hits + 1) /\ hits < RateLimit -> Goto(t, "find")
         [] ~OpensWindow(hits + 1) /\ hits >= RateLimit -> Return(t)
    /\ UNCHANGED <<user, mail, expiring, signedIn, twoFactor, slips, faults>>

Expire(t) ==
    /\ At(t, "expire")
    /\ expiring' = (hits > 0)
    /\ Goto(t, "find")
    /\ UNCHANGED <<user, mail, hits, signedIn, twoFactor, slips, faults>>

WindowEnds ==
    /\ expiring
    /\ hits' = 0
    /\ expiring' = FALSE
    /\ UNCHANGED <<user, mail, tab, signedIn, twoFactor, slips, faults>>

\* Slip: the status is asked instead of lockedUntil.
LockedForGood == user.status = "LOCKED"

\* user.lockedUntil > now.
Locked == user.locked

\* The owner has an entry in the authenticator for each secret shown.
CodeIsRight == user.secret \in shown

\* The findUnique of login, and everything decided on that row.
LoginFind(t) ==
    /\ At(t, "find")
    /\ IF ~user.exists \/ Locked
       THEN Return(t)
       ELSE CASE tab[t].slip -> ReadAndGoto(t, "failed")
              [] ~tab[t].slip /\ ~user.verified -> Return(t)
              [] ~tab[t].slip /\ user.verified /\ user.enabled /\ ~tab[t].needsTotp ->
                    tab' = [tab EXCEPT ![t].pc = "idle", ![t].needsTotp = TRUE]
              [] ~tab[t].slip /\ user.verified /\ user.enabled /\ tab[t].needsTotp
                    /\ ~CodeIsRight -> ReadAndGoto(t, "failed")
              [] OTHER -> ReadAndGoto(t, "succeeded")
    /\ UNCHANGED <<user, mail, limiter, signedIn, twoFactor, slips, faults>>

\* Slip: counted twice.
AttemptsTwice(row) == row.attempts + 2

\* Past the threshold only the fact counts.
Attempts(row) == IF row.attempts < LockThreshold THEN row.attempts + 1 ELSE row.attempts

RegisterFailedLogin(t) ==
    LET attempts == Attempts(tab[t].row)
    IN  /\ At(t, "failed")
        /\ user' = IF attempts >= LockThreshold
                   THEN [user EXCEPT !.attempts = attempts, !.locked = TRUE,
                                     !.status = "LOCKED"]
                   ELSE [user EXCEPT !.attempts = attempts]
        /\ Return(t)
        /\ UNCHANGED <<mail, limiter, signedIn, twoFactor, slips, faults>>

\* The cookies are set, and the form leaves for the dashboard.
LoginSucceeds(t) ==
    /\ At(t, "succeeded")
    /\ user' = [user EXCEPT !.attempts = 0, !.locked = FALSE, !.status = "ACTIVE"]
    /\ signedIn' = TRUE
    /\ tab' = [tab EXCEPT ![t] = IdleTab]
    /\ UNCHANGED <<mail, limiter, twoFactor, slips, faults>>

LockEnds ==
    /\ user.locked
    /\ user' = [user EXCEPT !.locked = FALSE]
    /\ UNCHANGED <<mail, limiter, tab, signedIn, twoFactor, slips, faults>>

\* logout, or the access token runs out: no page calls refresh.
SessionEnds ==
    /\ signedIn
    /\ signedIn' = FALSE
    /\ UNCHANGED <<user, mail, limiter, tab, twoFactor, slips, faults>>

----------------------------------------------------------------------------
\* enableTwoFactor and confirmTwoFactor

\* Slip: set-up takes effect at once.
EnabledBySetUp == TRUE

EnabledAfterSetUp == FALSE

EnableTwoFactor(t) ==
    /\ At(t, "idle")
    /\ signedIn
    /\ secrets < MaxSecrets
    /\ secrets' = secrets + 1
    /\ user' = [user EXCEPT !.secret = secrets + 1, !.enabled = EnabledAfterSetUp]
    /\ overtaken' = IF \E u \in Tabs : At(u, "confirm")
                    THEN overtaken \cup {secrets + 1} ELSE overtaken
    /\ tab' = [tab EXCEPT ![t].pc = "show secret", ![t].row = user']
    /\ UNCHANGED <<mail, limiter, signedIn, shown, confirmed, slips, faults>>

ShowSecret(t) ==
    /\ At(t, "show secret")
    /\ shown' = shown \cup {tab[t].row.secret}
    /\ Return(t)
    /\ UNCHANGED <<user, mail, limiter, signedIn, secrets, confirmed, overtaken, slips, faults>>

\* The code typed is for the secret in the row.
ConfirmFind(t) ==
    /\ At(t, "idle")
    /\ signedIn
    /\ user.secret # NoSecret
    /\ CodeIsRight
    /\ confirmed' = confirmed \cup {user.secret}
    /\ ReadAndGoto(t, "confirm")
    /\ UNCHANGED <<user, mail, limiter, signedIn, secrets, shown, overtaken, slips, faults>>

Confirm(t) ==
    /\ At(t, "confirm")
    /\ user' = [user EXCEPT !.enabled = TRUE]
    /\ Return(t)
    /\ UNCHANGED <<mail, limiter, signedIn, twoFactor, slips, faults>>

\* The process dies between two calls, or the answer does not arrive.
RequestDies(t) ==
    /\ ~At(t, "idle")
    /\ faults < MaxFaults
    /\ faults' = faults + 1
    /\ Return(t)
    /\ UNCHANGED <<user, mail, limiter, signedIn, twoFactor, slips>>

----------------------------------------------------------------------------
GoesOn(t) ==
    \/ CreateUser(t) \/ IssueVerification(t) \/ Consume(t)
    \/ Increment(t) \/ Expire(t) \/ LoginFind(t)
    \/ RegisterFailedLogin(t) \/ LoginSucceeds(t)
    \/ ShowSecret(t) \/ Confirm(t)

\* Only the owner's tab logs in without a mistake: the others serve to overlap.
Starts(t) ==
    \/ RegisterFind(t) \/ ConsumeFind(t) \/ EnableTwoFactor(t) \/ ConfirmFind(t)
    \/ \E slip \in BOOLEAN : (t = Owner \/ slip) /\ SubmitLogin(t, slip)

Next ==
    \/ \E t \in Tabs : GoesOn(t) \/ Starts(t) \/ RequestDies(t)
    \/ WindowEnds \/ LockEnds \/ SessionEnds

Spec == Init /\ [][Next]_vars

\* Time passes, requests run on, and the owner comes back to the login form
\* again and again, or to the link in the mail if one was sent.
Fairness ==
    /\ \A t \in Tabs : WF_vars(GoesOn(t))
    /\ WF_vars(WindowEnds)
    /\ WF_vars(LockEnds)
    /\ SF_vars(ConsumeFind(Owner))
    /\ SF_vars(SubmitLogin(Owner, FALSE))

FairSpec == Spec /\ Fairness

----------------------------------------------------------------------------
\* However the tabs' reads and writes overlap, an account is locked only after
\* that many mistyped passwords, as long as no second factor is set up.
LockIsEarned ==
    secrets = 0 =>
        /\ user.attempts <= slips
        /\ user.status = "LOCKED" \/ user.locked => slips >= LockThreshold

\* An owner who keeps trying gets in once a verification token was sent: locks
\* and limits end, codes are asked for and accepted.
OwnerGetsIn == mail # "none" ~> signedIn \/ faults > 0

\* A limit that was hit is a window's: it ends, unless the process died between
\* INCR and EXPIRE.
LimitEnds == hits > RateLimit ~> hits <= RateLimit \/ faults > 0

\* An unconfirmed secret is never in force, so that it cannot lock the owner out:
\* of all overlaps of set-ups and confirmations only one lets it be, a set-up
\* between the check of a code and the write that follows it.
EnabledSecretIsConfirmed ==
    user.enabled => user.secret \in confirmed \cup overtaken
=============================================================================
