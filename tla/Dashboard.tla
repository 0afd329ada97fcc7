----------------------------- MODULE Dashboard -----------------------------
(***************************************************************************)
(* The merchant dashboard: pages that list an organization's rows and      *)
(* change them through the API.  A row is an API key or webhook endpoint   *)
(* (created, then revoked), a member (a role), or the deposit address.     *)
(*                                                                         *)
(* A change passes the guards, which read the actor's role, then writes,   *)
(* then answers; the page then drops its list and fetches it anew.  Every  *)
(* step may overlap those of other changes and of other members.           *)
(*                                                                         *)
(* The code has a query for each list.  Here one list and one fetch of it  *)
(* stand for them all, so that a change drops what is on its way for the   *)
(* others too, where the code drops its own list's fetch only.             *)
(***************************************************************************)
EXTENDS Naturals

CONSTANTS
    Members,    \* users with a tab of the dashboard
    Founder,    \* the one who created the organization
    Keys,       \* API keys and webhook endpoints, by id
    Wallets,    \* the (network, token) of a deposit address
    Addresses,  \* addresses that may be typed
    Roles,      \* the roles an invitation may give (bound)
    MaxChanges, \* bound on changes begun
    MaxFaults   \* bound on lost answers and failed fetches

\* Rows of three tables have ids of their own.
ASSUME DashboardAssumption ==
    /\ Members \cap Keys = {}
    /\ Members \cap Wallets = {}
    /\ Keys \cap Wallets = {}
    /\ Founder \in Members
    /\ MaxChanges \in Nat
    /\ MaxFaults \in Nat

Rows == Members \cup Keys \cup Wallets

Managers == {"OWNER", "ADMIN"}

VARIABLES
    table,      \* table[r]: the row's value, or "absent"
    change,     \* change[u][r]: the change of row r that u began
    list,       \* list[u]: the rows as u's pages show them
    fetch,      \* fetch[u]: the fetch of that list
    form,       \* form[u]: the key form
    banner,     \* banner[u]: the key whose secret is on the screen
    changes,    \* number of changes so far
    faults,     \* number of lost answers and failed fetches so far
    seen,       \* history: the keys whose secret was on a screen
    left,       \* history: the keys whose page was left before they were made
    early,      \* history: the rows changed before the list was first shown
    writer,     \* history: who wrote the row last
    managers    \* history: who was a manager at some time

history == <<writer, managers>>
page == <<list, fetch, form, banner>>
answers == <<seen, left, early>>
vars == <<table, change, page, changes, faults, answers, history>>

Nobody == "nobody"
NoKey == "no key"
Idle == [at |-> "idle", value |-> "absent"]
NotFetched == [r \in Rows |-> "unknown"]

ValuesOf(r) ==
    IF r \in Keys THEN {"live", "revoked"}
    ELSE IF r \in Members THEN Roles ELSE Addresses

\* OrganizationsService.create has made its caller the owner.
Init ==
    /\ table = [r \in Rows |-> IF r = Founder THEN "OWNER" ELSE "absent"]
    /\ change = [u \in Members |-> [r \in Rows |-> Idle]]
    /\ list = [u \in Members |-> NotFetched]
    /\ fetch = [u \in Members |-> <<"asked">>]
    /\ form = [u \in Members |-> "closed"]
    /\ banner = [u \in Members |-> NoKey]
    /\ changes = 0
    /\ faults = 0
    /\ seen = {}
    /\ left = {}
    /\ early = {}
    /\ writer = [r \in Rows |-> Nobody]
    /\ managers = {Founder}

FirstFetch(u) == list[u] = NotFetched /\ fetch[u] # <<"idle">>

----------------------------------------------------------------------------
\* The key form

OpenForm(u) ==
    /\ form[u] = "closed"
    /\ banner[u] = NoKey
    /\ form' = [form EXCEPT ![u] = "open"]
    /\ UNCHANGED <<table, change, list, fetch, banner, changes, faults, answers, history>>

\* A creation that is under way goes on.
CancelForm(u) ==
    /\ form[u] # "closed"
    /\ banner[u] = NoKey
    /\ form' = [form EXCEPT ![u] = "closed"]
    /\ UNCHANGED <<table, change, list, fetch, banner, changes, faults, answers, history>>

Done(u) ==
    /\ banner[u] # NoKey
    /\ banner' = [banner EXCEPT ![u] = NoKey]
    /\ UNCHANGED <<table, change, list, fetch, form, changes, faults, answers, history>>

----------------------------------------------------------------------------
\* The change

Begin(u, r, value) ==
    /\ change[u][r] = Idle
    /\ changes < MaxChanges
    /\ changes' = changes + 1
    /\ change' = [change EXCEPT ![u][r] = [at |-> "guards", value |-> value]]
    /\ UNCHANGED <<table, list, fetch, banner, faults, answers, history>>

\* Each creation makes a row of its own.
CreateKey(u, k) ==
    /\ form[u] = "open"
    /\ banner[u] = NoKey
    /\ table[k] = "absent"
    /\ \A v \in Members : change[v][k] = Idle
    /\ k \notin left
    /\ form' = [form EXCEPT ![u] = k]
    /\ Begin(u, k, "live")

RevokeKey(u, k) ==
    /\ list[u][k] = "live"
    /\ UNCHANGED form
    /\ Begin(u, k, "revoked")

InviteMember(u, v) ==
    /\ UNCHANGED form
    /\ \E role \in Roles : Begin(u, v, role)

\* The form appears when the list's first fetch has ended.
SetWalletAddress(u, w) ==
    /\ ~FirstFetch(u)
    /\ UNCHANGED form
    /\ \E a \in Addresses : a # list[u][w] /\ Begin(u, w, a)

At(u, r, at) == change[u][r].at = at

MoveTo(u, r, at) == change' = [change EXCEPT ![u][r].at = at]

\* Slip: any member may.
AnyMember(u) == table[u] # "absent"

\* OrganizationScopeGuard and RolesGuard.
MayManage(u) == table[u] \in Managers

CanActivate(u, r) ==
    /\ At(u, r, "guards")
    /\ MoveTo(u, r, IF MayManage(u) THEN "write" ELSE "refused")
    /\ UNCHANGED <<table, page, changes, faults, answers, history>>

Write(u, r) ==
    /\ At(u, r, "write")
    /\ table' = [table EXCEPT ![r] = change[u][r].value]
    /\ writer' = [writer EXCEPT ![r] = u]
    /\ managers' = managers \cup {v \in Members : table'[v] \in Managers}
    /\ MoveTo(u, r, "written")
    /\ UNCHANGED <<page, changes, faults, answers>>

\* Slip: a running fetch is never cancelled, it is taken for the new one.
FetchAfterIfIdle(u) == IF fetch[u] = <<"idle">> THEN <<"asked">> ELSE fetch[u]

\* invalidateQueries cancels a running fetch and starts another; the first
\* fetch of a list is not cancelled.
FetchAfter(u) == IF FirstFetch(u) THEN fetch[u] ELSE <<"asked">>

Invalidate(u) == fetch' = [fetch EXCEPT ![u] = FetchAfter(u)]

\* Slip: the answer goes to the form, if it is still there.
ShowsSecretInForm(u, k) == form[u] = k

\* mutateAsync resolves though its form was cancelled; not on a page left.
ShowsSecret(u, k) == k \notin left

Succeeds(u, r) ==
    /\ At(u, r, "written")
    /\ Invalidate(u)
    /\ early' = IF FirstFetch(u) THEN early \cup {r} ELSE early
    /\ UNCHANGED left
    /\ IF r \in Keys /\ change[u][r].value = "live"
       THEN /\ banner' = IF ShowsSecret(u, r) THEN [banner EXCEPT ![u] = r] ELSE banner
            /\ seen' = IF ShowsSecret(u, r) THEN seen \cup {r} ELSE seen
            /\ form' = IF ShowsSecret(u, r) THEN [form EXCEPT ![u] = "closed"] ELSE form
       ELSE UNCHANGED <<banner, seen, form>>
    /\ change' = [change EXCEPT ![u][r] = Idle]
    /\ UNCHANGED <<table, list, changes, faults, history>>

\* Slip: the form keeps waiting.
FormStays(u, r) == form' = form

\* A creation that fails leaves its form open, with the error.
FormAfterError(u, r) ==
    form' = IF form[u] = r THEN [form EXCEPT ![u] = "open"] ELSE form

\* The API's answer is an ApiError: its message is shown.
IsRefused(u, r) ==
    /\ At(u, r, "refused")
    /\ FormAfterError(u, r)
    /\ change' = [change EXCEPT ![u][r] = Idle]
    /\ UNCHANGED <<table, list, fetch, banner, changes, faults, answers, history>>

\* The request or its answer is lost.
IsLost(u, r) ==
    /\ change[u][r].at \in {"guards", "written"}
    /\ faults < MaxFaults
    /\ faults' = faults + 1
    /\ FormAfterError(u, r)
    /\ change' = [change EXCEPT ![u][r] = Idle]
    /\ UNCHANGED <<table, list, fetch, banner, changes, answers, history>>

----------------------------------------------------------------------------
\* The list

\* Any member may read.
ServeList(u) ==
    /\ fetch[u] = <<"asked">>
    /\ fetch' = [fetch EXCEPT ![u] = IF table[u] = "absent" THEN <<"idle">> ELSE <<"rows", table>>]
    /\ UNCHANGED <<table, change, list, form, banner, changes, faults, answers, history>>

ShowList(u) ==
    /\ fetch[u] \notin {<<"asked">>, <<"idle">>}
    /\ list' = [list EXCEPT ![u] = fetch[u][2]]
    /\ fetch' = [fetch EXCEPT ![u] = <<"idle">>]
    /\ UNCHANGED <<table, change, form, banner, changes, faults, answers, history>>

FetchFails(u) ==
    /\ fetch[u] # <<"idle">>
    /\ faults < MaxFaults
    /\ faults' = faults + 1
    /\ fetch' = [fetch EXCEPT ![u] = <<"idle">>]
    /\ UNCHANGED <<table, change, list, form, banner, changes, answers, history>>

\* The member looks at another page and comes back.  What the page kept is gone.
LeavePage(u) ==
    /\ form' = [form EXCEPT ![u] = "closed"]
    /\ banner' = [banner EXCEPT ![u] = NoKey]
    /\ left' = left \cup {k \in Keys : change[u][k].value = "live"}
    /\ fetch' = [fetch EXCEPT ![u] = FetchAfterIfIdle(u)]
    /\ UNCHANGED <<table, change, list, changes, faults, seen, early, history>>

Answers(u) ==
    \E r \in Rows : CanActivate(u, r) \/ Write(u, r) \/ Succeeds(u, r) \/ IsRefused(u, r)

GoesOn(u) == ServeList(u) \/ ShowList(u) \/ Answers(u)

Chooses(u) ==
    \/ OpenForm(u) \/ CancelForm(u) \/ Done(u) \/ LeavePage(u)
    \/ \E k \in Keys : CreateKey(u, k) \/ RevokeKey(u, k)
    \/ \E v \in Members : InviteMember(u, v)
    \/ \E w \in Wallets : SetWalletAddress(u, w)

Next ==
    \E u \in Members :
        \/ GoesOn(u) \/ Chooses(u) \/ FetchFails(u)
        \/ \E r \in Rows : IsLost(u, r)

Spec == Init /\ [][Next]_vars

\* Requests run on and answers arrive; nobody has to press a button.
Fairness ==
    \A u \in Members :
        /\ WF_vars(ServeList(u) \/ ShowList(u))
        /\ WF_vars(Answers(u))

FairSpec == Spec /\ Fairness

----------------------------------------------------------------------------
\* Type correctness of the rows, the changes and the pages; a form that waits
\* has a request to wait for.
TypeOK ==
    /\ \A r \in Rows : table[r] \in ValuesOf(r) \cup {"absent", "OWNER"}
    /\ \A u \in Members :
          /\ \A r \in Rows :
                /\ change[u][r].at \in {"idle", "guards", "write", "written", "refused"}
                /\ change[u][r] # Idle => change[u][r].value \in ValuesOf(r)
                /\ list[u][r] \in ValuesOf(r) \cup {"absent", "unknown", "OWNER"}
          /\ form[u] \in {"closed", "open"} \cup {k \in Keys : change[u][k] # Idle}
          /\ banner[u] \in {NoKey} \cup Keys
    /\ changes \in 0..MaxChanges
    /\ faults \in 0..MaxFaults
    /\ seen \cup left \subseteq Keys
    /\ early \subseteq Rows

\* A secret exists on one screen only.  Whatever becomes of the form that asked
\* for it, no key is left of which nobody has seen the secret, unless its page
\* was left meanwhile or its answer was lost.
EveryKeyWasSeen ==
    \A k \in Keys :
        \/ table[k] = "absent"
        \/ k \in seen \cup left
        \/ \E u \in Members : At(u, k, "written")
        \/ faults > 0

\* Whoever wrote a row last comes to see it as it is, though a list fetched
\* before the write may still be on its way.  A list that had never been shown
\* may miss it, and so may one whose request or answer is lost.
WriterSeesTheRow ==
    \A r \in Rows :
        writer[r] # Nobody ~>
            \/ faults > 0 \/ r \in early
            \/ \E u \in Members : writer[r] = u /\ list[u][r] = table[r]

\* Every row was written by somebody who had been made a manager by then, the
\* founder or one whom such a row made one; a role in a list is not enough.
WritersWereManagers == \A r \in Rows : writer[r] \in managers \cup {Nobody}

=============================================================================
