-------------------------- MODULE DashboardProofs --------------------------
(***************************************************************************)
(* Proofs about the dashboard, for any members, keys, roles and requests.  *)
(*                                                                         *)
(* Rows: a request that passed the guards belongs to someone who was a     *)
(* manager then; whoever a row makes a manager is remembered; and nothing  *)
(* but such a request writes a row.                                        *)
(*                                                                         *)
(* Pages: a key has one creation under way at most, whose form, if it      *)
(* waits, is on a page not left; a list shows no key before it is made; so *)
(* a key that is made waits for its own creation to be answered, not for a *)
(* revocation that overtook it.                                            *)
(***************************************************************************)
EXTENDS Dashboard, TLAPS

Value == {"live", "revoked", "absent", "OWNER"} \cup Roles \cup Addresses

Change == [at : {"idle", "guards", "write", "written", "refused"}, value : Value]

Shape ==
    /\ table \in [Rows -> Value]
    /\ change \in [Members -> [Rows -> Change]]
    /\ writer \in [Rows -> Members \cup {Nobody}]

\* Who manages now did so at some time.
ManagersRemembered == \A v \in Members : table[v] \in Managers => v \in managers

\* Past the guards, a role may be taken away again: the request goes on.
PassedGuards == \A u \in Members, r \in Rows : At(u, r, "write") => u \in managers

GuardInv == Shape /\ ManagersRemembered /\ PassedGuards /\ WritersWereManagers

----------------------------------------------------------------------------
LEMMA InitGuarded == Init => GuardInv
<1> SUFFICES ASSUME Init PROVE GuardInv
  OBVIOUS
<1>1. Idle \in Change /\ Idle.at = "idle"
  BY DEF Idle, Change, Value
<1>2. /\ change = [u \in Members |-> [r \in Rows |-> Idle]]
      /\ table = [r \in Rows |-> IF r = Founder THEN "OWNER" ELSE "absent"]
      /\ writer = [r \in Rows |-> Nobody]
      /\ managers = {Founder}
  BY DEF Init
<1> HIDE DEF Idle
<1>3. Shape
  BY <1>1, <1>2 DEF Shape, Value
<1>4. ManagersRemembered
  BY <1>2 DEF ManagersRemembered, Managers, Rows
<1>5. PassedGuards
  BY <1>1, <1>2 DEF PassedGuards, At
<1>6. WritersWereManagers
  BY <1>2 DEF WritersWereManagers
<1> QED
  BY <1>3, <1>4, <1>5, <1>6 DEF GuardInv

\* One member's request about one row moves on.
LEMMA ChangeMoves ==
    ASSUME Shape, NEW u \in Members, NEW r \in Rows, NEW to \in Change,
           change' = [change EXCEPT ![u][r] = to]
    PROVE  /\ change' \in [Members -> [Rows -> Change]]
           /\ change'[u][r] = to
           /\ \A v \in Members, s \in Rows :
                 <<v, s>> # <<u, r>> => change'[v][s] = change[v][s]
  BY DEF Shape

LEMMA MoveToMoves ==
    ASSUME Shape, NEW u \in Members, NEW r \in Rows,
           NEW at \in {"idle", "guards", "write", "written", "refused"},
           MoveTo(u, r, at)
    PROVE  /\ change' \in [Members -> [Rows -> Change]]
           /\ change'[u][r].at = at
           /\ \A v \in Members, s \in Rows :
                 <<v, s>> # <<u, r>> => change'[v][s] = change[v][s]
<1> DEFINE to == [change[u][r] EXCEPT !.at = at]
<1>1. change[u][r] \in Change
  BY DEF Shape
<1>2. to \in Change /\ to.at = at
  BY <1>1 DEF Change
<1>3. change' = [change EXCEPT ![u][r] = to]
  BY DEF MoveTo
<1> HIDE DEF to
<1> QED
  BY <1>2, <1>3, ChangeMoves

\* A step that writes no row and lets nobody past the guards.
LEMMA NoWrite ==
    ASSUME GuardInv, UNCHANGED <<table, writer, managers>>,
           change' \in [Members -> [Rows -> Change]],
           \A u \in Members, r \in Rows : At(u, r, "write")' => At(u, r, "write")
    PROVE  GuardInv'
  BY DEF GuardInv, Shape, ManagersRemembered, PassedGuards, WritersWereManagers

LEMMA PageOnly ==
    ASSUME GuardInv, UNCHANGED <<table, change, writer, managers>>
    PROVE  GuardInv'
<1>1. change' \in [Members -> [Rows -> Change]]
  BY DEF GuardInv, Shape
<1>2. \A u \in Members, r \in Rows : At(u, r, "write")' => At(u, r, "write")
  BY DEF At
<1> QED
  BY <1>1, <1>2, NoWrite

\* A change that begins stands before the guards.
LEMMA BeginKeeps ==
    ASSUME GuardInv, NEW u \in Members, NEW r \in Rows, NEW value \in Value,
           Begin(u, r, value)
    PROVE  GuardInv'
<1> DEFINE to == [at |-> "guards", value |-> value]
<1>1. to \in Change /\ to.at = "guards"
  BY DEF Change
<1>2. /\ change' = [change EXCEPT ![u][r] = to]
      /\ UNCHANGED <<table, writer, managers>>
  BY DEF Begin, history
<1> HIDE DEF to
<1>3. /\ change' \in [Members -> [Rows -> Change]]
      /\ change'[u][r] = to
      /\ \A v \in Members, s \in Rows :
            <<v, s>> # <<u, r>> => change'[v][s] = change[v][s]
  BY <1>1, <1>2, ChangeMoves DEF GuardInv
<1>4. \A v \in Members, s \in Rows : At(v, s, "write")' => At(v, s, "write")
  BY <1>1, <1>3 DEF At
<1> QED
  BY <1>2, <1>3, <1>4, NoWrite

\* An answered or lost change is forgotten.
LEMMA ForgottenKeeps ==
    ASSUME GuardInv, NEW u \in Members, NEW r \in Rows,
           change' = [change EXCEPT ![u][r] = Idle],
           UNCHANGED <<table, writer, managers>>
    PROVE  GuardInv'
<1>1. Idle \in Change /\ Idle.at = "idle"
  BY DEF Idle, Change, Value
<1> HIDE DEF Idle
<1>2. /\ change' \in [Members -> [Rows -> Change]]
      /\ change'[u][r] = Idle
      /\ \A v \in Members, s \in Rows :
            <<v, s>> # <<u, r>> => change'[v][s] = change[v][s]
  BY <1>1, ChangeMoves DEF GuardInv
<1>3. \A v \in Members, s \in Rows : At(v, s, "write")' => At(v, s, "write")
  BY <1>1, <1>2 DEF At
<1> QED
  BY <1>2, <1>3, NoWrite

\* The guards let managers through.
LEMMA CanActivateKeeps ==
    ASSUME GuardInv, NEW u \in Members, NEW r \in Rows, CanActivate(u, r)
    PROVE  GuardInv'
<1> DEFINE at == IF MayManage(u) THEN "write" ELSE "refused"
<1>1. MoveTo(u, r, at) /\ UNCHANGED <<table, writer, managers>>
  BY DEF CanActivate, history
<1>2. /\ change' \in [Members -> [Rows -> Change]]
      /\ change'[u][r].at = at
      /\ \A v \in Members, s \in Rows :
            <<v, s>> # <<u, r>> => change'[v][s] = change[v][s]
  BY <1>1, MoveToMoves DEF GuardInv
<1>3. at = "write" => u \in managers
  BY DEF MayManage, GuardInv, ManagersRemembered
<1>4. PassedGuards'
  BY <1>1, <1>2, <1>3 DEF GuardInv, PassedGuards, At
<1> QED
  BY <1>1, <1>2, <1>4 DEF GuardInv, Shape, ManagersRemembered, WritersWereManagers

\* The row's writer had passed them.
LEMMA WriteKeeps ==
    ASSUME GuardInv, NEW u \in Members, NEW r \in Rows, Write(u, r)
    PROVE  GuardInv'
<1>1. /\ At(u, r, "write")
      /\ table' = [table EXCEPT ![r] = change[u][r].value]
      /\ writer' = [writer EXCEPT ![r] = u]
      /\ managers' = managers \cup {v \in Members : table'[v] \in Managers}
      /\ MoveTo(u, r, "written")
  BY DEF Write
<1>2. u \in managers /\ managers \subseteq managers'
  BY <1>1 DEF GuardInv, PassedGuards
<1>3. change[u][r].value \in Value
  BY DEF GuardInv, Shape, Change
<1>4. /\ change' \in [Members -> [Rows -> Change]]
      /\ change'[u][r].at = "written"
      /\ \A v \in Members, s \in Rows :
            <<v, s>> # <<u, r>> => change'[v][s] = change[v][s]
  BY <1>1, MoveToMoves DEF GuardInv
<1>5. /\ table' \in [Rows -> Value]
      /\ writer' \in [Rows -> Members \cup {Nobody}]
      /\ \A s \in Rows : writer'[s] = u \/ writer'[s] = writer[s]
  BY <1>1, <1>3 DEF GuardInv, Shape
<1>6. ManagersRemembered'
  BY <1>1 DEF ManagersRemembered
<1>7. PassedGuards'
  BY <1>2, <1>4 DEF GuardInv, PassedGuards, At
<1>8. WritersWereManagers'
  BY <1>2, <1>5 DEF GuardInv, WritersWereManagers
<1> QED
  BY <1>4, <1>5, <1>6, <1>7, <1>8 DEF GuardInv, Shape

LEMMA StepGuarded == ASSUME GuardInv, [Next]_vars PROVE GuardInv'
<1>1. ASSUME NEW u \in Members, NEW r \in Rows,
             Succeeds(u, r) \/ IsRefused(u, r) \/ IsLost(u, r)
      PROVE  GuardInv'
  <2>1. /\ change' = [change EXCEPT ![u][r] = Idle]
        /\ UNCHANGED <<table, writer, managers>>
    BY <1>1 DEF Succeeds, IsRefused, IsLost, history
  <2> QED
    BY <2>1, ForgottenKeeps
<1>2. ASSUME NEW u \in Members, Answers(u) PROVE GuardInv'
  BY <1>1, <1>2, CanActivateKeeps, WriteKeeps DEF Answers
<1>3. ASSUME NEW u \in Members, ServeList(u) \/ ShowList(u) \/ FetchFails(u)
      PROVE  GuardInv'
  BY <1>3, PageOnly DEF ServeList, ShowList, FetchFails, history
<1>4. ASSUME NEW u \in Members, Chooses(u) PROVE GuardInv'
  <2>1. CASE OpenForm(u) \/ CancelForm(u) \/ Done(u) \/ LeavePage(u)
    BY <2>1, PageOnly DEF OpenForm, CancelForm, Done, LeavePage, history
  <2>2. ASSUME NEW k \in Keys, CreateKey(u, k) \/ RevokeKey(u, k) PROVE GuardInv'
    BY <2>2, BeginKeeps DEF CreateKey, RevokeKey, Rows, Value
  <2>3. ASSUME NEW v \in Members, InviteMember(u, v) PROVE GuardInv'
    BY <2>3, BeginKeeps DEF InviteMember, Rows, Value
  <2>4. ASSUME NEW w \in Wallets, SetWalletAddress(u, w) PROVE GuardInv'
    BY <2>4, BeginKeeps DEF SetWalletAddress, Rows, Value
  <2> QED
    BY <1>4, <2>1, <2>2, <2>3, <2>4 DEF Chooses
<1>5. CASE UNCHANGED vars
  BY <1>5, PageOnly DEF vars, history
<1> QED
  BY <1>1, <1>2, <1>3, <1>4, <1>5 DEF Next, GoesOn

\* OrganizationScopeGuard and RolesGuard on every path to a row: whoever wrote
\* one was a manager once, though perhaps no longer when the row was written.
THEOREM OnlyManagersWrite == Spec => []WritersWereManagers
<1>1. Init => GuardInv
  BY InitGuarded
<1>2. GuardInv /\ [Next]_vars => GuardInv'
  BY StepGuarded
<1>3. GuardInv => WritersWereManagers
  BY DEF GuardInv
<1> QED
  BY <1>1, <1>2, <1>3, PTL DEF Spec

----------------------------------------------------------------------------
(* What the pages show, and the keys that are made.                        *)

RowValues(r) == ValuesOf(r) \cup {"absent", "OWNER"}

Tables == {t \in [Rows -> Value] : \A r \in Rows : t[r] \in RowValues(r)}

Fetches == {<<"asked">>, <<"idle">>} \cup {<<"rows", t>> : t \in Tables}

PageShape ==
    /\ list \in [Members -> [Rows -> Value \cup {"unknown"}]]
    /\ fetch \in [Members -> Fetches]
    /\ form \in [Members -> {"closed", "open"} \cup Keys]
    /\ banner \in [Members -> {NoKey} \cup Keys]
    /\ seen \subseteq Keys
    /\ left \subseteq Keys
    /\ early \subseteq Rows
    /\ changes \in 0..MaxChanges
    /\ faults \in 0..MaxFaults

\* A change that is not idle has a value its row may take.
ChangeTyped(c, r) == c = Idle \/ (c.at # "idle" /\ c.value \in ValuesOf(r))

RowsTyped ==
    \A r \in Rows :
        /\ table[r] \in RowValues(r)
        /\ \A u \in Members : /\ list[u][r] \in RowValues(r) \cup {"unknown"}
                              /\ ChangeTyped(change[u][r], r)

Arrived(u) == fetch[u] \notin {<<"asked">>, <<"idle">>}

\* A key that a page shows as live, that an answer on its way says is live, or
\* that somebody revokes, was made.
ShownAsLive(u, k) == list[u][k] = "live" \/ (Arrived(u) /\ fetch[u][2][k] = "live")

KeysMade ==
    \A k \in Keys, u \in Members :
        ShownAsLive(u, k) \/ change[u][k].value = "revoked" => table[k] # "absent"

Creates(u, k) == change[u][k].value = "live"

OneCreator == \A k \in Keys, u, v \in Members : Creates(u, k) /\ Creates(v, k) => u = v

\* A form that waits is still on the page that will get the answer.
FormWaits ==
    \A u \in Members :
        form[u] \in {"closed", "open"} \/ (form[u] \notin left /\ Creates(u, form[u]))

\* It is the creation of the key that is awaited, not its revocation.
SecretAwaited ==
    \A k \in Keys :
        \/ table[k] = "absent"
        \/ k \in seen \cup left
        \/ \E u \in Members : At(u, k, "written") /\ Creates(u, k)
        \/ faults > 0

PageInv ==
    Shape /\ PageShape /\ RowsTyped /\ KeysMade /\ OneCreator /\ FormWaits /\ SecretAwaited

\* Pages fetch their lists, and nothing was made.
LEMMA InitPages == Init => PageInv
<1> SUFFICES ASSUME Init PROVE PageInv
  OBVIOUS
<1>1. Idle \in Change /\ Idle.value = "absent"
  BY DEF Idle, Change, Value
<1>2. /\ change = [u \in Members |-> [r \in Rows |-> Idle]]
      /\ table = [r \in Rows |-> IF r = Founder THEN "OWNER" ELSE "absent"]
      /\ list = [u \in Members |-> [r \in Rows |-> "unknown"]]
      /\ fetch = [u \in Members |-> <<"asked">>]
      /\ form = [u \in Members |-> "closed"]
      /\ banner = [u \in Members |-> NoKey]
      /\ changes = 0 /\ faults = 0 /\ seen = {} /\ left = {} /\ early = {}
  BY DEF Init, NotFetched
<1> HIDE DEF Idle
<1>3. Shape
  BY InitGuarded DEF GuardInv
<1>4. PageShape
  <2>1. fetch \in [Members -> Fetches]
    BY <1>2 DEF Fetches
  <2> QED
    BY <1>2, <2>1, DashboardAssumption DEF PageShape
<1>5. RowsTyped
  BY <1>2 DEF RowsTyped, RowValues, ChangeTyped
<1>6. KeysMade /\ OneCreator
  BY <1>1, <1>2 DEF KeysMade, OneCreator, ShownAsLive, Arrived, Creates, Rows
<1>7. FormWaits
  BY <1>2 DEF FormWaits
<1>8. SecretAwaited
  BY <1>2, DashboardAssumption DEF SecretAwaited, Rows
<1> QED
  BY <1>3, <1>4, <1>5, <1>6, <1>7, <1>8 DEF PageInv

\* A step that only touches forms and banners.
LEMMA FormStep ==
    ASSUME PageInv, NEW u \in Members, OpenForm(u) \/ CancelForm(u) \/ Done(u)
    PROVE  PageInv'
<1>1. /\ UNCHANGED <<table, change, list, fetch, changes, faults, seen, left, early, writer>>
      /\ \/ form' = [form EXCEPT ![u] = "open"] /\ banner' = banner
         \/ form' = [form EXCEPT ![u] = "closed"] /\ banner' = banner
         \/ form' = form /\ banner' = [banner EXCEPT ![u] = NoKey]
  BY DEF OpenForm, CancelForm, Done, answers, history
<1>2. Shape'
  BY <1>1 DEF PageInv, Shape
<1>3. PageShape'
  BY <1>1 DEF PageInv, PageShape
<1>4. \A v \in Members : form'[v] = form[v] \/ form'[v] \in {"closed", "open"}
  BY <1>1 DEF PageInv, PageShape
<1>5. FormWaits'
  BY <1>1, <1>4 DEF PageInv, FormWaits, Creates
<1>6. RowsTyped' /\ KeysMade' /\ OneCreator' /\ SecretAwaited'
  BY <1>1 DEF PageInv, RowsTyped, KeysMade, OneCreator, SecretAwaited, ShownAsLive, Arrived,
              Creates, At
<1> QED
  BY <1>2, <1>3, <1>5, <1>6 DEF PageInv

\* A list arrives as the table was, or not at all.
LEMMA ListStep ==
    ASSUME PageInv, NEW u \in Members, ServeList(u) \/ ShowList(u) \/ FetchFails(u)
    PROVE  PageInv'
<1>1. UNCHANGED <<table, change, form, banner, changes, seen, left, early, writer>>
  BY DEF ServeList, ShowList, FetchFails, answers, history
<1>2. /\ faults' \in 0..MaxFaults /\ (faults > 0 => faults' > 0)
  BY DashboardAssumption DEF ServeList, ShowList, FetchFails, PageInv, PageShape
<1>3. /\ list' \in [Members -> [Rows -> Value \cup {"unknown"}]]
      /\ fetch' \in [Members -> Fetches]
      /\ \A v \in Members : Arrived(v)' =>
            fetch'[v] = fetch[v] \/ (fetch'[v] = <<"rows", table>>)
      /\ \A v \in Members :
            \/ list'[v] = list[v]
            \/ \E t \in Tables : fetch[v] = <<"rows", t>> /\ Arrived(v) /\ list'[v] = t
  <2>1. /\ list \in [Members -> [Rows -> Value \cup {"unknown"}]]
        /\ fetch \in [Members -> Fetches]
    BY DEF PageInv, PageShape
  <2>2. table \in Tables
    BY DEF PageInv, Shape, RowsTyped, Tables
  <2>3. CASE ServeList(u)
    <3> DEFINE answer == IF table[u] = "absent" THEN <<"idle">> ELSE <<"rows", table>>
    <3>1. answer \in Fetches /\ fetch' = [fetch EXCEPT ![u] = answer] /\ list' = list
      BY <2>2, <2>3 DEF ServeList, Fetches
    <3>2. answer = <<"idle">> \/ answer = <<"rows", table>>
      OBVIOUS
    <3> HIDE DEF answer
    <3> QED
      BY <2>1, <3>1, <3>2 DEF Arrived
  <2>4. CASE ShowList(u)
    <3>1. Arrived(u) /\ fetch' = [fetch EXCEPT ![u] = <<"idle">>]
          /\ list' = [list EXCEPT ![u] = fetch[u][2]]
      BY <2>4 DEF ShowList, Arrived
    <3>2. PICK t \in Tables : fetch[u] = <<"rows", t>>
      BY <2>1, <3>1 DEF Arrived, Fetches
    <3>3. t \in [Rows -> Value \cup {"unknown"}] /\ fetch[u][2] = t
      BY <3>2 DEF Tables
    <3>4. <<"idle">> \in Fetches
      BY DEF Fetches
    <3> QED
      BY <2>1, <3>1, <3>2, <3>3, <3>4 DEF Arrived
  <2>5. CASE FetchFails(u)
    <3>1. fetch' = [fetch EXCEPT ![u] = <<"idle">>] /\ list' = list
      BY <2>5 DEF FetchFails
    <3>2. <<"idle">> \in Fetches
      BY DEF Fetches
    <3> QED
      BY <2>1, <3>1, <3>2 DEF Arrived
  <2> QED
    BY <2>3, <2>4, <2>5
<1>4. Shape'
  BY <1>1 DEF PageInv, Shape
<1>5. PageShape'
  BY <1>1, <1>2, <1>3 DEF PageInv, PageShape
<1>6. RowsTyped'
  BY <1>1, <1>3 DEF PageInv, RowsTyped, Tables
<1>7. KeysMade'
  <2>1. ASSUME NEW k \in Keys, NEW v \in Members, ShownAsLive(v, k)' PROVE table[k] # "absent"
    <3>1. CASE list'[v][k] = "live"
      <4>1. CASE list'[v] = list[v]
        BY <3>1, <4>1 DEF PageInv, KeysMade, ShownAsLive
      <4>2. CASE \E t \in Tables : fetch[v] = <<"rows", t>> /\ Arrived(v) /\ list'[v] = t
        BY <3>1, <4>2 DEF PageInv, KeysMade, ShownAsLive
      <4> QED
        BY <1>3, <4>1, <4>2
    <3>2. CASE Arrived(v)' /\ fetch'[v][2][k] = "live"
      <4>1. CASE fetch'[v] = fetch[v]
        BY <3>2, <4>1 DEF PageInv, KeysMade, ShownAsLive, Arrived
      <4>2. CASE fetch'[v] = <<"rows", table>>
        BY <3>2, <4>2
      <4> QED
        BY <1>3, <3>2, <4>1, <4>2
    <3> QED
      BY <2>1, <3>1, <3>2 DEF ShownAsLive
  <2> QED
    BY <1>1, <2>1 DEF PageInv, KeysMade
<1>8. OneCreator' /\ FormWaits' /\ SecretAwaited'
  BY <1>1, <1>2 DEF PageInv, OneCreator, FormWaits, SecretAwaited, Creates, At
<1> QED
  BY <1>4, <1>5, <1>6, <1>7, <1>8 DEF PageInv

\* A change begins: a key is created by one page only, and revoked once made.
LEMMA BeginStep ==
    ASSUME PageInv, NEW u \in Members, NEW r \in Rows, NEW value \in ValuesOf(r),
           Begin(u, r, value),
           \/ form' = form
           \/ r \in Keys \ left /\ value = "live" /\ form' = [form EXCEPT ![u] = r],
           r \in Keys /\ value = "live" => \A v \in Members : change[v][r] = Idle,
           r \in Keys /\ value = "revoked" => table[r] # "absent"
    PROVE  PageInv'
<1> DEFINE to == [at |-> "guards", value |-> value]
<1>1. change' = [change EXCEPT ![u][r] = to] /\ change[u][r] = Idle
      /\ UNCHANGED <<table, list, fetch, banner, faults, seen, left, early, writer>>
  BY DEF Begin, answers, history
<1>2. value \in Value /\ (r \in Keys => value \in {"live", "revoked"})
  BY DEF ValuesOf, Value
<1>3. /\ to \in Change /\ to.at = "guards" /\ to.value = value /\ ChangeTyped(to, r)
      /\ to # Idle
  BY <1>2 DEF Change, ChangeTyped, Idle
<1> HIDE DEF to
<1>4. /\ change' \in [Members -> [Rows -> Change]]
      /\ change'[u][r] = to
      /\ \A v \in Members, s \in Rows :
            <<v, s>> # <<u, r>> => change'[v][s] = change[v][s]
  BY <1>1, <1>3, ChangeMoves DEF PageInv
<1>5. Idle.value = "absent" /\ Idle.at = "idle"
  BY DEF Idle
<1>6. Shape'
  BY <1>1, <1>4 DEF PageInv, Shape
<1>7. PageShape'
  <2>1. changes' \in 0..MaxChanges
    BY DashboardAssumption DEF Begin, PageInv, PageShape
  <2>2. form' \in [Members -> {"closed", "open"} \cup Keys]
    BY DEF PageInv, PageShape
  <2> QED
    BY <1>1, <2>1, <2>2 DEF PageInv, PageShape
<1>8. RowsTyped'
  BY <1>1, <1>3, <1>4 DEF PageInv, RowsTyped, RowValues
<1>9. KeysMade'
  <2>1. ASSUME NEW k \in Keys, NEW v \in Members, change'[v][k].value = "revoked"
        PROVE  table[k] # "absent"
    BY <1>3, <1>4, <2>1 DEF PageInv, KeysMade, Rows
  <2>2. \A k \in Keys, v \in Members : ShownAsLive(v, k)' => ShownAsLive(v, k)
    BY <1>1 DEF ShownAsLive, Arrived
  <2> QED
    BY <1>1, <2>1, <2>2 DEF PageInv, KeysMade
<1>10. OneCreator'
  BY <1>3, <1>4, <1>5 DEF PageInv, OneCreator, Creates, Rows
<1>11. FormWaits'
  <2>1. \A v \in Members, s \in Rows : Creates(v, s) => Creates(v, s)'
    BY <1>1, <1>4, <1>5 DEF Creates
  <2>2. \A v \in Members : form[v] \in {"closed", "open"} \cup Keys
    BY DEF PageInv, PageShape
  <2>3. ASSUME NEW v \in Members
        PROVE  form'[v] \in {"closed", "open"} \/ (form'[v] \notin left' /\ Creates(v, form[v])')
    <3>1. CASE form'[v] = form[v]
      BY <1>1, <2>1, <2>2, <3>1 DEF PageInv, FormWaits, Rows
    <3>2. CASE v = u /\ r \notin left /\ value = "live" /\ form'[v] = r
      BY <1>1, <1>3, <1>4, <3>2 DEF Creates
    <3> QED
      BY <3>1, <3>2 DEF PageInv, PageShape
  <2> QED
    BY <2>3 DEF FormWaits
<1>12. SecretAwaited'
  <2>1. \A v \in Members, s \in Rows :
           At(v, s, "written") /\ Creates(v, s) => (At(v, s, "written") /\ Creates(v, s))'
    BY <1>1, <1>4, <1>5 DEF Creates, At
  <2> QED
    BY <1>1, <2>1 DEF PageInv, SecretAwaited, Rows
<1> QED
  BY <1>6, <1>7, <1>8, <1>9, <1>10, <1>11, <1>12 DEF PageInv

\* On its way through guards and write a change keeps its value.
LEMMA MoveKeeps ==
    ASSUME PageInv, NEW u \in Members, NEW r \in Rows,
           NEW at \in {"write", "written", "refused"}, MoveTo(u, r, at),
           ~At(u, r, "idle"), ~At(u, r, "written")
    PROVE  /\ change' \in [Members -> [Rows -> Change]]
           /\ At(u, r, at)'
           /\ \A v \in Members, s \in Rows :
                 /\ change'[v][s].value = change[v][s].value
                 /\ ChangeTyped(change[v][s], s)'
                 /\ At(v, s, "written") => At(v, s, "written")'
                 /\ Creates(v, s)' <=> Creates(v, s)
<1> DEFINE to == [change[u][r] EXCEPT !.at = at]
<1>1. change[u][r] \in Change /\ ChangeTyped(change[u][r], r)
  BY DEF PageInv, Shape, RowsTyped
<1>2. change[u][r] # Idle
  BY DEF At, Idle
<1>3. to \in Change /\ to.at = at /\ to.value = change[u][r].value /\ ChangeTyped(to, r)
  BY <1>1, <1>2 DEF Change, ChangeTyped
<1>4. change' = [change EXCEPT ![u][r] = to]
  BY DEF MoveTo
<1> HIDE DEF to
<1>5. /\ change' \in [Members -> [Rows -> Change]]
      /\ change'[u][r] = to
      /\ \A v \in Members, s \in Rows :
            <<v, s>> # <<u, r>> => change'[v][s] = change[v][s]
  BY <1>3, <1>4, ChangeMoves DEF PageInv
<1> QED
  BY <1>3, <1>5 DEF At, Creates, PageInv, RowsTyped

LEMMA CanActivateStep ==
    ASSUME PageInv, NEW u \in Members, NEW r \in Rows, CanActivate(u, r)
    PROVE  PageInv'
<1>1. /\ UNCHANGED <<table, list, fetch, form, banner, changes, faults, seen, left, early, writer>>
      /\ At(u, r, "guards")
      /\ MoveTo(u, r, "write") \/ MoveTo(u, r, "refused")
  BY DEF CanActivate, page, answers, history
<1>2. /\ change' \in [Members -> [Rows -> Change]]
      /\ \A v \in Members, s \in Rows :
            /\ change'[v][s].value = change[v][s].value
            /\ ChangeTyped(change[v][s], s)'
            /\ At(v, s, "written") => At(v, s, "written")'
            /\ Creates(v, s)' <=> Creates(v, s)
  BY <1>1, MoveKeeps DEF At
<1>3. Shape' /\ PageShape'
  BY <1>1, <1>2 DEF PageInv, Shape, PageShape
<1>4. RowsTyped'
  BY <1>1, <1>2 DEF PageInv, RowsTyped, RowValues
<1>5. Keys \subseteq Rows
  BY DEF Rows
<1>6. KeysMade'
  BY <1>1, <1>2, <1>5 DEF PageInv, KeysMade, ShownAsLive, Arrived
<1>7. OneCreator'
  BY <1>2, <1>5 DEF PageInv, OneCreator
<1>8. SecretAwaited'
  BY <1>1, <1>2, <1>5 DEF PageInv, SecretAwaited
<1>9. FormWaits'
  <2>1. \A v \in Members : form[v] \in {"closed", "open"} \cup Keys
    BY DEF PageInv, PageShape
  <2> QED
    BY <1>1, <1>2, <2>1 DEF PageInv, FormWaits, Rows
<1> QED
  BY <1>3, <1>4, <1>6, <1>7, <1>8, <1>9 DEF PageInv

\* The write makes a key, or changes one that was made.
LEMMA WriteStep ==
    ASSUME PageInv, NEW u \in Members, NEW r \in Rows, Write(u, r)
    PROVE  PageInv'
<1>1. /\ UNCHANGED <<list, fetch, form, banner, changes, faults, seen, left, early>>
      /\ At(u, r, "write")
      /\ MoveTo(u, r, "written")
      /\ table' = [table EXCEPT ![r] = change[u][r].value]
      /\ writer' = [writer EXCEPT ![r] = u]
  BY DEF Write, page, answers
<1>2. /\ change' \in [Members -> [Rows -> Change]]
      /\ At(u, r, "written")'
      /\ \A v \in Members, s \in Rows :
            /\ change'[v][s].value = change[v][s].value
            /\ ChangeTyped(change[v][s], s)'
            /\ At(v, s, "written") => At(v, s, "written")'
            /\ Creates(v, s)' <=> Creates(v, s)
  BY <1>1, MoveKeeps DEF At
<1>3. change[u][r].value \in ValuesOf(r) /\ change[u][r].value \in Value
  BY <1>1 DEF PageInv, Shape, RowsTyped, ChangeTyped, At, Idle, Change
<1>4. /\ table' \in [Rows -> Value]
      /\ table'[r] = change[u][r].value
      /\ \A s \in Rows : s # r => table'[s] = table[s]
  BY <1>1, <1>3 DEF PageInv, Shape
<1>5. Shape'
  BY <1>1, <1>2, <1>4 DEF PageInv, Shape
<1>6. PageShape'
  BY <1>1 DEF PageInv, PageShape
<1>7. RowsTyped'
  BY <1>1, <1>2, <1>3, <1>4 DEF PageInv, RowsTyped, RowValues
<1>8. \A k \in Keys : table[k] # "absent" => table'[k] # "absent"
  BY <1>3, <1>4 DEF ValuesOf, Rows
<1>9. KeysMade'
  <2>1. \A k \in Keys, v \in Members : ShownAsLive(v, k)' => ShownAsLive(v, k)
    BY <1>1 DEF ShownAsLive, Arrived
  <2> QED
    BY <1>2, <1>8, <2>1 DEF PageInv, KeysMade, Rows
<1>10. OneCreator'
  <2>1. Keys \subseteq Rows
    BY DEF Rows
  <2> QED
    BY <1>2, <2>1 DEF PageInv, OneCreator
<1>11. FormWaits'
  <2>1. \A v \in Members : form[v] \in {"closed", "open"} \cup Keys
    BY DEF PageInv, PageShape
  <2> QED
    BY <1>1, <1>2, <2>1 DEF PageInv, FormWaits, Creates, Rows
<1>12. SecretAwaited'
  <2>1. ASSUME NEW k \in Keys
        PROVE  \/ table'[k] = "absent"
               \/ k \in seen' \cup left'
               \/ \E v \in Members : At(v, k, "written")' /\ Creates(v, k)'
               \/ faults' > 0
    <3>1. CASE k = r /\ Creates(u, r)
      BY <1>2, <3>1 DEF Creates
    <3>2. CASE k # r
      BY <1>1, <1>2, <1>4, <3>2 DEF PageInv, SecretAwaited, Creates, Rows
    <3>3. CASE k = r /\ ~Creates(u, r)
      <4>1. change[u][k].value = "revoked"
        BY <1>3, <3>3 DEF ValuesOf, Creates
      <4>2. table[k] # "absent"
        BY <4>1 DEF PageInv, KeysMade
      <4> QED
        BY <1>1, <1>2, <4>2 DEF PageInv, SecretAwaited, Creates, Rows
    <3> QED
      BY <3>1, <3>2, <3>3
  <2> QED
    BY <2>1 DEF SecretAwaited
<1> QED
  BY <1>5, <1>6, <1>7, <1>9, <1>10, <1>11, <1>12 DEF PageInv

\* A change that was answered or lost is forgotten.
LEMMA Forgets ==
    ASSUME PageInv, NEW u \in Members, NEW r \in Rows,
           change' = [change EXCEPT ![u][r] = Idle]
    PROVE  /\ change' \in [Members -> [Rows -> Change]]
           /\ change'[u][r] = Idle
           /\ ~Creates(u, r)' /\ change'[u][r].value # "revoked"
           /\ \A v \in Members, s \in Rows :
                 <<v, s>> # <<u, r>> => change'[v][s] = change[v][s]
<1>1. Idle \in Change /\ Idle.value = "absent"
  BY DEF Idle, Change, Value
<1> HIDE DEF Idle
<1> QED
  BY <1>1, ChangeMoves DEF PageInv, Creates

\* The creation of a key that succeeds hands its secret to the page; a page that
\* was left gets none.
LEMMA AnswerStep ==
    ASSUME PageInv, NEW u \in Members, NEW r \in Rows,
           Succeeds(u, r) \/ IsRefused(u, r) \/ IsLost(u, r)
    PROVE  PageInv'
<1>1. /\ change' = [change EXCEPT ![u][r] = Idle]
      /\ UNCHANGED <<table, list, changes, left, writer>>
  BY DEF Succeeds, IsRefused, IsLost, answers, history
<1>2. /\ change' \in [Members -> [Rows -> Change]]
      /\ change'[u][r] = Idle
      /\ ~Creates(u, r)' /\ change'[u][r].value # "revoked"
      /\ \A v \in Members, s \in Rows :
            <<v, s>> # <<u, r>> => change'[v][s] = change[v][s]
  BY <1>1, Forgets
<1>3. \A v \in Members, s \in Rows :
         /\ <<v, s>> # <<u, r>> => (Creates(v, s)' <=> Creates(v, s))
         /\ <<v, s>> # <<u, r>> => (At(v, s, "written")' <=> At(v, s, "written"))
  BY <1>2 DEF Creates, At
<1>4. Keys \subseteq Rows
  BY DEF Rows
<1>5. /\ fetch \in [Members -> Fetches]
      /\ form \in [Members -> {"closed", "open"} \cup Keys]
      /\ banner \in [Members -> {NoKey} \cup Keys]
      /\ early \subseteq Rows /\ seen \subseteq Keys /\ faults \in 0..MaxFaults
  BY DEF PageInv, PageShape
<1>6. /\ fetch' \in [Members -> Fetches]
      /\ \A v \in Members : Arrived(v)' => fetch'[v] = fetch[v] /\ Arrived(v)
  <2>1. <<"asked">> \in Fetches
    BY DEF Fetches
  <2>2. fetch' = fetch \/ fetch' = [fetch EXCEPT ![u] = fetch[u]]
        \/ fetch' = [fetch EXCEPT ![u] = <<"asked">>]
    BY DEF Succeeds, IsRefused, IsLost, Invalidate, FetchAfter
  <2> QED
    BY <1>5, <2>1, <2>2 DEF Arrived
<1>7. /\ faults' \in 0..MaxFaults
      /\ faults > 0 => faults' > 0
      /\ IsLost(u, r) => faults' > 0
  BY <1>5, DashboardAssumption DEF Succeeds, IsRefused, IsLost
<1>8. \/ form' = form /\ form[u] # r
      \/ form' = [form EXCEPT ![u] = "open"]
      \/ form' = [form EXCEPT ![u] = "closed"]
      \/ form' = form /\ form[u] \in {"closed", "open"}
  <2>1. CASE IsRefused(u, r) \/ IsLost(u, r)
    BY <2>1 DEF IsRefused, IsLost, FormAfterError
  <2>2. CASE Succeeds(u, r)
    <3>1. CASE r \in Keys /\ Creates(u, r) /\ ShowsSecret(u, r)
      BY <2>2, <3>1 DEF Succeeds, Creates
    <3>2. CASE r \in Keys /\ Creates(u, r) /\ ~ShowsSecret(u, r)
      <4>1. form' = form /\ r \in left
        BY <2>2, <3>2 DEF Succeeds, Creates, ShowsSecret
      <4> QED
        BY <4>1 DEF PageInv, FormWaits
    <3>3. CASE ~(r \in Keys /\ Creates(u, r))
      <4>1. form' = form
        BY <2>2, <3>3 DEF Succeeds, Creates
      <4> QED
        BY <1>5, <3>3, <4>1 DEF PageInv, FormWaits
    <3> QED
      BY <3>1, <3>2, <3>3
  <2> QED
    BY <2>1, <2>2
<1>9. /\ banner' \in [Members -> {NoKey} \cup Keys]
      /\ early' \subseteq Rows /\ seen' \subseteq Keys /\ seen \subseteq seen'
  BY <1>5 DEF Succeeds, IsRefused, IsLost, answers
<1>10. Shape'
  BY <1>1, <1>2 DEF PageInv, Shape
<1>11. PageShape'
  <2>1. form' \in [Members -> {"closed", "open"} \cup Keys]
    BY <1>5, <1>8
  <2> QED
    BY <1>1, <1>6, <1>7, <1>9, <2>1 DEF PageInv, PageShape
<1>12. RowsTyped'
  BY <1>1, <1>2 DEF PageInv, RowsTyped, RowValues, ChangeTyped
<1>13. KeysMade'
  <2>1. \A k \in Keys, v \in Members : ShownAsLive(v, k)' => ShownAsLive(v, k)
    BY <1>1, <1>6 DEF ShownAsLive
  <2> QED
    BY <1>1, <1>2, <1>4, <2>1 DEF PageInv, KeysMade
<1>14. OneCreator'
  BY <1>2, <1>3, <1>4 DEF PageInv, OneCreator
<1>15. FormWaits'
  <2>1. ASSUME NEW v \in Members
        PROVE  form'[v] \in {"closed", "open"} \/ (form'[v] \notin left' /\ Creates(v, form[v])')
    <3>1. CASE form'[v] \in {"closed", "open"}
      BY <3>1
    <3>2. CASE form'[v] \notin {"closed", "open"}
      <4>1. form'[v] = form[v] /\ <<v, form[v]>> # <<u, r>> /\ form[v] \in Keys
        BY <1>5, <1>8, <3>2
      <4> QED
        BY <1>1, <1>3, <1>4, <3>2, <4>1 DEF PageInv, FormWaits, Creates
    <3> QED
      BY <3>1, <3>2
  <2> QED
    BY <2>1 DEF FormWaits
<1>16. SecretAwaited'
  <2>1. ASSUME NEW k \in Keys
        PROVE  \/ table'[k] = "absent"
               \/ k \in seen' \cup left'
               \/ \E v \in Members : At(v, k, "written")' /\ Creates(v, k)'
               \/ faults' > 0
    <3>1. CASE k = r /\ At(u, k, "written") /\ Creates(u, k)
      <4>1. CASE Succeeds(u, r)
        BY <1>1, <3>1, <4>1 DEF Succeeds, Creates, ShowsSecret
      <4>2. CASE IsLost(u, r)
        BY <1>7, <4>2
      <4>3. CASE IsRefused(u, r)
        BY <3>1, <4>3 DEF IsRefused, At
      <4> QED
        BY <4>1, <4>2, <4>3
    <3>2. CASE ~(k = r /\ At(u, k, "written") /\ Creates(u, k))
      BY <1>1, <1>3, <1>4, <1>7, <1>9, <3>2 DEF PageInv, SecretAwaited
    <3> QED
      BY <3>1, <3>2
  <2> QED
    BY <2>1 DEF SecretAwaited
<1> QED
  BY <1>10, <1>11, <1>12, <1>13, <1>14, <1>15, <1>16 DEF PageInv

\* A page that is left takes its form along; only its own creations lose it.
LEMMA LeavePageStep ==
    ASSUME PageInv, NEW u \in Members, LeavePage(u) PROVE PageInv'
<1>1. /\ UNCHANGED <<table, change, list, changes, faults, seen, early, writer>>
      /\ form' = [form EXCEPT ![u] = "closed"]
      /\ banner' = [banner EXCEPT ![u] = NoKey]
      /\ left' = left \cup {k \in Keys : Creates(u, k)}
      /\ fetch' = [fetch EXCEPT ![u] = FetchAfterIfIdle(u)]
  BY DEF LeavePage, Creates, history
<1>2. /\ fetch' \in [Members -> Fetches]
      /\ \A v \in Members : Arrived(v)' => fetch'[v] = fetch[v] /\ Arrived(v)
  <2>1. fetch \in [Members -> Fetches] /\ <<"asked">> \in Fetches
    BY DEF PageInv, PageShape, Fetches
  <2> QED
    BY <1>1, <2>1 DEF FetchAfterIfIdle, Arrived
<1>3. Shape'
  BY <1>1 DEF PageInv, Shape
<1>4. PageShape'
  BY <1>1, <1>2 DEF PageInv, PageShape
<1>5. RowsTyped' /\ OneCreator'
  BY <1>1 DEF PageInv, RowsTyped, OneCreator, Creates
<1>6. KeysMade'
  <2>1. \A k \in Keys, v \in Members : ShownAsLive(v, k)' => ShownAsLive(v, k)
    BY <1>1, <1>2 DEF ShownAsLive
  <2> QED
    BY <1>1, <2>1 DEF PageInv, KeysMade
<1>7. FormWaits'
  <2>1. form \in [Members -> {"closed", "open"} \cup Keys]
    BY DEF PageInv, PageShape
  <2>2. ASSUME NEW v \in Members, v # u, form[v] \notin {"closed", "open"}
        PROVE  form[v] \notin left' /\ Creates(v, form[v])
    BY <1>1, <2>1, <2>2 DEF PageInv, FormWaits, OneCreator
  <2> QED
    BY <1>1, <2>1, <2>2 DEF FormWaits, Creates
<1>8. SecretAwaited'
  BY <1>1 DEF PageInv, SecretAwaited, At, Creates
<1> QED
  BY <1>3, <1>4, <1>5, <1>6, <1>7, <1>8 DEF PageInv

LEMMA StepPages == ASSUME PageInv, [Next]_vars PROVE PageInv'
<1>1. ASSUME NEW u \in Members, Chooses(u) PROVE PageInv'
  <2>1. CASE OpenForm(u) \/ CancelForm(u) \/ Done(u)
    BY <2>1, FormStep
  <2>2. CASE LeavePage(u)
    BY <2>2, LeavePageStep
  <2>3. ASSUME NEW k \in Keys, CreateKey(u, k) PROVE PageInv'
    <3>1. "live" \in ValuesOf(k) /\ k \in Rows
      BY DEF ValuesOf, Rows
    <3> QED
      BY <2>3, <3>1, BeginStep DEF CreateKey
  <2>4. ASSUME NEW k \in Keys, RevokeKey(u, k) PROVE PageInv'
    <3>1. "revoked" \in ValuesOf(k) /\ k \in Rows
      BY DEF ValuesOf, Rows
    <3>2. table[k] # "absent"
      BY <2>4 DEF RevokeKey, PageInv, KeysMade, ShownAsLive
    <3> QED
      BY <2>4, <3>1, <3>2, BeginStep DEF RevokeKey
  <2>5. ASSUME NEW v \in Members, InviteMember(u, v) PROVE PageInv'
    <3>1. PICK role \in Roles : Begin(u, v, role) /\ form' = form
      BY <2>5 DEF InviteMember
    <3>2. v \in Rows /\ v \notin Keys /\ role \in ValuesOf(v)
      BY DashboardAssumption DEF ValuesOf, Rows
    <3> QED
      BY <3>1, <3>2, BeginStep
  <2>6. ASSUME NEW w \in Wallets, SetWalletAddress(u, w) PROVE PageInv'
    <3>1. PICK a \in Addresses : Begin(u, w, a) /\ form' = form
      BY <2>6 DEF SetWalletAddress
    <3>2. w \in Rows /\ w \notin Keys /\ a \in ValuesOf(w)
      BY DashboardAssumption DEF ValuesOf, Rows
    <3> QED
      BY <3>1, <3>2, BeginStep
  <2> QED
    BY <1>1, <2>1, <2>2, <2>3, <2>4, <2>5, <2>6 DEF Chooses
<1>2. ASSUME NEW u \in Members, GoesOn(u) PROVE PageInv'
  BY <1>2, ListStep, AnswerStep, CanActivateStep, WriteStep DEF GoesOn, Answers
<1>3. ASSUME NEW u \in Members, FetchFails(u) PROVE PageInv'
  BY <1>3, ListStep
<1>4. ASSUME NEW u \in Members, NEW r \in Rows, IsLost(u, r) PROVE PageInv'
  BY <1>4, AnswerStep
<1>5. CASE UNCHANGED vars
  BY <1>5 DEF vars, page, answers, history, PageInv, Shape, PageShape, RowsTyped, KeysMade,
              OneCreator, FormWaits, SecretAwaited, ShownAsLive, Arrived, Creates, At
<1> QED
  BY <1>1, <1>2, <1>3, <1>4, <1>5 DEF Next

LEMMA PagesAlways == Spec => []PageInv
  BY InitPages, StepPages, PTL DEF Spec

\* Rows keep the values of their kind, whoever writes them; and a form of the
\* dashboard that waits for an answer has a request to wait for.
THEOREM PagesTypeCorrect == Spec => []TypeOK
<1>1. PageInv => TypeOK
  <2> SUFFICES ASSUME PageInv PROVE TypeOK
    OBVIOUS
  <2>1. ASSUME NEW r \in Rows PROVE table[r] \in ValuesOf(r) \cup {"absent", "OWNER"}
    BY DEF PageInv, RowsTyped, RowValues
  <2>2. ASSUME NEW u \in Members, NEW r \in Rows
        PROVE  /\ change[u][r].at \in {"idle", "guards", "write", "written", "refused"}
               /\ change[u][r] # Idle => change[u][r].value \in ValuesOf(r)
               /\ list[u][r] \in ValuesOf(r) \cup {"absent", "unknown", "OWNER"}
    BY DEF PageInv, Shape, Change, RowsTyped, RowValues, ChangeTyped
  <2>3. ASSUME NEW u \in Members
        PROVE  /\ form[u] \in {"closed", "open"} \cup {k \in Keys : change[u][k] # Idle}
               /\ banner[u] \in {NoKey} \cup Keys
    BY DEF PageInv, PageShape, FormWaits, Creates, Idle
  <2>4. /\ changes \in 0..MaxChanges /\ faults \in 0..MaxFaults
        /\ seen \cup left \subseteq Keys /\ early \subseteq Rows
    BY DEF PageInv, PageShape
  <2> QED
    BY <2>1, <2>2, <2>3, <2>4 DEF TypeOK
<1> QED
  BY <1>1, PagesAlways, PTL

\* However forms are cancelled, pages left and keys revoked by others before
\* their creator has the answer: the secret of a key that was made was shown, is
\* about to be, or had its page left or its answer lost.
THEOREM SecretsAreSeen == Spec => []EveryKeyWasSeen
<1>1. PageInv => EveryKeyWasSeen
  BY DEF PageInv, SecretAwaited, EveryKeyWasSeen
<1> QED
  BY <1>1, PagesAlways, PTL

=============================================================================
