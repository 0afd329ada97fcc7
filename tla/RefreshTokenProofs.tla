------------------------- MODULE RefreshTokenProofs -------------------------
(***************************************************************************)
(* Proofs about refresh tokens, for any clients, tokens and faults.        *)
(*                                                                         *)
(* The argument: a rotation under way when its family was revoked is       *)
(* noted, so is what it issues; and of two rotations that overlap on a     *)
(* token the later one notes it when it reads the token.                   *)
(***************************************************************************)
EXTENDS RefreshTokens, TLAPS

Pcs == {"idle", "revoke family", "issue", "retire", "answer"}

Requests == [pc : Pcs, raw : Tokens \cup {NoToken}, next : Tokens \cup {NoToken}]

\* NoToken is no token, and a row of the table is not the absent one.
LEMMA RowFacts ==
    /\ NoToken \notin Tokens
    /\ \A row \in Row : row # NoRow
  BY TokenAssumption DEF NoToken, Row, NoRow

\* Setting the revoked flag leaves the rest of the row.
LEMMA RetiredRow ==
    ASSUME NEW row \in Row
    PROVE  /\ [row EXCEPT !.revoked = TRUE] \in Row
           /\ [row EXCEPT !.revoked = TRUE].family = row.family
           /\ [row EXCEPT !.revoked = TRUE].parent = row.parent
           /\ [row EXCEPT !.revoked = TRUE].revoked = TRUE
  BY DEF Row

\* Setting the expired flag leaves the rest of the row.
LEMMA ExpiredRow ==
    ASSUME NEW row \in Row
    PROVE  /\ [row EXCEPT !.expired = TRUE] \in Row
           /\ [row EXCEPT !.expired = TRUE].family = row.family
           /\ [row EXCEPT !.expired = TRUE].parent = row.parent
           /\ [row EXCEPT !.expired = TRUE].revoked = row.revoked
  BY DEF Row

\* Moving a request on leaves its tokens.
LEMMA MovedRequest ==
    ASSUME NEW q \in Requests, NEW pc \in Pcs
    PROVE  /\ [q EXCEPT !.pc = pc] \in Requests
           /\ [q EXCEPT !.pc = pc].pc = pc
           /\ [q EXCEPT !.pc = pc].raw = q.raw
           /\ [q EXCEPT !.pc = pc].next = q.next
  BY DEF Requests

\* The idle request is a request.
LEMMA IdleRequest ==
    /\ Idle \in Requests
    /\ Idle.pc = "idle"
    /\ Idle.next = NoToken
  BY DEF Idle, Requests, Pcs

----------------------------------------------------------------------------
\* The parts of the type invariant, and what a step may do to the table.

Rows == Row \cup {NoRow}

TableOK ==
    /\ token \in [Tokens -> Rows]
    /\ \A t \in Tokens : Exists(t) =>
          /\ Exists(Family(t))
          /\ token[t].parent # NoToken =>
                Exists(token[t].parent) /\ Family(token[t].parent) = Family(t)

GoodRequest(q) ==
    /\ q.next # NoToken => Exists(q.next)
    /\ q.pc \in {"revoke family", "issue", "retire"} => Exists(q.raw)
    /\ q.pc = "retire" => q.next # NoToken

ClientsOK ==
    /\ cookie \in [Clients -> Tokens \cup {NoToken}]
    /\ request \in [Clients -> Requests]
    /\ \A c \in Clients : cookie[c] # NoToken => Exists(cookie[c])
    /\ \A c \in Clients : GoodRequest(request[c])

HistoryOK ==
    /\ faults \in 0..MaxFaults
    /\ killed \subseteq {t \in Tokens : Exists(t)}
    /\ spared \subseteq Tokens
    /\ overtaken \subseteq Clients
    /\ shared \subseteq Tokens

\* TypeOK falls into the table, the clients and the history.
LEMMA TypeParts == TypeOK <=> TableOK /\ ClientsOK /\ HistoryOK
  BY DEF TypeOK, TableOK, ClientsOK, HistoryOK, GoodRequest, At, Requests, Rows, Pcs

\* No row goes, moves to another family or comes back to life.
Kept ==
    \A t \in Tokens : Exists(t) =>
        /\ Exists(t)'
        /\ Family(t)' = Family(t)
        /\ token'[t].parent = token[t].parent
        /\ token[t].revoked => token'[t].revoked

\* Flags of rows are set.
Marked ==
    /\ token' \in [Tokens -> Rows]
    /\ \A t \in Tokens : Exists(t)' => Exists(t)
    /\ Kept

\* One row is new.
Grown(t, family, parent) ==
    /\ token' \in [Tokens -> Rows]
    /\ t \in Tokens
    /\ ~Exists(t)
    /\ Exists(t)'
    /\ Family(t)' = family
    /\ token'[t].parent = parent
    /\ ~token'[t].revoked
    /\ \A u \in Tokens \ {t} : token'[u] = token[u]

\* An unchanged table is marked nowhere.
LEMMA UnchangedIsMarked ==
    ASSUME TableOK, token' = token
    PROVE  Marked
  BY DEF TableOK, Marked, Kept, Exists, Family

\* A new row leaves the others.
LEMMA GrownIsKept ==
    ASSUME NEW t, NEW family, NEW parent, Grown(t, family, parent)
    PROVE  Kept
  BY DEF Grown, Kept, Exists, Family

\* A table whose rows get flags stays well formed.
LEMMA MarkedTable ==
    ASSUME TableOK, Marked
    PROVE  TableOK'
<1>1. \A t \in Tokens : token[t].parent # NoToken /\ Exists(t) => token[t].parent \in Tokens
  BY DEF TableOK, Exists
<1>2. \A t \in Tokens : Exists(t) => Family(t) \in Tokens
  BY DEF TableOK, Exists
<1>3. token' \in [Tokens -> Rows]
  BY DEF Marked
<1>4. ASSUME NEW t \in Tokens, Exists(t)'
      PROVE  /\ Exists(Family(t))'
             /\ token'[t].parent # NoToken =>
                   Exists(token[t].parent)' /\ Family(token[t].parent)' = Family(t)'
  <2>1. Exists(t)
    BY <1>4 DEF Marked
  <2>2. Family(t)' = Family(t) /\ token'[t].parent = token[t].parent
    BY <2>1 DEF Marked, Kept
  <2>3. Exists(Family(t))'
    BY <1>2, <2>1, <2>2 DEF TableOK, Marked, Kept, Exists
  <2> QED
    BY <1>1, <2>1, <2>2, <2>3 DEF TableOK, Marked, Kept
<1> QED
  BY <1>3, <1>4 DEF TableOK

\* A table that gets a row stays well formed.
LEMMA GrownTable ==
    ASSUME TableOK, NEW t, NEW family, NEW parent, Grown(t, family, parent),
           \/ family = t /\ parent = NoToken
           \/ Exists(parent) /\ family = Family(parent)
    PROVE  TableOK'
<1>1. Kept
  BY GrownIsKept
<1>2. ASSUME NEW u \in Tokens, Exists(u)', u # t
      PROVE  /\ Exists(Family(u))'
             /\ token'[u].parent # NoToken =>
                   Exists(token[u].parent)' /\ Family(token[u].parent)' = Family(u)'
  <2>1. Exists(u) /\ token'[u].parent = token[u].parent /\ Family(u)' = Family(u)
    BY <1>2 DEF Grown, Exists, Family
  <2>2. Exists(Family(u)) /\ Family(u) \in Tokens
    BY <2>1 DEF TableOK, Exists
  <2>3. Exists(Family(u))'
    BY <1>1, <2>1, <2>2 DEF Kept, Exists
  <2>4. ASSUME token[u].parent # NoToken
        PROVE  Exists(token[u].parent)' /\ Family(token[u].parent)' = Family(u)
    <3>1. Exists(token[u].parent) /\ Family(token[u].parent) = Family(u)
      BY <2>1, <2>4 DEF TableOK
    <3>2. token[u].parent \in Tokens
      BY <3>1 DEF Exists
    <3> QED
      BY <1>1, <2>1, <3>1, <3>2 DEF Kept, Exists, Family
  <2> QED
    BY <2>1, <2>3, <2>4
<1>3. CASE family = t /\ parent = NoToken
  <2>1. Exists(Family(t))' /\ token'[t].parent = NoToken
    BY <1>3 DEF Grown, Exists
  <2> QED
    BY <1>2, <2>1 DEF TableOK, Grown
<1>4. CASE Exists(parent) /\ family = Family(parent)
  <2>1. parent \in Tokens /\ Exists(family) /\ family \in Tokens
    BY <1>4 DEF TableOK, Exists
  <2>2. Exists(family)' /\ Exists(parent)' /\ Family(parent)' = family
    BY <1>1, <1>4, <2>1 DEF Kept, Exists
  <2>3. /\ Exists(Family(t))'
        /\ Exists(token[t].parent)' /\ Family(token[t].parent)' = Family(t)'
    BY <2>2 DEF Grown, Exists, Family
  <2> QED
    BY <1>2, <2>3 DEF TableOK, Grown
<1> QED
  BY <1>3, <1>4

\* What is good of a request stays so while rows are kept.
LEMMA GoodStays ==
    ASSUME Kept, NEW q \in Requests, GoodRequest(q)
    PROVE  GoodRequest(q)'
  BY DEF Kept, GoodRequest, Exists, Requests

\* One client's cookie and request change; the new ones are good.
LEMMA ClientStep ==
    ASSUME ClientsOK, Kept, NEW c \in Clients,
           NEW q \in Requests, GoodRequest(q)',
           NEW k \in Tokens \cup {NoToken}, k # NoToken => Exists(k)',
           request' = [request EXCEPT ![c] = q],
           cookie' = [cookie EXCEPT ![c] = k]
    PROVE  ClientsOK'
<1>1. /\ cookie' \in [Clients -> Tokens \cup {NoToken}]
      /\ request' \in [Clients -> Requests]
      /\ request'[c] = q /\ cookie'[c] = k
      /\ \A d \in Clients \ {c} : request'[d] = request[d] /\ cookie'[d] = cookie[d]
  BY DEF ClientsOK
<1>2. \A d \in Clients \ {c} : cookie[d] # NoToken => Exists(cookie[d])'
  BY DEF ClientsOK, Kept, Exists
<1>3. \A d \in Clients \ {c} : GoodRequest(request[d])'
  <2> TAKE d \in Clients \ {c}
  <2>1. request[d] \in Requests /\ GoodRequest(request[d])
    BY DEF ClientsOK
  <2>2. request[d]' = request[d]
    BY <1>1
  <2> QED
    BY <2>1, <2>2, GoodStays DEF Kept, GoodRequest, Exists, Requests
<1>4. \A d \in Clients : cookie'[d] # NoToken => Exists(cookie[d])'
  BY <1>1, <1>2 DEF Exists
<1>5. GoodRequest(request[c])'
  BY <1>1 DEF GoodRequest, Exists
<1>6. \A d \in Clients : GoodRequest(request[d])'
  BY <1>3, <1>5
<1> QED
  BY <1>1, <1>4, <1>6 DEF ClientsOK

\* A request alone changes.
LEMMA RequestStep ==
    ASSUME ClientsOK, Kept, NEW c \in Clients,
           NEW q \in Requests, GoodRequest(q)',
           request' = [request EXCEPT ![c] = q],
           cookie' = cookie
    PROVE  ClientsOK'
<1>1. cookie[c] \in Tokens \cup {NoToken}
  BY DEF ClientsOK
<1>2. cookie' = [cookie EXCEPT ![c] = cookie[c]]
  BY DEF ClientsOK
<1>3. cookie[c] # NoToken => Exists(cookie[c])
  BY DEF ClientsOK
<1>4. cookie[c] # NoToken => Exists(cookie[c])'
  BY <1>3 DEF Kept, Exists
<1>5. \A k \in Tokens \cup {NoToken} :
         (k # NoToken => Exists(k)') /\ cookie' = [cookie EXCEPT ![c] = k] => ClientsOK'
  BY ClientStep
<1>6. cookie[c] # NoToken => cookie[c] \in Tokens /\ token'[cookie[c]] # NoRow
  BY <1>3, <1>4 DEF Kept, Exists
<1> QED
  BY <1>1, <1>2, <1>5, <1>6 DEF Exists

----------------------------------------------------------------------------
\* What the steps do to the table.

\* issue() adds one live row.
LEMMA IssueGrows ==
    ASSUME TableOK, NEW t \in Tokens, Fresh(t), NEW family \in Tokens,
           NEW parent \in Tokens \cup {NoToken}, Issue(t, family, parent)
    PROVE  Grown(t, family, parent)
<1> DEFINE row == [family |-> family, parent |-> parent, revoked |-> FALSE, expired |-> FALSE]
<1>1. row \in Row /\ row # NoRow
  <2>1. row \in Row
    BY DEF Row
  <2> QED
    BY <2>1, RowFacts
<1>2. row.family = family /\ row.parent = parent /\ row.revoked = FALSE
  OBVIOUS
<1>3. token' = [token EXCEPT ![t] = row]
  BY DEF Issue
<1> HIDE DEF row
<1>4. token' \in [Tokens -> Rows] /\ token'[t] = row
  BY <1>1, <1>3 DEF TableOK, Rows
<1>5. \A u \in Tokens \ {t} : token'[u] = token[u]
  BY <1>3 DEF TableOK
<1> QED
  BY <1>1, <1>2, <1>4, <1>5 DEF Grown, Fresh, Exists, Family

\* One row gets a flag.
LEMMA FlagMarks ==
    ASSUME TableOK, NEW t \in Tokens, Exists(t), NEW row \in Row,
           row.family = token[t].family, row.parent = token[t].parent,
           token[t].revoked => row.revoked,
           token' = [token EXCEPT ![t] = row]
    PROVE  Marked
<1>1. token' \in [Tokens -> Rows] /\ token'[t] = row
  BY DEF TableOK, Rows
<1>2. \A u \in Tokens \ {t} : token'[u] = token[u]
  BY DEF TableOK
<1>3. row # NoRow
  BY RowFacts
<1> QED
  BY <1>1, <1>2, <1>3 DEF Marked, Kept, Exists, Family

\* Revoking one token marks it.
LEMMA RevokeMarks ==
    ASSUME TableOK, NEW t \in Tokens, Exists(t),
           token' = [token EXCEPT ![t] = [token[t] EXCEPT !.revoked = TRUE]]
    PROVE  Marked /\ token'[t].revoked
<1> DEFINE row == [token[t] EXCEPT !.revoked = TRUE]
<1>1. token[t] \in Row
  BY DEF TableOK, Exists, Rows
<1>2. /\ row \in Row
      /\ row.family = token[t].family
      /\ row.parent = token[t].parent
      /\ row.revoked = TRUE
  BY <1>1, RetiredRow
<1>3. token' = [token EXCEPT ![t] = row]
  OBVIOUS
<1> HIDE DEF row
<1>4. Marked
  BY <1>2, <1>3, FlagMarks
<1>5. token'[t] = row
  BY <1>3 DEF TableOK
<1> QED
  BY <1>2, <1>4, <1>5

\* Expiry marks one token.
LEMMA ExpireMarks ==
    ASSUME TableOK, NEW t \in Tokens, ExpiresAtPasses(t)
    PROVE  Marked
<1> DEFINE row == [token[t] EXCEPT !.expired = TRUE]
<1>1. token[t] \in Row
  BY DEF TableOK, Exists, Rows, ExpiresAtPasses
<1>2. /\ row \in Row
      /\ row.family = token[t].family
      /\ row.parent = token[t].parent
      /\ row.revoked = token[t].revoked
  BY <1>1, ExpiredRow
<1>3. token' = [token EXCEPT ![t] = row] /\ Exists(t)
  BY DEF ExpiresAtPasses
<1> HIDE DEF row
<1> QED
  BY <1>2, <1>3, FlagMarks

\* The family is revoked, every row of it that lives.
LEMMA RevokeFamilyMarks ==
    ASSUME TableOK, NEW c \in Clients, RevokeFamily(c)
    PROVE  /\ Marked
           /\ \A t \in Tokens : Exists(t) /\ Family(t) = Family(request[c].raw)
                 => token'[t].revoked
<1> DEFINE Dead(t) == Live(t) /\ RevokedWith(t, request[c].raw)
<1>1. token' = [t \in Tokens |-> IF Dead(t) THEN [token[t] EXCEPT !.revoked = TRUE] ELSE token[t]]
  BY DEF RevokeFamily
<1>2. ASSUME NEW t \in Tokens, Dead(t)
      PROVE  /\ token'[t] \in Row
             /\ token'[t].family = token[t].family
             /\ token'[t].parent = token[t].parent
             /\ token'[t].revoked
  <2>1. token[t] \in Row
    BY <1>2 DEF TableOK, Live, Exists, Rows
  <2>2. token'[t] = [token[t] EXCEPT !.revoked = TRUE]
    BY <1>1, <1>2
  <2> QED
    BY <2>1, <2>2, RetiredRow
<1>3. ASSUME NEW t \in Tokens, ~Dead(t)
      PROVE  token'[t] = token[t]
  BY <1>1, <1>3
<1>4. \A t \in Tokens : Dead(t) => Exists(t)
  BY DEF Live
<1>5. \A t \in Tokens : Exists(t) /\ Family(t) = Family(request[c].raw) =>
         Dead(t) \/ token[t].revoked
  BY DEF Live, RevokedWith
<1>6. DOMAIN token' = Tokens /\ token' = [t \in Tokens |-> token'[t]]
  BY <1>1
<1> HIDE DEF Dead
<1>7. \A t \in Tokens : token'[t] \in Rows
  BY <1>2, <1>3 DEF TableOK, Rows
<1>8. token' \in [Tokens -> Rows]
  BY <1>6, <1>7
<1>9. Kept
  BY <1>2, <1>3, RowFacts DEF Kept, Exists, Family
<1>10. \A t \in Tokens : Exists(t)' => Exists(t)
  BY <1>2, <1>3, <1>4 DEF Exists
<1>11. \A t \in Tokens : Exists(t) /\ Family(t) = Family(request[c].raw) => token'[t].revoked
  BY <1>2, <1>3, <1>5
<1> QED
  BY <1>8, <1>9, <1>10, <1>11 DEF Marked

----------------------------------------------------------------------------
\* Type correctness, action by action.

\* The sets of history may grow by what exists.
LEMMA HistoryStep ==
    ASSUME HistoryOK, Kept, faults' \in 0..MaxFaults,
           killed' \subseteq killed \cup {t \in Tokens : Exists(t)},
           spared' \subseteq Tokens, overtaken' \subseteq Clients, shared' \subseteq Tokens
    PROVE  HistoryOK'
<1>1. \A t \in Tokens : Exists(t) => Exists(t)'
  BY DEF Kept
<1>2. killed' \subseteq {t \in Tokens : Exists(t)'}
  BY <1>1 DEF HistoryOK
<1> QED
  BY <1>2 DEF HistoryOK

\* A step that notes nothing keeps the history.
LEMMA HistoryKept ==
    ASSUME HistoryOK, Kept, UNCHANGED <<faults, history>>
    PROVE  HistoryOK'
  BY HistoryStep DEF HistoryOK, history

\* A login starts a family.
LEMMA LoginType ==
    ASSUME TypeOK, NEW c \in Clients, Login(c)
    PROVE  TypeOK' /\ Kept /\ \E t \in Tokens : Grown(t, t, NoToken)
<1>1. TableOK /\ ClientsOK /\ HistoryOK
  BY TypeParts
<1>2. PICK t \in Tokens :
        /\ Fresh(t)
        /\ Issue(t, t, NoToken)
        /\ request' = [request EXCEPT ![c] = [pc |-> "answer", raw |-> NoToken, next |-> t]]
  BY DEF Login
<1>3. Grown(t, t, NoToken)
  BY <1>1, <1>2, IssueGrows
<1>4. Kept /\ TableOK'
  BY <1>1, <1>3, GrownIsKept, GrownTable
<1> DEFINE q == [pc |-> "answer", raw |-> NoToken, next |-> t]
<1>5. q \in Requests /\ q.pc = "answer" /\ q.next = t
  BY DEF Requests, Pcs
<1>6. request' = [request EXCEPT ![c] = q]
  BY <1>2
<1> HIDE DEF q
<1>7. GoodRequest(q)'
  BY <1>3, <1>5 DEF GoodRequest, Grown, Exists
<1>8. cookie' = cookie /\ UNCHANGED <<faults, history>>
  BY DEF Login
<1>9. ClientsOK'
  BY <1>1, <1>4, <1>5, <1>6, <1>7, <1>8, RequestStep
<1>10. HistoryOK'
  BY <1>1, <1>4, <1>8, HistoryKept
<1>11. TypeOK'
  BY <1>4, <1>9, <1>10, TypeParts, PTL
<1> QED
  BY <1>3, <1>4, <1>11

\* The passing of time touches the table only.
LEMMA ExpiresAtPassesType ==
    ASSUME TypeOK, NEW t \in Tokens, ExpiresAtPasses(t)
    PROVE  TypeOK' /\ Kept
<1>1. TableOK /\ ClientsOK /\ HistoryOK
  BY TypeParts
<1>2. Kept /\ TableOK'
  BY <1>1, ExpireMarks, MarkedTable DEF Marked
<1>3. cookie' = cookie /\ request' = request /\ UNCHANGED <<faults, history>>
  BY DEF ExpiresAtPasses
<1>4. \A c \in Clients : GoodRequest(request[c])'
  <2> TAKE c \in Clients
  <2>1. request[c] \in Requests /\ GoodRequest(request[c])
    BY <1>1 DEF ClientsOK
  <2> QED
    BY <1>2, <1>3, <2>1 DEF Kept, GoodRequest, Exists, Requests
<1>5. \A c \in Clients : cookie[c] # NoToken => Exists(cookie[c])'
  BY <1>1, <1>2, <1>3 DEF ClientsOK, Kept, Exists
<1>6. ClientsOK'
  BY <1>1, <1>3, <1>4, <1>5 DEF ClientsOK, Exists
<1>7. HistoryOK'
  BY <1>1, <1>2, <1>3, HistoryKept
<1> QED
  BY <1>2, <1>6, <1>7, TypeParts, PTL

\* A copied token exists.
LEMMA CopyType ==
    ASSUME TypeOK, NEW c \in Clients, NEW d \in Clients, Copy(c, d)
    PROVE  TypeOK' /\ Kept
<1>1. TableOK /\ ClientsOK /\ HistoryOK
  BY TypeParts
<1>2. /\ token' = token /\ request' = request /\ UNCHANGED <<faults, history>>
      /\ cookie' = [cookie EXCEPT ![d] = cookie[c]]
  BY DEF Copy
<1>3. Kept /\ TableOK'
  BY <1>1, <1>2, UnchangedIsMarked, MarkedTable DEF Marked
<1>4. cookie' \in [Clients -> Tokens \cup {NoToken}]
  BY <1>1, <1>2 DEF ClientsOK
<1>5. \A e \in Clients : cookie'[e] = cookie[e] \/ cookie'[e] = cookie[c]
  BY <1>1, <1>2 DEF ClientsOK
<1>6. \A e \in Clients : cookie'[e] # NoToken => Exists(cookie[e])'
  BY <1>1, <1>2, <1>5 DEF ClientsOK, Exists
<1>7. \A e \in Clients : GoodRequest(request[e])'
  BY <1>1, <1>2 DEF ClientsOK, GoodRequest, Exists
<1>8. ClientsOK'
  BY <1>1, <1>2, <1>4, <1>6, <1>7 DEF ClientsOK
<1>9. HistoryOK'
  BY <1>1, <1>2, <1>3, HistoryKept
<1> QED
  BY <1>3, <1>8, <1>9, TypeParts, PTL

\* The token a rotation takes in hand exists.
LEMMA RotateFindType ==
    ASSUME TypeOK, NEW c \in Clients, RotateFind(c)
    PROVE  TypeOK' /\ Kept
<1>1. TableOK /\ ClientsOK /\ HistoryOK
  BY TypeParts
<1>2. /\ token' = token /\ cookie' = cookie
      /\ UNCHANGED <<faults, killed, spared, overtaken>>
      /\ cookie[c] # NoToken
  BY DEF RotateFind
<1>3. Kept /\ TableOK'
  BY <1>1, <1>2, UnchangedIsMarked, MarkedTable DEF Marked
<1>4. cookie[c] \in Tokens /\ Exists(cookie[c])
  BY <1>1, <1>2 DEF ClientsOK, Exists
<1>5. PICK q \in Requests :
        /\ request' = [request EXCEPT ![c] = q]
        /\ q.pc \in {"revoke family", "issue"}
        /\ q.raw = cookie[c] /\ q.next = NoToken
  <2> DEFINE q == [pc |-> IF Reused(cookie[c]) THEN "revoke family" ELSE "issue",
                   raw |-> cookie[c], next |-> NoToken]
  <2>1. /\ q \in Requests
        /\ q.pc \in {"revoke family", "issue"} /\ q.raw = cookie[c] /\ q.next = NoToken
    BY <1>4 DEF Requests, Pcs
  <2>2. request' = [request EXCEPT ![c] = q]
    BY DEF RotateFind
  <2> HIDE DEF q
  <2> QED
    BY <2>1, <2>2
<1>6. GoodRequest(q)'
  BY <1>2, <1>4, <1>5 DEF GoodRequest, Exists
<1>7. ClientsOK'
  BY <1>1, <1>2, <1>3, <1>5, <1>6, RequestStep
<1>8. shared' \subseteq Tokens
  BY <1>1, <1>4 DEF RotateFind, HistoryOK
<1>9. HistoryOK'
  BY <1>1, <1>2, <1>3, <1>8, HistoryStep DEF HistoryOK
<1> QED
  BY <1>3, <1>7, <1>9, TypeParts, PTL

\* The family that is revoked exists.
LEMMA RevokeFamilyType ==
    ASSUME TypeOK, NEW c \in Clients, RevokeFamily(c)
    PROVE  TypeOK' /\ Kept
<1>1. TableOK /\ ClientsOK /\ HistoryOK
  BY TypeParts
<1>2. Kept /\ TableOK'
  BY <1>1, RevokeFamilyMarks, MarkedTable DEF Marked
<1>3. /\ cookie' = cookie /\ UNCHANGED <<faults, spared, shared>>
      /\ request' = [request EXCEPT ![c] = Idle]
      /\ killed' = killed \cup {Family(request[c].raw)}
      /\ overtaken' \subseteq overtaken \cup Clients
  BY DEF RevokeFamily
<1>4. GoodRequest(Idle)'
  BY IdleRequest DEF GoodRequest
<1>5. ClientsOK'
  BY <1>1, <1>2, <1>3, <1>4, IdleRequest, RequestStep
<1>6. Exists(Family(request[c].raw)) /\ Family(request[c].raw) \in Tokens
  <2>1. Exists(request[c].raw)
    BY <1>1 DEF ClientsOK, GoodRequest, RevokeFamily, At
  <2> QED
    BY <1>1, <2>1 DEF TableOK, Exists
<1>7. HistoryOK'
  BY <1>1, <1>2, <1>3, <1>6, HistoryStep DEF HistoryOK
<1> QED
  BY <1>2, <1>5, <1>7, TypeParts, PTL

\* What a rotation issues, for the lemmas below.
IssuesOn(c, t, raw) ==
    /\ raw = request[c].raw
    /\ Grown(t, Family(raw), raw)
    /\ At(c, "issue")
    /\ Exists(raw)
    /\ request'[c].pc = "retire" /\ request'[c].raw = raw
    /\ \A d \in Clients \ {c} : request'[d] = request[d]
    /\ spared' = IF c \in overtaken \/ raw \in spared THEN spared \cup {t} ELSE spared
    /\ overtaken' = overtaken \ {c}
    /\ UNCHANGED <<cookie, faults, killed, shared>>

\* A rotation issues a token of the family of the old one.
LEMMA RotateIssueType ==
    ASSUME TypeOK, NEW c \in Clients, RotateIssue(c)
    PROVE  /\ TypeOK' /\ Kept
           /\ \E t, raw \in Tokens : IssuesOn(c, t, raw)
<1>1. TableOK /\ ClientsOK /\ HistoryOK
  BY TypeParts
<1>2. PICK raw : raw = request[c].raw
  OBVIOUS
<1>3. PICK t \in Tokens :
        /\ Fresh(t)
        /\ Issue(t, Family(raw), raw)
        /\ request' = [request EXCEPT ![c] = [pc |-> "retire", raw |-> raw, next |-> t]]
        /\ spared' = IF c \in overtaken \/ raw \in spared THEN spared \cup {t} ELSE spared
  BY <1>2 DEF RotateIssue
<1>4. At(c, "issue") /\ overtaken' = overtaken \ {c} /\ UNCHANGED <<cookie, faults, killed, shared>>
  BY DEF RotateIssue
<1>5. Exists(raw) /\ raw \in Tokens
  BY <1>1, <1>2, <1>4 DEF ClientsOK, GoodRequest, At, Exists
<1>6. Family(raw) \in Tokens
  BY <1>1, <1>5 DEF TableOK, Exists
<1>7. Grown(t, Family(raw), raw)
  BY <1>1, <1>3, <1>5, <1>6, IssueGrows
<1>8. Kept /\ TableOK'
  BY <1>1, <1>5, <1>7, GrownIsKept, GrownTable
<1>9. PICK q \in Requests :
        /\ request' = [request EXCEPT ![c] = q]
        /\ q.pc = "retire" /\ q.raw = raw /\ q.next = t
  <2> DEFINE q == [pc |-> "retire", raw |-> raw, next |-> t]
  <2>1. q \in Requests /\ q.pc = "retire" /\ q.raw = raw /\ q.next = t
    BY <1>5 DEF Requests, Pcs
  <2>2. request' = [request EXCEPT ![c] = q]
    BY <1>3
  <2> HIDE DEF q
  <2> QED
    BY <2>1, <2>2
<1>10. t # NoToken /\ Exists(t)'
  BY <1>7, RowFacts DEF Grown
<1>11. Exists(raw)'
  BY <1>5, <1>8 DEF Kept
<1>12. GoodRequest(q)'
  BY <1>9, <1>10, <1>11 DEF GoodRequest, Exists
<1>13. ClientsOK'
  BY <1>1, <1>4, <1>8, <1>9, <1>12, RequestStep
<1>14. HistoryOK'
  BY <1>1, <1>3, <1>4, <1>8, HistoryStep DEF HistoryOK
<1>15. TypeOK'
  BY <1>8, <1>13, <1>14, TypeParts, PTL
<1>16. /\ request'[c].pc = "retire" /\ request'[c].raw = raw
       /\ \A d \in Clients \ {c} : request'[d] = request[d]
  BY <1>1, <1>9 DEF ClientsOK
<1>17. IssuesOn(c, t, raw)
  BY <1>2, <1>3, <1>4, <1>5, <1>7, <1>16 DEF IssuesOn
<1> QED
  BY <1>5, <1>8, <1>15, <1>17

\* The old token is revoked.
LEMMA RotateRetireType ==
    ASSUME TypeOK, NEW c \in Clients, RotateRetire(c)
    PROVE  TypeOK' /\ Kept /\ token'[request[c].raw].revoked /\ Marked
<1>1. TableOK /\ ClientsOK /\ HistoryOK
  BY TypeParts
<1>2. PICK raw : raw = request[c].raw
  OBVIOUS
<1>3. /\ token' = [token EXCEPT ![raw] = [token[raw] EXCEPT !.revoked = TRUE]]
      /\ request[c].pc = "retire"
      /\ cookie' = cookie /\ UNCHANGED <<faults, history>>
  BY <1>2 DEF RotateRetire, Retired, At
<1>4. Exists(raw) /\ raw \in Tokens
  BY <1>1, <1>2, <1>3 DEF ClientsOK, GoodRequest, Exists
<1>5. Marked /\ token'[raw].revoked
  BY <1>1, <1>3, <1>4, RevokeMarks
<1>6. Kept /\ TableOK'
  BY <1>1, <1>5, MarkedTable DEF Marked
<1>7. PICK q \in Requests :
        /\ request' = [request EXCEPT ![c] = q]
        /\ q.pc = "answer" /\ q.next = request[c].next
  <2> DEFINE q == [request[c] EXCEPT !.pc = "answer"]
  <2>1. request[c] \in Requests
    BY <1>1 DEF ClientsOK
  <2>2. q \in Requests /\ q.pc = "answer" /\ q.next = request[c].next
    BY <2>1, MovedRequest DEF Pcs
  <2>3. request' = [request EXCEPT ![c] = q]
    BY DEF RotateRetire, Goto
  <2> HIDE DEF q
  <2> QED
    BY <2>2, <2>3
<1>8. q.next # NoToken => Exists(q.next) /\ q.next \in Tokens
  BY <1>1, <1>7 DEF ClientsOK, GoodRequest, Exists
<1>9. GoodRequest(q)'
  BY <1>6, <1>7, <1>8 DEF GoodRequest, Kept
<1>10. ClientsOK'
  BY <1>1, <1>3, <1>6, <1>7, <1>9, RequestStep
<1>11. HistoryOK'
  BY <1>1, <1>3, <1>6, HistoryKept
<1>12. TypeOK'
  BY <1>6, <1>10, <1>11, TypeParts, PTL
<1> QED
  BY <1>2, <1>5, <1>6, <1>12

\* A logout revokes the cookie's token.
LEMMA LogoutType ==
    ASSUME TypeOK, NEW c \in Clients, Logout(c)
    PROVE  TypeOK' /\ Kept /\ Marked
<1>1. TableOK /\ ClientsOK /\ HistoryOK
  BY TypeParts
<1>2. PICK raw : raw = cookie[c]
  OBVIOUS
<1>3. /\ token' = [token EXCEPT ![raw] = [token[raw] EXCEPT !.revoked = TRUE]]
      /\ request' = [request EXCEPT ![c] = [pc |-> "answer", raw |-> raw, next |-> NoToken]]
      /\ cookie' = cookie /\ raw # NoToken /\ UNCHANGED <<faults, history>>
  BY <1>2 DEF Logout
<1>4. Exists(raw) /\ raw \in Tokens
  BY <1>1, <1>2, <1>3 DEF ClientsOK, Exists
<1>5. Marked
  BY <1>1, <1>3, <1>4, RevokeMarks
<1>6. Kept /\ TableOK'
  BY <1>1, <1>5, MarkedTable DEF Marked
<1>7. PICK q \in Requests :
        request' = [request EXCEPT ![c] = q] /\ q.pc = "answer" /\ q.next = NoToken
  <2> DEFINE q == [pc |-> "answer", raw |-> raw, next |-> NoToken]
  <2>1. q \in Requests /\ q.pc = "answer" /\ q.next = NoToken
    BY <1>4 DEF Requests, Pcs
  <2>2. request' = [request EXCEPT ![c] = q]
    BY <1>3
  <2> HIDE DEF q
  <2> QED
    BY <2>1, <2>2
<1>8. GoodRequest(q)'
  BY <1>7 DEF GoodRequest
<1>9. ClientsOK'
  BY <1>1, <1>3, <1>6, <1>7, <1>8, RequestStep
<1>10. HistoryOK'
  BY <1>1, <1>3, <1>6, HistoryKept
<1>11. TypeOK'
  BY <1>6, <1>9, <1>10, TypeParts, PTL
<1> QED
  BY <1>5, <1>6, <1>11

\* The answer brings a token that exists, or none.
LEMMA AnswerType ==
    ASSUME TypeOK, NEW c \in Clients, Answer(c)
    PROVE  TypeOK' /\ Kept
<1>1. TableOK /\ ClientsOK /\ HistoryOK
  BY TypeParts
<1>2. PICK k \in Tokens \cup {NoToken} :
        k = request[c].next /\ (k # NoToken => Exists(k))
  BY <1>1 DEF ClientsOK, GoodRequest, Requests
<1>3. /\ token' = token /\ UNCHANGED <<faults, history>>
      /\ request' = [request EXCEPT ![c] = Idle]
      /\ cookie' = [cookie EXCEPT ![c] = k]
  BY <1>2 DEF Answer
<1>4. Kept /\ TableOK'
  BY <1>1, <1>3, UnchangedIsMarked, MarkedTable DEF Marked
<1>5. (k # NoToken => Exists(k)') /\ GoodRequest(Idle)'
  BY <1>2, <1>3, IdleRequest DEF Exists, GoodRequest
<1>6. ClientsOK'
  BY <1>1, <1>3, <1>4, <1>5, IdleRequest, ClientStep
<1>7. HistoryOK'
  BY <1>1, <1>3, <1>4, HistoryKept
<1> QED
  BY <1>4, <1>6, <1>7, TypeParts, PTL

\* A request that dies leaves the table as it is.
LEMMA FailsType ==
    ASSUME TypeOK, NEW c \in Clients, Fails(c)
    PROVE  TypeOK' /\ Kept
<1>1. TableOK /\ ClientsOK /\ HistoryOK
  BY TypeParts
<1>2. /\ token' = token /\ cookie' = cookie /\ UNCHANGED <<killed, spared>>
      /\ request' = [request EXCEPT ![c] = Idle]
      /\ overtaken' = overtaken \ {c}
      /\ faults < MaxFaults /\ faults' = faults + 1
  BY DEF Fails
<1>3. Kept /\ TableOK'
  BY <1>1, <1>2, UnchangedIsMarked, MarkedTable DEF Marked
<1>4. GoodRequest(Idle)'
  BY IdleRequest DEF GoodRequest
<1>5. ClientsOK'
  BY <1>1, <1>2, <1>3, <1>4, IdleRequest, RequestStep
<1>6. At(c, "retire") => request[c].raw \in Tokens
  BY <1>1 DEF ClientsOK, GoodRequest, At, Exists
<1>7. shared' \subseteq Tokens
  BY <1>1, <1>6 DEF Fails, HistoryOK
<1>8. faults' \in 0..MaxFaults
  BY <1>1, <1>2, TokenAssumption DEF HistoryOK
<1>9. HistoryOK'
  BY <1>1, <1>2, <1>3, <1>7, <1>8, HistoryStep DEF HistoryOK
<1> QED
  BY <1>3, <1>5, <1>9, TypeParts, PTL

\* At first there is no token.
LEMMA InitType == Init => TypeOK
<1> SUFFICES ASSUME Init PROVE TypeOK
  OBVIOUS
<1>1. TableOK
  BY DEF Init, TableOK, Rows, Exists
<1>2. \A c \in Clients : cookie[c] = NoToken /\ request[c] = Idle
  BY DEF Init
<1>3. ClientsOK
  BY <1>2, IdleRequest DEF Init, ClientsOK, GoodRequest
<1>4. HistoryOK
  BY TokenAssumption DEF Init, HistoryOK
<1> QED
  BY <1>1, <1>3, <1>4, TypeParts

\* Every step keeps the types.
LEMMA NextType == TypeOK /\ [Next]_vars => TypeOK'
<1> SUFFICES ASSUME TypeOK, [Next]_vars PROVE TypeOK'
  OBVIOUS
<1>1. CASE UNCHANGED vars
  BY <1>1 DEF TypeOK, vars, history, Exists, Family, At, Row
<1>2. ASSUME NEW c \in Clients, Login(c) PROVE TypeOK'
  BY <1>2, LoginType
<1>3. ASSUME NEW c \in Clients, Rotate(c) PROVE TypeOK'
  BY <1>3, RotateFindType, RevokeFamilyType, RotateIssueType, RotateRetireType DEF Rotate
<1>4. ASSUME NEW c \in Clients, Logout(c) \/ Answer(c) \/ Fails(c) PROVE TypeOK'
  BY <1>4, LogoutType, AnswerType, FailsType
<1>5. ASSUME NEW c \in Clients, NEW d \in Clients, Copy(c, d) PROVE TypeOK'
  BY <1>5, CopyType
<1>6. ASSUME NEW t \in Tokens, ExpiresAtPasses(t) PROVE TypeOK'
  BY <1>6, ExpiresAtPassesType
<1> QED
  BY <1>1, <1>2, <1>3, <1>4, <1>5, <1>6 DEF Next

\* Type correctness: every token that is kept or in use exists, and a family is
\* that of its members' parents.
THEOREM TypeCorrect == Spec => []TypeOK
  BY InitType, NextType, PTL DEF Spec

----------------------------------------------------------------------------
\* A revoked family stays dead.

\* A rotation that is about to issue into a revoked family was found under way
\* by the revocation, or rotates a token that goes back to such a one.
InFlightIsExcused ==
    \A c \in Clients :
        At(c, "issue") /\ Family(request[c].raw) \in killed
            => c \in overtaken \/ request[c].raw \in spared

DeadInv == RevokedFamilyStaysDead /\ InFlightIsExcused

\* A step that revokes no family and issues nothing.
LEMMA QuietStep ==
    ASSUME TypeOK, DeadInv, Marked, killed' = killed, spared' = spared,
           \A d \in Clients : At(d, "issue")' =>
               request'[d] = request[d] /\ (d \in overtaken => d \in overtaken')
    PROVE  DeadInv'
<1>1. \A d \in Clients : At(d, "issue") => Exists(request[d].raw) /\ request[d].raw \in Tokens
  BY DEF TypeOK, At, Exists
<1>2. RevokedFamilyStaysDead'
  BY DEF DeadInv, RevokedFamilyStaysDead, Marked, Kept, Live, Exists
<1>3. InFlightIsExcused'
  <2> SUFFICES ASSUME NEW d \in Clients, At(d, "issue")', Family(request[d].raw)' \in killed'
               PROVE  d \in overtaken' \/ request'[d].raw \in spared'
    BY DEF InFlightIsExcused
  <2>1. request'[d] = request[d] /\ At(d, "issue") /\ (d \in overtaken => d \in overtaken')
    BY DEF At
  <2>2. Family(request[d].raw)' = Family(request[d].raw)
    BY <1>1, <2>1 DEF Marked, Kept, Family
  <2> QED
    BY <2>1, <2>2 DEF DeadInv, InFlightIsExcused
<1> QED
  BY <1>2, <1>3 DEF DeadInv

\* Of the requests, only c's changes.
LEMMA OthersStay ==
    ASSUME TypeOK, NEW c \in Clients, NEW q, request' = [request EXCEPT ![c] = q]
    PROVE  request'[c] = q /\ \A d \in Clients \ {c} : request'[d] = request[d]
  BY DEF TypeOK

\* A login's request goes on to its answer.
LEMMA LoginRequest ==
    ASSUME TypeOK, NEW c \in Clients, Login(c)
    PROVE  request'[c].pc = "answer" /\ \A d \in Clients \ {c} : request'[d] = request[d]
<1>1. PICK t \in Tokens :
        request' = [request EXCEPT ![c] = [pc |-> "answer", raw |-> NoToken, next |-> t]]
  BY DEF Login
<1> DEFINE q == [pc |-> "answer", raw |-> NoToken, next |-> t]
<1>2. q.pc = "answer"
  OBVIOUS
<1>3. request' = [request EXCEPT ![c] = q]
  BY <1>1
<1> HIDE DEF q
<1> QED
  BY <1>2, <1>3, OthersStay

\* A rotation goes on to issue only with a token that is not reused.
LEMMA RotateFindRequest ==
    ASSUME TypeOK, NEW c \in Clients, RotateFind(c)
    PROVE  /\ request'[c].pc = "issue" => ~Reused(cookie[c])
           /\ request'[c].pc \in {"issue", "revoke family"}
           /\ request'[c].raw = cookie[c]
           /\ \A d \in Clients \ {c} : request'[d] = request[d]
<1> DEFINE q == [pc |-> IF Reused(cookie[c]) THEN "revoke family" ELSE "issue",
                 raw |-> cookie[c], next |-> NoToken]
<1>1. /\ q.pc = "issue" => ~Reused(cookie[c])
      /\ q.pc \in {"issue", "revoke family"}
      /\ q.raw = cookie[c]
  OBVIOUS
<1>2. request' = [request EXCEPT ![c] = q]
  BY DEF RotateFind
<1> HIDE DEF q
<1> QED
  BY <1>1, <1>2, OthersStay

\* A rotation goes on to its answer.
LEMMA RotateRetireRequest ==
    ASSUME TypeOK, NEW c \in Clients, RotateRetire(c)
    PROVE  request'[c].pc = "answer" /\ \A d \in Clients \ {c} : request'[d] = request[d]
<1> DEFINE q == [request[c] EXCEPT !.pc = "answer"]
<1>1. request[c] \in Requests
  BY TypeParts DEF ClientsOK
<1>2. q.pc = "answer"
  BY <1>1, MovedRequest DEF Pcs
<1>3. request' = [request EXCEPT ![c] = q]
  BY DEF RotateRetire, Goto
<1> HIDE DEF q
<1> QED
  BY <1>2, <1>3, OthersStay

\* A logout goes on to its answer.
LEMMA LogoutRequest ==
    ASSUME TypeOK, NEW c \in Clients, Logout(c)
    PROVE  request'[c].pc = "answer" /\ \A d \in Clients \ {c} : request'[d] = request[d]
<1> DEFINE q == [pc |-> "answer", raw |-> cookie[c], next |-> NoToken]
<1>1. q.pc = "answer"
  OBVIOUS
<1>2. request' = [request EXCEPT ![c] = q]
  BY DEF Logout
<1> HIDE DEF q
<1> QED
  BY <1>1, <1>2, OthersStay

\* A new family is not revoked.
LEMMA LoginDead ==
    ASSUME TypeOK, DeadInv, NEW c \in Clients, Login(c)
    PROVE  DeadInv'
<1>1. PICK t \in Tokens : Grown(t, t, NoToken)
  BY LoginType
<1>2. Kept /\ killed' = killed /\ spared' = spared /\ overtaken' = overtaken
  BY LoginType DEF Login, history
<1>3. t \notin killed
  BY <1>1 DEF TypeOK, Grown
<1>4. RevokedFamilyStaysDead'
  <2> SUFFICES ASSUME NEW u \in Tokens, Live(u)', Family(u)' \in killed'
               PROVE  u \in spared'
    BY DEF RevokedFamilyStaysDead
  <2>1. u # t
    BY <1>1, <1>2, <1>3 DEF Grown
  <2>2. token'[u] = token[u]
    BY <1>1, <2>1 DEF Grown
  <2> QED
    BY <1>2, <2>2 DEF DeadInv, RevokedFamilyStaysDead, Live, Exists, Family
<1>5. \A d \in Clients : At(d, "issue")' => request'[d] = request[d]
  BY LoginRequest DEF At
<1>6. \A d \in Clients : At(d, "issue") => Exists(request[d].raw) /\ request[d].raw \in Tokens
  BY DEF TypeOK, At, Exists
<1>7. InFlightIsExcused'
  <2> SUFFICES ASSUME NEW d \in Clients, At(d, "issue")', Family(request[d].raw)' \in killed'
               PROVE  d \in overtaken' \/ request'[d].raw \in spared'
    BY DEF InFlightIsExcused
  <2>1. request'[d] = request[d] /\ At(d, "issue")
    BY <1>5 DEF At
  <2>2. Family(request[d].raw)' = Family(request[d].raw)
    BY <1>2, <1>6, <2>1 DEF Kept, Family
  <2> QED
    BY <1>2, <2>1, <2>2 DEF DeadInv, InFlightIsExcused
<1> QED
  BY <1>4, <1>7 DEF DeadInv

\* The token it read is not revoked: if its family is, the token is spared.
LEMMA RotateFindDead ==
    ASSUME TypeOK, DeadInv, NEW c \in Clients, RotateFind(c)
    PROVE  DeadInv'
<1>1. /\ token' = token /\ killed' = killed /\ spared' = spared /\ overtaken' = overtaken
      /\ cookie[c] \in Tokens /\ Exists(cookie[c])
  BY DEF RotateFind, TypeOK
<1>2. /\ request'[c].pc = "issue" => ~Reused(cookie[c])
      /\ request'[c].raw = cookie[c]
  BY RotateFindRequest
<1>3. \A d \in Clients \ {c} : request'[d] = request[d]
  BY RotateFindRequest
<1>4. RevokedFamilyStaysDead'
  BY <1>1 DEF DeadInv, RevokedFamilyStaysDead, Live, Exists, Family
<1>5. InFlightIsExcused'
  <2> SUFFICES ASSUME NEW d \in Clients, At(d, "issue")', Family(request[d].raw)' \in killed'
               PROVE  d \in overtaken' \/ request'[d].raw \in spared'
    BY DEF InFlightIsExcused
  <2>1. CASE d = c
    <3>1. ~Reused(cookie[c]) /\ Family(cookie[c]) \in killed /\ request'[c].raw = cookie[c]
      BY <1>1, <1>2, <1>3, <2>1 DEF At, Family
    <3>2. Live(cookie[c])
      BY <1>1, <3>1 DEF Live, Reused
    <3> QED
      BY <1>1, <2>1, <3>1, <3>2 DEF DeadInv, RevokedFamilyStaysDead
  <2>2. CASE d # c
    BY <1>1, <1>3, <2>2 DEF DeadInv, InFlightIsExcused, At, Family
  <2> QED
    BY <2>1, <2>2
<1> QED
  BY <1>4, <1>5 DEF DeadInv

\* Nothing of the family lives, and what is under way is noted.
LEMMA RevokeFamilyDead ==
    ASSUME TypeOK, DeadInv, NEW c \in Clients, RevokeFamily(c)
    PROVE  DeadInv'
<1>1. TableOK
  BY TypeParts
<1>2. PICK f : f = Family(request[c].raw)
  OBVIOUS
<1>3. Marked /\ \A t \in Tokens : Exists(t) /\ Family(t) = f => token'[t].revoked
  BY <1>1, <1>2, RevokeFamilyMarks
<1>4. /\ killed' = killed \cup {f} /\ spared' = spared
      /\ overtaken' = overtaken \cup
             {d \in Clients : At(d, "issue") /\ Family(request[d].raw) = f}
      /\ request'[c].pc = "idle"
      /\ \A d \in Clients \ {c} : request'[d] = request[d]
  BY <1>2, IdleRequest, OthersStay DEF RevokeFamily
<1>5. RevokedFamilyStaysDead'
  <2> SUFFICES ASSUME NEW t \in Tokens, Live(t)', Family(t)' \in killed'
               PROVE  t \in spared'
    BY DEF RevokedFamilyStaysDead
  <2>1. Exists(t) /\ Family(t)' = Family(t) /\ Live(t)
    BY <1>3 DEF Marked, Kept, Live
  <2>2. Family(t) # f
    BY <1>3, <2>1 DEF Live
  <2> QED
    BY <1>4, <2>1, <2>2 DEF DeadInv, RevokedFamilyStaysDead
<1>6. \A d \in Clients : At(d, "issue") => Exists(request[d].raw) /\ request[d].raw \in Tokens
  BY DEF TypeOK, At, Exists
<1>7. InFlightIsExcused'
  <2> SUFFICES ASSUME NEW d \in Clients, At(d, "issue")', Family(request[d].raw)' \in killed'
               PROVE  d \in overtaken' \/ request'[d].raw \in spared'
    BY DEF InFlightIsExcused
  <2>1. request'[d] = request[d] /\ At(d, "issue")
    BY <1>4 DEF At
  <2>2. Family(request[d].raw)' = Family(request[d].raw)
    BY <1>3, <1>6, <2>1 DEF Marked, Kept, Family
  <2> QED
    BY <1>4, <2>1, <2>2 DEF DeadInv, InFlightIsExcused
<1> QED
  BY <1>5, <1>7 DEF DeadInv

\* The new token of a revoked family is spared.
LEMMA RotateIssueDead ==
    ASSUME TypeOK, DeadInv, NEW c \in Clients, RotateIssue(c)
    PROVE  DeadInv'
<1>1. PICK t \in Tokens, raw \in Tokens : IssuesOn(c, t, raw)
  BY RotateIssueType
<1>2. Kept
  BY RotateIssueType
<1>3. /\ Grown(t, Family(raw), raw)
      /\ killed' = killed /\ spared \subseteq spared'
      /\ overtaken' = overtaken \ {c}
      /\ request'[c].pc = "retire"
      /\ \A d \in Clients \ {c} : request'[d] = request[d]
  BY <1>1 DEF IssuesOn
<1>4. Family(raw) \in killed => t \in spared'
  BY <1>1 DEF IssuesOn, DeadInv, InFlightIsExcused
<1>5. RevokedFamilyStaysDead'
  <2> SUFFICES ASSUME NEW u \in Tokens, Live(u)', Family(u)' \in killed'
               PROVE  u \in spared'
    BY DEF RevokedFamilyStaysDead
  <2>1. CASE u = t
    BY <1>3, <1>4, <2>1 DEF Grown
  <2>2. CASE u # t
    <3>1. token'[u] = token[u]
      BY <1>3, <2>2 DEF Grown
    <3> QED
      BY <1>3, <3>1 DEF DeadInv, RevokedFamilyStaysDead, Live, Exists, Family
  <2> QED
    BY <2>1, <2>2
<1>6. \A d \in Clients : At(d, "issue") => Exists(request[d].raw) /\ request[d].raw \in Tokens
  BY DEF TypeOK, At, Exists
<1>7. InFlightIsExcused'
  <2> SUFFICES ASSUME NEW d \in Clients, At(d, "issue")', Family(request[d].raw)' \in killed'
               PROVE  d \in overtaken' \/ request'[d].raw \in spared'
    BY DEF InFlightIsExcused
  <2>1. d # c /\ request'[d] = request[d] /\ At(d, "issue")
    BY <1>3 DEF At
  <2>2. Family(request[d].raw)' = Family(request[d].raw)
    BY <1>2, <1>6, <2>1 DEF Kept, Family
  <2> QED
    BY <1>3, <2>1, <2>2 DEF DeadInv, InFlightIsExcused
<1> QED
  BY <1>5, <1>7 DEF DeadInv

\* Every step keeps revoked families dead.
LEMMA NextDead == TypeOK /\ DeadInv /\ [Next]_vars => DeadInv'
<1> SUFFICES ASSUME TypeOK, DeadInv, [Next]_vars PROVE DeadInv'
  OBVIOUS
<1>1. TableOK
  BY TypeParts
<1>2. CASE UNCHANGED vars
  BY <1>2 DEF DeadInv, RevokedFamilyStaysDead, InFlightIsExcused, vars, history,
              Live, Exists, Family, At
<1>3. ASSUME NEW c \in Clients, RotateRetire(c) PROVE DeadInv'
  <2>1. Marked
    BY <1>3, RotateRetireType
  <2>2. request'[c].pc = "answer" /\ \A d \in Clients \ {c} : request'[d] = request[d]
    BY <1>3, RotateRetireRequest
  <2> QED
    BY <1>3, <2>1, <2>2, QuietStep DEF RotateRetire, history, At
<1>4. ASSUME NEW c \in Clients, Logout(c) PROVE DeadInv'
  <2>1. Marked
    BY <1>4, LogoutType
  <2>2. request'[c].pc = "answer" /\ \A d \in Clients \ {c} : request'[d] = request[d]
    BY <1>4, LogoutRequest
  <2> QED
    BY <1>4, <2>1, <2>2, QuietStep DEF Logout, history, At
<1>5. ASSUME NEW c \in Clients, Answer(c) PROVE DeadInv'
  <2>1. Marked /\ killed' = killed /\ spared' = spared /\ overtaken' = overtaken
    BY <1>1, <1>5, UnchangedIsMarked DEF Answer, history
  <2>2. request'[c].pc = "idle" /\ \A d \in Clients \ {c} : request'[d] = request[d]
    BY <1>5, OthersStay, IdleRequest DEF Answer
  <2> QED
    BY <2>1, <2>2, QuietStep DEF At
<1>6. ASSUME NEW c \in Clients, Fails(c) PROVE DeadInv'
  <2>1. Marked /\ killed' = killed /\ spared' = spared /\ overtaken' = overtaken \ {c}
    BY <1>1, <1>6, UnchangedIsMarked DEF Fails
  <2>2. request'[c].pc = "idle" /\ \A d \in Clients \ {c} : request'[d] = request[d]
    BY <1>6, OthersStay, IdleRequest DEF Fails
  <2> QED
    BY <2>1, <2>2, QuietStep DEF At
<1>7. ASSUME NEW c \in Clients, NEW d \in Clients, Copy(c, d) PROVE DeadInv'
  BY <1>1, <1>7, UnchangedIsMarked, QuietStep DEF Copy, history
<1>8. ASSUME NEW t \in Tokens, ExpiresAtPasses(t) PROVE DeadInv'
  BY <1>1, <1>8, ExpireMarks, QuietStep DEF ExpiresAtPasses, history
<1>9. ASSUME NEW c \in Clients, Login(c) \/ RotateFind(c) \/ RevokeFamily(c) \/ RotateIssue(c)
      PROVE  DeadInv'
  BY <1>9, LoginDead, RotateFindDead, RevokeFamilyDead, RotateIssueDead
<1> QED
  BY <1>2, <1>3, <1>4, <1>5, <1>6, <1>7, <1>8, <1>9 DEF Next, Rotate

\* After a reuse the family is dead for good: what lives of it descends from a
\* rotation that had read its token before the revocation.
THEOREM ReuseKillsFamily == Spec => []RevokedFamilyStaysDead
<1>1. Init => DeadInv
  BY IdleRequest DEF Init, DeadInv, RevokedFamilyStaysDead, InFlightIsExcused, At
<1>2. DeadInv => RevokedFamilyStaysDead
  BY DEF DeadInv
<1> QED
  BY <1>1, <1>2, NextDead, TypeCorrect, PTL DEF Spec

----------------------------------------------------------------------------
\* A session does not fork.

\* Once a token has an heir it is revoked, or about to be, or shared.
HeirTellsWhy ==
    \A t \in Tokens :
        Exists(t) /\ token[t].parent # NoToken =>
            \/ token[token[t].parent].revoked
            \/ token[t].parent \in shared
            \/ \E c \in Clients : At(c, "retire") /\ request[c].raw = token[t].parent

\* Two rotations of one token have met.
OverlapIsShared ==
    \A c, d \in Clients, p \in Tokens :
        c # d /\ Rotating(c, p) /\ Rotating(d, p) => p \in shared

\* A rotation that is about to issue a second heir knows of the first.
LateIssueIsShared ==
    \A c \in Clients, t \in Tokens :
        At(c, "issue") /\ Exists(t) /\ token[t].parent = request[c].raw
            => request[c].raw \in shared

ForkInv == OneHeir /\ HeirTellsWhy /\ OverlapIsShared /\ LateIssueIsShared

\* A step that begins no rotation and issues nothing.
LEMMA QuietFork ==
    ASSUME TypeOK, ForkInv, Marked, shared \subseteq shared',
           \A d \in Clients : request'[d].pc \in {"issue", "retire"} => request'[d] = request[d],
           \A d \in Clients : At(d, "retire") =>
               \/ request'[d] = request[d]
               \/ token'[request[d].raw].revoked
               \/ request[d].raw \in shared'
    PROVE  ForkInv'
<1>1. \A t \in Tokens : Exists(t)' => Exists(t) /\ token'[t].parent = token[t].parent
  BY DEF Marked, Kept
<1>2. OneHeir'
  BY <1>1 DEF ForkInv, OneHeir
<1>3. HeirTellsWhy'
  <2> SUFFICES ASSUME NEW t \in Tokens, Exists(t)', token'[t].parent # NoToken
               PROVE  \/ token'[token'[t].parent].revoked
                      \/ token'[t].parent \in shared'
                      \/ \E c \in Clients : At(c, "retire")' /\ request'[c].raw = token'[t].parent
    BY DEF HeirTellsWhy
  <2>1. PICK p : p = token[t].parent /\ p = token'[t].parent
    BY <1>1
  <2>2. Exists(t) /\ Exists(p) /\ p \in Tokens
    BY <1>1, <2>1 DEF TypeOK, Exists
  <2>3. CASE token[p].revoked
    BY <2>1, <2>2, <2>3 DEF Marked, Kept
  <2>4. CASE p \in shared
    BY <2>1, <2>4
  <2>5. CASE \E c \in Clients : At(c, "retire") /\ request[c].raw = p
    BY <2>1, <2>5 DEF At
  <2> QED
    BY <2>1, <2>2, <2>3, <2>4, <2>5 DEF ForkInv, HeirTellsWhy
<1>4. OverlapIsShared'
  BY DEF ForkInv, OverlapIsShared, Rotating
<1>5. LateIssueIsShared'
  BY <1>1 DEF ForkInv, LateIssueIsShared, At
<1> QED
  BY <1>2, <1>3, <1>4, <1>5 DEF ForkInv

\* The first token of a family is nobody's heir.
LEMMA LoginFork ==
    ASSUME TypeOK, ForkInv, NEW c \in Clients, Login(c)
    PROVE  ForkInv'
<1>1. PICK t \in Tokens : Grown(t, t, NoToken)
  BY LoginType
<1>2. Kept /\ shared' = shared
  BY LoginType DEF Login, history
<1>3. request'[c].pc = "answer" /\ \A d \in Clients \ {c} : request'[d] = request[d]
  BY LoginRequest
<1>4. \A u \in Tokens \ {t} : token'[u] = token[u]
  BY <1>1 DEF Grown
<1>5. token'[t].parent = NoToken
  BY <1>1 DEF Grown
<1>6. OneHeir'
  BY <1>2, <1>4, <1>5 DEF ForkInv, OneHeir, Exists
<1>7. HeirTellsWhy'
  <2> SUFFICES ASSUME NEW u \in Tokens, Exists(u)', token'[u].parent # NoToken
               PROVE  \/ token'[token'[u].parent].revoked
                      \/ token'[u].parent \in shared'
                      \/ \E d \in Clients : At(d, "retire")' /\ request'[d].raw = token'[u].parent
    BY DEF HeirTellsWhy
  <2>1. PICK p : p = token[u].parent /\ p = token'[u].parent /\ Exists(u)
    BY <1>4, <1>5 DEF Exists
  <2>2. Exists(p) /\ p \in Tokens
    BY <2>1 DEF TypeOK, Exists
  <2>3. token[p].revoked => token'[p].revoked
    BY <1>2, <2>2 DEF Kept
  <2>4. ASSUME NEW d \in Clients, At(d, "retire")
        PROVE  request'[d] = request[d]
    BY <1>3, <2>4 DEF At, Login
  <2> QED
    BY <1>2, <2>1, <2>3, <2>4 DEF ForkInv, HeirTellsWhy, At
<1>8. OverlapIsShared'
  BY <1>2, <1>3 DEF ForkInv, OverlapIsShared, Rotating
<1>9. LateIssueIsShared'
  <2> SUFFICES ASSUME NEW d \in Clients, NEW u \in Tokens,
                      At(d, "issue")', Exists(u)', token'[u].parent = request'[d].raw
               PROVE  request'[d].raw \in shared'
    BY DEF LateIssueIsShared
  <2>1. request'[d] = request[d] /\ At(d, "issue")
    BY <1>3 DEF At
  <2>2. request[d].raw # NoToken
    BY <2>1, RowFacts DEF TypeOK, At, Exists
  <2>3. u # t
    BY <1>5, <2>1, <2>2
  <2> QED
    BY <1>2, <1>4, <2>1, <2>3 DEF ForkInv, LateIssueIsShared, Exists
<1> QED
  BY <1>6, <1>7, <1>8, <1>9 DEF ForkInv

\* The token it read is not revoked, so if it has an heir it is shared, or its
\* other rotation is still under way and the two meet here.
LEMMA RotateFindFork ==
    ASSUME TypeOK, ForkInv, NEW c \in Clients, RotateFind(c)
    PROVE  ForkInv'
<1>1. /\ token' = token
      /\ shared \subseteq shared'
      /\ (\E d \in Clients : Rotating(d, cookie[c])) => cookie[c] \in shared'
  BY DEF RotateFind
<1>2. /\ request'[c].pc = "issue" => ~Reused(cookie[c])
      /\ request'[c].pc \in {"issue", "revoke family"}
      /\ request'[c].raw = cookie[c]
      /\ \A d \in Clients \ {c} : request'[d] = request[d]
  BY RotateFindRequest
<1>3. At(c, "idle")
  BY DEF RotateFind
<1>4. OneHeir'
  BY <1>1 DEF ForkInv, OneHeir, Exists
<1>5. HeirTellsWhy'
  <2>1. \A d \in Clients : At(d, "retire") => request'[d] = request[d]
    BY <1>2, <1>3 DEF At
  <2> QED
    BY <1>1, <2>1 DEF ForkInv, HeirTellsWhy, Exists, At
<1>6. OverlapIsShared'
  <2> SUFFICES ASSUME NEW e \in Clients, NEW d \in Clients, NEW p \in Tokens,
                      e # d, Rotating(e, p)', Rotating(d, p)'
               PROVE  p \in shared'
    BY DEF OverlapIsShared
  <2>1. CASE e # c /\ d # c
    BY <1>1, <1>2, <2>1 DEF ForkInv, OverlapIsShared, Rotating
  <2>2. CASE e = c
    BY <1>1, <1>2, <2>2 DEF Rotating
  <2>3. CASE d = c
    BY <1>1, <1>2, <2>3 DEF Rotating
  <2> QED
    BY <2>1, <2>2, <2>3
<1>7. LateIssueIsShared'
  <2> SUFFICES ASSUME NEW d \in Clients, NEW u \in Tokens,
                      At(d, "issue")', Exists(u)', token'[u].parent = request'[d].raw
               PROVE  request'[d].raw \in shared'
    BY DEF LateIssueIsShared
  <2>1. Exists(u) /\ token[u].parent = request'[d].raw
    BY <1>1 DEF Exists
  <2>2. CASE d # c
    BY <1>1, <1>2, <2>1, <2>2 DEF ForkInv, LateIssueIsShared, At
  <2>3. CASE d = c
    <3>1. token[u].parent = cookie[c] /\ ~token[cookie[c]].revoked /\ cookie[c] # NoToken
      BY <1>2, <2>1, <2>3 DEF At, Reused, RotateFind
    <3>2. cookie[c] \in shared \/ \E e \in Clients : Rotating(e, cookie[c])
      BY <2>1, <3>1 DEF ForkInv, HeirTellsWhy, At, Rotating
    <3> QED
      BY <1>1, <1>2, <2>3, <3>2
  <2> QED
    BY <2>2, <2>3
<1> QED
  BY <1>4, <1>5, <1>6, <1>7 DEF ForkInv

\* A second heir comes of a token that is shared; the first is on its way to
\* have its parent revoked.
LEMMA RotateIssueFork ==
    ASSUME TypeOK, ForkInv, NEW c \in Clients, RotateIssue(c)
    PROVE  ForkInv'
<1>1. PICK t \in Tokens, raw \in Tokens : IssuesOn(c, t, raw)
  BY RotateIssueType
<1>2. Kept
  BY RotateIssueType
<1>3. /\ raw = request[c].raw /\ At(c, "issue") /\ Exists(raw)
      /\ ~Exists(t) /\ token'[t].parent = raw
      /\ \A u \in Tokens \ {t} : token'[u] = token[u]
      /\ shared' = shared
      /\ request'[c].pc = "retire" /\ request'[c].raw = raw
      /\ \A d \in Clients \ {c} : request'[d] = request[d]
  BY <1>1 DEF IssuesOn, Grown
<1>4. \A u \in Tokens : Exists(u) /\ token[u].parent = raw => raw \in shared
  BY <1>3 DEF ForkInv, LateIssueIsShared
<1>5. OneHeir'
  <2> SUFFICES ASSUME NEW u \in Tokens, NEW v \in Tokens, Exists(u)', Exists(v)', u # v,
                      token'[u].parent = token'[v].parent
               PROVE  token'[u].parent \in shared' \cup {NoToken}
    BY DEF OneHeir
  <2>1. CASE u # t /\ v # t
    BY <1>3, <2>1 DEF ForkInv, OneHeir, Exists
  <2>2. CASE u = t
    BY <1>3, <1>4, <2>2 DEF Exists
  <2>3. CASE v = t
    BY <1>3, <1>4, <2>3 DEF Exists
  <2> QED
    BY <2>1, <2>2, <2>3
<1>6. HeirTellsWhy'
  <2> SUFFICES ASSUME NEW u \in Tokens, Exists(u)', token'[u].parent # NoToken
               PROVE  \/ token'[token'[u].parent].revoked
                      \/ token'[u].parent \in shared'
                      \/ \E d \in Clients : At(d, "retire")' /\ request'[d].raw = token'[u].parent
    BY DEF HeirTellsWhy
  <2>1. CASE u = t
    BY <1>3, <2>1 DEF At
  <2>2. CASE u # t
    <3>1. PICK p : p = token[u].parent /\ p = token'[u].parent /\ Exists(u)
      BY <1>3, <2>2 DEF Exists
    <3>2. Exists(p) /\ p \in Tokens
      BY <3>1 DEF TypeOK, Exists
    <3>3. token[p].revoked => token'[p].revoked
      BY <1>2, <3>2 DEF Kept
    <3>4. \A d \in Clients : At(d, "retire") => request'[d] = request[d]
      BY <1>3 DEF At
    <3> QED
      BY <1>3, <3>1, <3>3, <3>4 DEF ForkInv, HeirTellsWhy, At
  <2> QED
    BY <2>1, <2>2
<1>7. OverlapIsShared'
  <2>1. \A d \in Clients, p \in Tokens : Rotating(d, p)' => Rotating(d, p)
    BY <1>3 DEF Rotating, At
  <2> QED
    BY <1>3, <2>1 DEF ForkInv, OverlapIsShared
<1>8. LateIssueIsShared'
  <2> SUFFICES ASSUME NEW d \in Clients, NEW u \in Tokens,
                      At(d, "issue")', Exists(u)', token'[u].parent = request'[d].raw
               PROVE  request'[d].raw \in shared'
    BY DEF LateIssueIsShared
  <2>1. d # c /\ request'[d] = request[d] /\ At(d, "issue")
    BY <1>3 DEF At
  <2>2. CASE u # t
    BY <1>3, <2>1, <2>2 DEF ForkInv, LateIssueIsShared, Exists
  <2>3. CASE u = t
    <3>1. Rotating(d, raw) /\ Rotating(c, raw)
      BY <1>3, <2>1, <2>3 DEF Rotating, At
    <3> QED
      BY <1>3, <2>1, <2>3, <3>1 DEF ForkInv, OverlapIsShared
  <2> QED
    BY <2>2, <2>3
<1> QED
  BY <1>5, <1>6, <1>7, <1>8 DEF ForkInv

\* Every step keeps the heirs accounted for.
LEMMA NextFork == TypeOK /\ ForkInv /\ [Next]_vars => ForkInv'
<1> SUFFICES ASSUME TypeOK, ForkInv, [Next]_vars PROVE ForkInv'
  OBVIOUS
<1>1. TableOK
  BY TypeParts
<1>2. CASE UNCHANGED vars
  BY <1>2 DEF ForkInv, OneHeir, HeirTellsWhy, OverlapIsShared, LateIssueIsShared,
              vars, history, Exists, At, Rotating
<1>3. ASSUME NEW c \in Clients, RotateRetire(c) PROVE ForkInv'
  <2>1. Marked /\ token'[request[c].raw].revoked
    BY <1>3, RotateRetireType
  <2>2. request'[c].pc = "answer" /\ \A d \in Clients \ {c} : request'[d] = request[d]
    BY <1>3, RotateRetireRequest
  <2> QED
    BY <1>3, <2>1, <2>2, QuietFork DEF RotateRetire, history, At
<1>4. ASSUME NEW c \in Clients, Logout(c) PROVE ForkInv'
  <2>1. Marked
    BY <1>4, LogoutType
  <2>2. request'[c].pc = "answer" /\ \A d \in Clients \ {c} : request'[d] = request[d]
    BY <1>4, LogoutRequest
  <2>3. At(c, "idle") /\ shared' = shared
    BY <1>4 DEF Logout, history
  <2> QED
    BY <2>1, <2>2, <2>3, QuietFork DEF At
<1>5. ASSUME NEW c \in Clients, Answer(c) PROVE ForkInv'
  <2>1. Marked /\ shared' = shared /\ At(c, "answer")
    BY <1>1, <1>5, UnchangedIsMarked DEF Answer, history
  <2>2. request'[c].pc = "idle" /\ \A d \in Clients \ {c} : request'[d] = request[d]
    BY <1>5, OthersStay, IdleRequest DEF Answer
  <2> QED
    BY <2>1, <2>2, QuietFork DEF At
<1>6. ASSUME NEW c \in Clients, Fails(c) PROVE ForkInv'
  <2>1. /\ Marked /\ shared \subseteq shared'
        /\ At(c, "retire") => request[c].raw \in shared'
    BY <1>1, <1>6, UnchangedIsMarked DEF Fails
  <2>2. request'[c].pc = "idle" /\ \A d \in Clients \ {c} : request'[d] = request[d]
    BY <1>6, OthersStay, IdleRequest DEF Fails
  <2> QED
    BY <2>1, <2>2, QuietFork DEF At
<1>7. ASSUME NEW c \in Clients, RevokeFamily(c) PROVE ForkInv'
  <2>1. Marked /\ shared' = shared /\ At(c, "revoke family")
    BY <1>1, <1>7, RevokeFamilyMarks DEF RevokeFamily
  <2>2. request'[c].pc = "idle" /\ \A d \in Clients \ {c} : request'[d] = request[d]
    BY <1>7, OthersStay, IdleRequest DEF RevokeFamily
  <2> QED
    BY <2>1, <2>2, QuietFork DEF At
<1>8. ASSUME NEW c \in Clients, NEW d \in Clients, Copy(c, d) PROVE ForkInv'
  BY <1>1, <1>8, UnchangedIsMarked, QuietFork DEF Copy, history
<1>9. ASSUME NEW t \in Tokens, ExpiresAtPasses(t) PROVE ForkInv'
  BY <1>1, <1>9, ExpireMarks, QuietFork DEF ExpiresAtPasses, history
<1>10. ASSUME NEW c \in Clients, Login(c) \/ RotateFind(c) \/ RotateIssue(c)
       PROVE  ForkInv'
  BY <1>10, LoginFork, RotateFindFork, RotateIssueFork
<1> QED
  BY <1>2, <1>3, <1>4, <1>5, <1>6, <1>7, <1>8, <1>9, <1>10 DEF Next, Rotate

\* A session does not fork: a token is rotated into two only when two rotations
\* overlap on it or one dies between the insert and the update.
THEOREM SessionsDoNotFork == Spec => []OneHeir
<1>1. Init => ForkInv
  BY IdleRequest DEF Init, ForkInv, OneHeir, HeirTellsWhy, OverlapIsShared,
                     LateIssueIsShared, Exists, At, Rotating
<1>2. ForkInv => OneHeir
  BY DEF ForkInv
<1> QED
  BY <1>1, <1>2, NextFork, TypeCorrect, PTL DEF Spec
=============================================================================
