--------------------------- MODULE RefreshTokens ---------------------------
(***************************************************************************)
(* Refresh tokens: a login starts a family, each refresh rotates a token   *)
(* into a new one of its family, and the reuse of a token that was rotated *)
(* away, or an expired one, revokes the family.  A rotation is three calls *)
(* to the database; those of clients that hold the same token overlap, and *)
(* one may die between any two.                                            *)
(***************************************************************************)
EXTENDS Naturals

CONSTANTS
    Clients,    \* browsers and scripts that keep the refresh cookie
    Tokens,     \* token ids, in the order they are given out
    MaxFaults   \* bound on requests that die and answers that are lost

ASSUME TokenAssumption ==
    /\ Tokens \subseteq Nat \ {0}
    /\ MaxFaults \in Nat

VARIABLES
    token,      \* the refresh_tokens table
    cookie,     \* cookie[c]: the token client c keeps
    request,    \* request[c]: its request, the token it brought, the new one
    faults,     \* number of faults so far
    killed,     \* history: the families revoked because of a reuse
    spared,     \* history: tokens a rotation issued that such a revocation
                \* found under way, and what they were rotated into
    overtaken,  \* history: the clients whose rotation was found under way
    shared      \* history: tokens that two rotations read, or that the death of
                \* a rotation left in place beside the new one

history == <<killed, spared, overtaken, shared>>
vars == <<token, cookie, request, faults, history>>

NoToken == 0

\* A family goes by the id of its first token; parent is the token this one was
\* issued for, whose replacedById the rotation's last call points here.
Row == [family : Tokens, parent : Tokens \cup {NoToken}, revoked : BOOLEAN, expired : BOOLEAN]

NoRow == [family |-> NoToken, parent |-> NoToken, revoked |-> FALSE, expired |-> FALSE]

Idle == [pc |-> "idle", raw |-> NoToken, next |-> NoToken]

Init ==
    /\ token = [t \in Tokens |-> NoRow]
    /\ cookie = [c \in Clients |-> NoToken]
    /\ request = [c \in Clients |-> Idle]
    /\ faults = 0
    /\ killed = {}
    /\ spared = {}
    /\ overtaken = {}
    /\ shared = {}

Exists(t) == t \in Tokens /\ token[t] # NoRow

Family(t) == token[t].family

Live(t) == Exists(t) /\ ~token[t].revoked

\* The cuid of a new row.
Fresh(t) == ~Exists(t) /\ \A u \in Tokens : u < t => Exists(u)

At(c, pc) == request[c].pc = pc

Goto(c, pc) == request' = [request EXCEPT ![c].pc = pc]

\* Slip: every token starts a family of its own.
IssueAlone(t, family, parent) ==
    token' = [token EXCEPT ![t] = [family |-> t, parent |-> parent,
                                   revoked |-> FALSE, expired |-> FALSE]]

Issue(t, family, parent) ==
    token' = [token EXCEPT ![t] = [family |-> family, parent |-> parent,
                                   revoked |-> FALSE, expired |-> FALSE]]

----------------------------------------------------------------------------
\* AuthService.login, from its call of issue on; a client may log in anew.
Login(c) ==
    /\ At(c, "idle")
    /\ \E t \in Tokens :
          /\ Fresh(t)
          /\ Issue(t, t, NoToken)
          /\ request' = [request EXCEPT ![c] = [pc |-> "answer", raw |-> NoToken, next |-> t]]
    /\ UNCHANGED <<cookie, faults, history>>

ExpiresAtPasses(t) ==
    /\ Exists(t)
    /\ ~token[t].expired
    /\ token' = [token EXCEPT ![t].expired = TRUE]
    /\ UNCHANGED <<cookie, request, faults, history>>

\* A second client comes by the token: a restored profile, a copied cookie.
Copy(c, d) ==
    /\ cookie[c] # cookie[d]
    /\ At(d, "idle")
    /\ cookie' = [cookie EXCEPT ![d] = cookie[c]]
    /\ UNCHANGED <<token, request, faults, history>>

----------------------------------------------------------------------------
\* rotate

Reused(t) == token[t].revoked \/ token[t].expired

Rotating(c, t) == request[c].raw = t /\ request[c].pc \in {"issue", "retire"}

\* findUnique
RotateFind(c) ==
    /\ At(c, "idle")
    /\ cookie[c] # NoToken
    /\ request' = [request EXCEPT ![c] =
           [pc |-> IF Reused(cookie[c]) THEN "revoke family" ELSE "issue",
            raw |-> cookie[c], next |-> NoToken]]
    /\ shared' = IF \E d \in Clients : Rotating(d, cookie[c])
                 THEN shared \cup {cookie[c]} ELSE shared
    /\ UNCHANGED <<token, cookie, faults, killed, spared, overtaken>>

\* Slip: only the token that was reused is revoked.
RevokedAlone(t, raw) == t = raw

RevokedWith(t, raw) == Family(t) = Family(raw)

\* revokeFamily.  The refusal leaves the cookie where it is.
RevokeFamily(c) ==
    /\ At(c, "revoke family")
    /\ LET raw == request[c].raw IN
       /\ token' = [t \in Tokens |->
              IF Live(t) /\ RevokedWith(t, raw) THEN [token[t] EXCEPT !.revoked = TRUE]
              ELSE token[t]]
       /\ killed' = killed \cup {Family(raw)}
       /\ overtaken' = overtaken \cup
              {d \in Clients : At(d, "issue") /\ Family(request[d].raw) = Family(raw)}
    /\ request' = [request EXCEPT ![c] = Idle]
    /\ UNCHANGED <<cookie, faults, spared, shared>>

\* The new token is of the old one's family, whatever became of that since.
RotateIssue(c) ==
    /\ At(c, "issue")
    /\ LET raw == request[c].raw IN
       \E t \in Tokens :
          /\ Fresh(t)
          /\ Issue(t, Family(raw), raw)
          /\ request' = [request EXCEPT ![c] = [pc |-> "retire", raw |-> raw, next |-> t]]
          /\ spared' = IF c \in overtaken \/ raw \in spared THEN spared \cup {t} ELSE spared
    /\ overtaken' = overtaken \ {c}
    /\ UNCHANGED <<cookie, faults, killed, shared>>

\* Slip: the old token only learns what replaced it.
StaysLive(row) == row

Retired(row) == [row EXCEPT !.revoked = TRUE]

RotateRetire(c) ==
    /\ At(c, "retire")
    /\ token' = [token EXCEPT ![request[c].raw] = Retired(token[request[c].raw])]
    /\ Goto(c, "answer")
    /\ UNCHANGED <<cookie, faults, history>>

----------------------------------------------------------------------------
\* revokeByRawToken
Logout(c) ==
    /\ At(c, "idle")
    /\ cookie[c] # NoToken
    /\ token' = [token EXCEPT ![cookie[c]].revoked = TRUE]
    /\ request' = [request EXCEPT ![c] = [pc |-> "answer", raw |-> cookie[c], next |-> NoToken]]
    /\ UNCHANGED <<cookie, faults, history>>

\* The answer sets the cookie, or clears it.
Answer(c) ==
    /\ At(c, "answer")
    /\ cookie' = [cookie EXCEPT ![c] = request[c].next]
    /\ request' = [request EXCEPT ![c] = Idle]
    /\ UNCHANGED <<token, faults, history>>

\* A database call throws, the process dies or the answer is lost.
Fails(c) ==
    /\ ~At(c, "idle")
    /\ faults < MaxFaults
    /\ faults' = faults + 1
    /\ shared' = IF At(c, "retire") THEN shared \cup {request[c].raw} ELSE shared
    /\ overtaken' = overtaken \ {c}
    /\ request' = [request EXCEPT ![c] = Idle]
    /\ UNCHANGED <<token, cookie, killed, spared>>

Rotate(c) == RotateFind(c) \/ RevokeFamily(c) \/ RotateIssue(c) \/ RotateRetire(c)

Next ==
    \/ \E c \in Clients : Login(c) \/ Rotate(c) \/ Logout(c) \/ Answer(c) \/ Fails(c)
    \/ \E c, d \in Clients : Copy(c, d)
    \/ \E t \in Tokens : ExpiresAtPasses(t)

Spec == Init /\ [][Next]_vars

----------------------------------------------------------------------------
\* Type correctness of the table, the cookies and the requests: a token that is
\* kept or in use exists, and a family is that of its members' parents.
TypeOK ==
    /\ token \in [Tokens -> Row \cup {NoRow}]
    /\ cookie \in [Clients -> Tokens \cup {NoToken}]
    /\ request \in [Clients -> [pc : {"idle", "revoke family", "issue", "retire", "answer"},
                                raw : Tokens \cup {NoToken}, next : Tokens \cup {NoToken}]]
    /\ faults \in 0..MaxFaults
    /\ killed \subseteq {t \in Tokens : Exists(t)}
    /\ spared \subseteq Tokens
    /\ overtaken \subseteq Clients
    /\ shared \subseteq Tokens
    /\ \A t \in Tokens : Exists(t) =>
          /\ Exists(Family(t))
          /\ token[t].parent # NoToken =>
                Exists(token[t].parent) /\ Family(token[t].parent) = Family(t)
    /\ \A c \in Clients :
          /\ cookie[c] # NoToken => Exists(cookie[c])
          /\ request[c].next # NoToken => Exists(request[c].next)
          /\ request[c].pc \in {"revoke family", "issue", "retire"} => Exists(request[c].raw)
          /\ At(c, "retire") => request[c].next # NoToken

\* After a reuse the family is dead for good: what lives of it descends from a
\* rotation that had read its token before the revocation and issued after it.
\* rotate() has no other way back in.
RevokedFamilyStaysDead ==
    \A t \in Tokens : Live(t) /\ Family(t) \in killed => t \in spared

\* A session does not fork: a token is rotated into two only when two rotations
\* overlap on it or one dies between the insert and the update.
OneHeir ==
    \A t, u \in Tokens :
        Exists(t) /\ Exists(u) /\ t # u /\ token[t].parent = token[u].parent
            => token[t].parent \in shared \cup {NoToken}
=============================================================================
