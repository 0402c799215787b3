--------------------------- MODULE SessionsProofs ---------------------------
(* Theorems about Sessions, for every value of its constants.              *)
EXTENDS Sessions, TLAPS

(* What a request carries was read from the row it presented, which is     *)
(* there as long as the request is.                                        *)
RequestOK(r) ==
  /\ req[r].op # "none" => req[r].owner \in Admins
  /\ req[r].op \in {"login", "refresh"} => req[r].scope \in Scopes
  /\ req[r].pc = "scope" => req[r].op \in {"login", "refresh"}
  /\ req[r].op = "login" => req[r].family = None
  /\ req[r].op = "refresh" =>
       LET p == req[r].parent IN
       /\ p \in Tokens /\ Exists(p)
       /\ req[r].owner = token[p].owner
       /\ req[r].scope = token[p].scope
       /\ req[r].family = token[p].family
       /\ req[r].era = token[p].era

IInv ==
  /\ TypeOK
  /\ SessionKeepsItsScope
  /\ \A r \in Requests : RequestOK(r)

LEMMA InitIInv == Init => IInv
<1> SUFFICES ASSUME Init PROVE IInv
  OBVIOUS
<1>1. TypeOK
  <2>1. account \in [Admins -> Account]
    BY BoundAssumption DEF Init, Account
  <2>2. Idle \in Request
    BY BoundAssumption DEF Idle, Request
  <2> QED  BY <2>1, <2>2 DEF Init, TypeOK, Row
<1>2. SessionKeepsItsScope
  BY DEF Init, SessionKeepsItsScope, Exists, Absent
<1>3. \A r \in Requests : RequestOK(r)
  BY DEF Init, RequestOK, Idle
<1> QED  BY <1>1, <1>2, <1>3 DEF IInv

(* A row whose state, expiry or heirs may change and nothing else.         *)
Same(t) ==
  /\ Exists(t)
  /\ token'[t].owner = token[t].owner
  /\ token'[t].scope = token[t].scope
  /\ token'[t].family = token[t].family
  /\ token'[t].era = token[t].era

(* A request that is answered, or moves to its next statement.             *)
Follows(r) ==
  \/ req'[r] = Idle
  \/ /\ req'[r].op = req[r].op
     /\ req'[r].owner = req[r].owner
     /\ req'[r].scope = req[r].scope
     /\ req'[r].parent = req[r].parent
     /\ req'[r].family = req[r].family
     /\ req'[r].era = req[r].era
     /\ req'[r].pc = "scope" => req[r].op \in {"login", "refresh"}
     /\ req[r].op = "refresh" => Exists(req[r].parent)' /\ Same(req[r].parent)

(* A step that issues no token and takes no request keeps the invariant.   *)
LEMMA KeptIInv ==
  ASSUME IInv, TypeOK',
         \A t \in Tokens : Exists(t)' => Same(t),
         \A r \in Requests : Follows(r)
  PROVE  IInv'
<1>1. SessionKeepsItsScope'
  BY DEF IInv, SessionKeepsItsScope, Same
<1>2. ASSUME NEW r \in Requests PROVE RequestOK(r)'
  <2>1. CASE req'[r] = Idle
    BY <2>1 DEF RequestOK, Idle
  <2>2. CASE req'[r] # Idle
    BY <2>2 DEF Follows, IInv, RequestOK, Same
  <2> QED  BY <2>1, <2>2
<1> QED  BY <1>1, <1>2 DEF IInv

(* What Revoke does to the rows.                                           *)
LEMMA RevokeKeeps ==
  ASSUME token \in [Tokens -> Row], NEW S, Revoke(S)
  PROVE  /\ token' \in [Tokens -> Row]
         /\ \A t \in Tokens : Exists(t)' <=> Exists(t)
         /\ \A t \in Tokens : Exists(t) => Same(t)
<1>1. ASSUME NEW t \in Tokens
      PROVE  /\ token'[t] \in Row
             /\ Exists(t)' <=> Exists(t)
             /\ Exists(t) => Same(t)
  <2>1. CASE token[t].state # "live" \/ t \notin S
    BY <2>1 DEF Revoke, Exists, Same
  <2>2. CASE token[t].state = "live" /\ t \in S
    <3>1. token'[t] = [token[t] EXCEPT !.state = "revoked"]
      BY <2>2 DEF Revoke
    <3>2. token[t] \in Row /\ token[t] # Absent
      BY <2>2 DEF Absent
    <3> QED  BY <2>2, <3>1, <3>2 DEF Row, Exists, Same
  <2> QED  BY <2>1, <2>2
<1> QED  BY <1>1 DEF Revoke

(* Goto and Answer keep what the request carries.                          *)
LEMMA GotoFollows ==
  ASSUME req \in [Requests -> Request], NEW r \in Requests,
         NEW pc \in {"account", "scope", "issue", "retire", "end", "store", "disable", "revokeAll"},
         Goto(r, pc) \/ Answer(r),
         pc = "scope" => req[r].op \in {"login", "refresh"},
         \A q \in Requests : RequestOK(q),
         \A t \in Tokens : Exists(t) => Exists(t)' /\ Same(t)
  PROVE  /\ req' \in [Requests -> Request]
         /\ \A q \in Requests : Follows(q)
<1>1. Idle \in Request
  BY BoundAssumption DEF Idle, Request
<1>2. req' \in [Requests -> Request]
  BY <1>1 DEF Goto, Answer, Request
<1>3. ASSUME NEW q \in Requests PROVE Follows(q)
  <2>1. req'[q] = Idle \/ req'[q] = req[q] \/ req'[q] = [req[q] EXCEPT !.pc = pc]
    BY DEF Goto, Answer
  <2>2. q # r => req'[q] = req[q]
    BY DEF Goto, Answer
  <2>3. req[q] \in Request
    OBVIOUS
  <2>4. RequestOK(q)
    OBVIOUS
  <2> QED  BY <2>1, <2>2, <2>3, <2>4 DEF Follows, RequestOK, Request
<1> QED  BY <1>2, <1>3

(* A request's step that issues nothing, whatever else it writes.          *)
LEMMA OnIInv ==
  ASSUME IInv, NEW r \in Requests,
         NEW pc \in {"account", "scope", "issue", "retire", "end", "store", "disable", "revokeAll"},
         Goto(r, pc) \/ Answer(r),
         pc = "scope" => req[r].op \in {"login", "refresh"},
         account' \in [Admins -> Account],
         badge' \in [Admins -> SUBSET Scopes],
         token' \in [Tokens -> Row],
         \A t \in Tokens : Exists(t)' <=> Exists(t),
         \A t \in Tokens : Exists(t) => Same(t)
  PROVE  IInv'
<1>1. /\ req' \in [Requests -> Request]
      /\ \A q \in Requests : Follows(q)
  BY GotoFollows DEF IInv, TypeOK
<1>2. TypeOK'
  BY <1>1 DEF TypeOK
<1> QED  BY <1>1, <1>2, KeptIInv

LEMMA RevokeIInv ==
  ASSUME IInv, NEW r \in Requests, NEW S,
         Revoke(S), Answer(r), UNCHANGED <<account, badge>>
  PROVE  IInv'
<1>1. /\ token' \in [Tokens -> Row]
      /\ \A t \in Tokens : Exists(t)' <=> Exists(t)
      /\ \A t \in Tokens : Exists(t) => Same(t)
  BY RevokeKeeps DEF IInv, TypeOK
<1> QED  BY <1>1, OnIInv DEF IInv, TypeOK

LEMMA AccountIInv ==
  ASSUME IInv, NEW r \in Requests,
         LoginRehash(r) \/ StorePassword(r) \/ DisableAccount(r)
  PROVE  IInv'
<1>1. /\ req[r] \in Request /\ req[r].owner \in Admins
      /\ account[req[r].owner] \in Account
      /\ UNCHANGED <<badge, token>>
  BY DEF IInv, TypeOK, RequestOK, LoginRehash, StorePassword, DisableAccount, At
<1>2. account' \in [Admins -> Account]
  <2>1. CASE LoginRehash(r)
    <3> DEFINE row == [account[req[r].owner] EXCEPT !.password = req[r].era, !.weak = FALSE]
    <3>1. row \in Account
      BY <1>1 DEF Account, Request
    <3>2. account' = [account EXCEPT ![req[r].owner] = row]
      BY <2>1 DEF LoginRehash
    <3> HIDE DEF row
    <3> QED  BY <3>1, <3>2 DEF IInv, TypeOK
  <2>2. CASE StorePassword(r)
    <3> DEFINE n == account[req[r].owner].chosen + 1
               row == [account[req[r].owner] EXCEPT !.password = n, !.chosen = n, !.weak = FALSE]
    <3>1. n \in 0..MaxPassword
      BY <1>1, <2>2, BoundAssumption DEF Account, StorePassword
    <3>2. row \in Account
      <4> HIDE DEF n
      <4> QED  BY <1>1, <3>1 DEF Account
    <3>3. account' = [account EXCEPT ![req[r].owner] = row]
      BY <2>2 DEF StorePassword
    <3> HIDE DEF row
    <3> QED  BY <3>2, <3>3 DEF IInv, TypeOK
  <2>3. CASE DisableAccount(r)
    <3> DEFINE row == [account[req[r].owner] EXCEPT !.active = FALSE]
    <3>1. row \in Account
      BY <1>1 DEF Account
    <3>2. account' = [account EXCEPT ![req[r].owner] = row]
      BY <2>3 DEF DisableAccount
    <3> HIDE DEF row
    <3> QED  BY <3>1, <3>2 DEF IInv, TypeOK
  <2> QED  BY <2>1, <2>2, <2>3
<1>3. \A t \in Tokens : (Exists(t)' <=> Exists(t)) /\ (Exists(t) => Same(t))
  BY <1>1 DEF Exists, Same
<1>4. \/ Goto(r, "scope") /\ req[r].op = "login"
      \/ Goto(r, "revokeAll")
  BY DEF LoginRehash, StorePassword, DisableAccount, At
<1> QED  BY <1>1, <1>2, <1>3, <1>4, OnIInv DEF IInv, TypeOK

LEMMA ReadIInv ==
  ASSUME IInv, NEW r \in Requests, ResolveScope(r) \/ RefreshAccount(r)
  PROVE  IInv'
<1>1. UNCHANGED <<account, badge, token>>
  BY DEF ResolveScope, RefreshAccount
<1>2. \A t \in Tokens : (Exists(t)' <=> Exists(t)) /\ (Exists(t) => Same(t))
  BY <1>1 DEF Exists, Same
<1>3. CASE ResolveScope(r)
  <2>1. Goto(r, "issue") \/ Goto(r, "end") \/ Answer(r)
    BY <1>3 DEF ResolveScope
  <2> QED  BY <1>1, <1>2, <2>1, OnIInv DEF IInv, TypeOK
<1>4. CASE RefreshAccount(r)
  <2>1. req[r].op = "refresh" /\ (Goto(r, "scope") \/ Goto(r, "end"))
    BY <1>4 DEF RefreshAccount, At
  <2> QED  BY <1>1, <1>2, <2>1, OnIInv DEF IInv, TypeOK
<1> QED  BY <1>3, <1>4

LEMMA EndIInv ==
  ASSUME IInv, NEW r \in Requests, RefreshRetire(r) \/ EndFamily(r) \/ RevokeSessions(r)
  PROVE  IInv'
BY RevokeIInv DEF RefreshRetire, EndFamily, RevokeSessions

(* Taking a request writes no table.                                       *)
LEMMA BeginIInv ==
  ASSUME IInv, NEW r \in Requests, NEW q \in Request,
         Begin(r, q), UNCHANGED <<account, badge, token>>,
         RequestOK(r)'
  PROVE  IInv'
<1>1. TypeOK'
  BY DEF IInv, TypeOK, Begin
<1>2. SessionKeepsItsScope'
  BY DEF IInv, SessionKeepsItsScope, Exists
<1>3. ASSUME NEW x \in Requests, x # r PROVE RequestOK(x)'
  BY <1>3 DEF IInv, TypeOK, Begin, RequestOK, Exists
<1> QED  BY <1>1, <1>2, <1>3 DEF IInv

LEMMA ArriveIInv ==
  ASSUME IInv, NEW r \in Requests, Arrive(r)
  PROVE  IInv'
<1>1. ASSUME NEW a \in Admins, NewPassword(r, a) \/ Deactivate(r, a) PROVE IInv'
  <2>1. PICK pc \in {"store", "disable"}, op \in {"password", "deactivate"} :
          /\ Begin(r, Concerning(a, op, pc))
          /\ UNCHANGED <<account, badge, token>>
    BY <1>1 DEF NewPassword, Deactivate
  <2> DEFINE q == Concerning(a, op, pc)
  <2>2. q \in Request /\ q.op = op /\ q.pc = pc /\ q.owner = a
    BY BoundAssumption DEF Request, Concerning
  <2> HIDE DEF q
  <2>3. req'[r] = q
    BY <2>1 DEF Begin, IInv, TypeOK, q
  <2>4. RequestOK(r)'
    BY <2>2, <2>3 DEF RequestOK
  <2> QED  BY <2>1, <2>2, <2>4, BeginIInv DEF q
<1>2. ASSUME NEW a \in Admins, NEW s \in Scopes, Login(r, a, s) PROVE IInv'
  <2> DEFINE q == [pc |-> IF account[a].weak THEN "rehash" ELSE "scope", op |-> "login",
                   owner |-> a, scope |-> s, parent |-> None, family |-> None,
                   era |-> account[a].password]
  <2>1. Begin(r, q) /\ UNCHANGED <<account, badge, token>>
    BY <1>2 DEF Login
  <2>2. account[a] \in Account
    BY DEF IInv, TypeOK
  <2>3. q \in Request /\ q.op = "login" /\ q.owner = a /\ q.scope = s /\ q.family = None
    BY <2>2 DEF Request, Account
  <2> HIDE DEF q
  <2>4. req'[r] = q
    BY <2>1 DEF Begin, IInv, TypeOK
  <2>5. RequestOK(r)'
    BY <2>3, <2>4 DEF RequestOK
  <2> QED  BY <2>1, <2>3, <2>5, BeginIInv
<1>3. ASSUME NEW t \in Tokens, Refresh(r, t) PROVE IInv'
  <2>1. PICK pc \in {"end", "account"} : Presented(r, t, pc)
    BY <1>3 DEF Refresh
  <2> DEFINE q == [pc |-> pc, op |-> "refresh", owner |-> token[t].owner,
                   scope |-> token[t].scope, parent |-> t,
                   family |-> token[t].family, era |-> token[t].era]
  <2>2. Begin(r, q) /\ Exists(t) /\ UNCHANGED <<account, badge, token>>
    BY <1>3, <2>1 DEF Presented, Refresh
  <2>3. /\ token[t].owner \in Admins /\ token[t].scope \in Scopes
        /\ token[t].family \in Families /\ token[t].era \in 0..MaxPassword
    BY <2>2 DEF IInv, TypeOK, Row, Exists, Absent
  <2>4. q \in Request
    BY <2>3 DEF Request
  <2>5. /\ q.op = "refresh" /\ q.pc # "scope" /\ q.parent = t
        /\ q.owner = token[t].owner /\ q.scope = token[t].scope
        /\ q.family = token[t].family /\ q.era = token[t].era
    OBVIOUS
  <2> HIDE DEF q
  <2>6. req'[r] = q
    BY <2>2 DEF Begin, IInv, TypeOK
  <2>7. RequestOK(r)'
    BY <2>2, <2>3, <2>5, <2>6 DEF RequestOK, Exists
  <2> QED  BY <2>2, <2>4, <2>7, BeginIInv
<1> QED  BY <1>1, <1>2, <1>3 DEF Arrive

(* A row written where there was none, when it agrees with the family it   *)
(* joins, and the rows that stay the same.                                 *)
LEMMA JoinIInv ==
  ASSUME IInv, NEW r \in Requests, NEW t \in Tokens, FreshToken(t),
         Goto(r, "retire") \/ Answer(r), UNCHANGED <<account, badge>>,
         token' \in [Tokens -> Row],
         \A u \in Tokens \ {t} : Exists(u)' <=> Exists(u),
         \A u \in Tokens \ {t} : Exists(u) => Same(u),
         \A u \in Rows(token'[t].family) :
            /\ token[u].owner = token'[t].owner
            /\ token[u].scope = token'[t].scope
            /\ token[u].era = token'[t].era
  PROVE  IInv'
<1>1. req' \in [Requests -> Request]
  BY BoundAssumption DEF IInv, TypeOK, Goto, Answer, Request, Idle
<1>2. TypeOK'
  BY <1>1 DEF IInv, TypeOK
<1>3. ~ Exists(t)
  BY DEF FreshToken
<1>4. SessionKeepsItsScope'
  <2> SUFFICES ASSUME NEW x \in Tokens, NEW y \in Tokens,
                      Exists(x)', Exists(y)', token'[x].family = token'[y].family
               PROVE  /\ token'[x].owner = token'[y].owner
                      /\ token'[x].scope = token'[y].scope
                      /\ token'[x].era = token'[y].era
    BY DEF SessionKeepsItsScope
  <2>1. CASE x = t \/ y = t
    BY <2>1 DEF Rows, Same
  <2>2. CASE x # t /\ y # t
    BY <2>2 DEF IInv, SessionKeepsItsScope, Same
  <2> QED  BY <2>1, <2>2
<1>5. ASSUME NEW q \in Requests PROVE RequestOK(q)'
  <2>1. RequestOK(q) /\ req[q] \in Request
    BY DEF IInv, TypeOK
  <2>2. CASE req'[q] = Idle
    BY <2>2 DEF RequestOK, Idle
  <2>3. CASE req'[q] # Idle
    <3>1. req'[q] = req[q] \/ req'[q] = [req[q] EXCEPT !.pc = "retire"]
      BY <2>3 DEF Goto, Answer, IInv, TypeOK
    <3>2. req[q].op = "refresh" =>
            token'[req[q].parent].state # "absent" /\ Same(req[q].parent)
      BY <1>3, <2>1 DEF RequestOK, Exists
    <3> QED  BY <2>1, <3>1, <3>2 DEF RequestOK, Request, Same, Exists
  <2> QED  BY <2>2, <2>3
<1> QED  BY <1>2, <1>4, <1>5 DEF IInv

LEMMA IssueFirstIInv ==
  ASSUME IInv, NEW r \in Requests, NEW t \in Tokens, NEW f \in Families, IssueFirst(r, t, f)
  PROVE  IInv'
<1> DEFINE row == Issued(r, req[r].scope, f)
<1>1. /\ FreshToken(t) /\ Answer(r) /\ UNCHANGED <<account, badge>>
      /\ token' = [token EXCEPT ![t] = row]
      /\ Rows(f) = {}
  BY DEF IssueFirst, FreshFamily
<1>2. req[r].owner \in Admins /\ req[r].scope \in Scopes /\ req[r].era \in 0..MaxPassword
  BY DEF IInv, TypeOK, RequestOK, IssueFirst, At, Request
<1>3. row \in Row /\ row.family = f
  BY <1>2 DEF Row, Issued
<1> HIDE DEF row
<1>4. token' \in [Tokens -> Row] /\ token'[t] = row
  BY <1>1, <1>3 DEF IInv, TypeOK
<1>5. \A u \in Tokens \ {t} : (Exists(u)' <=> Exists(u)) /\ (Exists(u) => Same(u))
  BY <1>1 DEF Exists, Same, IInv, TypeOK
<1> QED  BY <1>1, <1>3, <1>4, <1>5, JoinIInv

LEMMA IssueSuccessorIInv ==
  ASSUME IInv, NEW r \in Requests, NEW t \in Tokens, IssueSuccessor(r, t)
  PROVE  IInv'
<1> DEFINE p == req[r].parent
           row == Issued(r, req[r].scope, req[r].family)
           old == [token[p] EXCEPT !.heirs = More(token[p].heirs)]
<1>1. /\ FreshToken(t) /\ Goto(r, "retire") /\ UNCHANGED <<account, badge>>
      /\ token' = [token EXCEPT ![t] = row, ![p].heirs = More(@)]
  BY DEF IssueSuccessor
<1>2. /\ p \in Tokens /\ Exists(p) /\ p # t
      /\ req[r].owner = token[p].owner
      /\ req[r].scope = token[p].scope
      /\ req[r].family = token[p].family
      /\ req[r].era = token[p].era
  BY DEF IInv, RequestOK, IssueSuccessor, At, FreshToken
<1>3. token[p] \in Row /\ token[p] # Absent
  BY <1>2 DEF IInv, TypeOK, Exists, Absent
<1>4. row \in Row /\ row.family = token[p].family /\ row.owner = token[p].owner
      /\ row.scope = token[p].scope /\ row.era = token[p].era
  BY <1>2, <1>3 DEF Row, Issued
<1>5. old \in Row /\ old.family = token[p].family /\ old.owner = token[p].owner
      /\ old.scope = token[p].scope /\ old.era = token[p].era /\ old.state # "absent"
  BY <1>3 DEF Row, More
<1>6. token' = [u \in Tokens |-> IF u = t THEN row ELSE IF u = p THEN old ELSE token[u]]
  BY <1>1, <1>2 DEF IInv, TypeOK
<1> HIDE DEF row, old
<1>7. token' \in [Tokens -> Row] /\ token'[t] = row
  BY <1>4, <1>5, <1>6 DEF IInv, TypeOK
<1>8. \A u \in Tokens \ {t} : (Exists(u)' <=> Exists(u)) /\ (Exists(u) => Same(u))
  BY <1>2, <1>5, <1>6 DEF Exists, Same
<1>9. \A u \in Rows(row.family) :
        token[u].owner = row.owner /\ token[u].scope = row.scope /\ token[u].era = row.era
  BY <1>2, <1>4 DEF Rows, IInv, SessionKeepsItsScope
<1> QED  BY <1>1, <1>7, <1>8, <1>9, JoinIInv

(* A step that leaves the requests alone.                                  *)
LEMMA AsideIInv ==
  ASSUME IInv, UNCHANGED req,
         account' \in [Admins -> Account],
         badge' \in [Admins -> SUBSET Scopes],
         token' \in [Tokens -> Row],
         \A t \in Tokens : Exists(t)' => Same(t),
         \A r \in Requests, t \in Tokens : req[r].parent = t /\ Exists(t) => Exists(t)'
  PROVE  IInv'
<1>1. TypeOK'
  BY DEF IInv, TypeOK
<1>2. ASSUME NEW r \in Requests PROVE Follows(r)
  <2>1. RequestOK(r)
    BY DEF IInv
  <2> QED  BY <2>1 DEF RequestOK, Follows
<1> QED  BY <1>1, <1>2, KeptIInv

LEMMA DeskIInv ==
  ASSUME IInv, Desk
  PROVE  IInv'
<1> USE DEF IInv, TypeOK
<1>1. ASSUME NEW t \in Tokens, Logout(t) PROVE IInv'
  <2>1. Revoke(Rows(token[t].family)) /\ UNCHANGED <<account, badge, req>>
    BY <1>1 DEF Logout
  <2> QED  BY <2>1, RevokeKeeps, AsideIInv
<1>2. ASSUME NEW t \in Tokens, PurgeExpiredTokens(t) PROVE IInv'
  <2>1. /\ token' = [token EXCEPT ![t] = Absent]
        /\ UNCHANGED <<account, badge, req>>
        /\ \A r \in Requests : req[r].parent # t
    BY <1>2 DEF PurgeExpiredTokens
  <2>2. token' \in [Tokens -> Row] /\ ~ Exists(t)'
    BY <2>1 DEF Row, Exists, Absent
  <2>3. \A u \in Tokens : u # t => token'[u] = token[u]
    BY <2>1
  <2>4. \A u \in Tokens : Exists(u)' => Same(u)
    BY <2>2, <2>3 DEF Exists, Same
  <2>5. \A r \in Requests, u \in Tokens : req[r].parent = u /\ Exists(u) => Exists(u)'
    BY <2>1, <2>3 DEF Exists
  <2> QED  BY <2>1, <2>2, <2>4, <2>5, AsideIInv
<1>3. ASSUME NEW a \in Admins, LogoutEverywhere(a) PROVE IInv'
  <2>1. Revoke(Owned(a)) /\ UNCHANGED <<account, badge, req>>
    BY <1>3 DEF LogoutEverywhere
  <2> QED  BY <2>1, RevokeKeeps, AsideIInv
<1>4. ASSUME NEW a \in Admins, Reactivate(a) PROVE IInv'
  <2>1. UNCHANGED <<badge, token, req>>
    BY <1>4 DEF Reactivate
  <2>2. account' \in [Admins -> Account]
    <3> DEFINE row == [account[a] EXCEPT !.active = TRUE]
    <3>1. row \in Account
      BY DEF Account
    <3>2. account' = [account EXCEPT ![a] = row]
      BY <1>4 DEF Reactivate
    <3> HIDE DEF row
    <3> QED  BY <3>1, <3>2
  <2> QED  BY <2>1, <2>2, AsideIInv DEF Exists, Same
<1>5. ASSUME NEW a \in Admins, NEW s \in Scopes, ChangeBadge(a, s) PROVE IInv'
  <2>1. UNCHANGED <<account, token, req>> /\ badge' \in [Admins -> SUBSET Scopes]
    BY <1>5 DEF ChangeBadge
  <2> QED  BY <2>1, AsideIInv DEF Exists, Same
<1> QED  BY <1>1, <1>2, <1>3, <1>4, <1>5 DEF Desk

LEMMA TimeIInv ==
  ASSUME IInv, (\E t \in Tokens : Expire(t)) \/ Crash
  PROVE  IInv'
<1>1. ASSUME NEW t \in Tokens, Expire(t) PROVE IInv'
  <2> DEFINE row == [token[t] EXCEPT !.expired = TRUE]
  <2>1. /\ UNCHANGED <<account, badge, req>> /\ Exists(t)
        /\ token' = [token EXCEPT ![t] = row]
    BY <1>1 DEF Expire
  <2>2. token[t] \in Row /\ token[t] # Absent
    BY <2>1 DEF IInv, TypeOK, Exists, Absent
  <2>3. /\ row \in Row /\ row.state = token[t].state /\ row.owner = token[t].owner
        /\ row.scope = token[t].scope /\ row.family = token[t].family /\ row.era = token[t].era
    BY <2>2 DEF Row
  <2> HIDE DEF row
  <2>4. \A u \in Tokens : token'[u] = IF u = t THEN row ELSE token[u]
    BY <2>1 DEF IInv, TypeOK
  <2>5. token' \in [Tokens -> Row]
    BY <2>1, <2>3 DEF IInv, TypeOK
  <2>6. \A u \in Tokens : (Exists(u)' <=> Exists(u)) /\ (Exists(u)' => Same(u))
    BY <2>3, <2>4 DEF Exists, Same
  <2> QED  BY <2>1, <2>5, <2>6, AsideIInv DEF IInv, TypeOK
<1>2. CASE Crash
  <2>1. UNCHANGED <<account, badge, token>> /\ req' = [r \in Requests |-> Idle]
    BY <1>2 DEF Crash
  <2>2. TypeOK'
    BY <2>1, BoundAssumption DEF IInv, TypeOK, Request, Idle
  <2> QED  BY <2>1, <2>2, KeptIInv DEF Follows, Exists, Same
<1> QED  BY <1>1, <1>2

(* The invariant is inductive.                                             *)
LEMMA StepIInv == IInv /\ [Next]_vars => IInv'
<1> SUFFICES ASSUME IInv, [Next]_vars PROVE IInv'
  OBVIOUS
<1>1. ASSUME NEW r \in Requests, Continue(r) PROVE IInv'
  BY <1>1, AccountIInv, ReadIInv, EndIInv, IssueFirstIInv, IssueSuccessorIInv DEF Continue
<1>2. CASE UNCHANGED vars
  BY <1>2 DEF vars, IInv, TypeOK, SessionKeepsItsScope, RequestOK, Exists
<1> QED  BY <1>1, <1>2, ArriveIInv, DeskIInv, TimeIInv DEF Next

(* Whatever requests interleave and wherever the process stops, the tables *)
(* keep their types and every token of a session carries the account, the  *)
(* dashboard and the role its sign-in was granted.                         *)
THEOREM SessionsKeepTheirScope == Spec => [](TypeOK /\ SessionKeepsItsScope)
<1>1. IInv => TypeOK /\ SessionKeepsItsScope
  BY DEF IInv
<1> QED  BY InitIInv, StepIInv, <1>1, PTL DEF Spec

(* Every row, token and request has its type in every state.               *)
THEOREM SessionsTypes == Spec => []TypeOK
BY SessionsKeepTheirScope, PTL

LEMMA SessionsInvariant == Spec => []IInv
BY InitIInv, StepIInv, PTL DEF Spec

----------------------------------------------------------------------------
(* What one step can do: to a row, to a request and to a password.  A row  *)
(* is gone, keeps its session (and stays revoked), or was issued by a      *)
(* request under way, into its own family or into one nobody had.          *)
RowStep(t) ==
  \/ ~ Exists(t)'
  \/ Same(t) /\ (token[t].state = "revoked" => token'[t].state = "revoked")
  \/ \E r \in Requests :
       /\ InFlight(r)
       /\ token'[t].owner = req[r].owner /\ token'[t].era = req[r].era
       /\ token'[t].scope = req[r].scope
       /\ \/ req[r].op = "refresh" /\ token'[t].family = req[r].family
          \/ Rows(token'[t].family) = {} /\ IssueFirst(r, t, token'[t].family)

(* A request in flight was so before, or verified the password in force,   *)
(* or presents a live token.                                               *)
ReqStep(r) ==
  InFlight(r)' =>
    \/ /\ InFlight(r) /\ req'[r].owner = req[r].owner
       /\ req'[r].family = req[r].family /\ req'[r].era = req[r].era
    \/ req'[r].family = None /\ req'[r].era = account[req'[r].owner].password
    \/ \E t \in Tokens :
         /\ Exists(t) /\ token[t].state # "revoked" /\ req'[r].owner = token[t].owner
         /\ req'[r].family = token[t].family /\ req'[r].era = token[t].era

(* A password in force stays, is a new choice, or was put back by the      *)
(* rehash of a sign-in that verified it.                                   *)
PasswordStep(a) ==
  /\ account'[a].chosen >= account[a].chosen
  /\ \/ account'[a].password = account[a].password
     \/ account'[a].password > account[a].chosen
     \/ \E r \in Requests :
          InFlight(r) /\ req[r].owner = a /\ req[r].era = account'[a].password

Shape ==
  /\ \A t \in Tokens : RowStep(t)
  /\ \A r \in Requests : ReqStep(r)
  /\ \A a \in Admins : PasswordStep(a)

LEMMA ChosenIsANumber ==
  ASSUME TypeOK, NEW a \in Admins
  PROVE  account[a].chosen \in Nat /\ account[a].password \in Nat
BY BoundAssumption DEF TypeOK, Account

LEMMA AccountsStay ==
  ASSUME TypeOK, UNCHANGED account
  PROVE  \A a \in Admins : PasswordStep(a)
BY ChosenIsANumber DEF PasswordStep

LEMMA RowsStay ==
  ASSUME UNCHANGED token
  PROVE  \A t \in Tokens : RowStep(t)
BY DEF RowStep, Same, Exists

LEMMA RevokedRows ==
  ASSUME TypeOK, NEW S, Revoke(S)
  PROVE  \A t \in Tokens : RowStep(t)
<1>1. \A t \in Tokens : (Exists(t)' <=> Exists(t)) /\ (Exists(t) => Same(t))
  BY RevokeKeeps DEF TypeOK
<1>2. \A t \in Tokens : token[t].state = "revoked" => token'[t].state = "revoked"
  BY DEF Revoke
<1> QED  BY <1>1, <1>2 DEF RowStep

LEMMA RequestsMove ==
  ASSUME TypeOK, NEW r \in Requests, NEW pc, Goto(r, pc) \/ Answer(r), req[r].pc # "end"
  PROVE  \A q \in Requests : ReqStep(q)
<1> SUFFICES ASSUME NEW q \in Requests PROVE ReqStep(q)
  OBVIOUS
<1>1. req[q] \in Request /\ req[r] \in Request
  BY DEF TypeOK
<1>2. req'[q] = req[q] \/ req'[q] = Idle \/ (q = r /\ req'[q] = [req[q] EXCEPT !.pc = pc])
  BY DEF TypeOK, Goto, Answer
<1>3. CASE req'[q] = req[q]
  BY <1>3 DEF ReqStep, InFlight
<1>4. CASE req'[q] = Idle
  BY <1>4 DEF ReqStep, InFlight, Idle
<1>5. CASE q = r /\ req'[q] = [req[q] EXCEPT !.pc = pc]
  BY <1>1, <1>5 DEF ReqStep, InFlight, Request
<1> QED  BY <1>2, <1>3, <1>4, <1>5

LEMMA RequestsAnswered ==
  ASSUME TypeOK, NEW r \in Requests, Answer(r)
  PROVE  \A q \in Requests : ReqStep(q)
<1>1. \A q \in Requests : req'[q] = req[q] \/ req'[q] = Idle
  BY DEF TypeOK, Answer
<1> QED  BY <1>1 DEF ReqStep, InFlight, Idle

LEMMA RequestsStay ==
  ASSUME UNCHANGED req
  PROVE  \A q \in Requests : ReqStep(q)
BY DEF ReqStep, InFlight

LEMMA ArriveShape ==
  ASSUME IInv, NEW r \in Requests, Arrive(r)
  PROVE  Shape
<1>1. UNCHANGED <<account, badge, token>>
  BY DEF Arrive, NewPassword, Deactivate, Login, Refresh
<1>2. \A q \in Requests : q # r => ReqStep(q)
  <2>1. \E x : Begin(r, x)
    BY DEF Arrive, NewPassword, Deactivate, Login, Refresh, Presented
  <2>2. \A q \in Requests : q # r => req'[q] = req[q]
    BY <2>1 DEF Begin, IInv, TypeOK
  <2> QED  BY <2>2 DEF ReqStep, InFlight
<1>3. ReqStep(r)
  <2>1. ASSUME NEW a \in Admins, NewPassword(r, a) \/ Deactivate(r, a) PROVE ReqStep(r)
    <3>1. req'[r].op \in {"password", "deactivate"}
      BY <2>1 DEF NewPassword, Deactivate, Begin, Concerning, IInv, TypeOK
    <3> QED  BY <3>1 DEF ReqStep, InFlight
  <2>2. ASSUME NEW a \in Admins, NEW s \in Scopes, Login(r, a, s) PROVE ReqStep(r)
    <3>1. req'[r].family = None /\ req'[r].owner = a /\ req'[r].era = account[a].password
      BY <2>2 DEF Login, Begin, IInv, TypeOK
    <3> QED  BY <3>1 DEF ReqStep
  <2>3. ASSUME NEW t \in Tokens, Refresh(r, t) PROVE ReqStep(r)
    <3>1. CASE Presented(r, t, "end")
      <4>1. req'[r].pc = "end"
        BY <3>1 DEF Presented, Begin, IInv, TypeOK
      <4> QED  BY <4>1 DEF ReqStep, InFlight
    <3>2. CASE Usable(t) /\ Presented(r, t, "account")
      <4>1. req'[r].owner = token[t].owner /\ req'[r].family = token[t].family
            /\ req'[r].era = token[t].era
        BY <3>2 DEF Presented, Begin, IInv, TypeOK
      <4>2. Exists(t) /\ token[t].state # "revoked"
        BY <3>2 DEF Usable, Exists
      <4> QED  BY <4>1, <4>2 DEF ReqStep
    <3> QED  BY <2>3, <3>1, <3>2 DEF Refresh
  <2> QED  BY <2>1, <2>2, <2>3 DEF Arrive
<1> QED  BY <1>1, <1>2, <1>3, AccountsStay, RowsStay DEF Shape, IInv

(* The steps of a request that issue no token and write no account.        *)
LEMMA PlainShape ==
  ASSUME IInv, NEW r \in Requests,
         ResolveScope(r) \/ RefreshAccount(r) \/ RefreshRetire(r) \/ EndFamily(r) \/ RevokeSessions(r)
  PROVE  Shape
<1>1. UNCHANGED account
  BY DEF ResolveScope, RefreshAccount, RefreshRetire, EndFamily, RevokeSessions
<1>2. CASE ResolveScope(r) \/ RefreshAccount(r)
  <2>1. UNCHANGED token /\ req[r].pc # "end"
    BY <1>2 DEF ResolveScope, RefreshAccount, At
  <2>2. PICK pc \in {"issue", "scope", "end"} : Goto(r, pc) \/ Answer(r)
    BY <1>2 DEF ResolveScope, RefreshAccount
  <2> QED  BY <1>1, <2>1, <2>2, AccountsStay, RowsStay, RequestsMove DEF Shape, IInv
<1>3. CASE RefreshRetire(r) \/ EndFamily(r) \/ RevokeSessions(r)
  <2>1. Answer(r) /\ \E S : Revoke(S)
    BY <1>3 DEF RefreshRetire, EndFamily, RevokeSessions
  <2> QED  BY <1>1, <2>1, AccountsStay, RevokedRows, RequestsAnswered DEF Shape, IInv
<1> QED  BY <1>2, <1>3

LEMMA AccountShape ==
  ASSUME IInv, NEW r \in Requests,
         LoginRehash(r) \/ StorePassword(r) \/ DisableAccount(r)
  PROVE  Shape
<1>1. UNCHANGED token /\ req[r].pc # "end" /\ \E pc : Goto(r, pc)
  BY DEF LoginRehash, StorePassword, DisableAccount, At
<1>2. ASSUME NEW a \in Admins PROVE PasswordStep(a)
  <2>1. account[a].chosen \in Nat /\ account[a].password \in Nat /\ account[a] \in Account
    BY ChosenIsANumber DEF IInv, TypeOK
  <2>2. CASE LoginRehash(r) /\ req[r].owner = a
    <3>1. account'[a] = [account[a] EXCEPT !.password = req[r].era, !.weak = FALSE]
      BY <2>2 DEF LoginRehash, IInv, TypeOK
    <3>2. account'[a].password = req[r].era /\ account'[a].chosen = account[a].chosen
      BY <2>1, <3>1 DEF Account
    <3>3. InFlight(r)
      BY <2>2 DEF LoginRehash, At, InFlight
    <3> QED  BY <2>1, <2>2, <3>2, <3>3 DEF PasswordStep
  <2>3. CASE StorePassword(r) /\ req[r].owner = a
    <3> DEFINE n == account[a].chosen + 1
    <3>1. account'[a] = [account[a] EXCEPT !.password = n, !.chosen = n, !.weak = FALSE]
      BY <2>3 DEF StorePassword, IInv, TypeOK
    <3>2. n > account[a].chosen /\ n >= account[a].chosen
      BY <2>1
    <3> HIDE DEF n
    <3>3. account'[a].password = n /\ account'[a].chosen = n
      BY <2>1, <3>1 DEF Account
    <3> QED  BY <3>2, <3>3 DEF PasswordStep
  <2>4. CASE DisableAccount(r) /\ req[r].owner = a
    <3>1. account'[a] = [account[a] EXCEPT !.active = FALSE]
      BY <2>4 DEF DisableAccount, IInv, TypeOK
    <3>2. account'[a].password = account[a].password /\ account'[a].chosen = account[a].chosen
      BY <2>1, <3>1 DEF Account
    <3> QED  BY <2>1, <3>2 DEF PasswordStep
  <2>5. CASE req[r].owner # a
    <3>1. account'[a] = account[a]
      BY <2>5 DEF LoginRehash, StorePassword, DisableAccount, IInv, TypeOK
    <3> QED  BY <2>1, <3>1 DEF PasswordStep
  <2> QED  BY <2>2, <2>3, <2>4, <2>5
<1> QED  BY <1>1, <1>2, RowsStay, RequestsMove DEF Shape, IInv

LEMMA IssueShape ==
  ASSUME IInv, NEW r \in Requests, NEW t \in Tokens,
         IssueSuccessor(r, t) \/ \E f \in Families : IssueFirst(r, t, f)
  PROVE  Shape
<1>1. UNCHANGED account /\ InFlight(r) /\ req[r].pc # "end" /\ (Answer(r) \/ Goto(r, "retire"))
  BY DEF IssueSuccessor, IssueFirst, At, InFlight
<1>2. ASSUME NEW u \in Tokens PROVE RowStep(u)
  <2>1. CASE IssueSuccessor(r, t)
    <3> DEFINE p == req[r].parent
               row == Issued(r, req[r].scope, req[r].family)
               old == [token[p] EXCEPT !.heirs = More(token[p].heirs)]
    <3>1. /\ p \in Tokens /\ Exists(p) /\ p # t
          /\ token' = [token EXCEPT ![t] = row, ![p].heirs = More(@)]
      BY <2>1 DEF IssueSuccessor, IInv, RequestOK, At, FreshToken
    <3>2. token[p] \in Row /\ token[p] # Absent
      BY <3>1 DEF IInv, TypeOK, Exists, Absent
    <3>3. old.family = token[p].family /\ old.owner = token[p].owner /\ old.state = token[p].state
          /\ old.scope = token[p].scope /\ old.era = token[p].era
      BY <3>2 DEF Row
    <3>4. /\ row.owner = req[r].owner /\ row.era = req[r].era /\ row.family = req[r].family
          /\ row.scope = req[r].scope /\ req[r].op = "refresh"
      BY <2>1 DEF Issued, IssueSuccessor, At
    <3>5. token'[u] = IF u = t THEN row ELSE IF u = p THEN old ELSE token[u]
      BY <3>1 DEF IInv, TypeOK
    <3> HIDE DEF row, old
    <3>6. CASE u = t
      BY <1>1, <3>4, <3>5, <3>6 DEF RowStep
    <3>7. CASE u = p
      BY <3>1, <3>3, <3>5, <3>7 DEF RowStep, Same
    <3>8. CASE u # t /\ u # p
      BY <3>5, <3>8 DEF RowStep, Same, Exists
    <3> QED  BY <3>6, <3>7, <3>8
  <2>2. ASSUME NEW f \in Families, IssueFirst(r, t, f) PROVE RowStep(u)
    <3> DEFINE row == Issued(r, req[r].scope, f)
    <3>1. token'[u] = IF u = t THEN row ELSE token[u]
      BY <2>2 DEF IssueFirst, IInv, TypeOK
    <3>2. /\ row.owner = req[r].owner /\ row.era = req[r].era /\ row.family = f
          /\ row.scope = req[r].scope /\ Rows(f) = {}
      BY <2>2 DEF Issued, IssueFirst, FreshFamily
    <3> HIDE DEF row
    <3>3. CASE u = t
      BY <1>1, <2>2, <3>1, <3>2, <3>3 DEF RowStep
    <3>4. CASE u # t
      BY <3>1, <3>4 DEF RowStep, Same, Exists
    <3> QED  BY <3>3, <3>4
  <2> QED  BY <2>1, <2>2
<1> QED  BY <1>1, <1>2, AccountsStay, RequestsMove DEF Shape, IInv

LEMMA AsideShape ==
  ASSUME IInv, Desk \/ (\E t \in Tokens : Expire(t)) \/ Crash \/ UNCHANGED vars
  PROVE  Shape
<1>1. ASSUME NEW t \in Tokens, Logout(t) PROVE Shape
  BY <1>1, AccountsStay, RevokedRows, RequestsStay DEF Logout, Shape, IInv
<1>2. ASSUME NEW a \in Admins, LogoutEverywhere(a) PROVE Shape
  BY <1>2, AccountsStay, RevokedRows, RequestsStay DEF LogoutEverywhere, Shape, IInv
<1>3. ASSUME NEW t \in Tokens, PurgeExpiredTokens(t) PROVE Shape
  <2>1. \A u \in Tokens : token'[u] = IF u = t THEN Absent ELSE token[u]
    BY <1>3 DEF PurgeExpiredTokens, IInv, TypeOK
  <2>2. \A u \in Tokens : RowStep(u)
    BY <2>1 DEF RowStep, Same, Exists, Absent
  <2> QED  BY <1>3, <2>2, AccountsStay, RequestsStay DEF PurgeExpiredTokens, Shape, IInv
<1>4. ASSUME NEW a \in Admins, Reactivate(a) PROVE Shape
  <2>1. ASSUME NEW b \in Admins PROVE PasswordStep(b)
    <3>1. account[b].chosen \in Nat /\ account[b] \in Account
      BY ChosenIsANumber DEF IInv, TypeOK
    <3>2. account'[b] = account[b] \/ account'[b] = [account[b] EXCEPT !.active = TRUE]
      BY <1>4 DEF Reactivate, IInv, TypeOK
    <3>3. account'[b].password = account[b].password /\ account'[b].chosen = account[b].chosen
      BY <3>1, <3>2 DEF Account
    <3> QED  BY <3>1, <3>3 DEF PasswordStep
  <2> QED  BY <1>4, <2>1, RowsStay, RequestsStay DEF Reactivate, Shape
<1>5. ASSUME NEW a \in Admins, NEW s \in Scopes, ChangeBadge(a, s) PROVE Shape
  BY <1>5, AccountsStay, RowsStay, RequestsStay DEF ChangeBadge, Shape, IInv
<1>6. ASSUME NEW t \in Tokens, Expire(t) PROVE Shape
  <2>1. ASSUME NEW u \in Tokens PROVE RowStep(u)
    <3>1. CASE u # t \/ ~ Exists(u)
      BY <1>6, <3>1 DEF Expire, RowStep, Same, Exists, IInv, TypeOK
    <3>2. CASE u = t /\ Exists(u)
      <4>1. token[u] \in Row /\ token[u] # Absent /\ token'[u] = [token[u] EXCEPT !.expired = TRUE]
        BY <1>6, <3>2 DEF Expire, Exists, Absent, IInv, TypeOK
      <4>2. /\ token'[u].state = token[u].state /\ token'[u].owner = token[u].owner
            /\ token'[u].scope = token[u].scope /\ token'[u].family = token[u].family
            /\ token'[u].era = token[u].era
        BY <4>1 DEF Row
      <4> QED  BY <3>2, <4>2 DEF RowStep, Same
    <3> QED  BY <3>1, <3>2
  <2> QED  BY <1>6, <2>1, AccountsStay, RequestsStay DEF Expire, Shape, IInv
<1>7. CASE Crash
  <2>1. \A r \in Requests : ReqStep(r)
    BY <1>7 DEF Crash, ReqStep, InFlight, Idle
  <2> QED  BY <1>7, <2>1, AccountsStay, RowsStay DEF Crash, Shape, IInv
<1>8. CASE UNCHANGED vars
  BY <1>8, AccountsStay, RowsStay, RequestsStay DEF vars, Shape, IInv
<1> QED  BY <1>1, <1>2, <1>3, <1>4, <1>5, <1>6, <1>7, <1>8 DEF Desk

LEMMA StepShape == IInv /\ [Next]_vars => Shape
<1> SUFFICES ASSUME IInv, [Next]_vars PROVE Shape
  OBVIOUS
<1>1. ASSUME NEW r \in Requests, Continue(r) PROVE Shape
  BY <1>1, PlainShape, AccountShape, IssueShape DEF Continue
<1> QED  BY <1>1, ArriveShape, AsideShape DEF Next

----------------------------------------------------------------------------
LEMMA EndedStays ==
  ASSUME IInv, Shape, NEW f \in Families, Ended(f)
  PROVE  Ended(f)' \/ (Rows(f) = {})'
<1>1. ASSUME NEW t \in Tokens, Exists(t)', token'[t].family = f
      PROVE  token'[t].state = "revoked"
  BY <1>1 DEF Shape, RowStep, Same, Ended, Rows
<1>2. ASSUME NEW r \in Requests, InFlight(r)', req'[r].family = f
      PROVE  FALSE
  BY <1>2, NoneAssumption DEF Shape, ReqStep, Ended, Rows
<1>3. \A t \in Rows(f)' : token'[t].state = "revoked"
  BY <1>1 DEF Rows
<1>4. \A r \in Requests : ~ (InFlight(r)' /\ req'[r].family = f)
  BY <1>2
<1> QED  BY <1>3, <1>4 DEF Ended

LEMMA SpentStays ==
  ASSUME IInv, Shape, NEW a \in Admins, NEW p \in 0..MaxPassword, Spent(a, p), TypeOK'
  PROVE  Spent(a, p)'
<1>1. /\ account[a].chosen \in Nat /\ account'[a].chosen \in Nat /\ account'[a].password \in Nat
      /\ p \in Nat
  BY ChosenIsANumber, BoundAssumption DEF IInv, TypeOK, Account
<1>2. p <= account'[a].chosen /\ p # account'[a].password
  BY <1>1 DEF Shape, PasswordStep, Spent
<1>3. ASSUME NEW t \in Tokens, Exists(t)', token'[t].owner = a, token'[t].era = p
      PROVE  token'[t].state = "revoked"
  BY <1>3 DEF Shape, RowStep, Same, Spent, Owned
<1>4. ASSUME NEW r \in Requests, InFlight(r)', req'[r].owner = a, req'[r].era = p
      PROVE  FALSE
  BY <1>4 DEF Shape, ReqStep, Spent, Owned
<1>5. \A t \in Owned(a)' : token'[t].era = p => token'[t].state = "revoked"
  BY <1>3 DEF Owned
<1>6. \A r \in Requests : ~ (InFlight(r)' /\ req'[r].owner = a /\ req'[r].era = p)
  BY <1>4
<1> QED  BY <1>2, <1>5, <1>6 DEF Spent

(* refresh and logout: a session that was ended, and that no refresh is    *)
(* under way for, never has a live token again.                            *)
THEOREM EndedSessionsAreOver == Spec => EndedSessionStaysEnded
<1>1. IInv /\ [Next]_vars =>
        [\A f \in Families : Ended(f) => Ended(f)' \/ (Rows(f) = {})']_vars
  BY StepShape, EndedStays
<1> QED  BY <1>1, SessionsInvariant, PTL DEF Spec, EndedSessionStaysEnded

(* changePassword and setPassword: a replaced password whose sessions are  *)
(* over opens the account to nobody again, rehashes included.              *)
THEOREM SpentPasswordsAreOver == Spec => SpentPasswordStaysSpent
<1>1. IInv /\ [Next]_vars =>
        [\A a \in Admins, p \in 0..MaxPassword : Spent(a, p) => Spent(a, p)']_vars
  <2>1. ASSUME IInv, [Next]_vars, NEW a \in Admins, NEW p \in 0..MaxPassword, Spent(a, p)
        PROVE  Spent(a, p)'
    <3>1. TypeOK'
      BY <2>1, StepIInv DEF IInv
    <3> QED  BY <2>1, <3>1, StepShape, SpentStays
  <2> QED  BY <2>1
<1> QED  BY <1>1, SessionsInvariant, PTL DEF Spec, SpentPasswordStaysSpent

----------------------------------------------------------------------------
(* The families of tokens are the sessions of SessionBook.                 *)
Of(t, f) == [state |-> IF Ended(f) THEN "over" ELSE "open",
             owner |-> token[t].owner, scope |-> token[t].scope, era |-> token[t].era]

(* Any row of a family will do to tell what it is a session of.            *)
LEMMA SessionIsAnyRow ==
  ASSUME IInv, NEW f \in Families, NEW t \in Rows(f)
  PROVE  SessionOf(f) = Of(t, f)
<1> DEFINE u == CHOOSE u \in Rows(f) : TRUE
<1>1. u \in Rows(f)
  OBVIOUS
<1>2. SessionOf(f) = Of(u, f)
  BY DEF SessionOf, Of
<1> HIDE DEF u
<1>3. token[u].owner = token[t].owner /\ token[u].scope = token[t].scope /\ token[u].era = token[t].era
  BY <1>1 DEF IInv, SessionKeepsItsScope, Rows
<1> QED  BY <1>2, <1>3 DEF Of

LEMMA SessionIsAnyLaterRow ==
  ASSUME IInv', NEW f \in Families, NEW t \in Tokens, t \in Rows(f)'
  PROVE  SessionOf(f)' = Of(t, f)'
<1> DEFINE u == CHOOSE u \in Rows(f)' : TRUE
<1>1. u \in Rows(f)'
  OBVIOUS
<1>2. SessionOf(f)' = [state |-> IF Ended(f)' THEN "over" ELSE "open", owner |-> token'[u].owner,
                       scope |-> token'[u].scope, era |-> token'[u].era]
  BY DEF SessionOf
<1> HIDE DEF u
<1>3. token'[u].owner = token'[t].owner /\ token'[u].scope = token'[t].scope
      /\ token'[u].era = token'[t].era
  BY <1>1 DEF IInv, SessionKeepsItsScope, Rows
<1> QED  BY <1>2, <1>3 DEF Of

LEMMA NoRowNoSession ==
  ASSUME NEW f \in Families, Rows(f) = {}
  PROVE  SessionOf(f) = Book!NoSession
BY DEF SessionOf, Book!NoSession

(* Without a sign-in no family gets its first row, and a row it still has  *)
(* agrees with one it had.                                                 *)
LEMMA RowsAgree ==
  ASSUME IInv, Shape, NEW f \in Families, NEW t \in Rows(f)',
         \A r \in Requests : ~ IssueFirst(r, t, f)
  PROVE  \E u \in Rows(f) : /\ token'[t].owner = token[u].owner
                            /\ token'[t].scope = token[u].scope
                            /\ token'[t].era = token[u].era
<1>1. t \in Tokens /\ Exists(t)' /\ token'[t].family = f
  BY DEF Rows
<1>2. CASE Same(t)
  BY <1>1, <1>2 DEF Same, Rows
<1>3. CASE ~ Same(t)
  <2>1. PICK r \in Requests :
          /\ token'[t].owner = req[r].owner /\ token'[t].era = req[r].era
          /\ token'[t].scope = req[r].scope
          /\ req[r].op = "refresh" /\ f = req[r].family
    BY <1>1, <1>3 DEF Shape, RowStep
  <2>2. RequestOK(r)
    BY DEF IInv
  <2> QED  BY <2>1, <2>2 DEF RequestOK, Rows
<1> QED  BY <1>2, <1>3

LEMMA SessionPasses ==
  ASSUME IInv, IInv', Shape, NEW f \in Families,
         \A r \in Requests, t \in Tokens : ~ IssueFirst(r, t, f)
  PROVE  SessionOf(f)' \in Book!Later(SessionOf(f))
<1>1. CASE (Rows(f) = {})'
  <2>1. SessionOf(f)' = Book!NoSession
    BY <1>1 DEF SessionOf, Book!NoSession
  <2> QED  BY <2>1 DEF Book!Later
<1>2. CASE (Rows(f) # {})'
  <2>1. PICK t \in Tokens : t \in Rows(f)'
    BY <1>2 DEF Rows
  <2>2. SessionOf(f)' = Of(t, f)'
    BY <2>1, SessionIsAnyLaterRow
  <2>3. PICK u \in Rows(f) : /\ token'[t].owner = token[u].owner
                             /\ token'[t].scope = token[u].scope
                             /\ token'[t].era = token[u].era
    BY <2>1, RowsAgree
  <2>4. SessionOf(f) = Of(u, f)
    BY SessionIsAnyRow
  <2>5. Ended(f) => Ended(f)'
    BY <1>2, EndedStays
  <2>6. SessionOf(f)' = [state |-> IF Ended(f)' THEN "over" ELSE "open",
                         owner |-> token[u].owner, scope |-> token[u].scope, era |-> token[u].era]
    BY <2>1, <2>2, <2>3 DEF Of
  <2>7. SessionOf(f)' = SessionOf(f) \/ SessionOf(f)' = [SessionOf(f) EXCEPT !.state = "over"]
    BY <2>4, <2>5, <2>6 DEF Of
  <2>8. SessionOf(f) # Book!NoSession
    <3>1. SessionOf(f).state # "none"
      BY <2>4 DEF Of
    <3> QED  BY <3>1 DEF Book!NoSession
  <2> QED  BY <2>7, <2>8 DEF Book!Later
<1> QED  BY <1>1, <1>2

(* The first token of a family signs a session in and leaves the others.   *)
LEMMA SignInIsASignIn ==
  ASSUME IInv, NEW r \in Requests, NEW t \in Tokens, NEW f \in Families, IssueFirst(r, t, f)
  PROVE  \E a \in Admins, s \in Scopes, e \in 0..MaxPassword : Book!SignIn(f, a, s, e)
<1> DEFINE a == req[r].owner
           s == req[r].scope
           e == req[r].era
<1>1. a \in Admins /\ s \in Scopes /\ e \in 0..MaxPassword /\ req[r].family = None
  BY DEF IssueFirst, At, IInv, RequestOK, TypeOK, Request
<1>2. /\ token'[t] = Issued(r, s, f)
      /\ \A u \in Tokens : u # t => token'[u] = token[u]
      /\ ~ Exists(t) /\ Rows(f) = {}
  BY DEF IssueFirst, FreshToken, FreshFamily, IInv, TypeOK
<1>3. Rows(f)' = {t} /\ \A g \in Families : g # f => Rows(g)' = Rows(g) /\ t \notin Rows(g)
  BY <1>2 DEF Rows, Exists, Issued
<1>4. ~ Ended(f)'
  BY <1>2, <1>3 DEF Ended, Issued
<1>5. SessionOf(f)' = [state |-> "open", owner |-> a, scope |-> s, era |-> e]
  <2>1. (CHOOSE u \in {t} : TRUE) = t
    OBVIOUS
  <2> QED  BY <1>2, <1>3, <1>4, <2>1 DEF SessionOf, Issued
<1>6. ASSUME NEW g \in Families, g # f PROVE SessionOf(g)' = SessionOf(g)
  <2>1. \A u \in Rows(g) : token'[u] = token[u]
    BY <1>2, <1>3, <1>6 DEF Rows
  <2>2. \A q \in Requests : req'[q] = IF q = r THEN Idle ELSE req[q]
    BY DEF IssueFirst, Answer, IInv, TypeOK
  <2>3. g # None
    BY NoneAssumption
  <2>4. \A q \in Requests :
          (InFlight(q)' /\ req'[q].family = g) <=> (InFlight(q) /\ req[q].family = g)
    BY <1>1, <2>2, <2>3 DEF InFlight, Idle
  <2>5. Rows(g)' = Rows(g)
    BY <1>3, <1>6
  <2>6. Ended(g)' <=> Ended(g)
    BY <2>1, <2>4, <2>5 DEF Ended
  <2>7. CASE Rows(g) = {}
    BY <2>5, <2>7 DEF SessionOf
  <2>8. CASE Rows(g) # {}
    <3> DEFINE u == CHOOSE u \in Rows(g) : TRUE
    <3>1. u \in Rows(g) /\ (CHOOSE v \in Rows(g)' : TRUE) = u
      BY <2>5, <2>8
    <3>2. token'[u] = token[u]
      BY <2>1, <3>1
    <3> QED  BY <2>5, <2>6, <2>8, <3>1, <3>2 DEF SessionOf
  <2> QED  BY <2>7, <2>8
<1>7. SessionOf(f) = Book!NoSession
  BY <1>2, NoRowNoSession
<1>8. Book!SignIn(f, a, s, e)
  BY <1>5, <1>6, <1>7 DEF Book!SignIn
<1> QED  BY <1>1, <1>8

LEMMA BookStep ==
  ASSUME IInv, IInv', [Next]_vars
  PROVE  Book!Next
<1>1. CASE \E r \in Requests, t \in Tokens, f \in Families : IssueFirst(r, t, f)
  BY <1>1, SignInIsASignIn DEF Book!Next
<1>2. CASE ~ \E r \in Requests, t \in Tokens, f \in Families : IssueFirst(r, t, f)
  <2>1. \A f \in Families : SessionOf(f)' \in Book!Later(SessionOf(f))
    BY <1>2, StepShape, SessionPasses
  <2> QED  BY <2>1 DEF Book!Next, Book!Pass
<1> QED  BY <1>1, <1>2

LEMMA BookInitially == Init => Book!Init
BY DEF Init, Exists, Absent, Rows, SessionOf, Book!Init, Book!NoSession

(* Whatever is rotated, replayed, revoked or purged, and wherever the      *)
(* process stops, the tokens of every family stand for one session of one  *)
(* account in one scope behind one password, and a session that is over    *)
(* never begins again: auth.service.ts keeps the book of SessionBook.      *)
THEOREM SessionsImplementBook == Spec => ImplementsSessionBook
<1>1. IInv /\ IInv' /\ [Next]_vars => [Book!Next]_([f \in Families |-> SessionOf(f)])
  BY BookStep
<1> QED  BY BookInitially, SessionsInvariant, <1>1, PTL DEF Spec, ImplementsSessionBook, Book!Spec

----------------------------------------------------------------------------
(* What the two refuted promises come to.  A token that was retired, with  *)
(* no refresh of it between its read and its insert.                       *)
Spending(r, t) ==
  req[r].op = "refresh" /\ req[r].parent = t /\ req[r].pc \in {"account", "scope", "issue"}

Retired(t) == token[t].state = "revoked" /\ \A r \in Requests : ~ Spending(r, t)

(* Nothing is under way that could open or extend a session of a.          *)
Unattended(a) == \A r \in Requests : ~ (InFlight(r) /\ req[r].owner = a)

(* Who is on the way to issue a successor was so, or presented a live one. *)
LEMMA SpendingStarts ==
  ASSUME IInv, [Next]_vars, NEW t \in Tokens, Retired(t), NEW r \in Requests
  PROVE  ~ Spending(r, t)'
<1>1. req \in [Requests -> Request] /\ \A q \in Requests : ~ Spending(q, t)
  BY DEF IInv, TypeOK, Retired
<1>2. CASE req'[r] = req[r]
  BY <1>1, <1>2 DEF Spending
<1>3. CASE req'[r] = Idle
  BY <1>3 DEF Spending, Idle
<1>4. ASSUME NEW q \in Requests, Arrive(q) PROVE ~ Spending(r, t)'
  <2>1. CASE r # q
    <3>1. req'[r] = req[r]
      BY <1>1, <1>4, <2>1 DEF Arrive, NewPassword, Deactivate, Login, Refresh, Presented, Begin
    <3> QED  BY <1>2, <3>1
  <2>2. ASSUME r = q, NEW u \in Tokens, Refresh(r, u) PROVE ~ Spending(r, t)'
    <3>1. req'[r].parent = u /\ (req'[r].pc = "end" \/ Usable(u))
      BY <1>1, <2>2 DEF Refresh, Presented, Begin
    <3> QED  BY <3>1 DEF Spending, Retired, Usable
  <2>3. CASE r = q /\ ~ \E u \in Tokens : Refresh(r, u)
    <3>1. req'[r].op # "refresh"
      BY <1>1, <1>4, <2>3 DEF Arrive, NewPassword, Deactivate, Login, Begin, Concerning
    <3> QED  BY <3>1 DEF Spending
  <2> QED  BY <2>1, <2>2, <2>3
<1>5. ASSUME NEW q \in Requests, Continue(q) PROVE ~ Spending(r, t)'
  <2>1. PICK pc \in {"scope", "issue", "end", "retire", "revokeAll"} :
          /\ Goto(q, pc) \/ Answer(q)
          /\ pc \in {"scope", "issue"} /\ req[q].op = "refresh" => req[q].pc \in {"account", "scope"}
    BY <1>5 DEF Continue, LoginRehash, ResolveScope, IssueSuccessor, IssueFirst, RefreshAccount,
                RefreshRetire, EndFamily, StorePassword, DisableAccount, RevokeSessions, At
  <2>2. req'[r] = req[r] \/ req'[r] = Idle \/ (r = q /\ req'[r] = [req[r] EXCEPT !.pc = pc])
    BY <1>1, <2>1 DEF Goto, Answer
  <2>3. CASE r = q /\ req'[r] = [req[r] EXCEPT !.pc = pc]
    <3>1. req[r] \in Request
      BY <1>1
    <3>2. /\ req'[r].op = req[r].op /\ req'[r].parent = req[r].parent /\ req'[r].pc = pc
      BY <2>3, <3>1 DEF Request
    <3> QED  BY <1>1, <2>1, <2>3, <3>2 DEF Spending
  <2> QED  BY <1>2, <1>3, <2>2, <2>3
<1>6. CASE Desk \/ (\E u \in Tokens : Expire(u)) \/ Crash \/ UNCHANGED vars
  BY <1>2, <1>3, <1>6 DEF Desk, Logout, PurgeExpiredTokens, LogoutEverywhere, Reactivate,
                          ChangeBadge, Expire, Crash, vars
<1> QED  BY <1>4, <1>5, <1>6 DEF Next

LEMMA RetiredKeepsHeirs ==
  ASSUME IInv, [Next]_vars, NEW t \in Tokens, Retired(t), Exists(t)'
  PROVE  token'[t].state = "revoked" /\ token'[t].heirs = token[t].heirs
<1>1. token[t] \in Row /\ token[t] # Absent /\ Exists(t) /\ token[t].state = "revoked"
  BY DEF IInv, TypeOK, Retired, Absent, Exists
<1>2. CASE token'[t] = token[t]
  BY <1>1, <1>2
<1>3. CASE \E S : Revoke(S)
  <2>1. token'[t] = token[t]
    BY <1>1, <1>3 DEF Revoke
  <2> QED  BY <1>2, <2>1
<1>4. ASSUME NEW r \in Requests, Continue(r)
      PROVE  token'[t].state = "revoked" /\ token'[t].heirs = token[t].heirs
  <2>1. ASSUME NEW u \in Tokens, IssueSuccessor(r, u) PROVE token'[t] = token[t]
    <3>1. req[r].parent # t /\ u # t
      BY <1>1, <2>1 DEF IssueSuccessor, At, Retired, Spending, FreshToken
    <3> QED  BY <2>1, <3>1 DEF IssueSuccessor, IInv, TypeOK
  <2>2. ASSUME NEW u \in Tokens, NEW f \in Families, IssueFirst(r, u, f) PROVE token'[t] = token[t]
    <3>1. u # t
      BY <1>1, <2>2 DEF IssueFirst, FreshToken
    <3> QED  BY <2>2, <3>1 DEF IssueFirst, IInv, TypeOK
  <2>3. CASE LoginRehash(r) \/ ResolveScope(r) \/ RefreshAccount(r) \/ StorePassword(r)
             \/ DisableAccount(r)
    BY <1>2, <2>3 DEF LoginRehash, ResolveScope, RefreshAccount, StorePassword, DisableAccount
  <2>4. CASE RefreshRetire(r) \/ EndFamily(r) \/ RevokeSessions(r)
    BY <1>3, <2>4 DEF RefreshRetire, EndFamily, RevokeSessions
  <2> QED  BY <1>2, <1>4, <2>1, <2>2, <2>3, <2>4 DEF Continue
<1>5. ASSUME NEW r \in Requests, Arrive(r)
      PROVE  token'[t].state = "revoked" /\ token'[t].heirs = token[t].heirs
  BY <1>2, <1>5 DEF Arrive, NewPassword, Deactivate, Login, Refresh
<1>6. ASSUME NEW u \in Tokens, PurgeExpiredTokens(u) \/ Expire(u)
      PROVE  token'[t].state = "revoked" /\ token'[t].heirs = token[t].heirs
  <2>1. token' = [token EXCEPT ![u] = Absent] \/ token' = [token EXCEPT ![u].expired = TRUE]
    BY <1>6 DEF PurgeExpiredTokens, Expire
  <2>2. token'[t] = token[t] \/ token'[t] = Absent \/ token'[t] = [token[t] EXCEPT !.expired = TRUE]
    BY <2>1 DEF IInv, TypeOK
  <2> QED  BY <1>1, <2>2 DEF Row, Exists, Absent
<1>7. CASE (\E u \in Tokens : Logout(u)) \/ (\E a \in Admins : LogoutEverywhere(a))
  BY <1>3, <1>7 DEF Logout, LogoutEverywhere
<1>8. CASE (\E a \in Admins : Reactivate(a)) \/ (\E a \in Admins, s \in Scopes : ChangeBadge(a, s))
           \/ Crash \/ UNCHANGED vars
  BY <1>2, <1>8 DEF Reactivate, ChangeBadge, Crash, vars
<1> QED  BY <1>4, <1>5, <1>6, <1>7, <1>8 DEF Next, Desk

(* refresh, "each token is single-use":  a fork needs a refresh that read  *)
(* the token before it was retired.  Once a token is retired and no such   *)
(* refresh is left, nothing presented later gets a successor out of it.    *)
THEOREM RetiredTokensAreUsedUp ==
  Spec => [][\A t \in Tokens : Retired(t) =>
               ~ Exists(t)' \/ (Retired(t)' /\ token'[t].heirs = token[t].heirs)]_vars
<1>1. IInv /\ [Next]_vars =>
        [\A t \in Tokens : Retired(t) =>
           ~ Exists(t)' \/ (Retired(t)' /\ token'[t].heirs = token[t].heirs)]_vars
  <2>1. ASSUME IInv, [Next]_vars, NEW t \in Tokens, Retired(t), Exists(t)'
        PROVE  Retired(t)' /\ token'[t].heirs = token[t].heirs
    <3>1. \A r \in Requests : ~ Spending(r, t)'
      BY <2>1, SpendingStarts
    <3> QED  BY <2>1, <3>1, RetiredKeepsHeirs DEF Retired
  <2> QED  BY <2>1
<1> QED  BY <1>1, SessionsInvariant, PTL DEF Spec

LEMMA RevokedIsSpent ==
  ASSUME IInv, NEW a \in Admins, NEW r \in Requests, RevokeSessions(r), req[r].owner = a,
         Unattended(a), NEW p \in 0..MaxPassword, p <= account[a].chosen, p # account[a].password
  PROVE  Spent(a, p)'
<1>1. UNCHANGED account /\ Revoke(Owned(a)) /\ Answer(r)
  BY DEF RevokeSessions
<1>2. ASSUME NEW t \in Tokens, Exists(t)', token'[t].owner = a
      PROVE  token'[t].state = "revoked"
  <2>1. Exists(t) /\ Same(t)
    BY <1>1, <1>2, RevokeKeeps DEF IInv, TypeOK
  <2>2. t \in Owned(a)
    BY <1>2, <2>1 DEF Same, Owned
  <2>3. token[t] \in Row /\ token[t] # Absent
    BY <2>1 DEF IInv, TypeOK, Exists, Absent
  <2>4. CASE token[t].state = "live"
    BY <1>1, <2>2, <2>3, <2>4 DEF Revoke, Row
  <2>5. CASE token[t].state # "live"
    BY <1>1, <2>3, <2>5 DEF Revoke, Row
  <2> QED  BY <2>4, <2>5
<1>3. ASSUME NEW q \in Requests PROVE ~ (InFlight(q)' /\ req'[q].owner = a)
  <2>1. req'[q] = req[q] \/ req'[q] = Idle
    BY <1>1 DEF Answer, IInv, TypeOK
  <2> QED  BY <2>1 DEF Unattended, InFlight, Idle
<1>4. \A t \in Owned(a)' : token'[t].state = "revoked"
  BY <1>2 DEF Owned
<1> QED  BY <1>1, <1>3, <1>4 DEF Spent

(* changePassword, "has to end the sessions the attacker might be          *)
(* holding":  it does, when no sign-in and no refresh of the account sits  *)
(* between two of its statements as the sessions are revoked; with         *)
(* SpentPasswordsAreOver every earlier password then stays useless.        *)
THEOREM ChangedPasswordsAreSpent ==
  Spec => [][\A a \in Admins, r \in Requests, p \in 0..MaxPassword :
               /\ RevokeSessions(r) /\ req[r].owner = a /\ Unattended(a)
               /\ p <= account[a].chosen /\ p # account[a].password
               => Spent(a, p)']_vars
<1>1. IInv /\ [Next]_vars =>
        [\A a \in Admins, r \in Requests, p \in 0..MaxPassword :
           /\ RevokeSessions(r) /\ req[r].owner = a /\ Unattended(a)
           /\ p <= account[a].chosen /\ p # account[a].password
           => Spent(a, p)']_vars
  BY RevokedIsSpent
<1> QED  BY <1>1, SessionsInvariant, PTL DEF Spec
=============================================================================
