------------------------------ MODULE Sessions ------------------------------
(***************************************************************************)
(* Staff sign-in sessions (auth/auth.service.ts), with the writes of       *)
(* auth/staff.service.ts that are meant to end them.                       *)
(*                                                                         *)
(* A session is a family of refresh tokens: sign-in issues the first, and  *)
(* each refresh issues a successor and then retires the token presented.   *)
(* None of this is in a transaction, so every statement is a step of its   *)
(* own and any other request may run in between.                           *)
(***************************************************************************)
EXTENDS Naturals

CONSTANTS
  Admins,       (* staff accounts                                          *)
  Scopes,       (* (site, role) pairs a session can be opened as           *)
  Tokens,       (* rows of refresh_tokens; a purged row's name is reused   *)
  Families,     (* family ids; reused once nothing names them              *)
  Requests,     (* requests the server may be serving at one moment        *)
  MaxPassword,  (* bound: passwords an account may have had                *)
  MayCrash,     (* whether the process may stop between two statements     *)
  None

ASSUME NoneAssumption == None \notin Admins \cup Scopes \cup Tokens \cup Families
ASSUME BoundAssumption == MaxPassword \in Nat /\ MayCrash \in BOOLEAN
ASSUME ScopesAssumption == Scopes # {}

VARIABLES
  account,  (* admins: the password that opens it, and whether it is live  *)
  badge,    (* the live rows of admin_roles: what each admin may sign in as*)
  token,    (* refresh_tokens                                              *)
  req       (* the requests being served                                   *)

vars == <<account, badge, token, req>>

(* Passwords are numbered in the order they were chosen.  weak: the stored *)
(* hash has an older cost than ARGON2_OPTIONS.                             *)
Account == [password : 0..MaxPassword,
            chosen   : 0..MaxPassword,     (* history: the last one chosen *)
            weak     : BOOLEAN,
            active   : BOOLEAN]

Absent == [state |-> "absent", expired |-> FALSE, owner |-> None, scope |-> None,
           family |-> None, era |-> 0, heirs |-> 0]

(* era (history): the password whose check opened the family.  heirs       *)
(* (history): how many successors were issued for the row, 2 meaning more. *)
Row == {Absent} \cup
  [state   : {"live", "revoked"},
   expired : BOOLEAN,
   owner   : Admins,
   scope   : Scopes,
   family  : Families,
   era     : 0..MaxPassword,
   heirs   : 0..2]

Request == [pc     : {"idle", "rehash", "account", "scope", "issue", "retire",
                      "end", "store", "disable", "revokeAll"},
            op     : {"none", "login", "refresh", "password", "deactivate"},
            owner  : Admins \cup {None},
            scope  : Scopes \cup {None},
            parent : Tokens \cup {None},    (* the token presented          *)
            family : Families \cup {None},
            era    : 0..MaxPassword]

Idle == [pc |-> "idle", op |-> "none", owner |-> None, scope |-> None,
         parent |-> None, family |-> None, era |-> 0]

(* A request about an account rather than a session.                       *)
Concerning(a, op, pc) == [pc |-> pc, op |-> op, owner |-> a, scope |-> None,
                          parent |-> None, family |-> None, era |-> 0]

TypeOK ==
  /\ account \in [Admins -> Account]
  /\ badge \in [Admins -> SUBSET Scopes]
  /\ token \in [Tokens -> Row]
  /\ req \in [Requests -> Request]

Init ==
  /\ \E w \in [Admins -> BOOLEAN] :
       account = [a \in Admins |-> [password |-> 0, chosen |-> 0, weak |-> w[a], active |-> TRUE]]
  /\ badge = [a \in Admins |-> Scopes]
  /\ token = [t \in Tokens |-> Absent]
  /\ req = [r \in Requests |-> Idle]

----------------------------------------------------------------------------
Exists(t) == token[t].state # "absent"
Usable(t) == token[t].state = "live" /\ ~ token[t].expired
Rows(f) == {t \in Tokens : Exists(t) /\ token[t].family = f}
Owned(a) == {t \in Tokens : Exists(t) /\ token[t].owner = a}

At(r, op, pc) == req[r].op = op /\ req[r].pc = pc
Begin(r, q) == req[r].pc = "idle" /\ req' = [req EXCEPT ![r] = q]
Goto(r, pc) == req' = [req EXCEPT ![r].pc = pc]
Answer(r) == req' = [req EXCEPT ![r] = Idle]

(* Revokes the rows of S that are not revoked yet.                         *)
Revoke(S) ==
  token' = [t \in Tokens |->
              IF t \in S /\ token[t].state = "live"
                THEN [token[t] EXCEPT !.state = "revoked"] ELSE token[t]]

----------------------------------------------------------------------------
(* login: the account is read and the password verified against what was   *)
(* read; a hash of an older cost is replaced by one of the same password.  *)
Login(r, a, s) ==
  /\ account[a].active
  /\ Begin(r, [pc |-> IF account[a].weak THEN "rehash" ELSE "scope", op |-> "login",
               owner |-> a, scope |-> s, parent |-> None, family |-> None,
               era |-> account[a].password])
  /\ UNCHANGED <<account, badge, token>>

LoginRehash(r) ==
  /\ At(r, "login", "rehash")
  /\ account' = [account EXCEPT ![req[r].owner].password = req[r].era,
                                ![req[r].owner].weak = FALSE]
  /\ Goto(r, "scope")
  /\ UNCHANGED <<badge, token>>

(* resolveScope: the badge behind the scope is looked up again each time.  *)
ResolveScope(r) ==
  /\ req[r].pc = "scope"
  /\ CASE req[r].scope \in badge[req[r].owner] -> Goto(r, "issue")
       [] req[r].scope \notin badge[req[r].owner] /\ req[r].op = "refresh" -> Goto(r, "end")
       [] OTHER -> Answer(r)
  /\ UNCHANGED <<account, badge, token>>

FreshToken(t) == ~ Exists(t) /\ \A q \in Requests : req[q].parent # t
FreshFamily(f) == Rows(f) = {} /\ \A q \in Requests : req[q].family # f

More(n) == IF n < 2 THEN n + 1 ELSE 2

Issued(r, s, f) ==
  [state |-> "live", expired |-> FALSE, owner |-> req[r].owner, scope |-> s,
   family |-> f, era |-> req[r].era, heirs |-> 0]

(* Mutant: a refresh opens the scope it is asked for.                      *)
IssueAnyScope(r, t) ==
  LET p == req[r].parent
      s == CHOOSE s \in Scopes : s # req[r].scope
  IN
  /\ At(r, "refresh", "issue")
  /\ FreshToken(t)
  /\ token' = [token EXCEPT ![t] = Issued(r, s, req[r].family), ![p].heirs = More(@)]
  /\ Goto(r, "retire")
  /\ UNCHANGED <<account, badge>>

(* issueTokens, for a refresh: a successor in the presented token's family.*)
IssueSuccessor(r, t) ==
  LET p == req[r].parent IN
  /\ At(r, "refresh", "issue")
  /\ FreshToken(t)
  /\ token' = [token EXCEPT ![t] = Issued(r, req[r].scope, req[r].family), ![p].heirs = More(@)]
  /\ Goto(r, "retire")
  /\ UNCHANGED <<account, badge>>

(* Mutant: a sign-in names no family.                                      *)
IssueUnfamilied(r, t, f) ==
  /\ At(r, "login", "issue")
  /\ FreshToken(t)
  /\ FreshFamily(f)
  /\ token' = [token EXCEPT ![t] = Issued(r, req[r].scope, None)]
  /\ Answer(r)
  /\ UNCHANGED <<account, badge>>

(* issueTokens, for a sign-in: the first token of a family of its own.     *)
IssueFirst(r, t, f) ==
  /\ At(r, "login", "issue")
  /\ FreshToken(t)
  /\ FreshFamily(f)
  /\ token' = [token EXCEPT ![t] = Issued(r, req[r].scope, f)]
  /\ Answer(r)
  /\ UNCHANGED <<account, badge>>

----------------------------------------------------------------------------
Presented(r, t, pc) ==
  Begin(r, [pc |-> pc, op |-> "refresh", owner |-> token[t].owner, scope |-> token[t].scope,
            parent |-> t, family |-> token[t].family, era |-> token[t].era])

(* Mutant: a retired token is judged by its expiry alone.                  *)
RefreshUnwatched(r, t) ==
  /\ Exists(t)
  /\ ~ token[t].expired
  /\ Presented(r, t, "account")
  /\ UNCHANGED <<account, badge, token>>

(* refresh: a revoked token ends its family, whether it expired or not; an *)
(* expired one is refused.                                                 *)
Refresh(r, t) ==
  /\ Exists(t)
  /\ \/ token[t].state = "revoked" /\ Presented(r, t, "end")
     \/ Usable(t) /\ Presented(r, t, "account")
  /\ UNCHANGED <<account, badge, token>>

(* Mutant: the account behind the token is not looked at again.            *)
RefreshTrusts(r) ==
  /\ At(r, "refresh", "account")
  /\ Goto(r, "scope")
  /\ UNCHANGED <<account, badge, token>>

RefreshAccount(r) ==
  /\ At(r, "refresh", "account")
  /\ Goto(r, IF account[req[r].owner].active THEN "scope" ELSE "end")
  /\ UNCHANGED <<account, badge, token>>

RefreshRetire(r) ==
  /\ At(r, "refresh", "retire")
  /\ Revoke({req[r].parent})
  /\ Answer(r)
  /\ UNCHANGED <<account, badge>>

(* The family of a token that was refused for reuse, for its account or    *)
(* for its badge.                                                          *)
EndFamily(r) ==
  /\ At(r, "refresh", "end")
  /\ Revoke(Rows(req[r].family))
  /\ Answer(r)
  /\ UNCHANGED <<account, badge>>

----------------------------------------------------------------------------
(* A handler of one statement takes a free request and leaves it free.     *)
Slot == \E r \in Requests : req[r].pc = "idle"

(* logout reads the row for its family, which never changes.               *)
Logout(t) ==
  /\ Slot /\ Exists(t)
  /\ Revoke(Rows(token[t].family))
  /\ UNCHANGED <<account, badge, req>>

LogoutEverywhere(a) ==
  /\ Slot
  /\ Revoke(Owned(a))
  /\ UNCHANGED <<account, badge, req>>

(* changePassword, and staff's setPassword and resetPassword: the account  *)
(* is read, the new hash is stored, and then every session is revoked.     *)
NewPassword(r, a) ==
  /\ account[a].chosen < MaxPassword
  /\ Begin(r, Concerning(a, "password", "store"))
  /\ UNCHANGED <<account, badge, token>>

StorePassword(r) ==
  LET a == req[r].owner IN
  /\ At(r, "password", "store")
  /\ account[a].chosen < MaxPassword
  /\ account' = [account EXCEPT ![a].password = account[a].chosen + 1,
                                ![a].chosen = account[a].chosen + 1,
                                ![a].weak = FALSE]
  /\ Goto(r, "revokeAll")
  /\ UNCHANGED <<badge, token>>

(* staff update with isActive false: saved, announced, sessions revoked.   *)
Deactivate(r, a) ==
  /\ Begin(r, Concerning(a, "deactivate", "disable"))
  /\ UNCHANGED <<account, badge, token>>

DisableAccount(r) ==
  /\ At(r, "deactivate", "disable")
  /\ account' = [account EXCEPT ![req[r].owner].active = FALSE]
  /\ Goto(r, "revokeAll")
  /\ UNCHANGED <<badge, token>>

RevokeSessions(r) ==
  /\ req[r].pc = "revokeAll"
  /\ Revoke(Owned(req[r].owner))
  /\ Answer(r)
  /\ UNCHANGED <<account, badge>>

Reactivate(a) ==
  /\ Slot /\ ~ account[a].active
  /\ account' = [account EXCEPT ![a].active = TRUE]
  /\ UNCHANGED <<badge, token, req>>

(* A badge granted or revoked; no session is touched.                      *)
ChangeBadge(a, s) ==
  /\ Slot
  /\ badge' = [badge EXCEPT ![a] = IF s \in @ THEN @ \ {s} ELSE @ \cup {s}]
  /\ UNCHANGED <<account, token, req>>

----------------------------------------------------------------------------
(* The seven days of a token are over.                                     *)
Expire(t) ==
  /\ Exists(t) /\ ~ token[t].expired
  /\ token' = [token EXCEPT ![t].expired = TRUE]
  /\ UNCHANGED <<account, badge, req>>

(* purgeExpiredTokens, thirty days later: no request lasts that long.      *)
PurgeExpiredTokens(t) ==
  /\ Slot /\ token[t].expired
  /\ \A r \in Requests : req[r].parent # t
  /\ token' = [token EXCEPT ![t] = Absent]
  /\ UNCHANGED <<account, badge, req>>

Crash ==
  /\ MayCrash
  /\ \E r \in Requests : req[r].pc # "idle"
  /\ req' = [r \in Requests |-> Idle]
  /\ UNCHANGED <<account, badge, token>>

Arrive(r) ==
  \/ \E a \in Admins : NewPassword(r, a) \/ Deactivate(r, a)
  \/ \E a \in Admins, s \in Scopes : Login(r, a, s)
  \/ \E t \in Tokens : Refresh(r, t)

Continue(r) ==
  \/ LoginRehash(r) \/ ResolveScope(r)
  \/ \E t \in Tokens : IssueSuccessor(r, t) \/ \E f \in Families : IssueFirst(r, t, f)
  \/ RefreshAccount(r) \/ RefreshRetire(r) \/ EndFamily(r)
  \/ StorePassword(r) \/ DisableAccount(r) \/ RevokeSessions(r)

Desk ==
  \/ \E t \in Tokens : Logout(t) \/ PurgeExpiredTokens(t)
  \/ \E a \in Admins : LogoutEverywhere(a) \/ Reactivate(a)
  \/ \E a \in Admins, s \in Scopes : ChangeBadge(a, s)

Next ==
  \/ \E r \in Requests : Arrive(r) \/ Continue(r)
  \/ Desk
  \/ \E t \in Tokens : Expire(t)
  \/ Crash

Spec == Init /\ [][Next]_vars

(* A request that was taken is carried on, and time passes.                *)
FairSpec ==
  Spec /\ (\A r \in Requests : WF_vars(Continue(r))) /\ (\A t \in Tokens : WF_vars(Expire(t)))

----------------------------------------------------------------------------
(* PROPERTIES                                                              *)

(* Every token of a family belongs to one sign-in: one account, one scope, *)
(* one password check.  login: "the resulting session cannot be widened,   *)
(* and cannot be moved to another brand, without signing in again".        *)
SessionKeepsItsScope ==
  \A t, u \in Tokens :
    Exists(t) /\ Exists(u) /\ token[t].family = token[u].family =>
      /\ token[t].owner = token[u].owner
      /\ token[t].scope = token[u].scope
      /\ token[t].era = token[u].era

(* refresh: "each token is single-use".                                    *)
TokenIsSingleUse == \A t \in Tokens : token[t].heirs < 2

InFlight(r) == req[r].op \in {"login", "refresh"} /\ req[r].pc # "end"

Ended(f) ==
  /\ Rows(f) # {}
  /\ \A t \in Rows(f) : token[t].state = "revoked"
  /\ \A r \in Requests : ~ (InFlight(r) /\ req[r].family = f)

(* refresh, on a token that comes back: "every token in the family is      *)
(* revoked, which logs out both"; logout: "revokes the presented token's   *)
(* whole family".  Once no refresh of it is under way either, a session    *)
(* that was ended never has a live token again.                            *)
EndedSessionStaysEnded ==
  [][\A f \in Families : Ended(f) => Ended(f)' \/ (Rows(f) = {})']_vars

(* The families of tokens are sessions in a book that knows no tokens:     *)
(* what a family is a session of never changes, whichever token is rotated *)
(* or replayed and whatever ends or expires meanwhile, and a session that  *)
(* is over stays so, until its last row is purged.                         *)
SessionOf(f) ==
  IF Rows(f) = {} THEN [state |-> "none"]
  ELSE LET t == CHOOSE t \in Rows(f) : TRUE
       IN  [state |-> IF Ended(f) THEN "over" ELSE "open",
            owner |-> token[t].owner, scope |-> token[t].scope, era |-> token[t].era]

Book == INSTANCE SessionBook WITH session <- [f \in Families |-> SessionOf(f)],
                                  Eras <- 0..MaxPassword
ImplementsSessionBook == Book!Spec

(* A password that was in force and is not, and that no live session and   *)
(* no request goes back to a check of.                                     *)
Spent(a, p) ==
  /\ p <= account[a].chosen /\ p # account[a].password
  /\ \A t \in Owned(a) : token[t].era = p => token[t].state = "revoked"
  /\ \A r \in Requests : ~ (InFlight(r) /\ req[r].owner = a /\ req[r].era = p)

(* changePassword, setPassword: a password that was replaced, and whose    *)
(* sessions are over, opens the account to nobody, whatever is presented   *)
(* and whatever rehash is under way.                                       *)
SpentPasswordStaysSpent ==
  [][\A a \in Admins, p \in 0..MaxPassword : Spent(a, p) => Spent(a, p)']_vars

Quiet == \A r \in Requests : req[r].pc = "idle"

(* changePassword "has to end the sessions the attacker might be holding"; *)
(* setPassword announces "every session ended".  No usable token descends  *)
(* from a password that was replaced.                                      *)
PasswordChangeEndsSessions ==
  Quiet => \A t \in Tokens : Usable(t) => token[t].era = account[token[t].owner].password

Open(a, s) == \E t \in Tokens : Usable(t) /\ token[t].owner = a /\ token[t].scope = s

(* Whatever is in flight when an account is disabled or a badge revoked,   *)
(* the sessions it leaves behind run dry.  staff update: "otherwise an     *)
(* offboarded account keeps working until its refresh token expires".      *)
SessionsRunDry ==
  \A a \in Admins, s \in Scopes :
    (<>[] ~ account[a].active) \/ (<>[] (s \notin badge[a])) => <>[] ~ Open(a, s)
============================================================================
