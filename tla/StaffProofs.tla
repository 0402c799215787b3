---------------------------- MODULE StaffProofs ----------------------------
(***************************************************************************)
(* What Staff promises, for any number of accounts, dashboards, roles and  *)
(* overlapping requests.                                                   *)
(***************************************************************************)
EXTENDS Staff, TLAPS

(* What a request that passed its checks still knows when it writes: a     *)
(* protected account is neither closed nor stripped, a super admin is      *)
(* being made by a protected account, and the caller has had a managing    *)
(* badge on the dashboard; who is created gets a badge.                    *)
Entitled(q) ==
  /\ q.actor \in Admins /\ q.target \in Admins /\ q.site \in Sites
  /\ SuperAdmin \in q.add => q.actor \in Protected
  /\ \E y \in Managers : badge[q.actor][q.site][y].grants > 0

Checked(q) ==
  /\ q.op = "badges" => /\ Entitled(q)
                        /\ account[q.target] # "absent"
                        /\ q.target \in Protected => q.drop = {}
  /\ q.op = "create" => Entitled(q) /\ q.target \notin Protected /\ q.add # {}
  /\ q.op \in {"rename", "activity"} =>
       /\ q.target \in Admins
       /\ account[q.target] # "absent"
       /\ q.target \in Protected => q.active

Rooted ==
  \A p \in Protected :
    account[p] = "active" /\ \A s \in Sites : badge[p][s][SuperAdmin].live

(* A badge that was ever live has been granted.                            *)
Counted ==
  \A a \in Admins, s \in Sites, x \in Roles :
    badge[a][s][x].live => badge[a][s][x].grants > 0

IInv ==
  /\ TypeOK
  /\ Rooted
  /\ Counted
  /\ BadgesHaveAuthority
  /\ \A r \in Requests : Checked(req[r])

----------------------------------------------------------------------------
LEMMA IdleIsRequest == Idle \in Request /\ Checked(Idle)
  BY DEF Idle, Asked, Request, Checked

LEMMA Initially == Init => IInv
<1> SUFFICES ASSUME Init PROVE IInv
  OBVIOUS
<1> USE RolesAssumption, ProtectedAssumption, BoundAssumption
<1>1. PICK units \in SUBSET ((Admins \ Protected) \X Sites) :
        /\ account = [a \in Admins |-> IF a \in Protected \/ \E s \in Sites : <<a, s>> \in units
                                         THEN "active" ELSE "absent"]
        /\ badge = [a \in Admins |-> [s \in Sites |-> [x \in Roles |->
                      IF x = SuperAdmin /\ (a \in Protected \/ <<a, s>> \in units)
                        THEN [live |-> TRUE, grants |-> 1, by |-> None]
                        ELSE [live |-> FALSE, grants |-> 0, by |-> None]]]]
        /\ req = [r \in Requests |-> Idle]
  BY DEF Init
<1> DEFINE given == [live |-> TRUE, grants |-> 1, by |-> None]
           not == [live |-> FALSE, grants |-> 0, by |-> None]
<1>2. given \in Badge /\ not \in Badge
  BY DEF Badge
<1>3. \A a \in Admins, s \in Sites, x \in Roles :
        badge[a][s][x] = IF x = SuperAdmin /\ (a \in Protected \/ <<a, s>> \in units)
                           THEN given ELSE not
  BY <1>1
<1>4. badge \in [Admins -> [Sites -> [Roles -> Badge]]]
  <2> DEFINE roleOf(a, s) == [x \in Roles |->
                 IF x = SuperAdmin /\ (a \in Protected \/ <<a, s>> \in units)
                   THEN given ELSE not]
         siteOf(a) == [s \in Sites |-> roleOf(a, s)]
  <2>1. \A a \in Admins, s \in Sites : roleOf(a, s) \in [Roles -> Badge]
    BY <1>2
  <2>2. badge = [a \in Admins |-> siteOf(a)]
    BY <1>1
  <2> HIDE DEF roleOf
  <2>3. \A a \in Admins : siteOf(a) \in [Sites -> [Roles -> Badge]]
    BY <2>1
  <2> HIDE DEF siteOf
  <2>4. QED
    BY <2>2, <2>3
<1>5. \A a \in Admins, s \in Sites, x \in Roles :
        /\ badge[a][s][x].by = None
        /\ badge[a][s][x].live => account[a] = "active" /\ badge[a][s][x].grants > 0
  <2> SUFFICES ASSUME NEW a \in Admins, NEW s \in Sites, NEW x \in Roles
               PROVE  /\ badge[a][s][x].by = None
                      /\ badge[a][s][x].live =>
                           account[a] = "active" /\ badge[a][s][x].grants > 0
    OBVIOUS
  <2>1. CASE x = SuperAdmin /\ (a \in Protected \/ <<a, s>> \in units)
    <3>1. badge[a][s][x] = given
      BY <2>1, <1>3
    <3>2. account[a] = "active"
      BY <2>1, <1>1
    <3>3. QED
      BY <3>1, <3>2
  <2>2. CASE ~ (x = SuperAdmin /\ (a \in Protected \/ <<a, s>> \in units))
    <3>1. badge[a][s][x] = not
      BY <2>2, <1>3
    <3>2. QED
      BY <3>1
  <2>3. QED
    BY <2>1, <2>2
<1>6. TypeOK
  BY <1>1, <1>4, <1>5, IdleIsRequest DEF TypeOK
<1>7. Rooted
  BY <1>1, <1>3 DEF Rooted
<1>8. QED
  BY <1>1, <1>5, <1>6, <1>7, IdleIsRequest DEF IInv, Counted, BadgesHaveAuthority

----------------------------------------------------------------------------
(* A request that arrives changes no account and no badge.                 *)
LEMMA BeginIInv ==
  ASSUME IInv, NEW r \in Requests, NEW q \in Request, Checked(q), Begin(r, q)
  PROVE  IInv'
<1>1. req' = [req EXCEPT ![r] = q] /\ account' = account /\ badge' = badge
  BY DEF Begin
<1>2. TypeOK'
  BY <1>1 DEF IInv, TypeOK
<1>3. \A i \in Requests : Checked(req[i])'
  BY <1>1 DEF IInv, TypeOK, Checked, Entitled
<1>4. QED
  BY <1>1, <1>2, <1>3 DEF IInv, Rooted, Counted, BadgesHaveAuthority

(* What is under way stays checked while accounts do not vanish and grants *)
(* are only added.                                                         *)
LEMMA AnswerChecked ==
  ASSUME IInv, NEW r \in Requests, Answer(r),
         \A a \in Admins : account[a] # "absent" => account'[a] # "absent",
         badge' \in [Admins -> [Sites -> [Roles -> Badge]]],
         \A a \in Admins, s \in Sites, x \in Roles :
           badge'[a][s][x].grants >= badge[a][s][x].grants
  PROVE  req' \in [Requests -> Request] /\ \A i \in Requests : Checked(req[i])'
<1>1. req' = [req EXCEPT ![r] = Idle] /\ req' \in [Requests -> Request]
  BY IdleIsRequest DEF IInv, TypeOK, Answer
<1>2. SUFFICES ASSUME NEW i \in Requests PROVE Checked(req[i])'
  BY <1>1
<1>3. CASE i = r
  BY <1>1, <1>3 DEF IInv, TypeOK, Checked, Idle, Asked
<1>4. CASE i # r
  <2>1. req'[i] = req[i] /\ Checked(req[i])
    BY <1>1, <1>4 DEF IInv, TypeOK
  <2>2. ASSUME Entitled(req[i]) PROVE Entitled(req[i])'
    <3>1. PICK y \in Managers : badge[req[i].actor][req[i].site][y].grants > 0
      BY <2>2 DEF Entitled
    <3>2. y \in Roles /\ req[i].actor \in Admins /\ req[i].site \in Sites
      BY <2>2, RolesAssumption DEF Entitled
    <3>3. /\ badge[req[i].actor][req[i].site][y].grants \in Nat
          /\ badge'[req[i].actor][req[i].site][y].grants \in Nat
      BY <3>2, BoundAssumption DEF IInv, TypeOK, Badge
    <3>4. badge'[req[i].actor][req[i].site][y].grants > 0
      BY <3>1, <3>2, <3>3
    <3>5. QED
      BY <2>1, <2>2, <3>4 DEF Entitled
  <2>3. QED
    BY <2>1, <2>2 DEF Checked, Entitled
<1>5. QED
  BY <1>3, <1>4

----------------------------------------------------------------------------
(* THE WRITES                                                              *)

(* What Rewritten does to the badges.                                      *)
LEMMA RewrittenCells ==
  ASSUME IInv, NEW a \in Admins, NEW s \in Sites, NEW actor \in Admins,
         NEW drop, NEW add \in SUBSET Roles, Room(a, s, add),
         badge' = Rewritten(a, s, drop, add, actor)
  PROVE  /\ badge' \in [Admins -> [Sites -> [Roles -> Badge]]]
         /\ \A b \in Admins, z \in Sites, x \in Roles :
              LET old == badge[b][z][x]
                  new == badge'[b][z][x]
                  here == b = a /\ z = s /\ x \in add
              IN  /\ new.grants >= old.grants
                  /\ new.by = IF here THEN actor ELSE old.by
                  /\ here => new.live /\ new.grants > 0
                  /\ ~ here /\ new.live => old.live
                  /\ b # a \/ drop = {} => (old.live => new.live)
<1> DEFINE cell(x) ==
      LET b == badge[a][s][x] IN
      IF x \in add THEN [live |-> TRUE, grants |-> b.grants + 1, by |-> actor]
      ELSE IF <<x, b.grants>> \in drop THEN [live |-> FALSE, grants |-> b.grants, by |-> b.by]
      ELSE b
<1>1. /\ badge \in [Admins -> [Sites -> [Roles -> Badge]]]
      /\ \A b \in Admins, z \in Sites, x \in Roles :
           badge[b][z][x] \in Badge /\ badge[b][z][x].grants \in Nat
  BY BoundAssumption DEF IInv, TypeOK, Badge
<1>2. \A x \in Roles : cell(x) \in Badge
  BY <1>1, BoundAssumption DEF Room, Badge
<1>3. badge' = [badge EXCEPT ![a][s] = [x \in Roles |-> cell(x)]]
  BY DEF Rewritten
<1>4. \A x \in Roles :
        /\ cell(x).grants >= badge[a][s][x].grants
        /\ cell(x).by = IF x \in add THEN actor ELSE badge[a][s][x].by
        /\ x \in add => cell(x).live /\ cell(x).grants > 0
        /\ x \notin add /\ cell(x).live => badge[a][s][x].live
        /\ drop = {} => (badge[a][s][x].live => cell(x).live)
  BY <1>1 DEF Badge
<1> HIDE DEF cell
<1>5. [x \in Roles |-> cell(x)] \in [Roles -> Badge]
  BY <1>2
<1>6. badge' \in [Admins -> [Sites -> [Roles -> Badge]]]
  BY <1>1, <1>3, <1>5
<1>7. \A b \in Admins, z \in Sites, x \in Roles :
        badge'[b][z][x] = IF b = a /\ z = s THEN cell(x) ELSE badge[b][z][x]
  BY <1>1, <1>3
<1>8. QED
  BY <1>1, <1>4, <1>6, <1>7

(* Badges rewritten for a checked request, of an account that exists.      *)
LEMMA RewriteIInv ==
  ASSUME IInv, NEW r \in Requests, Answer(r), Entitled(req[r]),
         NEW drop, req[r].target \in Protected => drop = {},
         Room(req[r].target, req[r].site, req[r].add),
         badge' = Rewritten(req[r].target, req[r].site, drop, req[r].add, req[r].actor),
         account' \in [Admins -> {"absent", "active", "inactive"}],
         \A a \in Admins : account'[a] = account[a]
                              \/ (a = req[r].target /\ a \notin Protected),
         \A a \in Admins : account[a] # "absent" => account'[a] # "absent",
         account'[req[r].target] # "absent"
  PROVE  IInv'
<1> DEFINE a == req[r].target
           s == req[r].site
           add == req[r].add
           actor == req[r].actor
<1>1. a \in Admins /\ s \in Sites /\ actor \in Admins /\ add \in SUBSET Roles
  BY DEF Entitled, IInv, TypeOK, Request
<1>2. SuperAdmin \in add => actor \in Protected
  BY DEF Entitled
<1>3. PICK m \in Managers : badge[actor][s][m].grants > 0
  BY DEF Entitled
<1>4. Room(a, s, add) /\ badge' = Rewritten(a, s, drop, add, actor)
  OBVIOUS
<1>5. (a \in Protected => drop = {}) /\ account'[a] # "absent"
  OBVIOUS
<1>6. \A b \in Admins : account'[b] = account[b] \/ (b = a /\ b \notin Protected)
  OBVIOUS
<1> HIDE DEF a, s, add, actor
<1>7. /\ badge' \in [Admins -> [Sites -> [Roles -> Badge]]]
      /\ \A b \in Admins, z \in Sites, x \in Roles :
           LET old == badge[b][z][x]
               new == badge'[b][z][x]
               here == b = a /\ z = s /\ x \in add
           IN  /\ new.grants >= old.grants
               /\ new.by = IF here THEN actor ELSE old.by
               /\ here => new.live /\ new.grants > 0
               /\ ~ here /\ new.live => old.live
               /\ b # a \/ drop = {} => (old.live => new.live)
  BY <1>1, <1>4, RewrittenCells
<1>8. \A b \in Admins, z \in Sites, x \in Roles :
        /\ badge[b][z][x].grants \in Nat
        /\ badge'[b][z][x].grants \in Nat
  BY <1>7, BoundAssumption DEF IInv, TypeOK, Badge
<1>9. req' \in [Requests -> Request] /\ \A i \in Requests : Checked(req[i])'
  BY <1>7, AnswerChecked
<1>10. TypeOK'
  <2>1. ASSUME NEW b \in Admins, NEW z \in Sites, NEW x \in Roles, badge'[b][z][x].live
        PROVE  account'[b] # "absent"
    <3>1. CASE b = a
      BY <3>1, <1>5
    <3>2. CASE b # a
      BY <3>2, <2>1, <1>7 DEF IInv, TypeOK
    <3>3. QED
      BY <3>1, <3>2
  <2>2. QED
    BY <2>1, <1>7, <1>9 DEF TypeOK
<1>11. Rooted'
  BY <1>5, <1>6, <1>7, ProtectedAssumption, RolesAssumption DEF IInv, Rooted
<1>12. Counted'
  <2>1. SUFFICES ASSUME NEW b \in Admins, NEW z \in Sites, NEW x \in Roles, badge'[b][z][x].live
                 PROVE  badge'[b][z][x].grants > 0
    BY DEF Counted
  <2>2. CASE badge[b][z][x].live
    <3>1. badge[b][z][x].grants > 0
      BY <2>2 DEF IInv, Counted
    <3>2. badge'[b][z][x].grants >= badge[b][z][x].grants
      BY <1>7
    <3>3. QED
      BY <3>1, <3>2, <1>8
  <2>3. CASE ~ badge[b][z][x].live
    BY <2>1, <2>3, <1>7
  <2>4. QED
    BY <2>2, <2>3
<1>13. BadgesHaveAuthority'
  <2>1. SUFFICES ASSUME NEW b \in Admins, NEW z \in Sites, NEW x \in Roles,
                        badge'[b][z][x].by # None
                 PROVE  /\ \E y \in Managers : badge'[badge'[b][z][x].by][z][y].grants > 0
                        /\ x = SuperAdmin => badge'[b][z][x].by \in Protected
    BY DEF BadgesHaveAuthority
  <2>2. CASE b = a /\ z = s /\ x \in add
    <3>1. badge'[b][z][x].by = actor /\ m \in Roles
      BY <2>2, <1>7, RolesAssumption
    <3>2. badge'[actor][s][m].grants > 0
      <4>1. badge'[actor][s][m].grants >= badge[actor][s][m].grants
        BY <3>1, <1>1, <1>7
      <4>2. badge[actor][s][m].grants \in Nat /\ badge'[actor][s][m].grants \in Nat
        BY <3>1, <1>1, <1>8
      <4>3. QED
        BY <4>1, <4>2, <1>3
    <3>3. QED
      BY <2>2, <3>1, <3>2, <1>2
  <2>3. CASE ~ (b = a /\ z = s /\ x \in add)
    <3>1. badge'[b][z][x].by = badge[b][z][x].by /\ badge[b][z][x].by \in Admins
      <4>1. badge[b][z][x] \in Badge
        BY DEF IInv, TypeOK
      <4>2. badge'[b][z][x].by = badge[b][z][x].by
        BY <2>3, <1>7
      <4>3. QED
        BY <4>1, <4>2, <2>1 DEF Badge
    <3>2. PICK y \in Managers : badge[badge[b][z][x].by][z][y].grants > 0
      BY <2>1, <3>1 DEF IInv, BadgesHaveAuthority
    <3>3. x = SuperAdmin => badge[b][z][x].by \in Protected
      BY <2>1, <3>1 DEF IInv, BadgesHaveAuthority
    <3>4. PICK by \in Admins : by = badge[b][z][x].by
      BY <3>1
    <3>5. y \in Roles /\ badge[by][z][y].grants > 0
      BY <3>2, <3>4, RolesAssumption
    <3>6. /\ badge[by][z][y].grants \in Nat
          /\ badge'[by][z][y].grants \in Nat
          /\ badge'[by][z][y].grants >= badge[by][z][y].grants
      BY <3>5, <1>7, <1>8
    <3>7. badge'[by][z][y].grants > 0
      BY <3>5, <3>6
    <3>8. QED
      BY <3>1, <3>3, <3>4, <3>7
  <2>4. QED
    BY <2>2, <2>3
<1>14. QED
  BY <1>9, <1>10, <1>11, <1>12, <1>13 DEF IInv

(* Requests answered with the badges as they were.                         *)
LEMMA AccountIInv ==
  ASSUME IInv, NEW r \in Requests, Answer(r), UNCHANGED badge,
         account' \in [Admins -> {"absent", "active", "inactive"}],
         \A a \in Admins : account[a] # "absent" => account'[a] # "absent",
         \A p \in Protected : account'[p] = account[p]
  PROVE  IInv'
<1>1. \A a \in Admins, s \in Sites, x \in Roles : badge[a][s][x].grants \in Nat
  BY BoundAssumption DEF IInv, TypeOK, Badge
<1>2. req' \in [Requests -> Request] /\ \A i \in Requests : Checked(req[i])'
  BY <1>1, AnswerChecked DEF IInv, TypeOK
<1>3. TypeOK'
  BY <1>2 DEF IInv, TypeOK
<1>4. QED
  BY <1>2, <1>3 DEF IInv, Rooted, Counted, BadgesHaveAuthority

----------------------------------------------------------------------------
(* THE STEPS                                                               *)

(* Whoever manages a dashboard holds a managing badge there.               *)
LEMMA ManagersAreGranted ==
  ASSUME IInv, NEW actor \in Admins, NEW s \in Sites, Manages(actor, s)
  PROVE  \E y \in Managers : badge[actor][s][y].grants > 0
  BY RolesAssumption DEF Manages, Held, IInv, Counted

(* A request about badges, as grantRole, revokeRole and replaceRoles make. *)
LEMMA BadgesIInv ==
  ASSUME IInv, NEW r \in Requests, NEW actor \in Admins, NEW s \in Sites, NEW a \in Admins,
         NEW drop \in SUBSET (Roles \X (1..MaxGrants)), NEW add \in SUBSET Roles,
         Manages(actor, s), MayAppoint(actor, add), account[a] # "absent",
         a \in Protected => drop = {},
         Begin(r, Asked("badges", actor, a, s, drop, add, FALSE))
  PROVE  IInv'
<1> DEFINE q == Asked("badges", actor, a, s, drop, add, FALSE)
<1>1. /\ q \in Request /\ q.op = "badges" /\ q.actor = actor /\ q.target = a
      /\ q.site = s /\ q.drop = drop /\ q.add = add
  BY DEF Asked, Request
<1>2. Begin(r, q)
  OBVIOUS
<1> HIDE DEF q
<1>3. Checked(q)
  BY <1>1, ManagersAreGranted DEF Checked, Entitled, MayAppoint
<1>4. QED
  BY <1>1, <1>2, <1>3, BeginIInv

(* Somebody visible on a dashboard has an account.                         *)
LEMMA TheVisibleExist ==
  ASSUME IInv, NEW a \in Admins, NEW s \in Sites, NEW x \in Held(a, s)
  PROVE  account[a] # "absent" /\ x \in Roles /\ badge[a][s][x].grants \in 1..MaxGrants
<1>1. x \in Roles /\ badge[a][s][x].live
  BY DEF Held
<1>2. badge[a][s][x].grants \in 0..MaxGrants /\ badge[a][s][x].grants > 0
  BY <1>1 DEF IInv, TypeOK, Badge, Counted
<1>3. QED
  BY <1>1, <1>2, BoundAssumption DEF IInv, TypeOK

LEMMA GrantRoleIInv ==
  ASSUME IInv, NEW r \in Requests, NEW actor \in Admins, NEW s \in Sites, NEW a \in Admins,
         NEW x \in Roles, GrantRole(r, actor, s, a, x)
  PROVE  IInv'
  BY BadgesIInv DEF GrantRole

LEMMA RevokeRoleIInv ==
  ASSUME IInv, NEW r \in Requests, NEW actor \in Admins, NEW s \in Sites, NEW a \in Admins,
         NEW x \in Roles, RevokeRole(r, actor, s, a, x)
  PROVE  IInv'
<1> DEFINE drop == {<<x, badge[a][s][x].grants>>}
<1>1. x \in Held(a, s)
  BY DEF RevokeRole, Held
<1>2. drop \in SUBSET (Roles \X (1..MaxGrants)) /\ account[a] # "absent"
  BY <1>1, TheVisibleExist
<1>3. Begin(r, Asked("badges", actor, a, s, drop, {}, FALSE))
  BY DEF RevokeRole
<1>4. Manages(actor, s) /\ a \notin Protected /\ MayAppoint(actor, {})
  BY DEF RevokeRole, MayAppoint
<1> HIDE DEF drop
<1>5. QED
  BY <1>2, <1>3, <1>4, BadgesIInv

LEMMA ReplaceRolesIInv ==
  ASSUME IInv, NEW r \in Requests, NEW actor \in Admins, NEW s \in Sites, NEW a \in Admins,
         NEW X \in SUBSET Roles, ReplaceRoles(r, actor, s, a, X)
  PROVE  IInv'
<1> DEFINE drop == Dropped(a, s, X)
           add == X \ Held(a, s)
<1>1. \A x \in Held(a, s) :
        account[a] # "absent" /\ x \in Roles /\ badge[a][s][x].grants \in 1..MaxGrants
  BY TheVisibleExist
<1>2. drop \in SUBSET (Roles \X (1..MaxGrants)) /\ add \in SUBSET Roles
  BY <1>1 DEF Dropped
<1>3. account[a] # "absent"
  BY <1>1 DEF ReplaceRoles, Visible
<1>4. Begin(r, Asked("badges", actor, a, s, drop, add, FALSE))
  BY DEF ReplaceRoles
<1>5. Manages(actor, s) /\ MayAppoint(actor, add)
  BY DEF ReplaceRoles, MayAppoint
<1>6. a \in Protected => drop = {}
  BY DEF ReplaceRoles, Dropped
<1> HIDE DEF drop, add
<1>7. QED
  BY <1>2, <1>3, <1>4, <1>5, <1>6, BadgesIInv

(* A request to save an account: what it will write of a protected account *)
(* is that it is active.                                                   *)
LEMMA UpdateIInv ==
  ASSUME IInv, NEW r \in Requests, NEW op \in {"rename", "activity"}, NEW actor \in Admins,
         NEW s \in Sites, NEW a \in Admins, NEW active \in BOOLEAN,
         Update(r, op, actor, s, a, active), a \in Protected => active
  PROVE  IInv'
<1> DEFINE q == Asked(op, None, a, None, {}, {}, active)
<1>1. q \in Request /\ q.op = op /\ q.target = a /\ q.active = active
  BY DEF Asked, Request
<1>2. Begin(r, q) /\ account[a] # "absent"
  BY DEF Update
<1> HIDE DEF q
<1>3. Checked(q)
  BY <1>1, <1>2 DEF Checked
<1>4. QED
  BY <1>1, <1>2, <1>3, BeginIInv

LEMMA RenameIInv ==
  ASSUME IInv, NEW r \in Requests, NEW actor \in Admins, NEW s \in Sites, NEW a \in Admins,
         Rename(r, actor, s, a)
  PROVE  IInv'
<1>1. a \in Protected => account[a] = "active"
  BY DEF IInv, Rooted
<1>2. QED
  BY <1>1, UpdateIInv DEF Rename

(* requireWhollyWithin never holds of a protected account, which has a     *)
(* badge on every dashboard.                                               *)
LEMMA DeactivateIInv ==
  ASSUME IInv, NEW r \in Requests, NEW actor \in Admins, NEW s \in Sites, NEW a \in Admins,
         Deactivate(r, actor, s, a)
  PROVE  IInv'
<1>1. a \notin Protected
  <2>1. PICK z \in Sites : z # s
    BY RootAssumption
  <2>2. Held(a, z) = {}
    BY <2>1 DEF Deactivate, WhollyWithin
  <2>3. QED
    BY <2>2, RolesAssumption DEF Held, IInv, Rooted
<1>2. QED
  BY <1>1, UpdateIInv DEF Deactivate

LEMMA CreateIInv ==
  ASSUME IInv, NEW r \in Requests, NEW actor \in Admins, NEW s \in Sites, NEW a \in Admins,
         NEW X \in SUBSET Roles, Create(r, actor, s, a, X)
  PROVE  IInv'
<1> DEFINE q == Asked("create", actor, a, s, {}, X, TRUE)
<1>1. /\ q \in Request /\ q.op = "create" /\ q.actor = actor /\ q.target = a
      /\ q.site = s /\ q.add = X
  BY DEF Asked, Request
<1>2. a \notin Protected /\ X # {}
  BY RootAssumption DEF Create, IInv, Rooted
<1>3. Begin(r, q) /\ Manages(actor, s) /\ MayAppoint(actor, X)
  BY DEF Create
<1> HIDE DEF q
<1>4. Checked(q)
  BY <1>1, <1>2, <1>3, ManagersAreGranted DEF Checked, Entitled, MayAppoint
<1>5. QED
  BY <1>1, <1>3, <1>4, BeginIInv

LEMMA WriteBadgesIInv ==
  ASSUME IInv, NEW r \in Requests, WriteBadges(r)
  PROVE  IInv'
<1>1. /\ req[r].op = "badges" /\ Answer(r) /\ account' = account
      /\ Room(req[r].target, req[r].site, req[r].add)
  BY DEF WriteBadges
<1>2. /\ Entitled(req[r]) /\ account[req[r].target] # "absent"
      /\ req[r].target \in Protected => req[r].drop = {}
  BY <1>1 DEF IInv, Checked
<1>3. CASE badge' = badge
  BY <1>1, <1>3, AccountIInv DEF IInv, TypeOK
<1>4. CASE badge' = Rewritten(req[r].target, req[r].site, req[r].drop, req[r].add, req[r].actor)
  BY <1>1, <1>2, <1>4, RewriteIInv DEF IInv, TypeOK
<1>5. QED
  BY <1>3, <1>4 DEF WriteBadges

LEMMA SaveAccountIInv ==
  ASSUME IInv, NEW r \in Requests, SaveAccount(r)
  PROVE  IInv'
<1> DEFINE a == req[r].target
           to == IF req[r].active THEN "active" ELSE "inactive"
<1>1. /\ Answer(r) /\ UNCHANGED badge /\ account' = [account EXCEPT ![a] = to]
  BY DEF SaveAccount
<1>2. /\ a \in Admins /\ account[a] # "absent"
      /\ a \in Protected => to = "active"
  BY DEF SaveAccount, IInv, Checked
<1>3. to \in {"active", "inactive"}
  OBVIOUS
<1> HIDE DEF a, to
<1>4. /\ account' \in [Admins -> {"absent", "active", "inactive"}]
      /\ \A b \in Admins : account[b] # "absent" => account'[b] # "absent"
  BY <1>1, <1>2, <1>3 DEF IInv, TypeOK
<1>5. \A p \in Protected : account'[p] = account[p]
  BY <1>1, <1>2, RootAssumption, ProtectedAssumption DEF IInv, TypeOK, Rooted
<1>6. QED
  BY <1>1, <1>4, <1>5, AccountIInv

LEMMA CreateWriteIInv ==
  ASSUME IInv, NEW r \in Requests, CreateWrite(r)
  PROVE  IInv'
<1>1. /\ req[r].op = "create" /\ Answer(r)
      /\ Room(req[r].target, req[r].site, req[r].add)
  BY DEF CreateWrite
<1>2. Entitled(req[r]) /\ req[r].target \notin Protected
  BY <1>1 DEF IInv, Checked
<1>3. CASE account[req[r].target] = "absent"
  <2>1. /\ account' = [account EXCEPT ![req[r].target] = "active"]
        /\ badge' = Rewritten(req[r].target, req[r].site, {}, req[r].add, req[r].actor)
    BY <1>3 DEF CreateWrite
  <2>2. req[r].target \in Admins
    BY <1>2 DEF Entitled
  <2>3. /\ account' \in [Admins -> {"absent", "active", "inactive"}]
        /\ \A a \in Admins : account'[a] = account[a]
                             \/ (a = req[r].target /\ a \notin Protected)
        /\ \A a \in Admins : account[a] # "absent" => account'[a] # "absent"
        /\ account'[req[r].target] # "absent"
    BY <2>1, <2>2, <1>2 DEF IInv, TypeOK
  <2>4. QED
    BY <1>1, <1>2, <2>1, <2>3, RewriteIInv
<1>4. CASE account[req[r].target] # "absent"
  BY <1>1, <1>4, AccountIInv DEF CreateWrite, IInv, TypeOK
<1>5. QED
  BY <1>3, <1>4

LEMMA Inductive == IInv /\ [Next]_vars => IInv'
<1> SUFFICES ASSUME IInv, [Next]_vars PROVE IInv'
  OBVIOUS
<1>1. ASSUME NEW r \in Requests, Arrive(r) PROVE IInv'
  <2>1. PICK actor \in Admins, a \in Admins, s \in Sites :
          \/ \E x \in Roles : GrantRole(r, actor, s, a, x) \/ RevokeRole(r, actor, s, a, x)
          \/ \E X \in SUBSET Roles : ReplaceRoles(r, actor, s, a, X) \/ Create(r, actor, s, a, X)
          \/ Rename(r, actor, s, a) \/ Activate(r, actor, s, a) \/ Deactivate(r, actor, s, a)
    BY <1>1 DEF Arrive
  <2>2. CASE \E x \in Roles : GrantRole(r, actor, s, a, x) \/ RevokeRole(r, actor, s, a, x)
    BY <2>2, GrantRoleIInv, RevokeRoleIInv
  <2>3. CASE \E X \in SUBSET Roles : ReplaceRoles(r, actor, s, a, X) \/ Create(r, actor, s, a, X)
    BY <2>3, ReplaceRolesIInv, CreateIInv
  <2>4. CASE Rename(r, actor, s, a)
    BY <2>4, RenameIInv
  <2>5. CASE Activate(r, actor, s, a)
    BY <2>5, UpdateIInv DEF Activate
  <2>6. CASE Deactivate(r, actor, s, a)
    BY <2>6, DeactivateIInv
  <2>7. QED
    BY <2>1, <2>2, <2>3, <2>4, <2>5, <2>6
<1>2. ASSUME NEW r \in Requests, WriteBadges(r) \/ SaveAccount(r) \/ CreateWrite(r) PROVE IInv'
  BY <1>2, WriteBadgesIInv, SaveAccountIInv, CreateWriteIInv
<1>3. CASE UNCHANGED vars
  BY <1>3 DEF IInv, TypeOK, Rooted, Counted, BadgesHaveAuthority, Checked, Entitled, vars
<1>4. QED
  BY <1>1, <1>2, <1>3 DEF Next

----------------------------------------------------------------------------
(* THE THEOREMS                                                            *)

LEMMA Invariance == Spec => []IInv
<1>1. Init => IInv
  BY Initially
<1>2. IInv /\ [Next]_vars => IInv'
  BY Inductive
<1>3. QED
  BY <1>1, <1>2, PTL DEF Spec

(* Types are kept, and a live badge belongs to an account that exists.     *)
THEOREM StaffTypes == Spec => []TypeOK
<1>1. IInv => TypeOK
  BY DEF IInv
<1>2. QED
  BY <1>1, Invariance, PTL

(* No set of overlapping requests leaves a dashboard without an active     *)
(* super admin: whatever the last-super-admin check misses, the root       *)
(* account stands.                                                         *)
THEOREM DashboardsKeepASuperAdmin == Spec => []EveryDashboardHasASuperAdmin
<1>1. IInv => EveryDashboardHasASuperAdmin
  BY RootAssumption, ProtectedAssumption DEF IInv, Rooted, EveryDashboardHasASuperAdmin
<1>2. QED
  BY <1>1, Invariance, PTL

(* Every badge was assigned by somebody who managed that dashboard, and    *)
(* every super admin was made by a protected account.                      *)
THEOREM AuthorityHasASource == Spec => []BadgesHaveAuthority
<1>1. IInv => BadgesHaveAuthority
  BY DEF IInv
<1>2. QED
  BY <1>1, Invariance, PTL

(* No step takes a badge from a protected account.                         *)
THEOREM ProtectedBadgesAreKept == Spec => ProtectedBadgesStand
<1> DEFINE Kept == \A a \in Protected, s \in Sites, x \in Roles :
                     badge[a][s][x].live => badge'[a][s][x].live
<1>1. IInv /\ [Next]_vars => [Kept]_vars
  <2> SUFFICES ASSUME IInv, Next PROVE Kept
    BY DEF Kept
  <2>1. CASE badge' = badge
    BY <2>1
  <2>2. ASSUME NEW r \in Requests, WriteBadges(r), badge' # badge PROVE Kept
    <3>1. /\ Entitled(req[r]) /\ Room(req[r].target, req[r].site, req[r].add)
          /\ req[r].target \in Protected => req[r].drop = {}
          /\ badge' = Rewritten(req[r].target, req[r].site, req[r].drop, req[r].add, req[r].actor)
          /\ req[r].add \in SUBSET Roles
      BY <2>2 DEF WriteBadges, IInv, Checked, TypeOK, Request
    <3>2. QED
      BY <3>1, RewrittenCells, ProtectedAssumption DEF Entitled
  <2>3. ASSUME NEW r \in Requests, CreateWrite(r), badge' # badge PROVE Kept
    <3>1. /\ Entitled(req[r]) /\ Room(req[r].target, req[r].site, req[r].add)
          /\ badge' = Rewritten(req[r].target, req[r].site, {}, req[r].add, req[r].actor)
          /\ req[r].add \in SUBSET Roles
      BY <2>3 DEF CreateWrite, IInv, Checked, TypeOK, Request
    <3>2. QED
      BY <3>1, RewrittenCells, ProtectedAssumption DEF Entitled
  <2>4. ASSUME NEW r \in Requests, Arrive(r) \/ SaveAccount(r) PROVE badge' = badge
    <3>1. CASE SaveAccount(r)
      BY <3>1 DEF SaveAccount
    <3>2. CASE Arrive(r)
      <4>1. PICK actor \in Admins, a \in Admins, s \in Sites :
              \/ \E x \in Roles : GrantRole(r, actor, s, a, x) \/ RevokeRole(r, actor, s, a, x)
              \/ \E X \in SUBSET Roles : ReplaceRoles(r, actor, s, a, X) \/ Create(r, actor, s, a, X)
              \/ Rename(r, actor, s, a) \/ Activate(r, actor, s, a) \/ Deactivate(r, actor, s, a)
        BY <3>2 DEF Arrive
      <4>2. PICK q : Begin(r, q)
        BY <4>1 DEF GrantRole, RevokeRole, ReplaceRoles, Create, Rename, Activate, Deactivate, Update
      <4>3. QED
        BY <4>2 DEF Begin
    <3>3. QED
      BY <2>4, <3>1, <3>2
  <2>5. QED
    BY <2>1, <2>2, <2>3, <2>4 DEF Next
<1>2. QED
  BY <1>1, Invariance, PTL DEF Spec, ProtectedBadgesStand

----------------------------------------------------------------------------
(* What DeactivationHolds comes to.  An account that is closed, with no    *)
(* save under way that would open it:  none that read it open, none that   *)
(* was asked to open it.                                                   *)
Off(a) ==
  /\ account[a] = "inactive"
  /\ \A r \in Requests :
       ~ (req[r].op \in {"rename", "activity"} /\ req[r].target = a /\ req[r].active)

LEMMA OffUntilAsked ==
  ASSUME IInv, Next, NEW a \in Admins, Off(a),
         ~ \E r \in Requests, actor \in Admins, s \in Sites : Activate(r, actor, s, a)
  PROVE  Off(a)'
<1>1. /\ account \in [Admins -> {"absent", "active", "inactive"}]
      /\ req \in [Requests -> Request]
  BY DEF IInv, TypeOK
<1>2. ASSUME NEW r \in Requests, Arrive(r) PROVE Off(a)'
  <2>1. PICK actor \in Admins, c \in Admins, s \in Sites :
          \/ \E x \in Roles : GrantRole(r, actor, s, c, x) \/ RevokeRole(r, actor, s, c, x)
          \/ \E X \in SUBSET Roles : ReplaceRoles(r, actor, s, c, X) \/ Create(r, actor, s, c, X)
          \/ Rename(r, actor, s, c) \/ Activate(r, actor, s, c) \/ Deactivate(r, actor, s, c)
    BY <1>2 DEF Arrive
  <2>2. PICK q : /\ Begin(r, q)
                 /\ q.op \in {"rename", "activity"} /\ q.target = a => ~ q.active
    <3>1. CASE \E x \in Roles : GrantRole(r, actor, s, c, x) \/ RevokeRole(r, actor, s, c, x)
      BY <3>1 DEF GrantRole, RevokeRole, Asked
    <3>2. CASE \E X \in SUBSET Roles : ReplaceRoles(r, actor, s, c, X) \/ Create(r, actor, s, c, X)
      BY <3>2 DEF ReplaceRoles, Create, Asked
    <3>3. CASE Rename(r, actor, s, c)
      <4> DEFINE q == Asked("rename", None, c, None, {}, {}, account[c] = "active")
      <4>1. Begin(r, q)
        BY <3>3 DEF Rename, Update
      <4>2. q.target = c /\ (q.active <=> account[c] = "active")
        BY DEF Asked
      <4>3. q.target = a => ~ q.active
        BY <4>2 DEF Off
      <4> HIDE DEF q
      <4> QED  BY <4>1, <4>3
    <3>4. CASE Activate(r, actor, s, c)
      <4>1. c # a
        BY <3>4
      <4> QED  BY <3>4, <4>1 DEF Activate, Update, Asked
    <3>5. CASE Deactivate(r, actor, s, c)
      BY <3>5 DEF Deactivate, Update, Asked
    <3> QED  BY <2>1, <3>1, <3>2, <3>3, <3>4, <3>5
  <2>3. account' = account /\ \A p \in Requests : req'[p] = IF p = r THEN q ELSE req[p]
    BY <1>1, <2>2 DEF Begin
  <2> QED  BY <2>2, <2>3 DEF Off
<1>3. ASSUME NEW r \in Requests, WriteBadges(r) \/ SaveAccount(r) \/ CreateWrite(r) PROVE Off(a)'
  <2>1. \A p \in Requests : req'[p] = IF p = r THEN Idle ELSE req[p]
    BY <1>1, <1>3 DEF WriteBadges, SaveAccount, CreateWrite, Answer
  <2>2. account'[a] = "inactive"
    <3>1. CASE SaveAccount(r)
      BY <1>1, <3>1 DEF SaveAccount, Off
    <3>2. CASE CreateWrite(r)
      BY <1>1, <3>2 DEF CreateWrite, Off
    <3>3. CASE WriteBadges(r)
      BY <3>3 DEF WriteBadges, Off
    <3> QED  BY <1>3, <3>1, <3>2, <3>3
  <2> QED  BY <2>1, <2>2 DEF Off, Idle, Asked
<1> QED  BY <1>2, <1>3 DEF Next

(* update, "Deactivation has to end the sessions, not just block future    *)
(* logins":  a save that read the account before it was closed can open it *)
(* again, and nothing else can.  Once no such save is left, the account    *)
(* stays closed until somebody asks for it to be opened.                   *)
THEOREM DeactivationsStand ==
  Spec => [][\A a \in Admins : Off(a) =>
               \/ Off(a)'
               \/ \E r \in Requests, actor \in Admins, s \in Sites : Activate(r, actor, s, a)]_vars
<1>1. IInv /\ [Next]_vars =>
        [\A a \in Admins : Off(a) =>
           \/ Off(a)'
           \/ \E r \in Requests, actor \in Admins, s \in Sites : Activate(r, actor, s, a)]_vars
  BY OffUntilAsked
<1> QED  BY <1>1, Invariance, PTL DEF Spec

----------------------------------------------------------------------------
(* Who holds a badge keeps one.                                            *)

(* What a rewriting leaves alone, and what it adds.                        *)
LEMMA CellsLeftAlone ==
  ASSUME IInv, NEW t \in Admins, NEW w \in Sites, NEW actor, NEW drop, NEW add,
         badge' = Rewritten(t, w, drop, add, actor),
         NEW a \in Admins, NEW s \in Sites, NEW x \in Roles
  PROVE  /\ ~ (a = t /\ s = w /\ (x \in add \/ <<x, badge[a][s][x].grants>> \in drop))
              => badge'[a][s][x] = badge[a][s][x]
         /\ a = t /\ s = w /\ x \in add => badge'[a][s][x].live
<1> DEFINE cell(y) ==
      LET b == badge[t][w][y] IN
      IF y \in add THEN [live |-> TRUE, grants |-> b.grants + 1, by |-> actor]
      ELSE IF <<y, b.grants>> \in drop THEN [live |-> FALSE, grants |-> b.grants, by |-> b.by]
      ELSE b
<1>1. badge \in [Admins -> [Sites -> [Roles -> Badge]]]
  BY DEF IInv, TypeOK
<1>2. badge' = [badge EXCEPT ![t][w] = [y \in Roles |-> cell(y)]]
  BY DEF Rewritten
<1>3. /\ x \in add => cell(x).live
      /\ x \notin add /\ <<x, badge[t][w][x].grants>> \notin drop => cell(x) = badge[t][w][x]
  OBVIOUS
<1> HIDE DEF cell
<1>4. badge'[a][s][x] = IF a = t /\ s = w THEN cell(x) ELSE badge[a][s][x]
  BY <1>1, <1>2
<1> QED
  BY <1>3, <1>4

(* A check that was passed leaves the account a badge.                     *)
LEMMA ArrivalLeavesABadge ==
  ASSUME IInv, NEW r \in Requests, Arrive(r), NEW a \in Admins, HoldsABadge(a)
  PROVE  HoldsABadge(a)'
<1>1. PICK actor \in Admins, c \in Admins, s \in Sites :
        \/ \E x \in Roles : GrantRole(r, actor, s, c, x) \/ RevokeRole(r, actor, s, c, x)
        \/ \E X \in SUBSET Roles : ReplaceRoles(r, actor, s, c, X) \/ Create(r, actor, s, c, X)
        \/ Rename(r, actor, s, c) \/ Activate(r, actor, s, c) \/ Deactivate(r, actor, s, c)
  BY DEF Arrive
<1>2. PICK q : /\ Begin(r, q)
               /\ q.op = "badges" /\ q.target = a /\ q.drop # {} =>
                    \/ q.add # {}
                    \/ \E z \in Sites : \E y \in Held(a, z) :
                         ~ (z = q.site /\ <<y, badge[a][z][y].grants>> \in q.drop)
  <2>1. ASSUME NEW x \in Roles, GrantRole(r, actor, s, c, x)
        PROVE  \E q : Begin(r, q) /\ q.drop = {}
    BY <2>1 DEF GrantRole, Asked
  <2>2. ASSUME NEW x \in Roles, RevokeRole(r, actor, s, c, x)
        PROVE  \E q : /\ Begin(r, q) /\ q.target = c /\ q.site = s
                      /\ \E z \in Sites : \E y \in Held(c, z) :
                           ~ (z = s /\ <<y, badge[c][z][y].grants>> \in q.drop)
    <3> DEFINE q == Asked("badges", actor, c, s, {<<x, badge[c][s][x].grants>>}, {}, FALSE)
    <3>1. PICK z \in Sites, y \in Roles : <<z, y>> # <<s, x>> /\ badge[c][z][y].live
      BY <2>2 DEF RevokeRole
    <3>2. Begin(r, q) /\ q.target = c /\ q.site = s /\ q.drop = {<<x, badge[c][s][x].grants>>}
      BY <2>2 DEF RevokeRole, Asked
    <3> HIDE DEF q
    <3>3. y \in Held(c, z) /\ ~ (z = s /\ <<y, badge[c][z][y].grants>> \in q.drop)
      BY <3>1, <3>2 DEF Held
    <3> QED
      BY <3>2, <3>3
  <2>3. ASSUME NEW X \in SUBSET Roles, ReplaceRoles(r, actor, s, c, X)
        PROVE  \E q : /\ Begin(r, q) /\ q.target = c /\ q.site = s
                      /\ \/ q.add # {}
                         \/ \E y \in Held(c, s) : <<y, badge[c][s][y].grants>> \notin q.drop
    <3> DEFINE q == Asked("badges", actor, c, s, Dropped(c, s, X), X \ Held(c, s), FALSE)
    <3>1. /\ Begin(r, q) /\ q.target = c /\ q.site = s
          /\ q.drop = Dropped(c, s, X) /\ q.add = X \ Held(c, s)
      BY <2>3 DEF ReplaceRoles, Asked
    <3> HIDE DEF q
    <3>2. PICK y \in X : TRUE
      BY <2>3 DEF ReplaceRoles
    <3>3. <<y, badge[c][s][y].grants>> \notin Dropped(c, s, X)
      BY DEF Dropped
    <3> QED
      BY <3>1, <3>2, <3>3
  <2>4. ASSUME NEW X \in SUBSET Roles, Create(r, actor, s, c, X)
        PROVE  \E q : Begin(r, q) /\ q.drop = {}
    BY <2>4 DEF Create, Asked
  <2>5. ASSUME Rename(r, actor, s, c) \/ Activate(r, actor, s, c) \/ Deactivate(r, actor, s, c)
        PROVE  \E q : Begin(r, q) /\ q.drop = {}
    BY <2>5 DEF Rename, Activate, Deactivate, Update, Asked
  <2> QED
    BY <1>1, <2>1, <2>2, <2>3, <2>4, <2>5
<1>3. /\ account' = account /\ badge' = badge
      /\ \A p \in Requests : req'[p] = IF p = r THEN q ELSE req[p]
  BY <1>2 DEF Begin, IInv, TypeOK
<1>4. ASSUME NEW p \in Requests, Removing(p, a)', account[a] # "absent" PROVE LeavesABadge(p, a)'
  <2>1. CASE p = r
    BY <1>2, <1>3, <1>4, <2>1 DEF Removing, LeavesABadge, Held
  <2>2. CASE p # r
    <3>1. Removing(p, a) /\ LeavesABadge(p, a)
      BY <1>3, <1>4, <2>2 DEF Removing, HoldsABadge
    <3> QED
      BY <1>3, <2>2, <3>1 DEF LeavesABadge, Held
  <2> QED
    BY <2>1, <2>2
<1> QED
  BY <1>3, <1>4 DEF HoldsABadge, Visible, Held

(* The badges of an account rewritten for request r.                       *)
LEMMA RewritingLeavesABadge ==
  ASSUME IInv, NEW r \in Requests, Answer(r), NEW a \in Admins, HoldsABadge(a),
         account[a] # "absent", req[r].target \in Admins, req[r].site \in Sites,
         req[r].add \subseteq Roles, req[r].op = "badges",
         req[r].add \cap Held(req[r].target, req[r].site) = {},
         badge' = Rewritten(req[r].target, req[r].site, req[r].drop, req[r].add, req[r].actor),
         UNCHANGED account,
         \A q, p \in Requests : Removing(q, a) /\ Removing(p, a) => q = p
  PROVE  HoldsABadge(a)'
<1>1. PICK t \in Admins, w \in Sites, drop \in SUBSET (Roles \X (1..MaxGrants)), add \in SUBSET Roles :
        /\ t = req[r].target /\ w = req[r].site /\ drop = req[r].drop /\ add = req[r].add
        /\ add \cap Held(t, w) = {} /\ badge' = Rewritten(t, w, drop, add, req[r].actor)
  BY DEF IInv, TypeOK, Request
<1>2. \A s \in Sites, x \in Roles :
        /\ ~ (a = t /\ s = w /\ (x \in add \/ <<x, badge[a][s][x].grants>> \in drop))
              => badge'[a][s][x] = badge[a][s][x]
        /\ a = t /\ s = w /\ x \in add => badge'[a][s][x].live
  BY <1>1, CellsLeftAlone
<1>3. \A p \in Requests : req'[p] = IF p = r THEN Idle ELSE req[p]
  BY DEF Answer, IInv, TypeOK
<1>4. CASE Removing(r, a)
  <2>1. a = t /\ LeavesABadge(r, a)
    BY <1>1, <1>4 DEF Removing, HoldsABadge
  <2>2. \A p \in Requests : ~ Removing(p, a)'
    BY <1>3, <1>4 DEF Removing, Idle, Asked
  <2>3. CASE add # {}
    BY <1>2, <2>1, <2>2, <2>3 DEF HoldsABadge, Visible, Held
  <2>4. CASE add = {}
    <3>1. PICK s \in Sites, x \in Roles :
            badge[a][s][x].live /\ ~ (s = w /\ <<x, badge[a][s][x].grants>> \in drop)
      BY <1>1, <2>1, <2>4 DEF LeavesABadge, Held
    <3>2. badge'[a][s][x].live
      BY <1>2, <2>4, <3>1
    <3> QED
      BY <2>2, <3>2 DEF HoldsABadge, Visible, Held
  <2> QED
    BY <2>3, <2>4
<1>5. CASE ~ Removing(r, a)
  <2>1. \A s \in Sites, x \in Roles : badge[a][s][x].live => badge'[a][s][x] = badge[a][s][x]
    <3> SUFFICES ASSUME NEW s \in Sites, NEW x \in Roles, badge[a][s][x].live
                 PROVE  badge'[a][s][x] = badge[a][s][x]
      OBVIOUS
    <3>1. a = t => drop = {}
      BY <1>1, <1>5 DEF Removing
    <3>2. a = t /\ s = w => x \notin add
      BY <1>1 DEF Held
    <3> QED
      BY <1>2, <3>1, <3>2
  <2>2. \E s \in Sites : Visible(a, s)'
    BY <2>1 DEF HoldsABadge, Visible, Held
  <2>3. ASSUME NEW p \in Requests, Removing(p, a)' PROVE LeavesABadge(p, a)'
    <3>1. p # r /\ req'[p] = req[p]
      BY <1>3, <2>3 DEF Removing, Idle, Asked
    <3>2. LeavesABadge(p, a)
      BY <2>3, <3>1 DEF Removing, HoldsABadge
    <3>3. CASE req[p].add # {}
      BY <3>1, <3>3 DEF LeavesABadge
    <3>4. CASE req[p].add = {}
      <4>1. PICK s \in Sites, x \in Roles :
              /\ badge[a][s][x].live
              /\ ~ (s = req[p].site /\ <<x, badge[a][s][x].grants>> \in req[p].drop)
        BY <3>2, <3>4 DEF LeavesABadge, Held
      <4>2. badge'[a][s][x] = badge[a][s][x]
        BY <2>1, <4>1
      <4> QED
        BY <3>1, <4>1, <4>2 DEF LeavesABadge, Held
    <3> QED
      BY <3>3, <3>4
  <2> QED
    BY <2>2, <2>3 DEF HoldsABadge
<1> QED
  BY <1>4, <1>5

(* A request that is answered with the badges as they were.                *)
LEMMA AnswerLeavesABadge ==
  ASSUME IInv, NEW r \in Requests, Answer(r), NEW a \in Admins, HoldsABadge(a),
         UNCHANGED badge, account[a] = "absent" => account'[a] = "absent"
  PROVE  HoldsABadge(a)'
<1>1. \A p \in Requests : req'[p] = IF p = r THEN Idle ELSE req[p]
  BY DEF Answer, IInv, TypeOK
<1>2. ASSUME NEW p \in Requests, Removing(p, a)', account[a] # "absent" PROVE LeavesABadge(p, a)'
  <2>1. p # r /\ req'[p] = req[p]
    BY <1>1, <1>2 DEF Removing, Idle, Asked
  <2>2. LeavesABadge(p, a)
    BY <1>2, <2>1 DEF Removing, HoldsABadge
  <2> QED
    BY <2>1, <2>2 DEF LeavesABadge, Held
<1> QED
  BY <1>2 DEF HoldsABadge, Visible, Held

(* An account is created with a badge, and with nothing under way to take  *)
(* it:  what takes badges found the account there.                         *)
LEMMA CreationLeavesABadge ==
  ASSUME IInv, NEW r \in Requests, CreateWrite(r), NEW a \in Admins, HoldsABadge(a)
  PROVE  HoldsABadge(a)'
<1>1. /\ Answer(r) /\ req[r].op = "create" /\ Entitled(req[r]) /\ req[r].add # {}
      /\ req[r].add \subseteq Roles
  BY DEF CreateWrite, IInv, Checked, TypeOK, Request
<1>2. PICK t \in Admins, w \in Sites, add \in SUBSET Roles, actor \in Admins :
        t = req[r].target /\ w = req[r].site /\ add = req[r].add /\ actor = req[r].actor
  BY <1>1 DEF Entitled
<1>3. CASE account[t] # "absent"
  BY <1>1, <1>2, <1>3, AnswerLeavesABadge DEF CreateWrite
<1>4. CASE account[t] = "absent"
  <2>1. badge' = Rewritten(t, w, {}, add, actor) /\ account' = [account EXCEPT ![t] = "active"]
    BY <1>2, <1>4 DEF CreateWrite
  <2>2. \A s \in Sites, x \in Roles :
          /\ ~ (a = t /\ s = w /\ x \in add) => badge'[a][s][x] = badge[a][s][x]
          /\ a = t /\ s = w /\ x \in add => badge'[a][s][x].live
    <3>1. PICK drop \in SUBSET (Roles \X (1..MaxGrants)) : drop = {}
      OBVIOUS
    <3>2. badge' = Rewritten(t, w, drop, add, actor)
      BY <2>1, <3>1
    <3>3. \A s \in Sites, x \in Roles :
            /\ ~ (a = t /\ s = w /\ (x \in add \/ <<x, badge[a][s][x].grants>> \in drop))
                  => badge'[a][s][x] = badge[a][s][x]
            /\ a = t /\ s = w /\ x \in add => badge'[a][s][x].live
      BY <3>2, CellsLeftAlone
    <3>4. \A s \in Sites, x \in Roles : <<x, badge[a][s][x].grants>> \notin drop
      BY <3>1
    <3> QED
      BY <3>3, <3>4
  <2>3. \A p \in Requests : req'[p] = IF p = r THEN Idle ELSE req[p]
    BY <1>1 DEF Answer, IInv, TypeOK
  <2>4. CASE a = t
    <3>1. \A p \in Requests : ~ Removing(p, a)'
      BY <1>4, <2>3, <2>4 DEF Removing, Idle, Asked, IInv, Checked
    <3>2. \E s \in Sites : Visible(a, s)'
      BY <1>1, <1>2, <2>2, <2>4 DEF Visible, Held
    <3> QED
      BY <3>1, <3>2 DEF HoldsABadge
  <2>5. CASE a # t
    <3>1. account'[a] = account[a] /\ \A s \in Sites, x \in Roles : badge'[a][s][x] = badge[a][s][x]
      BY <2>1, <2>2, <2>5 DEF IInv, TypeOK
    <3>2. ASSUME NEW p \in Requests, Removing(p, a)', account[a] # "absent" PROVE LeavesABadge(p, a)'
      <4>1. p # r /\ req'[p] = req[p]
        BY <2>3, <3>2 DEF Removing, Idle, Asked
      <4>2. LeavesABadge(p, a)
        BY <3>2, <4>1 DEF Removing, HoldsABadge
      <4> QED
        BY <3>1, <4>1, <4>2 DEF LeavesABadge, Held
    <3> QED
      BY <3>1, <3>2 DEF HoldsABadge, Visible, Held
  <2> QED
    BY <2>4, <2>5
<1> QED
  BY <1>3, <1>4

LEMMA StepLeavesABadge ==
  ASSUME IInv, [Next]_vars, NEW a \in Admins, HoldsABadge(a),
         \A q, p \in Requests : Removing(q, a) /\ Removing(p, a) => q = p
  PROVE  HoldsABadge(a)'
<1>1. CASE UNCHANGED vars
  BY <1>1 DEF vars, HoldsABadge, Visible, Held, Removing, LeavesABadge
<1>2. ASSUME NEW r \in Requests, WriteBadges(r) PROVE HoldsABadge(a)'
  <2>1. /\ req[r].op = "badges" /\ Answer(r) /\ UNCHANGED account /\ Entitled(req[r])
        /\ req[r].add \subseteq Roles
    BY <1>2 DEF WriteBadges, IInv, Checked, TypeOK, Request
  <2>2. CASE badge' = badge
    BY <2>1, <2>2, AnswerLeavesABadge
  <2>3. CASE badge' # badge /\ account[a] # "absent"
    BY <1>2, <2>1, <2>3, RewritingLeavesABadge DEF WriteBadges, Entitled
  <2>4. CASE account[a] = "absent"
    BY <2>1, <2>4 DEF HoldsABadge
  <2> QED
    BY <2>2, <2>3, <2>4
<1>3. ASSUME NEW r \in Requests, SaveAccount(r) PROVE HoldsABadge(a)'
  <2>1. account[req[r].target] # "absent"
    BY <1>3 DEF SaveAccount, IInv, Checked
  <2>2. account[a] = "absent" => account'[a] = "absent"
    BY <1>3, <2>1 DEF SaveAccount, IInv, TypeOK
  <2> QED
    BY <1>3, <2>2, AnswerLeavesABadge DEF SaveAccount
<1> QED
  BY <1>1, <1>2, <1>3, ArrivalLeavesABadge, CreationLeavesABadge DEF Next

LEMMA BadgesAtFirst ==
  Init => \A a \in Admins : HoldsABadge(a)
<1> SUFFICES ASSUME Init, NEW a \in Admins, account[a] # "absent" PROVE HoldsABadge(a)
  BY DEF HoldsABadge
<1>1. PICK units \in SUBSET ((Admins \ Protected) \X Sites) :
        /\ account = [b \in Admins |-> IF b \in Protected \/ \E s \in Sites : <<b, s>> \in units
                                         THEN "active" ELSE "absent"]
        /\ badge = [b \in Admins |-> [s \in Sites |-> [x \in Roles |->
                      IF x = SuperAdmin /\ (b \in Protected \/ <<b, s>> \in units)
                        THEN [live |-> TRUE, grants |-> 1, by |-> None]
                        ELSE [live |-> FALSE, grants |-> 0, by |-> None]]]]
        /\ req = [r \in Requests |-> Idle]
  BY DEF Init
<1>2. PICK s \in Sites : a \in Protected \/ <<a, s>> \in units
  BY <1>1, RootAssumption
<1>3. badge[a][s][SuperAdmin].live
  BY <1>1, <1>2, RolesAssumption
<1>4. \A r \in Requests : ~ Removing(r, a)
  BY <1>1 DEF Removing, Idle, Asked
<1> QED
  BY <1>3, <1>4, RolesAssumption DEF HoldsABadge, Visible, Held

(* revokeRole and replaceRoles:  an account holds a badge from its creation*)
(* until two removals of its badges overlap, for any number of accounts,   *)
(* dashboards, roles and requests.                                         *)
THEOREM AccountsKeepABadge == Spec => LastBadgeNeedsAnOverlap
<1>1. IInv /\ [Next]_vars =>
        [\A a \in Admins : HoldsABadge(a) =>
           \/ HoldsABadge(a)'
           \/ \E q, r \in Requests : q # r /\ Removing(q, a) /\ Removing(r, a)]_vars
  BY StepLeavesABadge
<1> QED  BY <1>1, BadgesAtFirst, Invariance, PTL DEF Spec, LastBadgeNeedsAnOverlap
============================================================================
