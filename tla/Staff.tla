------------------------------- MODULE Staff -------------------------------
(***************************************************************************)
(* Staff accounts and their badges (auth/staff.service.ts).                *)
(*                                                                         *)
(* A badge is a live row of admin_roles: an account, a dashboard (site)    *)
(* and a role.  Every operation first runs its checks, each a query of its *)
(* own, and then writes in one statement or transaction; anything may run  *)
(* in between.  The checks of one operation are one step here.             *)
(* The placeholder role PENDING, which grants nothing, is left out.        *)
(***************************************************************************)
EXTENDS Naturals, FiniteSets

CONSTANTS
  Admins,      (* accounts, those not created yet included                 *)
  Protected,   (* accounts with is_protected; no operation changes the flag*)
  Sites,       (* dashboards                                               *)
  Roles,
  SuperAdmin,  (* ROLE.SUPER_ADMIN                                         *)
  Managers,    (* the roles that grant the Team & roles feature            *)
  Requests,    (* requests the server may be serving at one moment         *)
  MaxGrants,   (* bound: how often one badge is granted                    *)
  MaxUnits,    (* bound: super admins of a single dashboard at the start   *)
  MaxAssigned, (* bound: no badge is asked for beyond this many assigned   *)
  None

ASSUME RolesAssumption == SuperAdmin \in Managers /\ Managers \subseteq Roles
ASSUME ProtectedAssumption == Protected \subseteq Admins
(* One root account at least, and more than one brand.                     *)
ASSUME RootAssumption == Protected # {} /\ Sites # {} /\ \A s \in Sites : Sites \ {s} # {}
ASSUME BoundAssumption == MaxGrants \in Nat \ {0} /\ MaxUnits \in Nat /\ MaxAssigned \in Nat
ASSUME NoneAssumption == None \notin Admins \cup Sites

VARIABLES
  account,  (* admins                                                      *)
  badge,    (* admin_roles, the rows of one account, site and role together*)
  req       (* the requests being served                                   *)

vars == <<account, badge, req>>

(* grants counts the rows there were and names the last, which is the only *)
(* one that may be live; by is who assigned it.                            *)
Badge == [live : BOOLEAN, grants : 0..MaxGrants, by : Admins \cup {None}]

Request == [op     : {"none", "badges", "rename", "activity", "create"},
            actor  : Admins \cup {None},
            target : Admins \cup {None},
            site   : Sites \cup {None},
            drop   : SUBSET (Roles \X (1..MaxGrants)),  (* the rows to revoke *)
            add    : SUBSET Roles,
            active : BOOLEAN]

Asked(op, actor, a, s, drop, add, active) ==
  [op |-> op, actor |-> actor, target |-> a, site |-> s,
   drop |-> drop, add |-> add, active |-> active]

Idle == Asked("none", None, None, None, {}, {}, FALSE)

TypeOK ==
  /\ account \in [Admins -> {"absent", "active", "inactive"}]
  /\ badge \in [Admins -> [Sites -> [Roles -> Badge]]]
  /\ req \in [Requests -> Request]
  /\ \A a \in Admins, s \in Sites, x \in Roles :
       badge[a][s][x].live => account[a] # "absent"

(* Whoever holds SUPER_ADMIN on every site is protected (ProtectRootAdmins)*)
(* and a dashboard may have super admins of its own.                       *)
Init ==
  \E units \in SUBSET ((Admins \ Protected) \X Sites) :
    /\ Cardinality(units) <= MaxUnits
    /\ \A a \in Admins : \E s \in Sites : <<a, s>> \notin units
    /\ account = [a \in Admins |-> IF a \in Protected \/ \E s \in Sites : <<a, s>> \in units
                                     THEN "active" ELSE "absent"]
    /\ badge = [a \in Admins |-> [s \in Sites |-> [x \in Roles |->
                  IF x = SuperAdmin /\ (a \in Protected \/ <<a, s>> \in units)
                    THEN [live |-> TRUE, grants |-> 1, by |-> None]
                    ELSE [live |-> FALSE, grants |-> 0, by |-> None]]]]
    /\ req = [r \in Requests |-> Idle]

----------------------------------------------------------------------------
(* THE CHECKS                                                              *)

Held(a, s) == {x \in Roles : badge[a][s][x].live}

(* PermissionsGuard: the badge is looked up on every request, the account  *)
(* is not.                                                                 *)
Manages(actor, s) == Held(actor, s) \cap Managers # {}

Visible(a, s) == Held(a, s) # {}

(* Mutant: what the account may do elsewhere is not looked at.             *)
WithinAnyway(a, s) == TRUE

WhollyWithin(a, s) == \A z \in Sites \ {s} : Held(a, z) = {}

(* refuseProtected *)
MayTouch(actor, a) == a \in Protected => actor \in Protected

(* Mutant: an administrator may appoint peers.                             *)
AppointPeers(actor, X) == SuperAdmin \in X => \E s \in Sites : Manages(actor, s)

(* requireProtectedToGrantSuperAdmin *)
MayAppoint(actor, X) == SuperAdmin \in X => actor \in Protected

(* refuseLastSuperAdmin, for one dashboard                                 *)
LastSuperAdmin(a, s) ==
  /\ badge[a][s][SuperAdmin].live
  /\ \A b \in Admins \ {a} : badge[b][s][SuperAdmin].live => account[b] # "active"

----------------------------------------------------------------------------
Assigned == {c \in Admins \X Sites \X Roles : badge[c[1]][c[2]][c[3]].by # None}

Begin(r, q) ==
  /\ q.add # {} => Cardinality(Assigned) < MaxAssigned
  /\ req' = [req EXCEPT ![r] = q]
  /\ UNCHANGED <<account, badge>>

Answer(r) == req' = [req EXCEPT ![r] = Idle]

(* Mutant: the account is not looked up.                                   *)
GrantUnchecked(r, actor, s, a, x) ==
  /\ Manages(actor, s)
  /\ MayTouch(actor, a) /\ MayAppoint(actor, {x}) /\ a # actor
  /\ ~ badge[a][s][x].live
  /\ Begin(r, Asked("badges", actor, a, s, {}, {x}, FALSE))

GrantRole(r, actor, s, a, x) ==
  /\ Manages(actor, s)
  /\ MayTouch(actor, a) /\ MayAppoint(actor, {x}) /\ a # actor
  /\ account[a] # "absent"
  /\ ~ badge[a][s][x].live
  /\ Begin(r, Asked("badges", actor, a, s, {}, {x}, FALSE))

(* Mutant: the badge to be revoked counts as one that remains.             *)
RevokeUncounted(r, actor, s, a, x) ==
  /\ Manages(actor, s)
  /\ Visible(a, s) /\ MayTouch(actor, a) /\ a # actor /\ a \notin Protected
  /\ badge[a][s][x].live
  /\ \E z \in Sites, y \in Roles : badge[a][z][y].live
  /\ x = SuperAdmin => ~ LastSuperAdmin(a, s)
  /\ Begin(r, Asked("badges", actor, a, s, {<<x, badge[a][s][x].grants>>}, {}, FALSE))

RevokeRole(r, actor, s, a, x) ==
  /\ Manages(actor, s)
  /\ Visible(a, s) /\ MayTouch(actor, a) /\ a # actor /\ a \notin Protected
  /\ badge[a][s][x].live
  /\ \E z \in Sites, y \in Roles : <<z, y>> # <<s, x>> /\ badge[a][z][y].live
  /\ x = SuperAdmin => ~ LastSuperAdmin(a, s)
  /\ Begin(r, Asked("badges", actor, a, s, {<<x, badge[a][s][x].grants>>}, {}, FALSE))

Dropped(a, s, X) == {<<x, badge[a][s][x].grants>> : x \in Held(a, s) \ X}

(* Mutant: a protected caller may replace the roles of a protected account.*)
ReplaceProtected(r, actor, s, a, X) ==
  /\ Manages(actor, s)
  /\ Visible(a, s) /\ MayTouch(actor, a) /\ MayAppoint(actor, X) /\ a # actor
  /\ X # {} /\ X # Held(a, s)
  /\ SuperAdmin \in Held(a, s) \ X => ~ LastSuperAdmin(a, s)
  /\ Begin(r, Asked("badges", actor, a, s, Dropped(a, s, X), X \ Held(a, s), FALSE))

ReplaceRoles(r, actor, s, a, X) ==
  /\ Manages(actor, s)
  /\ Visible(a, s) /\ MayTouch(actor, a) /\ MayAppoint(actor, X) /\ a # actor
  /\ X # {} /\ X # Held(a, s)
  /\ Held(a, s) \ X # {} => a \notin Protected
  /\ SuperAdmin \in Held(a, s) \ X => ~ LastSuperAdmin(a, s)
  /\ Begin(r, Asked("badges", actor, a, s, Dropped(a, s, X), X \ Held(a, s), FALSE))

(* The badges of account a on site s after the rows of drop are revoked    *)
(* and those of add inserted by actor.                                     *)
Rewritten(a, s, drop, add, actor) ==
  [badge EXCEPT ![a][s] =
     [x \in Roles |->
        LET b == badge[a][s][x] IN
        IF x \in add THEN [live |-> TRUE, grants |-> b.grants + 1, by |-> actor]
        ELSE IF <<x, b.grants>> \in drop THEN [live |-> FALSE, grants |-> b.grants, by |-> b.by]
        ELSE b]]

Room(a, s, add) == \A x \in add : badge[a][s][x].grants < MaxGrants

(* The write of grantRole, revokeRole and replaceRoles.  The unique index  *)
(* over live rows refuses a badge that was granted meanwhile.              *)
WriteBadges(r) ==
  LET q == req[r] IN
  /\ q.op = "badges"
  /\ Room(q.target, q.site, q.add)
  /\ badge' = IF q.add \cap Held(q.target, q.site) = {}
                THEN Rewritten(q.target, q.site, q.drop, q.add, q.actor) ELSE badge
  /\ Answer(r)
  /\ UNCHANGED account

----------------------------------------------------------------------------
(* update: a rename, or isActive set one way or the other.  What will be   *)
(* saved is the whole row as it was read, with the change applied.         *)
Update(r, op, actor, s, a, active) ==
  /\ Manages(actor, s)
  /\ Visible(a, s) /\ MayTouch(actor, a)
  /\ account[a] # "absent"
  /\ Begin(r, Asked(op, None, a, None, {}, {}, active))

(* An update that leaves isActive as it is, by omitting or repeating it.   *)
Rename(r, actor, s, a) == Update(r, "rename", actor, s, a, account[a] = "active")

Activate(r, actor, s, a) ==
  /\ account[a] = "inactive"
  /\ Update(r, "activity", actor, s, a, TRUE)

Deactivate(r, actor, s, a) ==
  /\ WhollyWithin(a, s)
  /\ account[a] = "active"
  /\ a # actor /\ \A z \in Sites : ~ LastSuperAdmin(a, z)
  /\ Update(r, "activity", actor, s, a, FALSE)

SaveAccount(r) ==
  /\ req[r].op \in {"rename", "activity"}
  /\ account' = [account EXCEPT ![req[r].target] = IF req[r].active THEN "active" ELSE "inactive"]
  /\ Answer(r)
  /\ UNCHANGED badge

(* create: an account and its badges on the caller's dashboard.            *)
Create(r, actor, s, a, X) ==
  /\ Manages(actor, s)
  /\ account[a] = "absent" /\ X # {} /\ MayAppoint(actor, X)
  /\ Begin(r, Asked("create", actor, a, s, {}, X, TRUE))

CreateWrite(r) ==
  LET q == req[r] IN
  /\ q.op = "create"
  /\ Room(q.target, q.site, q.add)
  /\ IF account[q.target] = "absent"
       THEN /\ account' = [account EXCEPT ![q.target] = "active"]
            /\ badge' = Rewritten(q.target, q.site, {}, q.add, q.actor)
       ELSE UNCHANGED <<account, badge>>
  /\ Answer(r)

Arrive(r) ==
  /\ req[r].op = "none"
  /\ \E actor, a \in Admins, s \in Sites :
       \/ \E x \in Roles : GrantRole(r, actor, s, a, x) \/ RevokeRole(r, actor, s, a, x)
       \/ \E X \in SUBSET Roles : ReplaceRoles(r, actor, s, a, X) \/ Create(r, actor, s, a, X)
       \/ Rename(r, actor, s, a) \/ Activate(r, actor, s, a) \/ Deactivate(r, actor, s, a)

Next == \E r \in Requests : Arrive(r) \/ WriteBadges(r) \/ SaveAccount(r) \/ CreateWrite(r)

Spec == Init /\ [][Next]_vars

----------------------------------------------------------------------------
(* PROPERTIES                                                              *)

(* refuseLastSuperAdmin: "Refuses to remove the last way back in - per     *)
(* brand".  Two removals that overlap both see the other super admin, so   *)
(* what keeps every dashboard administrable is not that check: it is that  *)
(* an account with badges on several sites is no dashboard's to deactivate *)
(* and that the badges of a protected one are nobody's to revoke.          *)
EveryDashboardHasASuperAdmin ==
  \A s \in Sites : \E a \in Admins : badge[a][s][SuperAdmin].live /\ account[a] = "active"

(* refuseRevokingProtected: "The global super administrator's badges are   *)
(* nobody's to remove", though replaceRoles drops what it read earlier.    *)
ProtectedBadgesStand ==
  [][\A a \in Protected, s \in Sites, x \in Roles :
       badge[a][s][x].live => badge'[a][s][x].live]_vars

(* The chain of authority: whoever assigned a badge on a dashboard has had *)
(* a managing badge on that same dashboard, and a super admin was made by  *)
(* a protected account ("a super admin for one brand minting a super admin *)
(* for another" is what requireOwnSite is there to stop).                  *)
BadgesHaveAuthority ==
  \A a \in Admins, s \in Sites, x \in Roles :
    LET by == badge[a][s][x].by IN
    by # None =>
      /\ \E y \in Managers : badge[by][s][y].grants > 0
      /\ x = SuperAdmin => by \in Protected

(* revokeRole: "leaving an account that can sign in nowhere is the thing   *)
(* worth refusing".  An account there is holds a badge, and each removal   *)
(* under way would leave it one, from its creation until two removals on   *)
(* it overlap: replaceRoles and the revocations of every dashboard count   *)
(* ahead of their write, and what one counts the other may take.           *)
Removing(r, a) == req[r].op = "badges" /\ req[r].target = a /\ req[r].drop # {}

LeavesABadge(r, a) ==
  \/ req[r].add # {}
  \/ \E s \in Sites : \E x \in Held(a, s) :
       ~ (s = req[r].site /\ <<x, badge[a][s][x].grants>> \in req[r].drop)

HoldsABadge(a) ==
  account[a] # "absent" =>
    /\ \E s \in Sites : Visible(a, s)
    /\ \A r \in Requests : Removing(r, a) => LeavesABadge(r, a)

LastBadgeNeedsAnOverlap ==
  /\ \A a \in Admins : HoldsABadge(a)
  /\ [][\A a \in Admins : HoldsABadge(a) =>
           \/ HoldsABadge(a)'
           \/ \E q, r \in Requests : q # r /\ Removing(q, a) /\ Removing(r, a)]_vars

(* update: "Deactivation has to end the sessions, not just block future    *)
(* logins".  No rename opens an account that has been deactivated.         *)
DeactivationHolds ==
  [][\A r \in Requests :
       LET a == req[r].target IN
       req[r].op = "rename" /\ SaveAccount(r) /\ account[a] = "inactive"
         => account'[a] = "inactive"]_vars
============================================================================
