--------------------------- MODULE RoleOverrides ---------------------------
(***************************************************************************)
(* What a role may do on one site: the seeded permissions and the          *)
(* overrides that differ from them (auth/staff.service.ts,                 *)
(* setRolePermissions and resetRolePermissions).                           *)
(*                                                                         *)
(* A replacement deletes the role's rows and inserts its own, in one       *)
(* transaction under READ COMMITTED.  The DELETE takes the rows committed  *)
(* when it began; it waits for a row that another replacement is deleting, *)
(* and passes over it once that has committed.  The trail of changes and   *)
(* who may ask (nobody edits the role they hold) are left out.             *)
(***************************************************************************)
CONSTANTS
  Grants,     (* pairs of feature and permission                           *)
  Seeded,     (* role_permissions: what the role is seeded with            *)
  TeamView,   (* seeing the Team & roles screen                            *)
  Writers     (* requests the server may be serving at one moment          *)

ASSUME OverridesAssumption == Seeded \subseteq Grants /\ TeamView \in Seeded

VARIABLES
  role,      (* whether the role is Super Admin                            *)
  override,  (* role_permission_overrides, as committed                    *)
  writer,    (* the transactions                                           *)
  last,      (* history: what the last replacement to commit asked for     *)
  merged     (* history: another had committed while it was at work        *)

overrideVars == <<role, override, writer, last, merged>>

Writer == [stage : {"idle", "begun", "deleting", "inserting"},
           want  : SUBSET Grants,
           sees  : SUBSET Grants,      (* the rows its DELETE is after     *)
           late  : BOOLEAN]            (* history: another has committed   *)
NoWriter == [stage |-> "idle", want |-> {}, sees |-> {}, late |-> FALSE]

OverridesTypeOK ==
  /\ role \in {"super", "other"}
  /\ override \in [Grants -> {"none", "grant", "deny"}]
  /\ writer \in [Writers -> Writer]
  /\ last \in SUBSET Grants
  /\ merged \in BOOLEAN

OverridesInit ==
  /\ role \in {"super", "other"}
  /\ override = [g \in Grants |-> "none"]
  /\ writer = [w \in Writers |-> NoWriter]
  /\ last = Seeded
  /\ merged = FALSE

----------------------------------------------------------------------------
Rows == {g \in Grants : override[g] # "none"}

(* The view effective_role_permissions.                                    *)
Effective == {g \in Grants : override[g] = "grant" \/ (g \in Seeded /\ override[g] # "deny")}

(* Mutant: what the request leaves out of the defaults is not denied.      *)
Additions(want) == want \ Seeded

(* Agreeing with the default needs no row.                                 *)
Differences(want) == (want \ Seeded) \cup (Seeded \ want)

BeginReplacement(w, want) ==
  /\ writer[w].stage = "idle"
  /\ writer' = [writer EXCEPT ![w] = [NoWriter EXCEPT !.stage = "begun", !.want = want]]
  /\ UNCHANGED <<role, override, last, merged>>

(* Mutant: the refusal is left to the screen.                              *)
ReplaceAny(w, want) == BeginReplacement(w, want)

SetRolePermissions(w, want) ==
  /\ role = "super" => TeamView \in want
  /\ BeginReplacement(w, want)

ResetRolePermissions(w) == BeginReplacement(w, Seeded)

DeleteBegins(w) ==
  /\ writer[w].stage = "begun"
  /\ writer' = [writer EXCEPT ![w].stage = "deleting", ![w].sees = Rows, ![w].late = FALSE]
  /\ UNCHANGED <<role, override, last, merged>>

(* No row it is after is being deleted by another.                         *)
DeleteEnds(w) ==
  /\ writer[w].stage = "deleting"
  /\ \A v \in Writers \ {w} : writer[v].stage = "inserting" => writer[v].sees \cap writer[w].sees = {}
  /\ writer' = [writer EXCEPT ![w].stage = "inserting"]
  /\ UNCHANGED <<role, override, last, merged>>

(* A row that is there and was not deleted violates the primary key, and   *)
(* the transaction is rolled back.                                         *)
ReplacementCommits(w) ==
  LET x == writer[w] IN
  /\ x.stage = "inserting"
  /\ Differences(x.want) \cap (Rows \ x.sees) = {}
  /\ override' = [g \in Grants |->
       IF g \in Differences(x.want) THEN (IF g \in x.want THEN "grant" ELSE "deny")
       ELSE IF g \in x.sees THEN "none" ELSE override[g]]
  /\ writer' = [v \in Writers |->
       IF v = w THEN NoWriter
       ELSE [writer[v] EXCEPT !.sees = IF writer[v].stage = "deleting" THEN @ \ x.sees ELSE @,
                              !.late = TRUE]]
  /\ last' = x.want
  /\ merged' = x.late
  /\ UNCHANGED role

ReplacementFails(w) ==
  /\ writer[w].stage # "idle"
  /\ writer' = [writer EXCEPT ![w] = NoWriter]
  /\ UNCHANGED <<role, override, last, merged>>

OverridesNext ==
  \E w \in Writers :
    \/ ResetRolePermissions(w) \/ DeleteBegins(w) \/ DeleteEnds(w)
    \/ ReplacementCommits(w) \/ ReplacementFails(w)
    \/ \E want \in SUBSET Grants : SetRolePermissions(w, want)

OverridesSpec == OverridesInit /\ [][OverridesNext]_overrideVars

----------------------------------------------------------------------------
(* "SUPER_ADMIN keeps ADMINS everywhere" (staff.service.ts:583-586): the   *)
(* refusal is of one request, and it keeps the permission through merges   *)
(* of requests as well.                                                    *)
SuperAdminKeepsTeam == role = "super" => TeamView \in Effective

(* A role may do what one administrator asked for, the last one, and not a *)
(* mixture, unless another replacement committed after the last one had    *)
(* begun to delete (staff.service.ts:632-660).                             *)
PermissionsAreOneRequests == ~ merged => Effective = last
=============================================================================
