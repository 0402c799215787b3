----------------------------- MODULE DesksProofs ------------------------------
(***************************************************************************)
(* Proofs about the desks that keep to tables of their own.  Each has the  *)
(* same shape: the invariant, that it holds initially, what a write and a  *)
(* move without one do to it, a step for each action, and the property.    *)
(* The last section puts all the desks side by side.                       *)
(***************************************************************************)
EXTENDS MCDesks, IntakeProofs, CasesProofs, CalendarProofs, TLAPS

----------------------------------------------------------------------------
(* Role overrides.                                                         *)

(* What a replacement under way carries.  One that nobody overtook is      *)
(* deleting the rows that are there.                                       *)
ReplacementOK(w) ==
  /\ role = "super" /\ writer[w].stage # "idle" => TeamView \in writer[w].want
  /\ writer[w].stage \in {"deleting", "inserting"} /\ ~ writer[w].late => writer[w].sees = Rows

OverridesInv ==
  /\ OverridesTypeOK
  /\ \A w \in Writers : ReplacementOK(w)
  /\ role = "super" => override[TeamView] # "deny"
  /\ PermissionsAreOneRequests

LEMMA OverridesInitially == OverridesInit => OverridesInv
<1> SUFFICES ASSUME OverridesInit PROVE OverridesInv
  OBVIOUS
<1>1. OverridesTypeOK
  BY OverridesAssumption DEF OverridesInit, OverridesTypeOK, NoWriter, Writer
<1>2. \A w \in Writers : ReplacementOK(w)
  BY DEF OverridesInit, NoWriter, ReplacementOK
<1>3. Effective = last
  BY OverridesAssumption DEF OverridesInit, Effective
<1> QED
  BY <1>1, <1>2, <1>3, OverridesAssumption DEF OverridesInit, OverridesInv, PermissionsAreOneRequests

(* A request that moves on without touching the role's rows.               *)
LEMMA ReplacementMoves ==
  ASSUME OverridesInv, NEW w \in Writers, NEW x \in Writer,
         writer' = [writer EXCEPT ![w] = x],
         UNCHANGED <<role, override, last, merged>>,
         role = "super" /\ x.stage # "idle" => TeamView \in x.want,
         x.stage \in {"deleting", "inserting"} /\ ~ x.late => x.sees = Rows
  PROVE  OverridesInv'
<1>1. OverridesTypeOK'
  BY DEF OverridesInv, OverridesTypeOK
<1>2. Rows' = Rows /\ Effective' = Effective
  BY DEF Rows, Effective
<1>3. \A v \in Writers : ReplacementOK(v)'
  BY <1>2 DEF OverridesInv, OverridesTypeOK, ReplacementOK
<1> QED
  BY <1>1, <1>2, <1>3 DEF OverridesInv, PermissionsAreOneRequests

LEMMA ReplacementKeeps ==
  ASSUME OverridesInv, NEW w \in Writers, ReplacementCommits(w)
  PROVE  OverridesInv'
<1> DEFINE x == writer[w]
<1>1. x \in Writer /\ x.want \subseteq Grants /\ x.sees \subseteq Grants /\ x.late \in BOOLEAN
  BY DEF OverridesInv, OverridesTypeOK, Writer
<1>2. /\ x.stage = "inserting" /\ last' = x.want /\ merged' = x.late /\ role' = role
      /\ override' = [g \in Grants |->
            IF g \in Differences(x.want) THEN (IF g \in x.want THEN "grant" ELSE "deny")
            ELSE IF g \in x.sees THEN "none" ELSE override[g]]
  BY DEF ReplacementCommits
<1>3. /\ writer'[w] = NoWriter
      /\ \A v \in Writers \ {w} :
           /\ writer'[v].stage = writer[v].stage /\ writer'[v].want = writer[v].want
           /\ writer'[v].late = TRUE
           /\ writer'[v] \in Writer
      /\ writer' \in [Writers -> Writer]
  BY <1>1 DEF ReplacementCommits, OverridesInv, OverridesTypeOK, Writer, NoWriter
<1>4. override' \in [Grants -> {"none", "grant", "deny"}]
  BY <1>2 DEF OverridesInv, OverridesTypeOK
<1>5. OverridesTypeOK'
  BY <1>1, <1>2, <1>3, <1>4 DEF OverridesInv, OverridesTypeOK
<1>6. \A v \in Writers : ReplacementOK(v)'
  <2> TAKE v \in Writers
  <2>1. CASE v = w
    BY <1>3, <2>1 DEF ReplacementOK, NoWriter
  <2>2. CASE v # w
    BY <1>2, <1>3, <2>2 DEF ReplacementOK, OverridesInv
  <2> QED
    BY <2>1, <2>2
<1>7. (role = "super" => override[TeamView] # "deny")'
  <2> SUFFICES ASSUME role = "super" PROVE override'[TeamView] # "deny"
    BY <1>2
  <2>1. TeamView \in x.want /\ TeamView \in Seeded /\ TeamView \in Grants
    BY <1>2, OverridesAssumption DEF OverridesInv, ReplacementOK
  <2> QED
    BY <2>1, <1>2 DEF OverridesInv, Differences
<1>8. PermissionsAreOneRequests'
  <2> SUFFICES ASSUME ~ x.late PROVE Effective' = x.want
    BY <1>2 DEF PermissionsAreOneRequests
  <2>1. x.sees = Rows
    BY <1>2 DEF OverridesInv, ReplacementOK
  <2>2. \A g \in Grants : /\ g \in Differences(x.want) => override'[g] = IF g \in x.want THEN "grant" ELSE "deny"
                          /\ g \notin Differences(x.want) => override'[g] = "none"
    BY <1>2, <2>1 DEF Rows, OverridesInv, OverridesTypeOK
  <2>3. \A g \in Grants : g \in Effective' <=> g \in x.want
    BY <2>2 DEF Effective, Differences
  <2>4. Effective' \subseteq Grants
    BY DEF Effective
  <2> QED
    BY <1>1, <2>3, <2>4
<1> QED
  BY <1>5, <1>6, <1>7, <1>8 DEF OverridesInv

LEMMA OverridesStep == OverridesInv /\ [OverridesNext]_overrideVars => OverridesInv'
<1> SUFFICES ASSUME OverridesInv, [OverridesNext]_overrideVars PROVE OverridesInv'
  OBVIOUS
<1>0. CASE UNCHANGED overrideVars
  BY <1>0 DEF OverridesInv, OverridesTypeOK, ReplacementOK, PermissionsAreOneRequests, Rows, Effective, overrideVars
<1>1. ASSUME NEW w \in Writers, NEW want \in SUBSET Grants, BeginReplacement(w, want),
             role = "super" => TeamView \in want
      PROVE  OverridesInv'
  <2> DEFINE x == [NoWriter EXCEPT !.stage = "begun", !.want = want]
  <2>1. x \in Writer /\ x.stage = "begun" /\ x.want = want
    BY DEF NoWriter, Writer
  <2> HIDE DEF x
  <2> QED
    BY <1>1, <2>1, ReplacementMoves DEF BeginReplacement, x
<1>2. ASSUME NEW w \in Writers, NEW want \in SUBSET Grants, SetRolePermissions(w, want)
      PROVE  OverridesInv'
  BY <1>1, <1>2 DEF SetRolePermissions
<1>3. ASSUME NEW w \in Writers, ResetRolePermissions(w) PROVE OverridesInv'
  BY <1>1, <1>3, OverridesAssumption DEF ResetRolePermissions
<1>4. ASSUME NEW w \in Writers, DeleteBegins(w) PROVE OverridesInv'
  <2> DEFINE x == [writer[w] EXCEPT !.stage = "deleting", !.sees = Rows, !.late = FALSE]
  <2>1. writer[w] \in Writer /\ Rows \subseteq Grants
    BY DEF OverridesInv, OverridesTypeOK, Rows
  <2>2. /\ x \in Writer /\ x.stage = "deleting" /\ x.sees = Rows /\ x.want = writer[w].want
        /\ writer' = [writer EXCEPT ![w] = x]
        /\ UNCHANGED <<role, override, last, merged>>
    BY <1>4, <2>1 DEF DeleteBegins, Writer, OverridesInv, OverridesTypeOK
  <2>3. role = "super" => TeamView \in x.want
    BY <1>4, <2>2 DEF DeleteBegins, OverridesInv, ReplacementOK
  <2> HIDE DEF x
  <2> QED
    BY <2>2, <2>3, ReplacementMoves
<1>5. ASSUME NEW w \in Writers, DeleteEnds(w) PROVE OverridesInv'
  <2> DEFINE x == [writer[w] EXCEPT !.stage = "inserting"]
  <2>1. writer[w] \in Writer
    BY DEF OverridesInv, OverridesTypeOK
  <2>2. /\ x \in Writer /\ x.stage = "inserting" /\ x.sees = writer[w].sees
        /\ x.want = writer[w].want /\ x.late = writer[w].late
        /\ writer' = [writer EXCEPT ![w] = x]
        /\ UNCHANGED <<role, override, last, merged>>
    BY <1>5, <2>1 DEF DeleteEnds, Writer, OverridesInv, OverridesTypeOK
  <2>3. /\ role = "super" => TeamView \in x.want
        /\ ~ x.late => x.sees = Rows
    BY <1>5, <2>2 DEF DeleteEnds, OverridesInv, ReplacementOK
  <2> HIDE DEF x
  <2> QED
    BY <2>2, <2>3, ReplacementMoves
<1>6. ASSUME NEW w \in Writers, ReplacementCommits(w) PROVE OverridesInv'
  BY <1>6, ReplacementKeeps
<1>7. ASSUME NEW w \in Writers, ReplacementFails(w) PROVE OverridesInv'
  BY <1>7, ReplacementMoves DEF ReplacementFails, NoWriter, Writer
<1> QED
  BY <1>0, <1>2, <1>3, <1>4, <1>5, <1>6, <1>7 DEF OverridesNext

LEMMA OverridesInvariant == OverridesSpec => []OverridesInv
  BY OverridesInitially, OverridesStep, PTL DEF OverridesSpec

(* Whatever replacements of a role's overrides overlap, the super-admin    *)
(* role keeps the permission to manage the team (setRolePermissions adds   *)
(* it, resetRolePermissions leaves it, staff.service.ts:588-680).          *)
THEOREM SuperAdminIsKept == OverridesSpec => []SuperAdminKeepsTeam
<1>1. OverridesInv => SuperAdminKeepsTeam
  BY OverridesAssumption DEF OverridesInv, OverridesTypeOK, SuperAdminKeepsTeam, Effective
<1> QED
  BY <1>1, OverridesInvariant, PTL

(* A role's permissions are what one request asked for, unless another     *)
(* replaced them between its delete and its insert: the transaction of     *)
(* setRolePermissions, for any set of permissions and any requests.        *)
THEOREM PermissionsComeFromOneRequest == OverridesSpec => []PermissionsAreOneRequests
<1>1. OverridesInv => PermissionsAreOneRequests
  BY DEF OverridesInv
<1> QED
  BY <1>1, OverridesInvariant, PTL

----------------------------------------------------------------------------
(* The deck's leads.                                                       *)

(* An attempt under way has a key, and one about to ring has its lead.     *)
AttemptOK(a) ==
  /\ attempt[a].stage # "idle" => attempt[a].key \in Records
  /\ attempt[a].stage = "bell" => attempt[a].ref \in Refs /\ <<attempt[a].key, attempt[a].ref>> \in lead

DeckInv ==
  /\ DeckTypeOK
  /\ \A a \in Attempts : AttemptOK(a)
  /\ \A k \in Records, r \in Refs : <<k, r>> \in lead => r <= drawn
  /\ RetriesShareOneLead

LEMMA DeckInitially == DeckInit => DeckInv
<1> SUFFICES ASSUME DeckInit PROVE DeckInv
  OBVIOUS
<1>1. DeckTypeOK
  BY CaptureAssumption DEF DeckInit, DeckTypeOK, NoAttempt, Attempt, Refs
<1> QED
  BY <1>1 DEF DeckInit, DeckInv, AttemptOK, NoAttempt, RetriesShareOneLead

(* A step that stores no lead.                                             *)
LEMMA AttemptMoves ==
  ASSUME DeckInv, DeckTypeOK', lead' = lead, drawn' >= drawn,
         \A a \in Attempts : AttemptOK(a)',
         \A k \in Records : \A r \in told'[k] : <<k, r>> \in lead,
         \A r \in rung' : \E k \in Records : <<k, r>> \in lead
  PROVE  DeckInv'
<1>1. \A k \in Records, r \in Refs : <<k, r>> \in lead' => r <= drawn'
  <2> SUFFICES ASSUME NEW k \in Records, NEW r \in Refs, <<k, r>> \in lead PROVE r <= drawn'
    OBVIOUS
  <2>1. r <= drawn /\ r \in Nat /\ drawn \in Nat /\ drawn' \in Nat
    BY CaptureAssumption DEF DeckInv, DeckTypeOK, Refs
  <2> QED
    BY <2>1
<1>2. RetriesShareOneLead'
  BY DEF DeckInv, RetriesShareOneLead
<1> QED
  BY <1>1, <1>2 DEF DeckInv

LEMMA CaptureWriteKeeps ==
  ASSUME DeckInv, NEW a \in Attempts, CaptureWrite(a)
  PROVE  DeckInv'
<1> DEFINE k == attempt[a].key
           n == drawn + 1
<1>1. /\ k \in Records /\ n \in Refs /\ drawn \in Nat
      /\ attempt[a] \in Attempt /\ attempt[a].stage = "write"
      /\ \A r \in Refs : <<k, r>> \notin lead
      /\ \A j \in Records : <<j, n>> \notin lead
      /\ lead \subseteq Records \X Refs
  <2>1. /\ attempt[a] \in Attempt /\ attempt[a].stage = "write" /\ drawn < MaxDraw
        /\ drawn \in Nat /\ MaxDraw \in Nat /\ lead \subseteq Records \X Refs
        /\ \A j \in Records, r \in Refs : <<j, r>> \in lead => r <= drawn
    BY CaptureAssumption DEF CaptureWrite, DeckInv, DeckTypeOK
  <2>2. k \in Records /\ \A r \in Refs : <<k, r>> \notin lead
    BY <2>1 DEF CaptureWrite, KeyIsNew, RefsOf, DeckInv, AttemptOK
  <2>3. n \in Refs /\ ~ (n <= drawn)
    BY <2>1 DEF Refs
  <2> QED
    BY <2>1, <2>2, <2>3
<1>0. n > drawn /\ n \in Nat
  BY <1>1
<1>2. /\ drawn' = n /\ lead' = lead \cup {<<k, n>>} /\ told' = told /\ rung' = rung
      /\ attempt' = [attempt EXCEPT ![a].stage = "bell", ![a].ref = n]
  BY DEF CaptureWrite
<1>3. /\ attempt'[a] \in Attempt /\ attempt'[a].stage = "bell" /\ attempt'[a].key = k
      /\ attempt'[a].ref = n
      /\ \A b \in Attempts \ {a} : attempt'[b] = attempt[b]
      /\ attempt' \in [Attempts -> Attempt]
  <2> DEFINE x == [attempt[a] EXCEPT !.stage = "bell", !.ref = n]
  <2>1. n \in 0..MaxDraw
    BY <1>1, CaptureAssumption DEF Refs
  <2> HIDE DEF n
  <2>2. x \in Attempt /\ x.stage = "bell" /\ x.key = attempt[a].key /\ x.ref = n
    BY <1>1, <2>1 DEF Attempt
  <2>3. attempt' = [attempt EXCEPT ![a] = x]
    BY <1>1, <1>2 DEF Attempt, DeckInv, DeckTypeOK
  <2> HIDE DEF x
  <2> QED
    BY <2>2, <2>3 DEF DeckInv, DeckTypeOK
<1> HIDE DEF k, n
<1>4. DeckTypeOK'
  <2>1. lead' \subseteq Records \X Refs
    BY <1>1, <1>2
  <2>2. drawn' \in 0..MaxDraw
    BY <1>1, <1>2, CaptureAssumption DEF Refs
  <2> QED
    BY <2>1, <2>2, <1>2, <1>3 DEF DeckInv, DeckTypeOK, Refs
<1>5. \A b \in Attempts : AttemptOK(b)'
  <2> TAKE b \in Attempts
  <2>1. CASE b = a
    BY <1>1, <1>2, <1>3, <2>1 DEF AttemptOK, Refs
  <2>2. CASE b # a
    BY <1>2, <1>3, <2>2 DEF AttemptOK, DeckInv, Refs
  <2> QED
    BY <2>1, <2>2
<1>6. \A j \in Records, r \in Refs : <<j, r>> \in lead' => r <= drawn'
  <2> SUFFICES ASSUME NEW j \in Records, NEW r \in Refs, <<j, r>> \in lead' PROVE r <= n
    BY <1>2
  <2>1. CASE <<j, r>> \in lead
    <3>1. r <= drawn /\ r \in Nat
      BY <2>1 DEF DeckInv, Refs
    <3> QED
      BY <3>1, <1>0, <1>1
  <2>2. CASE <<j, r>> = <<k, n>>
    BY <2>2, <1>1 DEF Refs
  <2> QED
    BY <2>1, <2>2, <1>2
<1>7. RetriesShareOneLead'
  <2>1. \A j \in Records, r \in Refs : <<j, r>> \in lead' <=> <<j, r>> \in lead \/ (j = k /\ r = n)
    BY <1>2
  <2>2. Refs' = Refs
    BY DEF Refs
  <2>3. \A j \in Records, r, s \in Refs : <<j, r>> \in lead' /\ <<j, s>> \in lead' => r = s
    BY <1>1, <2>1 DEF DeckInv, RetriesShareOneLead
  <2>4. \A i, j \in Records, r \in Refs : <<i, r>> \in lead' /\ <<j, r>> \in lead' => i = j
    BY <1>1, <2>1 DEF DeckInv, RetriesShareOneLead
  <2>5. \A j \in Records : \A r \in told'[j] : <<j, r>> \in lead'
    BY <1>2 DEF DeckInv, RetriesShareOneLead
  <2>6. \A r \in rung' : \E j \in Records : <<j, r>> \in lead'
    BY <1>2 DEF DeckInv, RetriesShareOneLead
  <2> QED
    BY <2>2, <2>3, <2>4, <2>5, <2>6 DEF RetriesShareOneLead
<1> QED
  BY <1>4, <1>5, <1>6, <1>7 DEF DeckInv

LEMMA DeckStep == DeckInv /\ [DeckNext]_deckVars => DeckInv'
<1> SUFFICES ASSUME DeckInv, [DeckNext]_deckVars PROVE DeckInv'
  OBVIOUS
<1>a. /\ \A k \in Records : \A r \in told[k] : <<k, r>> \in lead
      /\ \A r \in rung : \E k \in Records : <<k, r>> \in lead
      /\ drawn \in Nat /\ drawn >= drawn
  <2>1. drawn \in Nat
    BY CaptureAssumption DEF DeckInv, DeckTypeOK
  <2> QED
    BY <2>1 DEF DeckInv, RetriesShareOneLead
<1>0. CASE UNCHANGED deckVars
  <2>1. DeckTypeOK' /\ \A a \in Attempts : AttemptOK(a)'
    BY <1>0 DEF DeckInv, DeckTypeOK, AttemptOK, deckVars, Refs
  <2> QED
    BY <1>0, <1>a, <2>1, AttemptMoves DEF deckVars
<1>1. ASSUME DeckServerStops PROVE DeckInv'
  <2>1. DeckTypeOK' /\ \A a \in Attempts : AttemptOK(a)'
    BY <1>1, CaptureAssumption DEF DeckInv, DeckTypeOK, AttemptOK, DeckServerStops, NoAttempt, Attempt, Refs
  <2> QED
    BY <1>1, <1>a, <2>1, AttemptMoves DEF DeckServerStops
<1>2. ASSUME NEW k \in Records, NEW r \in Refs, CaptureAgain(k, r) PROVE DeckInv'
  <2>1. DeckTypeOK' /\ \A a \in Attempts : AttemptOK(a)'
    BY <1>2 DEF DeckInv, DeckTypeOK, AttemptOK, CaptureAgain, Refs
  <2>2. \A j \in Records : \A s \in told'[j] : <<j, s>> \in lead
    BY <1>2, <1>a DEF CaptureAgain, DeckInv, DeckTypeOK
  <2> QED
    BY <1>2, <1>a, <2>1, <2>2, AttemptMoves DEF CaptureAgain
<1>3. ASSUME NEW a \in Attempts, NEW k \in Records, Capture(a, k) PROVE DeckInv'
  <2>1. DeckTypeOK' /\ \A b \in Attempts : AttemptOK(b)'
    BY <1>3, CaptureAssumption DEF DeckInv, DeckTypeOK, AttemptOK, Capture, Attempt, Refs
  <2> QED
    BY <1>3, <1>a, <2>1, AttemptMoves DEF Capture
<1>4. ASSUME NEW a \in Attempts, CaptureFails(a) PROVE DeckInv'
  <2>1. /\ drawn' \in 0..MaxDraw /\ drawn' >= drawn
    BY <1>4, <1>a, CaptureAssumption DEF DeckInv, DeckTypeOK, CaptureFails, Refs
  <2>2. DeckTypeOK' /\ \A b \in Attempts : AttemptOK(b)'
    BY <1>4, <2>1, CaptureAssumption DEF DeckInv, DeckTypeOK, AttemptOK, CaptureFails, NoAttempt, Attempt, Refs
  <2> QED
    BY <1>4, <1>a, <2>1, <2>2, AttemptMoves DEF CaptureFails
<1>5. ASSUME NEW a \in Attempts, CaptureBell(a) PROVE DeckInv'
  <2>1. /\ attempt[a].key \in Records /\ attempt[a].ref \in Refs
        /\ <<attempt[a].key, attempt[a].ref>> \in lead
    BY <1>5 DEF CaptureBell, DeckInv, AttemptOK
  <2>2. DeckTypeOK' /\ \A b \in Attempts : AttemptOK(b)'
    BY <1>5, <2>1, CaptureAssumption DEF DeckInv, DeckTypeOK, AttemptOK, CaptureBell, NoAttempt, Attempt, Refs
  <2>3. \A j \in Records : \A s \in told'[j] : <<j, s>> \in lead
    BY <1>5, <1>a, <2>1 DEF CaptureBell, DeckInv, DeckTypeOK
  <2>4. \A s \in rung' : \E j \in Records : <<j, s>> \in lead
    BY <1>5, <1>a, <2>1 DEF CaptureBell
  <2> QED
    BY <1>5, <1>a, <2>2, <2>3, <2>4, AttemptMoves DEF CaptureBell
<1> QED
  BY <1>0, <1>1, <1>2, <1>3, <1>4, <1>5, CaptureWriteKeeps DEF DeckNext

LEMMA DeckInvariant == DeckSpec => []DeckInv
  BY DeckInitially, DeckStep, PTL DEF DeckSpec

(* However often and however much in parallel the deck sends a record, it  *)
(* becomes one lead and every answer names it (capture in                  *)
(* knode/knode.service.ts), for any number of records, attempts and draws. *)
THEOREM OneLeadPerRecord == DeckSpec => []RetriesShareOneLead
<1>1. DeckInv => RetriesShareOneLead
  BY DEF DeckInv
<1> QED
  BY <1>1, DeckInvariant, PTL

(* The leads and the ledger: a stored lead is an entry, an answer is the   *)
(* answer the ledger gives, and every other step leaves it as it is.       *)
LEMMA EntryIsTheLead ==
  ASSUME DeckInv, NEW k \in Records, NEW r \in Refs, <<k, r>> \in lead
  PROVE  EntryOf[k] = r /\ r # 0
<1>1. r \in RefsOf(k)
  BY DEF RefsOf
<1>2. \A s \in RefsOf(k) : s = r
  BY DEF RefsOf, DeckInv, RetriesShareOneLead
<1>3. (CHOOSE s \in RefsOf(k) : TRUE) \in RefsOf(k)
  BY <1>1
<1>4. r # 0
  BY DEF Refs
<1> QED
  BY <1>1, <1>2, <1>3, <1>4 DEF EntryOf

LEMMA LedgerInitially == DeckInit => Ledger!Init
BY DEF DeckInit, Ledger!Init, EntryOf, RefsOf

LEMMA EntriesRest == lead' = lead => EntryOf' = EntryOf
BY DEF EntryOf, RefsOf, Refs

LEMMA LedgerAnswers ==
  ASSUME DeckInv, NEW k \in Records, NEW r \in Refs, <<k, r>> \in lead, lead' = lead,
         told' = [told EXCEPT ![k] = @ \cup {r}], rung' \in {rung, rung \cup {r}}
  PROVE  Ledger!Next
<1>1. EntryOf[k] = r /\ r # 0 /\ EntryOf' = EntryOf
  BY EntryIsTheLead, EntriesRest
<1> QED
  BY <1>1 DEF Ledger!Next, Ledger!Answer

LEMMA LedgerEnters ==
  ASSUME DeckInv, NEW a \in Attempts, CaptureWrite(a)
  PROVE  Ledger!Next
<1>3. /\ attempt[a].stage = "write" /\ drawn < MaxDraw /\ RefsOf(attempt[a].key) = {}
      /\ lead' = lead \cup {<<attempt[a].key, drawn + 1>>} /\ UNCHANGED <<told, rung>>
      /\ drawn \in Nat /\ MaxDraw \in Nat
      /\ \A j \in Records, r \in Refs : <<j, r>> \in lead => r <= drawn
  BY CaptureAssumption DEF CaptureWrite, KeyIsNew, DeckInv, DeckTypeOK
<1>0. attempt[a].key \in Records /\ drawn + 1 \in Refs /\ ~ (drawn + 1 <= drawn)
  <2>1. attempt[a].key \in Records
    BY <1>3 DEF DeckInv, AttemptOK
  <2>2. drawn + 1 \in Refs /\ ~ (drawn + 1 <= drawn)
    BY <1>3 DEF Refs
  <2> QED
    BY <2>1, <2>2
<1>1. PICK k \in Records, n \in Refs :
        /\ RefsOf(k) = {} /\ lead' = lead \cup {<<k, n>>} /\ UNCHANGED <<told, rung>>
        /\ \A j \in Records : <<j, n>> \notin lead
  BY <1>3, <1>0
<1>2. \A j \in Records : <<j, n>> \notin lead
  BY <1>1
<1>4. \A j \in Records \ {k} : RefsOf(j)' = RefsOf(j)
  BY <1>1 DEF RefsOf, Refs
<1>5. EntryOf'[k] = n
  <2>1. RefsOf(k)' = {n}
    BY <1>1 DEF RefsOf, Refs
  <2> QED
    BY <1>1, <2>1 DEF EntryOf
<1>6. EntryOf' = [EntryOf EXCEPT ![k] = n]
  <2>1. ASSUME NEW j \in Records \ {k} PROVE EntryOf'[j] = EntryOf[j]
    <3>1. CASE RefsOf(j) = {}
      BY <1>4, <3>1 DEF EntryOf
    <3>2. ASSUME NEW r \in RefsOf(j) PROVE EntryOf'[j] = EntryOf[j]
      <4>1. RefsOf(j) = {r}
        BY <3>2 DEF RefsOf, DeckInv, RetriesShareOneLead
      <4>2. RefsOf(j)' = {r}
        BY <1>4, <4>1
      <4> QED
        BY <4>1, <4>2 DEF EntryOf
    <3> QED
      BY <3>1, <3>2
  <2>2. /\ EntryOf' = [j \in Records |-> EntryOf'[j]]
        /\ EntryOf = [j \in Records |-> EntryOf[j]]
    BY DEF EntryOf
  <2> QED
    BY <1>5, <2>1, <2>2
<1>7. \A j \in Records : EntryOf[j] # n
  <2> TAKE j \in Records
  <2>1. CASE RefsOf(j) = {}
    BY <1>1, <2>1 DEF EntryOf, Refs
  <2>2. CASE RefsOf(j) # {}
    <3>1. (CHOOSE r \in RefsOf(j) : TRUE) \in RefsOf(j)
      BY <2>2
    <3>2. n \notin RefsOf(j)
      BY <1>2 DEF RefsOf
    <3> QED
      BY <2>2, <3>1, <3>2 DEF EntryOf
  <2> QED
    BY <2>1, <2>2
<1>8. EntryOf[k] = 0
  BY <1>1 DEF EntryOf
<1> QED
  BY <1>1, <1>6, <1>7, <1>8 DEF Ledger!Next, Ledger!Enter

LEMMA LedgerStep == DeckInv /\ [DeckNext]_deckVars => [Ledger!Next]_(Ledger!ledgerVars)
<1> SUFFICES ASSUME DeckInv, [DeckNext]_deckVars PROVE [Ledger!Next]_(Ledger!ledgerVars)
  OBVIOUS
<1>1. ASSUME UNCHANGED <<lead, told, rung>> PROVE UNCHANGED Ledger!ledgerVars
  BY <1>1, EntriesRest DEF Ledger!ledgerVars
<1>2. ASSUME NEW k \in Records, NEW r \in Refs, CaptureAgain(k, r) PROVE Ledger!Next
  BY <1>2, LedgerAnswers DEF CaptureAgain
<1>3. ASSUME NEW a \in Attempts, CaptureBell(a) PROVE Ledger!Next
  <2>1. /\ attempt[a].key \in Records /\ attempt[a].ref \in Refs
        /\ <<attempt[a].key, attempt[a].ref>> \in lead
    BY <1>3 DEF CaptureBell, DeckInv, AttemptOK
  <2> QED
    BY <1>3, <2>1, LedgerAnswers DEF CaptureBell
<1>4. ASSUME NEW a \in Attempts, CaptureFails(a) \/ \E k \in Records : Capture(a, k)
      PROVE  UNCHANGED <<lead, told, rung>>
  BY <1>4 DEF CaptureFails, Capture
<1>5. DeckServerStops \/ UNCHANGED deckVars => UNCHANGED <<lead, told, rung>>
  BY DEF DeckServerStops, deckVars
<1> QED
  BY <1>1, <1>2, <1>3, <1>4, <1>5, LedgerEnters DEF DeckNext

(* The captures of the sales deck implement the ledger of leads (capture   *)
(* in knode/knode.service.ts): entered once, never changed, and the same   *)
(* in every answer, for any number of records, attempts and draws.         *)
THEOREM CaptureImplementsLedger == DeckSpec => ImplementsLeadLedger
BY LedgerInitially, LedgerStep, DeckInvariant, PTL DEF DeckSpec, ImplementsLeadLedger, Ledger!Spec

----------------------------------------------------------------------------
(* Document slots.                                                         *)

Signed(row) == row.signed = IF row.status = "VERIFIED" THEN row.file ELSE NoPaper

(* What a call will save was decided on one row; once save has read the    *)
(* slot again and nobody has written since, that is the slot.              *)
CallOK(r) ==
  /\ call[r].stage # "idle" => call[r].on \in Slots /\ Signed(call[r].row)
  /\ call[r].stage = "update" /\ ~ call[r].late => call[r].base = slot[call[r].on]

SlotsInv == SlotsTypeOK /\ (\A r \in Calls : CallOK(r)) /\ SignOffIsOfThisFile

LEMMA SlotsInitially == SlotsInit => SlotsInv
<1> SUFFICES ASSUME SlotsInit PROVE SlotsInv
  OBVIOUS
<1>1. NoCall \in Call /\ NoCall.stage = "idle"
  BY DEF NoCall, Saving, EmptySlot, SlotRow, Call
<1>2. EmptySlot \in SlotRow /\ EmptySlot.status = "MISSING"
  BY DEF EmptySlot, SlotRow
<1> QED
  BY <1>1, <1>2 DEF SlotsInit, SlotsInv, SlotsTypeOK, CallOK, SignOffIsOfThisFile

(* A call that moves on without writing.                                   *)
LEMMA CallMoves ==
  ASSUME SlotsInv, NEW r \in Calls, NEW c \in Call,
         call' = [call EXCEPT ![r] = c], UNCHANGED <<slot, shelf, torn>>,
         c.stage # "idle" => c.on \in Slots /\ Signed(c.row),
         c.stage = "update" /\ ~ c.late => c.base = slot[c.on]
  PROVE  SlotsInv'
  BY DEF SlotsInv, SlotsTypeOK, CallOK, SignOffIsOfThisFile, Signed

(* A call that writes slot p and goes on as c.                             *)
LEMMA SlotWrite ==
  ASSUME SlotsInv, NEW r \in Calls, NEW c \in Call, NEW p \in Slots, NEW row \in SlotRow,
         slot' = [slot EXCEPT ![p] = row], Wrote(r, p, c), UNCHANGED shelf,
         c.stage # "idle" => c.on \in Slots /\ Signed(c.row),
         c.stage # "update",
         torn' \in SUBSET Slots, torn \subseteq torn' \cup {p},
         p \notin torn' /\ row.status = "VERIFIED" => row.file \in {row.signed, NoPaper}
  PROVE  SlotsInv'
<1>1. \A q \in Calls \ {r} : /\ call'[q] \in Call
                             /\ call'[q].stage = call[q].stage /\ call'[q].on = call[q].on
                             /\ call'[q].row = call[q].row /\ call'[q].base = call[q].base
                             /\ call'[q].late = (call[q].late \/ call[q].on = p)
  <2> TAKE q \in Calls \ {r}
  <2>1. call[q] \in Call /\ call'[q] = [call[q] EXCEPT !.late = @ \/ call[q].on = p]
    BY DEF Wrote, SlotsInv, SlotsTypeOK
  <2> QED
    BY <2>1 DEF Call
<1>2. call'[r] = c /\ call' \in [Calls -> Call]
  BY <1>1 DEF Wrote
<1>3. SlotsTypeOK'
  BY <1>2 DEF SlotsInv, SlotsTypeOK
<1>4. \A q \in Calls : CallOK(q)'
  BY <1>1, <1>2 DEF SlotsInv, SlotsTypeOK, CallOK, Signed
<1>5. SignOffIsOfThisFile'
  BY DEF SlotsInv, SlotsTypeOK, SignOffIsOfThisFile
<1> QED
  BY <1>3, <1>4, <1>5 DEF SlotsInv

LEMMA SlotsStep == SlotsInv /\ [SlotsNext]_slotVars => SlotsInv'
<1> SUFFICES ASSUME SlotsInv, [SlotsNext]_slotVars PROVE SlotsInv'
  OBVIOUS
<1>0. CASE UNCHANGED slotVars
  BY <1>0 DEF SlotsInv, SlotsTypeOK, CallOK, SignOffIsOfThisFile, slotVars
<1>1. ASSUME NEW r \in Calls, NEW p \in Slots, NEW file \in Papers \cup {NoPaper},
             NEW status \in {"MISSING", "PENDING", "VERIFIED"}, NEW d \in BOOLEAN,
             Begin(r, Saving(p, NewSlot(file, status), d))
      PROVE  SlotsInv'
  <2> DEFINE c == Saving(p, NewSlot(file, status), d)
  <2>1. c \in Call /\ c.stage = "save" /\ c.on = p /\ Signed(c.row)
    BY DEF Saving, NewSlot, Call, SlotRow, EmptySlot, Signed
  <2>2. call' = [call EXCEPT ![r] = c] /\ UNCHANGED <<slot, shelf, torn>>
    BY <1>1 DEF Begin
  <2> HIDE DEF c
  <2> QED
    BY <2>1, <2>2, CallMoves
<1>2. \A p \in Slots : slot[p].file \in Papers \cup {NoPaper}
  BY DEF SlotsInv, SlotsTypeOK, SlotRow
<1>3. ASSUME NEW r \in Calls, NEW p \in Slots, NEW f \in shelf \cup {NoPaper}, Attach(r, p, f) PROVE SlotsInv'
  BY <1>1, <1>3 DEF Attach, SlotsInv, SlotsTypeOK
<1>4. ASSUME NEW r \in Calls, NEW p \in Slots, NEW s \in {"MISSING", "PENDING", "VERIFIED"},
             MoveDocument(r, p, s)
      PROVE  SlotsInv'
  BY <1>1, <1>2, <1>4 DEF MoveDocument
<1>5. ASSUME NEW r \in Calls, NEW p \in Slots, Detach(r, p) PROVE SlotsInv'
  BY <1>1, <1>2, <1>5 DEF Detach
<1>6. ASSUME NEW r \in Calls, SaveReloads(r) PROVE SlotsInv'
  <2> DEFINE c == [call[r] EXCEPT !.stage = "update", !.base = slot[call[r].on], !.late = FALSE]
  <2>1. call[r] \in Call /\ call[r].on \in Slots /\ Signed(call[r].row) /\ slot[call[r].on] \in SlotRow
    BY <1>6 DEF SaveReloads, SlotsInv, SlotsTypeOK, CallOK
  <2>2. /\ c \in Call /\ c.stage = "update" /\ c.on = call[r].on /\ c.row = call[r].row
        /\ c.base = slot[c.on]
        /\ call' = [call EXCEPT ![r] = c]
        /\ UNCHANGED <<slot, shelf, torn>>
    BY <1>6, <2>1 DEF SaveReloads, Call, SlotsInv, SlotsTypeOK
  <2> HIDE DEF c
  <2> QED
    BY <2>1, <2>2, CallMoves
<1>7. ASSUME NEW r \in Calls, SaveUpdates(r) PROVE SlotsInv'
  <2> DEFINE c == call[r]
             row == Merged(c, slot[c.on])
  <2>1. /\ c \in Call /\ c.stage = "update" /\ c.on \in Slots /\ slot[c.on] \in SlotRow /\ Signed(c.row)
        /\ c.row \in SlotRow /\ c.base \in SlotRow
        /\ ~ c.late => c.base = slot[c.on]
    BY <1>7 DEF SaveUpdates, SlotsInv, SlotsTypeOK, CallOK, Call
  <2>2. row \in SlotRow
    BY <2>1 DEF Merged, SlotRow
  <2>3. ~ c.late => row.status = c.row.status /\ row.file = c.row.file /\ row.signed = c.row.signed
    BY <2>1 DEF Merged
  <2>4. CASE row.file \in shelf \cup {NoPaper}
    <3> DEFINE d == IF c.detaching THEN [c EXCEPT !.stage = "clear"] ELSE NoCall
    <3>1. /\ d \in Call /\ d.stage # "update"
          /\ d.stage # "idle" => d.on \in Slots /\ Signed(d.row)
      BY <2>1 DEF Call, NoCall, Saving, EmptySlot, SlotRow
    <3>2. /\ slot' = [slot EXCEPT ![c.on] = row] /\ Wrote(r, c.on, d) /\ UNCHANGED shelf
          /\ torn' = IF c.late THEN torn \cup {c.on} ELSE torn \ {c.on}
      BY <1>7, <2>4 DEF SaveUpdates
    <3>3. torn' \in SUBSET Slots /\ torn \subseteq torn' \cup {c.on}
      BY <3>2, <2>1 DEF SlotsInv, SlotsTypeOK
    <3>4. c.on \notin torn' /\ row.status = "VERIFIED" => row.file \in {row.signed, NoPaper}
      BY <3>2, <2>1, <2>3 DEF Signed
    <3> HIDE DEF d, row, c
    <3> QED
      BY <2>1, <2>2, <3>1, <3>2, <3>3, <3>4, SlotWrite
  <2>5. CASE row.file \notin shelf \cup {NoPaper}
    <3>1. call' = [call EXCEPT ![r] = NoCall] /\ UNCHANGED <<slot, shelf, torn>>
      BY <1>7, <2>5 DEF SaveUpdates
    <3>2. NoCall \in Call /\ NoCall.stage = "idle"
      BY DEF NoCall, Saving, EmptySlot, SlotRow, Call
    <3> QED
      BY <3>1, <3>2, CallMoves
  <2> QED
    BY <2>4, <2>5
<1>8. ASSUME NEW r \in Calls, DetachClear(r) PROVE SlotsInv'
  <2> DEFINE p == call[r].on
             row == [slot[p] EXCEPT !.file = NoPaper]
  <2>1. p \in Slots /\ slot[p] \in SlotRow
    BY <1>8 DEF DetachClear, SlotsInv, SlotsTypeOK, CallOK
  <2>2. row \in SlotRow /\ row.file = NoPaper
    BY <2>1 DEF SlotRow
  <2>3. slot' = [slot EXCEPT ![p] = row] /\ Wrote(r, p, NoCall) /\ UNCHANGED <<shelf, torn>>
    BY <1>8 DEF DetachClear, SlotsInv, SlotsTypeOK
  <2>4. NoCall \in Call /\ NoCall.stage = "idle"
    BY DEF NoCall, Saving, EmptySlot, SlotRow, Call
  <2>5. torn' \in SUBSET Slots /\ torn \subseteq torn' \cup {p}
    BY <2>3 DEF SlotsInv, SlotsTypeOK
  <2> HIDE DEF row, p
  <2> QED
    BY <2>1, <2>2, <2>3, <2>4, <2>5, SlotWrite
<1>9. ASSUME NEW f \in Papers, PaperRemoved(f) PROVE SlotsInv'
  <2>1. \A p \in Slots : /\ slot'[p] \in SlotRow
                         /\ slot'[p].status = slot[p].status /\ slot'[p].signed = slot[p].signed
                         /\ slot'[p].file \in {slot[p].file, NoPaper}
                         /\ slot[p].file # f => slot'[p] = slot[p]
    BY <1>9 DEF PaperRemoved, SlotsInv, SlotsTypeOK, SlotRow
  <2>2. \A r \in Calls : /\ call'[r] \in Call
                         /\ call'[r].stage = call[r].stage /\ call'[r].on = call[r].on
                         /\ call'[r].row = call[r].row /\ call'[r].base = call[r].base
                         /\ call'[r].late = (call[r].late \/ (call[r].stage # "idle" /\ slot[call[r].on].file = f))
    <3> TAKE r \in Calls
    <3> DEFINE b == call[r].stage # "idle" /\ slot[call[r].on].file = f
    <3>1. call[r] \in Call /\ call'[r] = [call[r] EXCEPT !.late = @ \/ b] /\ b \in BOOLEAN
      BY <1>9 DEF PaperRemoved, SlotsInv, SlotsTypeOK
    <3> HIDE DEF b
    <3>2. /\ call'[r] \in Call
          /\ call'[r].stage = call[r].stage /\ call'[r].on = call[r].on
          /\ call'[r].row = call[r].row /\ call'[r].base = call[r].base
          /\ call'[r].late = (call[r].late \/ b)
      BY <3>1 DEF Call
    <3> QED
      BY <3>2 DEF b
  <2>3. SlotsTypeOK'
    BY <1>9, <2>1, <2>2 DEF PaperRemoved, SlotsInv, SlotsTypeOK
  <2>4. \A r \in Calls : CallOK(r)'
    <3> SUFFICES ASSUME NEW r \in Calls PROVE CallOK(r)'
      OBVIOUS
    <3>1. CallOK(r)
      BY DEF SlotsInv
    <3>2. call[r].stage # "idle" => call'[r].on \in Slots /\ Signed(call'[r].row)
      BY <2>2, <3>1 DEF CallOK
    <3>3. call[r].stage = "update" /\ ~ call'[r].late => call'[r].base = slot'[call'[r].on]
      BY <2>1, <2>2, <3>1 DEF CallOK
    <3> QED
      BY <2>2, <3>2, <3>3 DEF CallOK, Signed
  <2>5. SignOffIsOfThisFile'
    BY <1>9, <2>1 DEF PaperRemoved, SlotsInv, SignOffIsOfThisFile
  <2> QED
    BY <2>3, <2>4, <2>5 DEF SlotsInv
<1> QED
  BY <1>0, <1>3, <1>4, <1>5, <1>6, <1>7, <1>8, <1>9 DEF SlotsNext

LEMMA SlotsInvariant == SlotsSpec => []SlotsInv
  BY SlotsInitially, SlotsStep, PTL DEF SlotsSpec

(* A verified slot holds the file that was looked at, for any number of    *)
(* requests, slots and files, except where a write fell inside save()      *)
(* (upsertDocument and detachDocument in hr/employee.service.ts).          *)
THEOREM SignOffsAreOfTheFile == SlotsSpec => []SignOffIsOfThisFile
<1>1. SlotsInv => SignOffIsOfThisFile
  BY DEF SlotsInv
<1> QED
  BY <1>1, SlotsInvariant, PTL

----------------------------------------------------------------------------
(* Who waits for a module.                                                 *)

(* Nobody but one teller works on a request that was never crossed.        *)
Alone(n) == \A t, u \in Tellers : n \in teller[t].on /\ n \in teller[u].on => t = u

(* What a teller knows of a request that only they work on.                *)
TellerKnows(t, n) ==
  n \in teller[t].on =>
    /\ teller[t].stage \in {"batch", "set"} => trail[n] = (n \in notified)
    /\ teller[t].stage = "batch" => n \notin notified
    /\ teller[t].stage = "event" => teller[t].stamp = (n \in notified)

NoticeOK(n) ==
  /\ Alone(n)
  /\ n \notin again
  /\ \A t \in Tellers : TellerKnows(t, n)
  /\ trail[n] # (n \in notified) => \E t \in Tellers : teller[t].stage = "event" /\ n \in teller[t].on

NoticesInv ==
  /\ NoticesTypeOK
  /\ \A t \in Tellers : teller[t].stage = "idle" => teller[t].on = {}
  /\ \A n \in Notices \ crossed : NoticeOK(n)

LEMMA NoticesInitially == NoticesInit => NoticesInv
<1> SUFFICES ASSUME NoticesInit PROVE NoticesInv
  OBVIOUS
<1>1. NoTeller \in Teller /\ NoTeller.stage = "idle" /\ NoTeller.on = {}
  BY DEF NoTeller, Teller
<1>2. \A t \in Tellers : teller[t] = NoTeller
  BY DEF NoticesInit
<1>3. NoticesTypeOK
  BY <1>1 DEF NoticesInit, NoticesTypeOK
<1>4. ASSUME NEW n \in Notices PROVE NoticeOK(n)
  <2>1. trail[n] = FALSE /\ n \notin notified /\ n \notin again
    BY DEF NoticesInit
  <2>2. \A t \in Tellers : n \notin teller[t].on
    BY <1>1, <1>2
  <2>3. (n \in notified) = FALSE
    BY <2>1
  <2>4. trail[n] = (n \in notified)
    BY <2>1, <2>3, Zenon
  <2> QED
    BY <2>1, <2>2, <2>4 DEF NoticeOK, Alone, TellerKnows
<1> QED
  BY <1>1, <1>2, <1>3, <1>4 DEF NoticesInv

(* A teller who takes up requests nobody else is at.                       *)
LEMMA TakingUpKeeps ==
  ASSUME NoticesInv, NEW t \in Tellers, NEW stage \in {"batch", "set"}, NEW on \in SUBSET Notices,
         NEW stamp \in BOOLEAN, TakeUp(t, stage, on, stamp),
         stage = "batch" => on \cap notified = {}
  PROVE  NoticesInv'
<1> DEFINE x == [stage |-> stage, on |-> on, stamp |-> stamp]
<1>1. x \in Teller /\ x.stage = stage /\ x.on = on
  BY DEF Teller
<1>2. /\ teller' = [teller EXCEPT ![t] = x]
      /\ crossed' = crossed \cup {n \in on : \E u \in Tellers : n \in teller[u].on}
      /\ UNCHANGED <<notified, trail, again>>
  BY DEF TakeUp
<1> HIDE DEF x
<1>3. teller'[t] = x /\ \A u \in Tellers \ {t} : teller'[u] = teller[u]
  BY <1>2 DEF NoticesInv, NoticesTypeOK
<1>4. NoticesTypeOK'
  BY <1>1, <1>2 DEF NoticesInv, NoticesTypeOK
<1>5. \A u \in Tellers : teller'[u].stage = "idle" => teller'[u].on = {}
  BY <1>1, <1>3 DEF NoticesInv
<1>6. ASSUME NEW n \in Notices \ crossed' PROVE NoticeOK(n)'
  <2>1. n \notin crossed /\ NoticeOK(n) /\ (n \in on => \A u \in Tellers : n \notin teller[u].on)
    BY <1>2, <1>6 DEF NoticesInv
  <2>2. teller[t].on = {} /\ teller[t].stage = "idle"
    BY DEF NoticesInv, TakeUp
  <2>3. Alone(n)'
    BY <1>1, <1>3, <2>1, <2>2 DEF Alone, NoticeOK
  <2>4. trail[n] # (n \in notified) => \E u \in Tellers \ {t} : teller[u].stage = "event" /\ n \in teller[u].on
    BY <2>1, <2>2 DEF NoticeOK
  <2>5. \A u \in Tellers : TellerKnows(u, n)'
    <3> TAKE u \in Tellers
    <3>1. CASE u # t
      BY <1>2, <1>3, <2>1, <3>1 DEF NoticeOK, TellerKnows
    <3>2. CASE u = t
      BY <1>1, <1>2, <1>3, <2>1, <2>4, <3>2 DEF TellerKnows, NoticesInv, NoticesTypeOK
    <3> QED
      BY <3>1, <3>2
  <2>6. trail[n] # (n \in notified) => \E u \in Tellers : teller'[u].stage = "event" /\ n \in teller'[u].on
    BY <2>4, <1>3
  <2> QED
    BY <1>2, <2>1, <2>3, <2>5, <2>6 DEF NoticeOK
<1> QED
  BY <1>4, <1>5, <1>6 DEF NoticesInv

LEMMA NoticesStep == NoticesInv /\ [NoticesNext]_noticeVars => NoticesInv'
<1> SUFFICES ASSUME NoticesInv, [NoticesNext]_noticeVars PROVE NoticesInv'
  OBVIOUS
<1>0. CASE UNCHANGED noticeVars
  BY <1>0 DEF NoticesInv, NoticesTypeOK, NoticeOK, Alone, TellerKnows, noticeVars
<1>a. NoTeller \in Teller /\ NoTeller.stage = "idle" /\ NoTeller.on = {}
  BY DEF NoTeller, Teller
<1>1. ASSUME NEW t \in Tellers, MarkBatch(t) PROVE NoticesInv'
  <2>1. /\ teller'[t] = NoTeller /\ \A u \in Tellers \ {t} : teller'[u] = teller[u]
        /\ teller' \in [Tellers -> Teller]
        /\ notified' = notified \cup teller[t].on /\ teller[t].on \subseteq Notices
        /\ \A n \in Notices : trail'[n] = (trail[n] \/ n \in teller[t].on)
        /\ crossed' = crossed /\ again' = again \cup (teller[t].on \cap notified)
    BY <1>1, <1>a DEF MarkBatch, NoticesInv, NoticesTypeOK, Teller
  <2>2. NoticesTypeOK'
    <3>1. trail' \in [Notices -> BOOLEAN]
      BY <1>1 DEF MarkBatch, NoticesInv, NoticesTypeOK
    <3> QED
      BY <2>1, <3>1 DEF NoticesInv, NoticesTypeOK
  <2>3. ASSUME NEW n \in Notices \ crossed' PROVE NoticeOK(n)'
    <3>1. NoticeOK(n) /\ trail[n] \in BOOLEAN
      BY <2>1, <2>3 DEF NoticesInv, NoticesTypeOK
    <3>2. CASE n \in teller[t].on
      <4>1. /\ trail[n] = FALSE /\ n \notin notified
            /\ \A u \in Tellers \ {t} : n \notin teller[u].on
        BY <1>1, <3>1, <3>2 DEF MarkBatch, NoticeOK, TellerKnows, Alone
      <4>2. n \notin again' /\ trail'[n] = TRUE /\ n \in notified' /\ \A u \in Tellers : n \notin teller'[u].on
        BY <2>1, <3>1, <3>2, <4>1, <1>a DEF NoticeOK
      <4> QED
        BY <4>2 DEF NoticeOK, Alone, TellerKnows
    <3>3. CASE n \notin teller[t].on
      <4>1. /\ trail'[n] = trail[n] /\ (n \in notified' <=> n \in notified) /\ n \notin again'
            /\ n \notin teller'[t].on
        BY <2>1, <3>1, <3>3, <1>a DEF NoticeOK
      <4>2. Alone(n)' /\ \A u \in Tellers : TellerKnows(u, n)'
        BY <2>1, <3>1, <4>1 DEF NoticeOK, Alone, TellerKnows
      <4>3. trail'[n] # (n \in notified') => \E u \in Tellers : teller'[u].stage = "event" /\ n \in teller'[u].on
        BY <2>1, <3>1, <3>3, <4>1 DEF NoticeOK
      <4> QED
        BY <4>1, <4>2, <4>3 DEF NoticeOK
    <3> QED
      BY <3>2, <3>3
  <2>4. \A u \in Tellers : teller'[u].stage = "idle" => teller'[u].on = {}
    BY <2>1, <1>a DEF NoticesInv
  <2> QED
    BY <2>2, <2>3, <2>4 DEF NoticesInv
<1>2. ASSUME NEW t \in Tellers, SetNotifiedWrite(t) PROVE NoticesInv'
  <2> DEFINE x == [teller[t] EXCEPT !.stage = "event"]
             stamp == teller[t].stamp
  <2>1. teller[t] \in Teller /\ teller[t].stage = "set" /\ stamp \in BOOLEAN
    BY <1>2 DEF SetNotifiedWrite, NoticesInv, NoticesTypeOK, Teller
  <2>2. x \in Teller /\ x.stage = "event" /\ x.on = teller[t].on /\ x.stamp = stamp
    BY <2>1 DEF Teller
  <2>3. teller' = [teller EXCEPT ![t] = x]
    BY <1>2 DEF SetNotifiedWrite
  <2>4. /\ notified' = IF stamp THEN notified \cup x.on ELSE notified \ x.on
        /\ UNCHANGED <<trail, again, crossed>>
    BY <1>2, <2>2 DEF SetNotifiedWrite
  <2> HIDE DEF x, stamp
  <2>5. /\ teller'[t] = x /\ \A u \in Tellers \ {t} : teller'[u] = teller[u]
        /\ teller' \in [Tellers -> Teller] /\ x.on \subseteq Notices
    BY <2>2, <2>3 DEF NoticesInv, NoticesTypeOK, Teller
  <2>6. NoticesTypeOK'
    BY <2>4, <2>5 DEF NoticesInv, NoticesTypeOK
  <2>7. ASSUME NEW n \in Notices \ crossed' PROVE NoticeOK(n)'
    <3>1. NoticeOK(n)
      BY <2>4, <2>7 DEF NoticesInv
    <3>2. Alone(n)'
      BY <2>2, <2>5, <3>1 DEF NoticeOK, Alone
    <3>3. CASE n \in x.on
      <4>1. (n \in notified') = stamp /\ \A u \in Tellers \ {t} : n \notin teller'[u].on
        BY <2>1, <2>2, <2>4, <2>5, <3>1, <3>3 DEF NoticeOK, Alone
      <4>2. \A u \in Tellers : TellerKnows(u, n)'
        BY <2>2, <2>5, <4>1 DEF TellerKnows
      <4> QED
        BY <2>2, <2>4, <2>5, <3>1, <3>2, <3>3, <4>2 DEF NoticeOK
    <3>4. CASE n \notin x.on
      <4>1. (n \in notified') = (n \in notified) /\ trail'[n] = trail[n]
        BY <2>4, <3>4
      <4>2. \A u \in Tellers : TellerKnows(u, n)'
        BY <2>5, <3>1, <3>4, <4>1 DEF TellerKnows, NoticeOK
      <4>3. trail'[n] # (n \in notified') => \E u \in Tellers : teller'[u].stage = "event" /\ n \in teller'[u].on
        BY <2>2, <2>5, <3>1, <3>4, <4>1 DEF NoticeOK
      <4> QED
        BY <2>4, <3>1, <3>2, <4>2, <4>3 DEF NoticeOK
    <3> QED
      BY <3>3, <3>4
  <2>8. \A u \in Tellers : teller'[u].stage = "idle" => teller'[u].on = {}
    BY <2>2, <2>5 DEF NoticesInv
  <2> QED
    BY <2>6, <2>7, <2>8 DEF NoticesInv
<1>3. ASSUME NEW t \in Tellers, SetNotifiedEvent(t) PROVE NoticesInv'
  <2>1. /\ teller'[t] = NoTeller /\ \A u \in Tellers \ {t} : teller'[u] = teller[u]
        /\ teller' \in [Tellers -> Teller] /\ teller[t].stage = "event"
        /\ \A n \in Notices : trail'[n] = IF n \in teller[t].on THEN teller[t].stamp ELSE trail[n]
        /\ UNCHANGED <<notified, again, crossed>>
    BY <1>3, <1>a DEF SetNotifiedEvent, NoticesInv, NoticesTypeOK
  <2>2. NoticesTypeOK'
    <3>1. teller[t] \in Teller /\ trail' \in [Notices -> BOOLEAN]
      BY <1>3 DEF SetNotifiedEvent, NoticesInv, NoticesTypeOK, Teller
    <3> QED
      BY <2>1, <3>1 DEF NoticesInv, NoticesTypeOK
  <2>3. ASSUME NEW n \in Notices \ crossed' PROVE NoticeOK(n)'
    <3>1. NoticeOK(n)
      BY <2>1, <2>3 DEF NoticesInv
    <3>2. Alone(n)'
      BY <1>a, <2>1, <3>1 DEF NoticeOK, Alone
    <3>3. CASE n \in teller[t].on
      <4>1. trail'[n] = (n \in notified) /\ \A u \in Tellers : n \notin teller'[u].on
        BY <1>a, <2>1, <3>1, <3>3 DEF NoticeOK, TellerKnows, Alone
      <4> QED
        BY <2>1, <3>1, <3>2, <4>1 DEF NoticeOK, TellerKnows
    <3>4. CASE n \notin teller[t].on
      <4>1. trail'[n] = trail[n]
        BY <2>1, <3>4
      <4>2. \A u \in Tellers : TellerKnows(u, n)'
        BY <1>a, <2>1, <3>1, <4>1 DEF TellerKnows, NoticeOK
      <4>3. trail[n] # (n \in notified) => \E u \in Tellers : teller'[u].stage = "event" /\ n \in teller'[u].on
        BY <2>1, <3>1, <3>4 DEF NoticeOK
      <4> QED
        BY <2>1, <3>1, <3>2, <4>1, <4>2, <4>3 DEF NoticeOK
    <3> QED
      BY <3>3, <3>4
  <2>4. \A u \in Tellers : teller'[u].stage = "idle" => teller'[u].on = {}
    BY <2>1, <1>a DEF NoticesInv
  <2> QED
    BY <2>2, <2>3, <2>4 DEF NoticesInv
<1>4. ASSUME NEW t \in Tellers, TellerStops(t) PROVE NoticesInv'
  <2>1. /\ teller'[t] = NoTeller /\ \A u \in Tellers \ {t} : teller'[u] = teller[u]
        /\ teller' \in [Tellers -> Teller] /\ teller[t].on \subseteq Notices
        /\ crossed' = IF teller[t].stage = "event" THEN crossed \cup teller[t].on ELSE crossed
        /\ UNCHANGED <<notified, trail, again>>
    BY <1>4, <1>a DEF TellerStops, NoticesInv, NoticesTypeOK, Teller
  <2>2. NoticesTypeOK'
    BY <2>1 DEF NoticesInv, NoticesTypeOK
  <2>3. ASSUME NEW n \in Notices \ crossed' PROVE NoticeOK(n)'
    <3>1. NoticeOK(n) /\ (teller[t].stage = "event" => n \notin teller[t].on)
      BY <2>1, <2>3 DEF NoticesInv
    <3>2. Alone(n)' /\ \A u \in Tellers : TellerKnows(u, n)'
      BY <1>a, <2>1, <3>1 DEF NoticeOK, Alone, TellerKnows
    <3>3. trail[n] # (n \in notified) => \E u \in Tellers : teller'[u].stage = "event" /\ n \in teller'[u].on
      BY <2>1, <3>1 DEF NoticeOK
    <3> QED
      BY <2>1, <3>1, <3>2, <3>3 DEF NoticeOK
  <2>4. \A u \in Tellers : teller'[u].stage = "idle" => teller'[u].on = {}
    BY <2>1, <1>a DEF NoticesInv
  <2> QED
    BY <2>2, <2>3, <2>4 DEF NoticesInv
<1>5. ASSUME NEW t \in Tellers, NEW asked \in SUBSET Notices, SelectWaiting(t, asked) PROVE NoticesInv'
  BY <1>5, TakingUpKeeps DEF SelectWaiting, Waiting
<1>6. ASSUME NEW t \in Tellers, NEW n \in Notices, NEW stamp \in BOOLEAN, SetNotified(t, n, stamp)
      PROVE  NoticesInv'
  BY <1>6, TakingUpKeeps DEF SetNotified
<1> QED
  BY <1>0, <1>1, <1>2, <1>3, <1>4, <1>5, <1>6 DEF NoticesNext

LEMMA NoticesInvariant == NoticesSpec => []NoticesInv
  BY NoticesInitially, NoticesStep, PTL DEF NoticesSpec

(* Batches and single stamps tell nobody twice and leave no stamp without  *)
(* its event, unless two of them met at one request or one stopped halfway *)
(* (markNotified in knode-demo.service.ts), for any number of requests.    *)
THEOREM EverybodyIsToldOnce == NoticesSpec => []ToldOnce
<1>1. NoticesInv => ToldOnce
  BY DEF NoticesInv, NoticesTypeOK, ToldOnce, NoticeOK
<1> QED
  BY <1>1, NoticesInvariant, PTL

----------------------------------------------------------------------------
(* The register.                                                           *)

(* What a request under way carries; and, while no overlapping request has *)
(* written to the same person, what it checked still holds.                *)
DeedOK(r) ==
  /\ deed[r].op = "none" <=> deed[r].who = NoPerson
  /\ deed[r].op \in {"grant", "follow"} => deed[r].email \in Emails
  /\ deed[r].op # "none" /\ deed[r].who \notin raced =>
       /\ Filed(deed[r].who)
       /\ deed[r].op \in {"grant", "follow"} => deed[r].email = person[deed[r].who].email
       /\ deed[r].op = "remove" => account[deed[r].who] = NoPerson

(* An account's address is the record's, or somebody is about to make it so*)
AccountOK(p) ==
  account[p] # NoPerson /\ p \notin raced \cup refused =>
    /\ Filed(p)
    /\ account[p] = person[p].email \/ \E r \in Officers : deed[r].who = p /\ deed[r].op = "follow"

RegisterInv ==
  /\ RegisterTypeOK
  /\ \A p \in People : Filed(p) => person[p].email \in Emails
  /\ \A r \in Officers : DeedOK(r)
  /\ \A p \in People : AccountOK(p)

LEMMA NoDeedIsIdle == NoDeed \in Deed /\ NoDeed.op = "none" /\ NoDeed.who = NoPerson
  BY DEF NoDeed, ADeed, Deed

LEMMA RegisterInitially == RegisterInit => RegisterInv
<1> SUFFICES ASSUME RegisterInit PROVE RegisterInv
  OBVIOUS
<1>1. RegisterTypeOK
  BY NoDeedIsIdle DEF RegisterInit, RegisterTypeOK, PersonRow
<1>2. \A p \in People : ~ Filed(p) /\ account[p] = NoPerson
  BY DEF RegisterInit, Filed
<1>3. \A r \in Officers : DeedOK(r)
  BY NoDeedIsIdle DEF RegisterInit, DeedOK
<1> QED
  BY <1>1, <1>2, <1>3 DEF RegisterInv, AccountOK

(* A check: nothing is written.                                            *)
LEMMA UndertakingKeeps ==
  ASSUME RegisterInv, NEW r \in Officers, NEW c \in Deed, Undertake(r, c),
         c.op # "none", c.who \in People, Filed(c.who),
         c.op \in {"grant", "follow"} => c.email \in Emails /\ c.email = person[c.who].email,
         c.op = "remove" => account[c.who] = NoPerson
  PROVE  RegisterInv'
<1>1. /\ deed'[r] = c /\ \A q \in Officers \ {r} : deed'[q] = deed[q]
      /\ deed' \in [Officers -> Deed] /\ deed[r].op = "none" /\ deed[r].who = NoPerson
      /\ UNCHANGED <<person, account, raced, refused>>
  BY DEF Undertake, RegisterInv, RegisterTypeOK, DeedOK
<1>2. RegisterTypeOK'
  BY <1>1 DEF RegisterInv, RegisterTypeOK
<1>3. \A q \in Officers : DeedOK(q)'
  BY <1>1, RegisterAssumption DEF RegisterInv, DeedOK, Filed
<1>4. \A p \in People : AccountOK(p)'
  BY <1>1, RegisterAssumption DEF RegisterInv, AccountOK, Filed
<1> QED
  BY <1>1, <1>2, <1>3, <1>4 DEF RegisterInv, Filed

(* A request's write to the person it is about.  It need only be right     *)
(* when no other request is at them.                                       *)
LEMMA RegisterWrite ==
  ASSUME RegisterInv, NEW r \in Officers, NEW p \in People, NEW d \in Deed,
         deed[r].op # "none", deed[r].who = p,
         deed' = [deed EXCEPT ![r] = d], raced' = Marked(r, p),
         person' \in [People -> PersonRow], account' \in [People -> Emails \cup {NoPerson}],
         refused' \in SUBSET People, refused \subseteq refused',
         \A q \in People \ {p} : person'[q] = person[q] /\ account'[q] = account[q],
         person'[p].state = "filed" => person'[p].email \in Emails,
         d.op = "none" => d.who = NoPerson,
         d.op # "none" => d.op = "follow" /\ d.who = p /\ d.email \in Emails,
         p \notin raced /\ ~ Others(r, p) =>
           /\ d.op # "none" => person'[p].state = "filed" /\ d.email = person'[p].email
           /\ account'[p] # NoPerson /\ p \notin refused' =>
                /\ person'[p].state = "filed"
                /\ account'[p] = person'[p].email \/ d.op = "follow"
  PROVE  RegisterInv'
<1>1. /\ deed'[r] = d /\ \A q \in Officers \ {r} : deed'[q] = deed[q]
      /\ deed' \in [Officers -> Deed]
  BY DEF RegisterInv, RegisterTypeOK
<1>2. /\ raced' \in SUBSET People /\ raced \subseteq raced' /\ raced' \subseteq raced \cup {p}
      /\ p \notin raced' => p \notin raced /\ ~ Others(r, p)
  BY DEF Marked, RegisterInv, RegisterTypeOK
<1>3. RegisterTypeOK'
  BY <1>1, <1>2 DEF RegisterInv, RegisterTypeOK
<1>4. \A q \in People : Filed(q)' => person'[q].email \in Emails
  BY DEF RegisterInv, Filed
<1>5. ASSUME NEW q \in Officers PROVE DeedOK(q)'
  <2>1. CASE q = r
    BY <1>1, <1>2, <2>1, RegisterAssumption DEF DeedOK, Filed
  <2>2. CASE q # r /\ deed[q].who = p
    <3>1. p \in raced'
      BY <2>2 DEF Marked, Others
    <3> QED
      BY <1>1, <2>2, <3>1 DEF RegisterInv, DeedOK
  <2>3. CASE q # r /\ deed[q].who # p
    <3>1. deed[q].op # "none" => deed[q].who \in People \ {p}
      BY <2>3 DEF RegisterInv, RegisterTypeOK, DeedOK, Deed
    <3> QED
      BY <1>1, <1>2, <2>3, <3>1 DEF RegisterInv, DeedOK, Filed
  <2> QED
    BY <2>1, <2>2, <2>3
<1>6. ASSUME NEW q \in People PROVE AccountOK(q)'
  <2>1. CASE q = p
    BY <1>1, <1>2, <2>1 DEF AccountOK, Filed
  <2>2. CASE q # p
    <3>1. \A s \in Officers : deed[s].who = q => deed'[s] = deed[s]
      BY <1>1, <2>2
    <3> QED
      BY <1>2, <2>2, <3>1 DEF RegisterInv, AccountOK, Filed
  <2> QED
    BY <2>1, <2>2
<1> QED
  BY <1>3, <1>4, <1>5, <1>6 DEF RegisterInv

LEMMA RegisterStep == RegisterInv /\ [RegisterNext]_registerVars => RegisterInv'
<1> SUFFICES ASSUME RegisterInv, [RegisterNext]_registerVars PROVE RegisterInv'
  OBVIOUS
<1>0. CASE UNCHANGED registerVars
  BY <1>0 DEF RegisterInv, RegisterTypeOK, DeedOK, AccountOK, Filed, registerVars
<1>1. ASSUME NEW p \in People, NEW e \in Emails, File(p, e) PROVE RegisterInv'
  <2>1. /\ person' \in [People -> PersonRow]
        /\ person'[p].state = "filed" /\ person'[p].email = e
        /\ \A q \in People \ {p} : person'[q] = person[q]
        /\ ~ Filed(p) /\ UNCHANGED <<account, deed, raced, refused>>
    BY <1>1 DEF File, Filed, PersonRow, RegisterInv, RegisterTypeOK
  <2>2. RegisterTypeOK'
    BY <2>1 DEF RegisterInv, RegisterTypeOK
  <2>3. \A r \in Officers : DeedOK(r)'
    <3> SUFFICES ASSUME NEW r \in Officers PROVE DeedOK(r)'
      OBVIOUS
    <3>1. DeedOK(r) /\ (deed[r].op # "none" => deed[r].who \in People)
      BY DEF RegisterInv, RegisterTypeOK, DeedOK, Deed
    <3> QED
      BY <2>1, <3>1 DEF DeedOK, Filed
  <2>4. \A q \in People : AccountOK(q)'
    BY <2>1 DEF RegisterInv, AccountOK, Filed
  <2> QED
    BY <2>1, <2>2, <2>3, <2>4 DEF RegisterInv, Filed
<1>2. ASSUME NEW r \in Officers, NEW p \in People, Grant(r, p) PROVE RegisterInv'
  <2> DEFINE c == ADeed("grant", p, person[p].email, FALSE)
  <2>1. c \in Deed /\ c.op = "grant" /\ c.who = p /\ c.email = person[p].email /\ c.email \in Emails
    BY <1>2 DEF Grant, ADeed, Deed, RegisterInv, RegisterTypeOK
  <2>2. Undertake(r, c) /\ Filed(p)
    BY <1>2 DEF Grant
  <2> HIDE DEF c
  <2> QED
    BY <2>1, <2>2, UndertakingKeeps
<1>3. ASSUME NEW r \in Officers, NEW p \in People, Remove(r, p) PROVE RegisterInv'
  <2> DEFINE c == ADeed("remove", p, NoPerson, FALSE)
  <2>1. c \in Deed /\ c.op = "remove" /\ c.who = p
    BY DEF ADeed, Deed
  <2>2. Undertake(r, c) /\ Filed(p) /\ account[p] = NoPerson
    BY <1>3 DEF Remove
  <2> HIDE DEF c
  <2> QED
    BY <2>1, <2>2, UndertakingKeeps
<1>4. ASSUME NEW r \in Officers, NEW p \in People, NEW e \in Emails, NEW enabled \in BOOLEAN,
             Update(r, p, e, enabled)
      PROVE  RegisterInv'
  <2> DEFINE m == IF e = person[p].email THEN NoPerson ELSE e
             c == ADeed("update", p, m, enabled)
  <2>1. c \in Deed /\ c.op = "update" /\ c.who = p
    BY DEF ADeed, Deed
  <2>2. Undertake(r, c) /\ Filed(p)
    BY <1>4 DEF Update
  <2> HIDE DEF c
  <2> QED
    BY <2>1, <2>2, UndertakingKeeps
<1>a. ASSUME NEW r \in Officers, deed[r].op # "none"
      PROVE  /\ deed[r] \in Deed /\ deed[r].who \in People /\ person[deed[r].who] \in PersonRow
             /\ DeedOK(r) /\ AccountOK(deed[r].who)
             /\ Filed(deed[r].who) => person[deed[r].who].email \in Emails
  BY <1>a DEF RegisterInv, RegisterTypeOK, DeedOK, Deed
<1>5. ASSUME NEW r \in Officers, GrantWrite(r) PROVE RegisterInv'
  <2> DEFINE p == deed[r].who
  <2>1. /\ deed[r].op = "grant" /\ deed' = [deed EXCEPT ![r] = NoDeed] /\ raced' = Marked(r, p)
        /\ account' = account \/ (account' = [account EXCEPT ![p] = deed[r].email] /\ account[p] = NoPerson)
        /\ UNCHANGED <<person, refused>>
    BY <1>5 DEF GrantWrite
  <2>2. p \in People /\ DeedOK(r) /\ deed[r].email \in Emails /\ AccountOK(p)
        /\ (Filed(p) => person[p].email \in Emails)
    BY <1>a, <2>1 DEF DeedOK
  <2>3. /\ account' \in [People -> Emails \cup {NoPerson}]
        /\ \A q \in People \ {p} : account'[q] = account[q]
        /\ account'[p] \in {account[p], deed[r].email}
    BY <2>1, <2>2 DEF RegisterInv, RegisterTypeOK
  <2>4. p \notin raced /\ ~ Others(r, p) /\ account'[p] # NoPerson /\ p \notin refused =>
          Filed(p) /\ account'[p] = person[p].email
    BY <2>1, <2>2, <2>3 DEF DeedOK, AccountOK, Others
  <2>5. person \in [People -> PersonRow] /\ refused \in SUBSET People
    BY DEF RegisterInv, RegisterTypeOK
  <2> HIDE DEF p
  <2> QED
    BY <2>1, <2>2, <2>3, <2>4, <2>5, NoDeedIsIdle, RegisterWrite DEF Filed, p
<1>6. ASSUME NEW r \in Officers, RemoveWrite(r) PROVE RegisterInv'
  <2> DEFINE p == deed[r].who
             x == [person[p] EXCEPT !.state = "removed", !.active = FALSE]
  <2>1. p \in People /\ DeedOK(r) /\ person[p] \in PersonRow /\ deed[r].op = "remove"
    BY <1>6, <1>a DEF RemoveWrite
  <2>2. x \in PersonRow /\ x.state = "removed"
    BY <2>1 DEF PersonRow
  <2>3. person' = [person EXCEPT ![p] = x]
    BY <1>6, <2>1 DEF RemoveWrite, RegisterInv, RegisterTypeOK, PersonRow
  <2>4. /\ deed' = [deed EXCEPT ![r] = NoDeed] /\ raced' = Marked(r, p) /\ UNCHANGED <<account, refused>>
    BY <1>6 DEF RemoveWrite
  <2>5. p \notin raced => account[p] = NoPerson
    BY <2>1 DEF DeedOK
  <2> HIDE DEF x
  <2>6. /\ person' \in [People -> PersonRow] /\ person'[p] = x
        /\ \A q \in People \ {p} : person'[q] = person[q]
        /\ account \in [People -> Emails \cup {NoPerson}] /\ refused \in SUBSET People
    BY <2>1, <2>2, <2>3 DEF RegisterInv, RegisterTypeOK
  <2> HIDE DEF p
  <2> QED
    BY <2>1, <2>2, <2>4, <2>5, <2>6, NoDeedIsIdle, RegisterWrite DEF p
<1>7. ASSUME NEW r \in Officers, UpdateWrite(r) PROVE RegisterInv'
  <2> DEFINE p == deed[r].who
             m == deed[r].email
             x == [person[p] EXCEPT !.active = deed[r].active, !.email = IF m = NoPerson THEN @ ELSE m]
             f == [deed[r] EXCEPT !.op = "follow"]
             d == IF m = NoPerson THEN NoDeed ELSE f
  <2>1. /\ p \in People /\ DeedOK(r) /\ AccountOK(p) /\ person[p] \in PersonRow /\ deed[r].op = "update"
        /\ deed[r] \in Deed /\ m \in Emails \cup {NoPerson}
        /\ Filed(p) => person[p].email \in Emails
    BY <1>7, <1>a DEF UpdateWrite, Deed
  <2>2. f \in Deed /\ f.op = "follow" /\ f.who = p /\ f.email = m
    BY <2>1 DEF Deed
  <2>3. /\ x \in PersonRow /\ x.state = person[p].state
        /\ x.email = IF m = NoPerson THEN person[p].email ELSE m
    BY <2>1 DEF PersonRow, Deed
  <2>4. p \notin raced => Filed(p)
    BY <2>1 DEF DeedOK
  <2>5. p \notin raced /\ ~ Others(r, p) /\ account[p] # NoPerson /\ p \notin refused =>
          Filed(p) /\ account[p] = person[p].email
    BY <2>1 DEF AccountOK, Others
  <2>6. raced' = Marked(r, p) /\ UNCHANGED <<account, refused>>
    BY <1>7 DEF UpdateWrite
  <2>7. account \in [People -> Emails \cup {NoPerson}] /\ refused \in SUBSET People
        /\ person \in [People -> PersonRow]
    BY DEF RegisterInv, RegisterTypeOK
  <2>8. CASE m # NoPerson /\ Taken(m)
    <3>1. deed' = [deed EXCEPT ![r] = NoDeed] /\ UNCHANGED person
      BY <1>7, <2>8 DEF UpdateWrite
    <3> HIDE DEF p, m
    <3> QED
      BY <3>1, <2>1, <2>5, <2>6, <2>7, NoDeedIsIdle, RegisterWrite DEF Filed, p
  <2>9. CASE ~ (m # NoPerson /\ Taken(m))
    <3>1. person' = [person EXCEPT ![p] = x] /\ deed' = [deed EXCEPT ![r] = d]
      BY <1>7, <2>9, <2>1 DEF UpdateWrite, RegisterInv, RegisterTypeOK, PersonRow
    <3>2. /\ d \in Deed /\ (d.op = "none" => d.who = NoPerson)
          /\ d.op # "none" => d.op = "follow" /\ d.who = p /\ d.email = m /\ m # NoPerson
          /\ m # NoPerson => d.op = "follow"
      BY <2>2, NoDeedIsIdle
    <3> HIDE DEF x, d
    <3>3. person' \in [People -> PersonRow] /\ person'[p] = x /\ \A q \in People \ {p} : person'[q] = person[q]
      BY <3>1, <2>1, <2>3, <2>7
    <3>4. x.state = "filed" => x.email \in Emails
      BY <2>1, <2>3 DEF Filed
    <3>5. p \notin raced /\ ~ Others(r, p) =>
           /\ d.op # "none" => x.state = "filed" /\ d.email = x.email
           /\ account[p] # NoPerson /\ p \notin refused =>
                x.state = "filed" /\ (account[p] = x.email \/ d.op = "follow")
      BY <2>3, <2>4, <2>5, <3>2 DEF Filed
    <3> HIDE DEF p, m
    <3> QED
      BY <3>1, <3>2, <3>3, <3>4, <3>5, <2>1, <2>6, <2>7, RegisterWrite DEF p
  <2> QED
    BY <2>8, <2>9
<1>8. ASSUME NEW r \in Officers, AccountFollows(r) PROVE RegisterInv'
  <2> DEFINE p == deed[r].who
             m == deed[r].email
  <2>1. /\ p \in People /\ DeedOK(r) /\ AccountOK(p) /\ deed[r].op = "follow" /\ m \in Emails
        /\ Filed(p) => person[p].email \in Emails
    BY <1>8, <1>a DEF AccountFollows, DeedOK
  <2>2. /\ deed' = [deed EXCEPT ![r] = NoDeed] /\ raced' = Marked(r, p) /\ UNCHANGED person
        /\ \/ refused' = refused \cup {p} /\ UNCHANGED account
           \/ account' = [account EXCEPT ![p] = IF @ = NoPerson THEN @ ELSE m] /\ UNCHANGED refused
    BY <1>8 DEF AccountFollows
  <2>3. p \notin raced => Filed(p) /\ m = person[p].email
    BY <2>1 DEF DeedOK
  <2>4. person \in [People -> PersonRow] /\ refused \in SUBSET People
        /\ account \in [People -> Emails \cup {NoPerson}]
    BY DEF RegisterInv, RegisterTypeOK
  <2>5. /\ account' \in [People -> Emails \cup {NoPerson}] /\ refused' \in SUBSET People
        /\ refused \subseteq refused' /\ \A q \in People \ {p} : account'[q] = account[q]
        /\ account'[p] # NoPerson /\ p \notin refused' => account'[p] = m
    BY <2>1, <2>2, <2>4
  <2> HIDE DEF p, m
  <2> QED
    BY <2>1, <2>2, <2>3, <2>4, <2>5, NoDeedIsIdle, RegisterWrite DEF Filed, p
<1> QED
  BY <1>0, <1>1, <1>2, <1>3, <1>4, <1>5, <1>6, <1>7, <1>8 DEF RegisterNext

LEMMA RegisterInvariant == RegisterSpec => []RegisterInv
  BY RegisterInitially, RegisterStep, PTL DEF RegisterSpec

(* An account has the address of a record that is on file, unless requests *)
(* overlapped or the address was another account's (grantAccess, update    *)
(* and remove in hr/employee.service.ts), for any people and addresses.    *)
THEOREM AccountsFollowRecords == RegisterSpec => []AccountFollowsItsRecord
<1>1. RegisterInv => AccountFollowsItsRecord
  BY DEF RegisterInv, AccountOK, AccountFollowsItsRecord
<1> QED
  BY <1>1, RegisterInvariant, PTL

----------------------------------------------------------------------------
(* Postings and articles.                                                  *)

(* A row without its moment of publication, on the website.                *)
Undated(row) == row.status = "LIVE" /\ ~ row.dated
Overwritten(p) == p \in overwritten /\ board # "crane"

(* What an editor read is what is there, unless the row was written since; *)
(* and then a date read may be gone only after an older edit overwrote it. *)
EditorOK(e) ==
  editor[e].op # "idle" =>
    /\ editor[e].on \in Postings
    /\ editor[e].seen.status # "ABSENT" /\ posting[editor[e].on].status # "ABSENT"
    /\ editor[e].op = "setStatus" => editor[e].status \in Shown
    /\ ~ editor[e].stale => editor[e].seen = posting[editor[e].on] \/ editor[e].op = "announce"
    /\ Undated(editor[e].seen) => editor[e].on \in byForm \/ Overwritten(editor[e].on)
    /\ editor[e].seen.dated /\ ~ posting[editor[e].on].dated => Overwritten(editor[e].on)

PostingsInv ==
  /\ PostingsTypeOK
  /\ \A e \in Editors : EditorOK(e)
  /\ LiveIsDated

LEMMA NoEditorIsIdle == NoEditor \in Editor /\ NoEditor.op = "idle" /\ NoRow \in PostingRow
  BY DEF NoEditor, Editor, NoRow, PostingRow, Kept

LEMMA PostingsInitially == PostingsInit => PostingsInv
<1> SUFFICES ASSUME PostingsInit PROVE PostingsInv
  OBVIOUS
<1>1. PostingsTypeOK
  BY NoEditorIsIdle DEF PostingsInit, PostingsTypeOK
<1>2. \A e \in Editors : EditorOK(e)
  BY NoEditorIsIdle DEF PostingsInit, EditorOK
<1>3. LiveIsDated
  BY DEF PostingsInit, LiveIsDated, NoRow
<1> QED
  BY <1>1, <1>2, <1>3 DEF PostingsInv

(* An editor moves on without writing a row.                               *)
LEMMA EditorMoves ==
  ASSUME PostingsInv, NEW e \in Editors, NEW x \in Editor,
         editor' = [editor EXCEPT ![e] = x], published' \in SUBSET Postings,
         UNCHANGED <<board, posting, byForm, overwritten>>,
         x.op # "idle" => /\ x.on \in Postings /\ x.seen = posting[x.on]
                          /\ posting[x.on].status # "ABSENT"
                          /\ x.op = "setStatus" => x.status \in Shown
  PROVE  PostingsInv'
<1>1. editor'[e] = x /\ \A d \in Editors \ {e} : editor'[d] = editor[d]
  BY DEF PostingsInv, PostingsTypeOK
<1>2. PostingsTypeOK'
  BY DEF PostingsInv, PostingsTypeOK
<1>3. \A d \in Editors : EditorOK(d)'
  BY <1>1 DEF PostingsInv, EditorOK, Undated, Overwritten, LiveIsDated
<1> QED
  BY <1>2, <1>3 DEF PostingsInv, LiveIsDated

(* Editor e writes row p.  A row may lose its date only where an older edit*)
(* overwrote it, and stand undated on the website only by a form or there. *)
LEMMA PostingWrite ==
  ASSUME PostingsInv, NEW e \in Editors, NEW p \in Postings, NEW row \in PostingRow, NEW x \in Editor,
         Rewrite(e, p, row, x), UNCHANGED <<board, published>>,
         row.status # "ABSENT",
         byForm' \in SUBSET Postings, byForm \subseteq byForm',
         overwritten' \in SUBSET Postings, overwritten \subseteq overwritten',
         x.op # "idle" => /\ x.op = "announce" /\ x.on = p /\ x.seen.status # "ABSENT"
                          /\ Undated(x.seen) => p \in byForm \/ Overwritten(p)
                          /\ x.seen.dated /\ ~ row.dated => Overwritten(p)',
         posting[p].dated /\ ~ row.dated => Overwritten(p)',
         Undated(row) => p \in byForm' \/ Overwritten(p)'
  PROVE  PostingsInv'
<1>1. /\ posting' \in [Postings -> PostingRow] /\ posting'[p] = row
      /\ \A q \in Postings \ {p} : posting'[q] = posting[q]
  BY DEF Rewrite, PostingsInv, PostingsTypeOK
<1>2. editor'[e] = x
  BY DEF Rewrite
<1>3. ASSUME NEW d \in Editors \ {e}
      PROVE  /\ editor'[d] \in Editor
             /\ editor'[d].op = editor[d].op /\ editor'[d].on = editor[d].on
             /\ editor'[d].seen = editor[d].seen /\ editor'[d].status = editor[d].status
             /\ editor'[d].stale = (editor[d].stale \/ editor[d].on = p)
  <2>1. editor[d] \in Editor /\ editor'[d] = [editor[d] EXCEPT !.stale = @ \/ editor[d].on = p]
    BY <1>3 DEF Rewrite, PostingsInv, PostingsTypeOK
  <2> QED
    BY <2>1 DEF Editor
<1>4. PostingsTypeOK'
  <2>1. editor' \in [Editors -> Editor]
    BY <1>2, <1>3 DEF Rewrite
  <2> QED
    BY <1>1, <2>1 DEF PostingsInv, PostingsTypeOK
<1>5. \A q \in Postings : Overwritten(q) => Overwritten(q)'
  BY DEF Overwritten
<1>6. ASSUME NEW d \in Editors PROVE EditorOK(d)'
  <2>1. CASE d = e
    BY <1>1, <1>2, <1>5, <2>1 DEF EditorOK, Undated
  <2>2. CASE d # e
    <3>1. EditorOK(d)
      BY DEF PostingsInv
    <3>2. CASE editor[d].on # p
      BY <1>1, <1>3, <1>5, <2>2, <3>1, <3>2 DEF EditorOK, Undated
    <3>3. CASE editor[d].on = p
      <4>1. editor'[d].stale = TRUE
        BY <1>3, <2>2, <3>3
      <4>2. editor[d].op # "idle" /\ editor[d].seen.dated /\ ~ row.dated => Overwritten(p)'
        BY <3>1, <3>3, <1>5 DEF EditorOK
      <4> QED
        BY <1>1, <1>3, <1>5, <2>2, <3>1, <3>3, <4>1, <4>2 DEF EditorOK, Undated
    <3> QED
      BY <3>2, <3>3
  <2> QED
    BY <2>1, <2>2
<1>7. LiveIsDated'
  BY <1>1, <1>5 DEF PostingsInv, LiveIsDated, Undated, Overwritten
<1> QED
  BY <1>4, <1>6, <1>7 DEF PostingsInv

LEMMA PostingsStep == PostingsInv /\ [PostingsNext]_postingVars => PostingsInv'
<1> SUFFICES ASSUME PostingsInv, [PostingsNext]_postingVars PROVE PostingsInv'
  OBVIOUS
<1>0. CASE UNCHANGED postingVars
  BY <1>0 DEF PostingsInv, PostingsTypeOK, EditorOK, Undated, Overwritten, LiveIsDated, postingVars
<1>a. ASSUME NEW e \in Editors, NEW op \in {"edit", "setStatus", "remove"}, NEW p \in Postings,
             NEW status \in Shown \cup {Kept}, NEW dated \in BOOLEAN, Look(e, op, p, status, dated),
             op = "setStatus" => status \in Shown
      PROVE  PostingsInv'
  <2> DEFINE x == [op |-> op, on |-> p, seen |-> posting[p], status |-> status, dated |-> dated, stale |-> FALSE]
  <2>1. x \in Editor /\ x.on = p /\ x.seen = posting[p] /\ x.op = op /\ x.status = status
    BY DEF Editor, PostingsInv, PostingsTypeOK
  <2>2. /\ editor' = [editor EXCEPT ![e] = x] /\ posting[p].status # "ABSENT"
        /\ UNCHANGED <<board, posting, published, byForm, overwritten>>
    BY <1>a DEF Look
  <2>3. published' \in SUBSET Postings
    BY <2>2 DEF PostingsInv, PostingsTypeOK
  <2> HIDE DEF x
  <2> QED
    BY <1>a, <2>1, <2>2, <2>3, EditorMoves
<1>b. ASSUME NEW e \in Editors, editor[e].op # "idle"
      PROVE  /\ editor[e] \in Editor /\ editor[e].on \in Postings /\ EditorOK(e)
             /\ editor[e].seen \in PostingRow /\ posting[editor[e].on] \in PostingRow
             /\ Undated(posting[editor[e].on]) => editor[e].on \in byForm \/ Overwritten(editor[e].on)
  BY <1>b DEF PostingsInv, PostingsTypeOK, EditorOK, Editor, LiveIsDated, Undated, Overwritten
<1>1. ASSUME NEW p \in Postings, NEW status \in Shown, NEW dated \in BOOLEAN, CreatePosting(p, status, dated)
      PROVE  PostingsInv'
  <2> DEFINE row == [status |-> status, dated |-> dated, deleted |-> FALSE]
  <2>1. row \in PostingRow /\ row.status = status
    BY DEF PostingRow
  <2>2. /\ posting' = [posting EXCEPT ![p] = row] /\ posting[p].status = "ABSENT"
        /\ byForm' = IF status = "LIVE" THEN byForm \cup {p} ELSE byForm
        /\ UNCHANGED <<board, editor, published, overwritten>>
    BY <1>1 DEF CreatePosting
  <2>a. row.status # "ABSENT"
    BY DEF Shown
  <2> HIDE DEF row
  <2>3. posting'[p] = row /\ \A q \in Postings \ {p} : posting'[q] = posting[q]
    BY <2>2 DEF PostingsInv, PostingsTypeOK
  <2>4. PostingsTypeOK'
    BY <2>1, <2>2 DEF PostingsInv, PostingsTypeOK
  <2>5. ASSUME NEW e \in Editors PROVE EditorOK(e)'
    <3>1. EditorOK(e)
      BY DEF PostingsInv
    <3> QED
      BY <2>2, <2>3, <2>a, <3>1 DEF EditorOK, Undated, Overwritten
  <2>6. LiveIsDated'
    BY <2>1, <2>2, <2>3 DEF LiveIsDated, PostingsInv
  <2> QED
    BY <2>4, <2>5, <2>6 DEF PostingsInv
<1>2. ASSUME NEW e \in Editors, EditWrite(e) PROVE PostingsInv'
  <2>0. PICK p \in Postings : p = editor[e].on
    BY <1>2, <1>b DEF EditWrite
  <2> DEFINE x == editor[e]
             old == posting[p]
             dated == IF board = "crane" THEN old.dated ELSE x.dated \/ x.seen.dated
             row == [old EXCEPT !.status = EditedStatus(x), !.dated = dated]
  <2>1. /\ x.op = "edit" /\ x \in Editor /\ EditorOK(e)
        /\ x.seen \in PostingRow /\ x.seen.status # "ABSENT" /\ old \in PostingRow
        /\ x.dated \in BOOLEAN /\ x.status \in Shown \cup {Kept}
    BY <1>2, <1>b, <2>0 DEF EditWrite, EditorOK, Editor
  <2>2. EditedStatus(x) \in Shown
    BY <2>1 DEF EditedStatus, Kept, PostingRow
  <2>3. dated \in BOOLEAN
    BY <2>1 DEF PostingRow
  <2>4. /\ Rewrite(e, p, row, NoEditor) /\ UNCHANGED <<board, published>>
        /\ byForm' = IF x.status = "LIVE" THEN byForm \cup {p} ELSE byForm
        /\ overwritten' = IF x.stale THEN overwritten \cup {p} ELSE overwritten
    BY <1>2, <2>0, <2>1 DEF EditWrite, PostingRow
  <2>5. row \in PostingRow /\ row.status = EditedStatus(x) /\ row.dated = dated /\ row.status # "ABSENT"
    <3>1. "ABSENT" \notin Shown
      BY DEF Shown
    <3> HIDE DEF dated
    <3> QED
      BY <2>1, <2>2, <2>3, <3>1 DEF PostingRow
  <2>6. old.dated /\ ~ row.dated => Overwritten(p)'
    <3> SUFFICES ASSUME old.dated, ~ row.dated PROVE Overwritten(p)'
      OBVIOUS
    <3>1. board # "crane" /\ ~ x.seen.dated
      BY <2>5
    <3>2. x.stale
      BY <2>0, <2>1, <3>1 DEF EditorOK
    <3> QED
      BY <2>4, <3>1, <3>2 DEF Overwritten
  <2>7. Undated(row) => p \in byForm' \/ Overwritten(p)'
    <3> SUFFICES ASSUME Undated(row), p \notin byForm' PROVE Overwritten(p)'
      OBVIOUS
    <3>1. x.status # "LIVE" /\ p \notin byForm
      BY <2>4
    <3>2. x.seen.status = "LIVE" /\ ~ dated
      BY <2>1, <2>5, <3>1 DEF Undated, EditedStatus
    <3>3. Overwritten(p)
      BY <2>0, <2>1, <3>1, <3>2 DEF EditorOK, Undated, Overwritten
    <3> QED
      BY <2>4, <3>3 DEF Overwritten
  <2>8. /\ byForm' \in SUBSET Postings /\ byForm \subseteq byForm'
        /\ overwritten' \in SUBSET Postings /\ overwritten \subseteq overwritten'
    BY <2>4 DEF PostingsInv, PostingsTypeOK
  <2> HIDE DEF x, row, dated
  <2> QED
    BY <2>4, <2>5, <2>6, <2>7, <2>8, NoEditorIsIdle, PostingWrite
<1>3. ASSUME NEW e \in Editors, SetPostingStatusWrite(e) PROVE PostingsInv'
  <2>0. PICK p \in Postings : p = editor[e].on
    BY <1>3, <1>b DEF SetPostingStatusWrite
  <2> DEFINE x == editor[e]
             old == posting[p]
             dated == old.dated \/ Stamps(x.seen, x.status)
             row == [old EXCEPT !.status = x.status, !.dated = dated]
             next == [x EXCEPT !.op = "announce"]
             announces == board = "article" /\ x.status = "LIVE" /\ x.seen.status # "LIVE"
             y == IF announces THEN next ELSE NoEditor
  <2>1. /\ x.op = "setStatus" /\ x \in Editor /\ EditorOK(e)
        /\ x.seen \in PostingRow /\ x.seen.status # "ABSENT" /\ old \in PostingRow
        /\ x.status \in Shown
        /\ Undated(x.seen) => p \in byForm \/ Overwritten(p)
        /\ x.seen.dated /\ ~ old.dated => Overwritten(p)
    BY <1>3, <1>b, <2>0 DEF SetPostingStatusWrite, EditorOK, Editor
  <2>2. /\ next \in Editor /\ next.op = "announce" /\ next.on = p /\ next.seen = x.seen
    BY <2>0, <2>1 DEF Editor
  <2>3. dated \in BOOLEAN
    BY <2>1 DEF PostingRow, Stamps
  <2>4. /\ Rewrite(e, p, row, y) /\ UNCHANGED <<board, published, byForm, overwritten>>
    BY <1>3, <2>0, <2>1 DEF SetPostingStatusWrite, PostingRow
  <2>5. row \in PostingRow /\ row.status = x.status /\ row.dated = dated /\ row.status # "ABSENT"
    <3>1. "ABSENT" \notin Shown
      BY DEF Shown
    <3> HIDE DEF dated
    <3> QED
      BY <2>1, <2>3, <3>1 DEF PostingRow
  <2>6. (old.dated => row.dated) /\ (Undated(row) => Overwritten(p)) /\ (~ row.dated => ~ old.dated)
    BY <2>1, <2>5 DEF Undated, Stamps
  <2>7. /\ y \in Editor
        /\ y.op # "idle" => y.op = "announce" /\ y.on = p /\ y.seen = x.seen
    BY <2>2, NoEditorIsIdle
  <2>8. byForm \in SUBSET Postings /\ overwritten \in SUBSET Postings
    BY DEF PostingsInv, PostingsTypeOK
  <2>9. Overwritten(p) => Overwritten(p)'
    BY <2>4 DEF Overwritten
  <2> HIDE DEF x, row, dated, next, y
  <2> QED
    BY <2>1, <2>4, <2>5, <2>6, <2>7, <2>8, <2>9, PostingWrite
<1>4. ASSUME NEW e \in Editors, AnnouncePosting(e) PROVE PostingsInv'
  <2>1. published' \in SUBSET Postings
    BY <1>4, <1>b DEF AnnouncePosting, PostingsInv, PostingsTypeOK
  <2> QED
    BY <1>4, <2>1, NoEditorIsIdle, EditorMoves DEF AnnouncePosting
<1>5. ASSUME NEW e \in Editors, RemovePostingWrite(e) PROVE PostingsInv'
  <2>0. PICK p \in Postings : p = editor[e].on
    BY <1>5, <1>b DEF RemovePostingWrite
  <2> DEFINE row == [posting[p] EXCEPT !.deleted = TRUE, !.status = "CLOSED"]
  <2>1. row \in PostingRow /\ row.status = "CLOSED" /\ row.dated = posting[p].dated
    BY DEF PostingRow, Shown, PostingsInv, PostingsTypeOK
  <2>2. Rewrite(e, p, row, NoEditor) /\ UNCHANGED <<board, published, byForm, overwritten>>
    BY <1>5, <2>0 DEF RemovePostingWrite
  <2>3. byForm \in SUBSET Postings /\ overwritten \in SUBSET Postings
    BY DEF PostingsInv, PostingsTypeOK
  <2>4. ~ Undated(row)
    BY <2>1 DEF Undated
  <2> HIDE DEF row
  <2> QED
    BY <2>1, <2>2, <2>3, <2>4, NoEditorIsIdle, PostingWrite
<1>6. ASSUME NEW e \in Editors, NEW p \in Postings, RemovePosting(e, p) PROVE PostingsInv'
  BY <1>6, <1>a DEF RemovePosting
<1>7. ASSUME NEW e \in Editors, NEW p \in Postings, NEW status \in Shown, SetPostingStatus(e, p, status)
      PROVE  PostingsInv'
  BY <1>7, <1>a DEF SetPostingStatus
<1>8. ASSUME NEW e \in Editors, NEW p \in Postings, NEW status \in Shown \cup {Kept}, NEW dated \in BOOLEAN,
             Edit(e, p, status, dated)
      PROVE  PostingsInv'
  BY <1>8, <1>a DEF Edit
<1> QED
  BY <1>0, <1>1, <1>2, <1>3, <1>4, <1>5, <1>6, <1>7, <1>8 DEF PostingsNext

LEMMA PostingsInvariant == PostingsSpec => []PostingsInv
  BY PostingsInitially, PostingsStep, PTL DEF PostingsSpec

(* What is on a website has its moment of publication, unless a form named *)
(* the status or an older edit overwrote the date (update and setStatus in *)
(* careers, crane careers and insights), for any rows and requests.        *)
THEOREM WhatIsLiveIsDated == PostingsSpec => []LiveIsDated
<1>1. PostingsInv => LiveIsDated
  BY DEF PostingsInv
<1> QED
  BY <1>1, PostingsInvariant, PTL
----------------------------------------------------------------------------
(* The desks side by side.  Every behaviour of the instance is, desk by    *)
(* desk, a behaviour of the desk's own specification: a step is one desk's *)
(* and the others' tables rest.  What is proved of a desk holds there.     *)

LEMMA DesksStartTogether ==
  DesksInit => /\ IntakeInit /\ CasesInit /\ SlotsInit /\ RegisterInit /\ DeckInit
               /\ NoticesInit /\ PostingsInit /\ OverridesInit /\ RosterInit /\ DaysInit
  BY DEF DesksInit

LEMMA DesksStepApart ==
  [DesksNext]_desksVars =>
    /\ [IntakeNext]_intakeVars
    /\ [CasesNext]_caseVars
    /\ [SlotsNext]_slotVars
    /\ [RegisterNext]_registerVars
    /\ [DeckNext]_deckVars
    /\ [NoticesNext]_noticeVars
    /\ [PostingsNext]_postingVars
    /\ [OverridesNext]_overrideVars
    /\ [RosterNext]_rosterVars
    /\ [DaysNext]_walk
<1> SUFFICES ASSUME [DesksNext]_desksVars
             PROVE  /\ [IntakeNext]_intakeVars /\ [CasesNext]_caseVars /\ [SlotsNext]_slotVars
                    /\ [RegisterNext]_registerVars /\ [DeckNext]_deckVars
                    /\ [NoticesNext]_noticeVars /\ [PostingsNext]_postingVars
                    /\ [OverridesNext]_overrideVars /\ [RosterNext]_rosterVars
                    /\ [DaysNext]_walk
  OBVIOUS
<1>1. CASE IntakeMoves
  BY <1>1 DEF IntakeMoves
<1>2. CASE CasesMoves
  BY <1>2 DEF CasesMoves
<1>3. CASE SlotsMoves
  BY <1>3 DEF SlotsMoves
<1>4. CASE RegisterMoves
  BY <1>4 DEF RegisterMoves
<1>5. CASE DeckMoves
  BY <1>5 DEF DeckMoves
<1>6. CASE NoticesMoves
  BY <1>6 DEF NoticesMoves
<1>7. CASE PostingsMoves
  BY <1>7 DEF PostingsMoves
<1>8. CASE OverridesMoves
  BY <1>8 DEF OverridesMoves
<1>9. CASE RosterMoves
  BY <1>9 DEF RosterMoves
<1>10. CASE DaysMoves
  BY <1>10 DEF DaysMoves
<1>11. CASE UNCHANGED desksVars
  BY <1>11 DEF desksVars
<1> QED
  BY <1>1, <1>2, <1>3, <1>4, <1>5, <1>6, <1>7, <1>8, <1>9, <1>10, <1>11 DEF DesksNext

LEMMA DesksAreTheirDesks ==
  DesksSpec => /\ IntakeSpec /\ CasesSpec /\ SlotsSpec /\ RegisterSpec /\ DeckSpec
               /\ NoticesSpec /\ PostingsSpec /\ OverridesSpec /\ RosterSpec /\ DaysSpec
  BY DesksStartTogether, DesksStepApart, PTL
     DEF DesksSpec, IntakeSpec, CasesSpec, SlotsSpec, RegisterSpec, DeckSpec, NoticesSpec,
         PostingsSpec, OverridesSpec, RosterSpec, DaysSpec

(* Whatever the forms, the handlers and the clean-up of the ten desks do,  *)
(* their tables and their requests keep to their types.                    *)
THEOREM DesksAreTyped == DesksSpec => []DesksTypeOK
<1>1. /\ IntakeInv => IntakeTypeOK
      /\ CasesInv => CasesTypeOK
      /\ SlotsInv => SlotsTypeOK
      /\ RegisterInv => RegisterTypeOK
      /\ DeckInv => DeckTypeOK
      /\ NoticesInv => NoticesTypeOK
      /\ PostingsInv => PostingsTypeOK
      /\ OverridesInv => OverridesTypeOK
      /\ RosterInv => RosterTypeOK
      /\ DaysInv => DaysTypeOK
  BY DEF IntakeInv, CasesInv, SlotsInv, RegisterInv, DeckInv, NoticesInv, PostingsInv,
         OverridesInv, RosterInv, DaysInv
<1>2. DesksTypeOK <=> /\ IntakeTypeOK /\ CasesTypeOK /\ SlotsTypeOK /\ RegisterTypeOK /\ DeckTypeOK
                      /\ NoticesTypeOK /\ PostingsTypeOK /\ OverridesTypeOK /\ RosterTypeOK
                      /\ DaysTypeOK
  BY DEF DesksTypeOK
<1>3. DaysSpec => []DaysInv
  BY DaysInitially, DaysStep, PTL DEF DaysSpec
<1> QED
  BY <1>1, <1>2, <1>3, DesksAreTheirDesks, IntakeInvariant, CasesInvariant, SlotsInvariant,
     RegisterInvariant, DeckInvariant, NoticesInvariant, PostingsInvariant, OverridesInvariant,
     RosterInvariant, PTL

(* What the desks promise of stored files, cases, sign-offs, accounts,     *)
(* leads, notices, postings, permissions, slots and deadlines holds of     *)
(* every behaviour of the ten together, for every value of the constants.  *)
THEOREM DesksKeepTheirPromises ==
  DesksSpec => /\ []RowsAndObjectsAgree /\ []AcceptedKeepsItsFiles /\ []CleanUpSparesCraneRecords
               /\ []TakenUpStopsTheClock /\ []DuplicatesNeedAnOverlap
               /\ WithdrawalStands /\ HandlersMoveTheirColumn
               /\ []SignOffIsOfThisFile /\ []AccountFollowsItsRecord
               /\ ImplementsLeadLedger /\ []ToldOnce /\ []LiveIsDated
               /\ []SuperAdminKeepsTeam /\ []PermissionsAreOneRequests
               /\ []OpenSlotsAreExplained /\ []DeadlineIsNthWorkingDay
  BY DesksAreTheirDesks, RegistryTellsOfTheBucket, AcceptedSubmissionsKeepFiles,
     CraneRecordsKeepFiles, TakenUpCasesAreOnTheClock, DuplicatesComeFromOverlaps,
     WithdrawalsStand, UpdatesAreNotLost, SignOffsAreOfTheFile, AccountsFollowRecords,
     CaptureImplementsLedger, EverybodyIsToldOnce, WhatIsLiveIsDated, SuperAdminIsKept,
     PermissionsComeFromOneRequest, FreeSlotsAreInOrder, DeadlinesFallDue, PTL
=============================================================================
