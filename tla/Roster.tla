------------------------------- MODULE Roster -------------------------------
(***************************************************************************)
(* Architects' working hours, their blackouts and the slots made of them   *)
(* (discovery/architect.service.ts, generate in discovery/slot.service.ts).*)
(*                                                                         *)
(* A handler is a sequence of statements without a transaction.  All hours *)
(* are still ahead, and one generation covers them all, in one insert.     *)
(* The guards that look for sessions count them through their slot, and    *)
(* sessions booked by hour have none, so they never refuse.  Industries    *)
(* and the architect's other columns are left out.                         *)
(***************************************************************************)
CONSTANTS
  Experts,    (* architects                                                *)
  Times,      (* hours ahead                                               *)
  Absences,   (* architect_blackouts rows                                  *)
  Planners,   (* requests the server may be serving at one moment          *)
  Everyone,   (* the architect of a blackout of the whole site             *)
  NoAbsence

ASSUME RosterAssumption == Everyone \notin Experts /\ NoAbsence \notin Absences

VARIABLES
  active,    (* architects.is_active                                       *)
  rule,      (* the hours of each architect's availability rules           *)
  absence,   (* the blackouts: whose, and which hours                      *)
  opening,   (* session_slots: absent, free or blocked                     *)
  planner,   (* the requests being served                                  *)
  excused    (* history: slots freed or made where they should not be, for *)
             (* one of the reasons OpenSlotsAreExplained names             *)

rosterVars == <<active, rule, absence, opening, planner, excused>>

Openings == Experts \X Times
Absence == [of : Experts \cup {Everyone}, hours : SUBSET Times]
NotAway == [of |-> Everyone, hours |-> {}]

Planner == [stage : {"idle", "rules", "blackouts", "insert", "deactivate", "delete", "replace",
                     "close", "reopen"},
            who    : Experts \cup {Everyone},
            staff  : SUBSET Experts,            (* the active ones, as read *)
            plan   : SUBSET Openings,           (* what the rules give      *)
            shut   : SUBSET Openings,           (* what the blackouts cover *)
            hours  : SUBSET Times,
            late   : BOOLEAN]                   (* history: the roster was  *)
                                                (* written meanwhile        *)
NoPlan == [stage |-> "idle", who |-> Everyone, staff |-> {}, plan |-> {}, shut |-> {},
           hours |-> {}, late |-> FALSE]

RosterTypeOK ==
  /\ active \in SUBSET Experts
  /\ rule \in [Experts -> SUBSET Times]
  /\ absence \in [Absences -> Absence]
  /\ opening \in [Openings -> {"absent", "free", "blocked"}]
  /\ planner \in [Planners -> Planner]
  /\ excused \in SUBSET Openings

RosterInit ==
  /\ active = Experts
  /\ rule = [x \in Experts |-> {}]
  /\ absence = [b \in Absences |-> NotAway]
  /\ opening = [o \in Openings |-> "absent"]
  /\ planner = [r \in Planners |-> NoPlan]
  /\ excused = {}

----------------------------------------------------------------------------
Covers(a, o) == a.of \in {o[1], Everyone} /\ o[2] \in a.hours
Shut == {o \in Openings : \E b \in Absences : Covers(absence[b], o)}

(* Planner r goes on as x; whoever else is at work has been overtaken.     *)
Step(r, x) ==
  planner' = [q \in Planners |->
    IF q = r THEN x ELSE IF planner[q].stage = "idle" THEN planner[q]
    ELSE [planner[q] EXCEPT !.late = TRUE]]

Proceed(r, x) == planner' = [planner EXCEPT ![r] = x]

(* The slots among os that are in one state go to another.                 *)
Turn(os, from, to) ==
  [o \in Openings |-> IF o \in os /\ opening[o] = from THEN to ELSE opening[o]]
StillFree(now) == {o \in excused : now[o] = "free"}

(* generate: the architects, the rules and the blackouts, read one after   *)
(* the other, and an insert that ignores the slots that exist.             *)
Generate(r) ==
  /\ planner[r].stage = "idle"
  /\ Proceed(r, [NoPlan EXCEPT !.stage = "rules", !.staff = active])
  /\ UNCHANGED <<active, rule, absence, opening, excused>>

GenerateReadsRules(r) ==
  /\ planner[r].stage = "rules"
  /\ Proceed(r, [planner[r] EXCEPT !.stage = "blackouts",
                !.plan = {o \in Openings : o[1] \in planner[r].staff /\ o[2] \in rule[o[1]]}])
  /\ UNCHANGED <<active, rule, absence, opening, excused>>

GenerateReadsBlackouts(r) ==
  /\ planner[r].stage = "blackouts"
  /\ Proceed(r, [planner[r] EXCEPT !.stage = "insert", !.shut = Shut])
  /\ UNCHANGED <<active, rule, absence, opening, excused>>

(* Somebody else is between two writes to the roster.                      *)
Writing(r) ==
  \E q \in Planners \ {r} : planner[q].stage \notin {"idle", "rules", "blackouts", "insert"}

GenerateInserts(r) ==
  LET x == planner[r]
      new == {o \in x.plan : opening[o] = "absent"}
  IN
  /\ x.stage = "insert"
  /\ opening' = [o \in Openings |-> IF o \notin new THEN opening[o]
                                    ELSE IF o \in x.shut THEN "blocked" ELSE "free"]
  /\ excused' = IF x.late \/ Writing(r) THEN excused \cup (new \ x.shut) ELSE excused
  /\ Step(r, NoPlan)
  /\ UNCHANGED <<active, rule, absence>>

(* deactivate: the architect, then the free slots.                         *)
Deactivate(r, e) ==
  /\ planner[r].stage = "idle"
  /\ active' = active \ {e}
  /\ Step(r, [NoPlan EXCEPT !.stage = "deactivate", !.who = e])
  /\ UNCHANGED <<rule, absence, opening, excused>>

DeactivateCloses(r) ==
  /\ planner[r].stage = "deactivate"
  /\ opening' = Turn({planner[r].who} \X Times, "free", "blocked")
  /\ excused' = StillFree(opening')
  /\ Step(r, NoPlan)
  /\ UNCHANGED <<active, rule, absence>>

(* update, of isActive: the column and nothing else.                       *)
SetActive(e, on) ==
  /\ active' = IF on THEN active \cup {e} ELSE active \ {e}
  /\ planner' = [q \in Planners |-> IF planner[q].stage = "idle" THEN planner[q]
                                    ELSE [planner[q] EXCEPT !.late = TRUE]]
  /\ excused' = IF on THEN excused
                ELSE excused \cup {o \in Openings : o[1] = e /\ opening[o] = "free"}
  /\ UNCHANGED <<rule, absence, opening>>

(* replaceAvailability: the free slots, the old rules, the new rules.      *)
ReplaceAvailability(r, e, hours) ==
  /\ planner[r].stage = "idle"
  /\ opening' = Turn({e} \X Times, "free", "absent")
  /\ excused' = StillFree(opening')
  /\ Step(r, [NoPlan EXCEPT !.stage = "delete", !.who = e, !.hours = hours])
  /\ UNCHANGED <<active, rule, absence>>

ReplaceDeletes(r) ==
  /\ planner[r].stage = "delete"
  /\ rule' = [rule EXCEPT ![planner[r].who] = {}]
  /\ Step(r, [planner[r] EXCEPT !.stage = "replace"])
  /\ UNCHANGED <<active, absence, opening, excused>>

ReplaceSaves(r) ==
  /\ planner[r].stage = "replace"
  /\ rule' = [rule EXCEPT ![planner[r].who] = @ \cup planner[r].hours]
  /\ Step(r, NoPlan)
  /\ UNCHANGED <<active, absence, opening, excused>>

(* createBlackout: the row, then the free slots it covers.                 *)
CreateBlackout(r, b, of, hours) ==
  /\ planner[r].stage = "idle" /\ absence[b] = NotAway /\ hours # {}
  /\ absence' = [absence EXCEPT ![b] = [of |-> of, hours |-> hours]]
  /\ Step(r, [NoPlan EXCEPT !.stage = "close", !.who = of, !.hours = hours])
  /\ UNCHANGED <<active, rule, opening, excused>>

(* Mutant: a blackout of the site closes nobody's slots.                   *)
OnlyTheirs(x) == {o \in Openings : x.who = o[1] /\ o[2] \in x.hours}

Covered(x) == {o \in Openings : x.who \in {o[1], Everyone} /\ o[2] \in x.hours}

BlackoutCloses(r) ==
  /\ planner[r].stage = "close"
  /\ opening' = Turn(Covered(planner[r]), "free", "blocked")
  /\ excused' = StillFree(opening')
  /\ Step(r, NoPlan)
  /\ UNCHANGED <<active, rule, absence>>

(* removeBlackout: the row, then every blocked slot it covered, whatever   *)
(* had blocked it.                                                         *)
RemoveBlackout(r, b) ==
  /\ planner[r].stage = "idle" /\ absence[b] # NotAway
  /\ absence' = [absence EXCEPT ![b] = NotAway]
  /\ Step(r, [NoPlan EXCEPT !.stage = "reopen", !.who = absence[b].of, !.hours = absence[b].hours])
  /\ UNCHANGED <<active, rule, opening, excused>>

BlackoutReopens(r) ==
  LET freed == {o \in Covered(planner[r]) : opening[o] = "blocked"} IN
  /\ planner[r].stage = "reopen"
  /\ opening' = Turn(freed, "blocked", "free")
  /\ excused' = excused \cup freed
  /\ Step(r, NoPlan)
  /\ UNCHANGED <<active, rule, absence>>

(* A statement fails, or the server stops: the rest of a handler is not    *)
(* done, and a closing that did not happen leaves the free slots free.     *)
PlannerStops(r) ==
  /\ planner[r].stage # "idle"
  /\ excused' = IF planner[r].stage \in {"deactivate", "close"}
                THEN excused \cup {o \in Openings : opening[o] = "free"} ELSE excused
  /\ Proceed(r, NoPlan)
  /\ UNCHANGED <<active, rule, absence, opening>>

RosterNext ==
  \/ \E e \in Experts, on \in BOOLEAN : SetActive(e, on)
  \/ \E r \in Planners :
       \/ Generate(r) \/ GenerateReadsRules(r) \/ GenerateReadsBlackouts(r) \/ GenerateInserts(r)
       \/ DeactivateCloses(r) \/ ReplaceDeletes(r) \/ ReplaceSaves(r)
       \/ BlackoutCloses(r) \/ BlackoutReopens(r) \/ PlannerStops(r)
       \/ \E e \in Experts : Deactivate(r, e) \/ \E hours \in SUBSET Times : ReplaceAvailability(r, e, hours)
       \/ \E b \in Absences :
            \/ RemoveBlackout(r, b)
            \/ \E of \in Experts \cup {Everyone}, hours \in SUBSET Times : CreateBlackout(r, b, of, hours)

RosterSpec == RosterInit /\ [][RosterNext]_rosterVars

----------------------------------------------------------------------------
(* A free slot is of an active architect, at an hour of their rules, and   *)
(* under no blackout, once nobody is working on the roster.  The ways to a *)
(* free slot that is not: a generation that ran while the roster was being *)
(* written, a blackout lifted from slots that something else had       *)
(* closed (architect.service.ts:424-440), isActive switched off by an edit *)
(* (117-129), and a handler that stopped before it closed the slots.       *)
OpenSlotsAreExplained ==
  (\A r \in Planners : planner[r].stage = "idle") =>
    \A o \in Openings : opening[o] = "free" /\ o \notin excused =>
      /\ o[1] \in active /\ o[2] \in rule[o[1]]
      /\ \A b \in Absences : ~ Covers(absence[b], o)
=============================================================================
