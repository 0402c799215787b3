--------------------------- MODULE CalendarProofs ---------------------------
(***************************************************************************)
(* OpenSlotsAreExplained for any number of architects, hours, blackouts    *)
(* and overlapping requests.  The property speaks of moments when nobody   *)
(* is at work; the invariant says who is about to put each exception right *)
(* while somebody is: a free slot of an inactive architect has a           *)
(* deactivation under way, one under a blackout has a closing under way,   *)
(* and there is none while the architect's rules are about to be deleted.  *)
(* A generation that nobody overtook has read the roster as it is.         *)
(*                                                                         *)
(* DeadlineIsNthWorkingDay for every calendar and number of days.          *)
(***************************************************************************)
EXTENDS Roster, BusinessDays, FiniteSetTheorems, TLAPS

Unexcused(o) == opening[o] = "free" /\ o \notin excused

ActiveOrClosing ==
  \A o \in Openings : Unexcused(o) =>
    \/ o[1] \in active
    \/ \E r \in Planners : planner[r].stage = "deactivate" /\ planner[r].who = o[1]

WithinRules == \A o \in Openings : Unexcused(o) => o[2] \in rule[o[1]]

NoneWhileDeleting ==
  \A o \in Openings, r \in Planners :
    Unexcused(o) => ~ (planner[r].stage = "delete" /\ planner[r].who = o[1])

OpenOrClosing ==
  \A o \in Openings, b \in Absences : Unexcused(o) /\ Covers(absence[b], o) =>
    \E r \in Planners : planner[r].stage = "close" /\ o \in Covered(planner[r])

ReadsAreFresh ==
  \A r \in Planners : ~ planner[r].late =>
    /\ planner[r].stage \in {"rules", "blackouts", "insert"} => planner[r].staff = active
    /\ planner[r].stage \in {"blackouts", "insert"} =>
         planner[r].plan = {o \in Openings : o[1] \in active /\ o[2] \in rule[o[1]]}
    /\ planner[r].stage = "insert" => planner[r].shut = Shut

RosterInv ==
  /\ RosterTypeOK /\ ActiveOrClosing /\ WithinRules /\ NoneWhileDeleting
  /\ OpenOrClosing /\ ReadsAreFresh

----------------------------------------------------------------------------
LEMMA RosterInitially == RosterInit => RosterInv
<1> SUFFICES ASSUME RosterInit PROVE RosterInv
  OBVIOUS
<1>1. NoPlan \in Planner /\ NotAway \in Absence
  BY DEF NoPlan, Planner, NotAway, Absence
<1>2. RosterTypeOK
  BY <1>1 DEF RosterInit, RosterTypeOK
<1>3. \A o \in Openings : ~ Unexcused(o)
  BY DEF RosterInit, Unexcused
<1>4. ReadsAreFresh
  BY DEF RosterInit, ReadsAreFresh, NoPlan
<1> QED
  BY <1>2, <1>3, <1>4 DEF RosterInv, ActiveOrClosing, WithinRules, NoneWhileDeleting, OpenOrClosing

(* A planner that goes on with a well-formed record leaves the requests    *)
(* well formed, and the others as they are, but for being overtaken.       *)
LEMMA StepIsTyped ==
  ASSUME RosterTypeOK, NEW r \in Planners, NEW x \in Planner, Step(r, x)
  PROVE  /\ planner' \in [Planners -> Planner]
         /\ planner'[r] = x
         /\ \A q \in Planners \ {r} :
              /\ planner'[q].stage = planner[q].stage /\ planner'[q].who = planner[q].who
              /\ planner'[q].hours = planner[q].hours
              /\ planner[q].stage # "idle" => planner'[q].late
<1> DEFINE Late(q) == [planner[q] EXCEPT !.late = TRUE]
<1>1. \A q \in Planners : planner[q] \in Planner
  BY DEF RosterTypeOK
<1>2. \A q \in Planners :
        /\ Late(q) \in Planner /\ Late(q).stage = planner[q].stage /\ Late(q).who = planner[q].who
        /\ Late(q).hours = planner[q].hours /\ Late(q).late
  BY <1>1 DEF Planner
<1>3. planner' = [q \in Planners |->
        IF q = r THEN x ELSE IF planner[q].stage = "idle" THEN planner[q] ELSE Late(q)]
  BY DEF Step
<1> HIDE DEF Late
<1> QED
  BY <1>1, <1>2, <1>3

(* What a planner that others did not overtake knows survives their writes *)
(* only if it is idle: everybody else at work is marked late.              *)
LEMMA OvertakenReadsAreOld ==
  ASSUME RosterTypeOK, NEW r \in Planners, NEW x \in Planner, Step(r, x),
         x.stage \notin {"rules", "blackouts", "insert"}
  PROVE  ReadsAreFresh'
<1>1. /\ planner'[r] = x
      /\ \A q \in Planners \ {r} :
           planner'[q].stage = planner[q].stage /\ (planner[q].stage # "idle" => planner'[q].late)
  BY StepIsTyped
<1>2. \A q \in Planners :
        ~ planner'[q].late => planner'[q].stage \notin {"rules", "blackouts", "insert"}
  BY <1>1
<1> QED
  BY <1>2 DEF ReadsAreFresh

(* Closing, deleting or leaving slots makes none of them unexcused: one    *)
(* that is free and unexcused afterwards was so before.                    *)
LEMMA ClosingExcusesNone ==
  ASSUME RosterTypeOK, NEW os, NEW to \in {"absent", "blocked"},
         opening' = Turn(os, "free", to), excused' = StillFree(opening')
  PROVE  /\ opening' \in [Openings -> {"absent", "free", "blocked"}]
         /\ excused' \in SUBSET Openings
         /\ \A o \in Openings : Unexcused(o)' => Unexcused(o) /\ o \notin os
<1>1. opening \in [Openings -> {"absent", "free", "blocked"}] /\ excused \in SUBSET Openings
  BY DEF RosterTypeOK
<1>2. opening' = [o \in Openings |-> IF o \in os /\ opening[o] = "free" THEN to ELSE opening[o]]
  BY DEF Turn
<1>3. excused' = {o \in excused : opening'[o] = "free"}
  BY DEF StillFree
<1> QED
  BY <1>1, <1>2, <1>3 DEF Unexcused

----------------------------------------------------------------------------
(* Generation: its reads change nothing, and its insert adds only slots    *)
(* that are in order, or excused because the roster was being written.     *)
LEMMA GenerateKeeps ==
  ASSUME RosterInv, NEW r \in Planners, Generate(r)
  PROVE  RosterInv'
<1> DEFINE x == [NoPlan EXCEPT !.stage = "rules", !.staff = active]
<1>1. /\ x \in Planner /\ x.stage = "rules" /\ x.staff = active
      /\ planner \in [Planners -> Planner]
  BY DEF RosterInv, RosterTypeOK, NoPlan, Planner
<1>2. planner' = [planner EXCEPT ![r] = x] /\ planner[r].stage = "idle"
  BY DEF Generate, Proceed
<1>3. UNCHANGED <<active, rule, absence, opening, excused>>
  BY DEF Generate
<1> HIDE DEF x
<1>4. RosterTypeOK'
  BY <1>1, <1>2, <1>3 DEF RosterInv, RosterTypeOK
<1>5. \A o \in Openings : Unexcused(o)' <=> Unexcused(o)
  BY <1>3 DEF Unexcused
<1>6. \A q \in Planners : q # r => planner'[q] = planner[q]
  BY <1>1, <1>2
<1>7. planner'[r] = x
  BY <1>1, <1>2
<1>8. ActiveOrClosing' /\ WithinRules' /\ NoneWhileDeleting'
  BY <1>1, <1>2, <1>3, <1>5, <1>6, <1>7 DEF RosterInv, ActiveOrClosing, WithinRules, NoneWhileDeleting
<1>9. OpenOrClosing'
  BY <1>2, <1>3, <1>5, <1>6 DEF RosterInv, OpenOrClosing, Covers, Covered
<1>10. ReadsAreFresh'
  BY <1>1, <1>3, <1>6, <1>7 DEF RosterInv, ReadsAreFresh, Shut, Covers
<1> QED
  BY <1>4, <1>8, <1>9, <1>10 DEF RosterInv

LEMMA ReadsKeep ==
  ASSUME RosterInv, NEW r \in Planners, GenerateReadsRules(r) \/ GenerateReadsBlackouts(r)
  PROVE  RosterInv'
<1>1. planner \in [Planners -> Planner] /\ planner[r] \in Planner
  BY DEF RosterInv, RosterTypeOK
<1>2. PICK x \in Planner :
        /\ planner' = [planner EXCEPT ![r] = x]
        /\ x.stage \in {"blackouts", "insert"} /\ x.staff = planner[r].staff /\ x.late = planner[r].late
        /\ x.stage = "blackouts" =>
             x.plan = {o \in Openings : o[1] \in planner[r].staff /\ o[2] \in rule[o[1]]}
        /\ x.stage = "insert" => x.plan = planner[r].plan /\ x.shut = Shut
        /\ x.stage = "blackouts" => planner[r].stage = "rules"
        /\ x.stage = "insert" => planner[r].stage = "blackouts"
  <2>1. CASE GenerateReadsRules(r)
    <3> DEFINE p == {o \in Openings : o[1] \in planner[r].staff /\ o[2] \in rule[o[1]]}
               x == [planner[r] EXCEPT !.stage = "blackouts", !.plan = p]
    <3>1. p \in SUBSET Openings
      OBVIOUS
    <3> HIDE DEF p
    <3>2. x \in Planner /\ x.stage = "blackouts" /\ x.plan = p
          /\ x.staff = planner[r].staff /\ x.late = planner[r].late
      BY <1>1, <3>1 DEF Planner
    <3>3. planner' = [planner EXCEPT ![r] = x] /\ planner[r].stage = "rules"
      BY <2>1 DEF GenerateReadsRules, Proceed, p
    <3> HIDE DEF x
    <3> QED
      BY <3>2, <3>3 DEF p
  <2>2. CASE GenerateReadsBlackouts(r)
    <3> DEFINE x == [planner[r] EXCEPT !.stage = "insert", !.shut = Shut]
    <3>1. Shut \in SUBSET Openings
      BY DEF Shut
    <3>2. x \in Planner /\ x.stage = "insert" /\ x.shut = Shut /\ x.plan = planner[r].plan
          /\ x.staff = planner[r].staff /\ x.late = planner[r].late
      BY <1>1, <3>1 DEF Planner
    <3>3. planner' = [planner EXCEPT ![r] = x] /\ planner[r].stage = "blackouts"
      BY <2>2 DEF GenerateReadsBlackouts, Proceed
    <3> HIDE DEF x
    <3> QED
      BY <3>2, <3>3
  <2> QED
    BY <2>1, <2>2
<1>3. UNCHANGED <<active, rule, absence, opening, excused>>
  BY DEF GenerateReadsRules, GenerateReadsBlackouts
<1>4. RosterTypeOK'
  BY <1>1, <1>2, <1>3 DEF RosterInv, RosterTypeOK
<1>5. \A o \in Openings : Unexcused(o)' <=> Unexcused(o)
  BY <1>3 DEF Unexcused
<1>6. /\ \A q \in Planners : q # r => planner'[q] = planner[q]
      /\ planner'[r] = x /\ planner[r].stage \in {"rules", "blackouts"}
  BY <1>1, <1>2
<1>7. ActiveOrClosing' /\ WithinRules' /\ NoneWhileDeleting'
  BY <1>2, <1>3, <1>5, <1>6 DEF RosterInv, ActiveOrClosing, WithinRules, NoneWhileDeleting
<1>8. OpenOrClosing'
  BY <1>3, <1>5, <1>6 DEF RosterInv, OpenOrClosing, Covers, Covered
<1>9. Shut' = Shut
  BY <1>3 DEF Shut, Covers
<1>10. ASSUME NEW q \in Planners, ~ planner'[q].late
       PROVE  /\ planner'[q].stage \in {"rules", "blackouts", "insert"} => planner'[q].staff = active'
              /\ planner'[q].stage \in {"blackouts", "insert"} =>
                   planner'[q].plan = {o \in Openings : o[1] \in active' /\ o[2] \in rule'[o[1]]}
              /\ planner'[q].stage = "insert" => planner'[q].shut = Shut'
  <2>1. CASE q # r
    BY <2>1, <1>3, <1>6, <1>9, <1>10 DEF RosterInv, ReadsAreFresh
  <2>2. CASE q = r
    <3>1. ~ planner[r].late
      BY <2>2, <1>2, <1>6, <1>10
    <3>2. planner[r].staff = active
      BY <3>1, <1>6 DEF RosterInv, ReadsAreFresh
    <3>3. planner[r].stage = "blackouts" =>
            planner[r].plan = {o \in Openings : o[1] \in active /\ o[2] \in rule[o[1]]}
      BY <3>1 DEF RosterInv, ReadsAreFresh
    <3> QED
      BY <2>2, <3>2, <3>3, <1>2, <1>3, <1>6, <1>9
  <2> QED
    BY <2>1, <2>2
<1>11. ReadsAreFresh'
  BY <1>10 DEF ReadsAreFresh
<1> QED
  BY <1>4, <1>7, <1>8, <1>11 DEF RosterInv

LEMMA InsertKeeps ==
  ASSUME RosterInv, NEW r \in Planners, GenerateInserts(r)
  PROVE  RosterInv'
<1> DEFINE x == planner[r]
           new == {o \in x.plan : opening[o] = "absent"}
<1>1. x \in Planner /\ x.stage = "insert" /\ NoPlan \in Planner
  BY DEF RosterInv, RosterTypeOK, GenerateInserts, NoPlan, Planner
<1>2. UNCHANGED <<active, rule, absence>> /\ Step(r, NoPlan)
  BY DEF GenerateInserts
<1>3. /\ opening' = [o \in Openings |-> IF o \notin new THEN opening[o]
                                        ELSE IF o \in x.shut THEN "blocked" ELSE "free"]
      /\ excused' = IF x.late \/ Writing(r) THEN excused \cup (new \ x.shut) ELSE excused
  BY DEF GenerateInserts
<1>4. x.plan \in SUBSET Openings /\ new \in SUBSET Openings
  BY <1>1 DEF Planner
<1>5. /\ planner' \in [Planners -> Planner] /\ planner'[r] = NoPlan
      /\ \A q \in Planners \ {r} :
           /\ planner'[q].stage = planner[q].stage /\ planner'[q].who = planner[q].who
           /\ planner'[q].hours = planner[q].hours
  BY <1>1, <1>2, StepIsTyped DEF RosterInv
<1>6. RosterTypeOK'
  BY <1>2, <1>3, <1>4, <1>5 DEF RosterInv, RosterTypeOK
<1>7. ASSUME NEW o \in Openings, Unexcused(o)', ~ Unexcused(o)
      PROVE  /\ o[1] \in active /\ o[2] \in rule[o[1]] /\ o \notin Shut
             /\ \A q \in Planners \ {r} : planner[q].stage # "delete"
  <2>1. o \notin excused /\ o \in new \ x.shut /\ ~ x.late /\ ~ Writing(r)
    BY <1>3, <1>7 DEF RosterInv, RosterTypeOK, Unexcused
  <2>2. x.plan = {p \in Openings : p[1] \in active /\ p[2] \in rule[p[1]]} /\ x.shut = Shut
    BY <2>1, <1>1 DEF RosterInv, ReadsAreFresh
  <2> QED
    BY <2>1, <2>2 DEF Writing
<1>8. \A q \in Planners : planner[q].stage \in {"deactivate", "delete", "close"} => q # r
  BY <1>1
<1>9. ActiveOrClosing' /\ WithinRules'
  BY <1>2, <1>5, <1>7, <1>8 DEF RosterInv, ActiveOrClosing, WithinRules
<1>10. NoneWhileDeleting'
  BY <1>5, <1>7 DEF RosterInv, NoneWhileDeleting, NoPlan
<1>11. OpenOrClosing'
  BY <1>2, <1>5, <1>7, <1>8 DEF RosterInv, OpenOrClosing, Shut, Covers, Covered
<1>12. ReadsAreFresh'
  BY <1>1, <1>2, OvertakenReadsAreOld DEF RosterInv, NoPlan
<1> QED
  BY <1>6, <1>9, <1>10, <1>11, <1>12 DEF RosterInv

----------------------------------------------------------------------------
LEMMA DeactivateKeeps ==
  ASSUME RosterInv, NEW r \in Planners, NEW e \in Experts, Deactivate(r, e)
  PROVE  RosterInv'
<1> DEFINE x == [NoPlan EXCEPT !.stage = "deactivate", !.who = e]
<1>1. x \in Planner /\ x.stage = "deactivate" /\ x.who = e
  BY DEF NoPlan, Planner
<1>2. /\ active' = active \ {e} /\ UNCHANGED <<rule, absence, opening, excused>>
      /\ Step(r, x) /\ planner[r].stage = "idle"
  BY DEF Deactivate
<1> HIDE DEF x
<1>3. /\ planner' \in [Planners -> Planner] /\ planner'[r] = x
      /\ \A q \in Planners \ {r} :
           /\ planner'[q].stage = planner[q].stage /\ planner'[q].who = planner[q].who
           /\ planner'[q].hours = planner[q].hours
  BY <1>1, <1>2, StepIsTyped DEF RosterInv
<1>4. RosterTypeOK'
  BY <1>2, <1>3 DEF RosterInv, RosterTypeOK
<1>5. \A o \in Openings : Unexcused(o)' <=> Unexcused(o)
  BY <1>2 DEF Unexcused
<1>6. ActiveOrClosing' /\ WithinRules' /\ NoneWhileDeleting'
  BY <1>1, <1>2, <1>3, <1>5 DEF RosterInv, ActiveOrClosing, WithinRules, NoneWhileDeleting
<1>7. OpenOrClosing'
  BY <1>2, <1>3, <1>5 DEF RosterInv, OpenOrClosing, Covers, Covered
<1>8. ReadsAreFresh'
  BY <1>1, <1>2, OvertakenReadsAreOld DEF RosterInv
<1> QED
  BY <1>4, <1>6, <1>7, <1>8 DEF RosterInv

(* The two closings, and the first statement of a replacement: a slot that *)
(* is still free afterwards is not one of those that were to be closed.    *)
LEMMA DeactivateClosesKeeps ==
  ASSUME RosterInv, NEW r \in Planners, DeactivateCloses(r)
  PROVE  RosterInv'
<1> DEFINE os == {planner[r].who} \X Times
<1>1. NoPlan \in Planner /\ NoPlan.stage = "idle"
  BY DEF NoPlan, Planner
<1>2. /\ opening' = Turn(os, "free", "blocked") /\ excused' = StillFree(opening')
      /\ Step(r, NoPlan) /\ UNCHANGED <<active, rule, absence>> /\ planner[r].stage = "deactivate"
  BY DEF DeactivateCloses
<1> HIDE DEF os
<1>3. /\ planner' \in [Planners -> Planner] /\ planner'[r] = NoPlan
      /\ \A q \in Planners \ {r} :
           /\ planner'[q].stage = planner[q].stage /\ planner'[q].who = planner[q].who
           /\ planner'[q].hours = planner[q].hours
  BY <1>1, <1>2, StepIsTyped DEF RosterInv
<1>4. /\ opening' \in [Openings -> {"absent", "free", "blocked"}] /\ excused' \in SUBSET Openings
      /\ \A o \in Openings : Unexcused(o)' => Unexcused(o) /\ o \notin os
  BY <1>2, ClosingExcusesNone DEF RosterInv
<1>5. \A o \in Openings : o[1] = planner[r].who => o \in os
  BY DEF Openings, os
<1>6. RosterTypeOK'
  BY <1>2, <1>3, <1>4 DEF RosterInv, RosterTypeOK
<1>7. ActiveOrClosing' /\ WithinRules' /\ NoneWhileDeleting'
  BY <1>1, <1>2, <1>3, <1>4, <1>5 DEF RosterInv, ActiveOrClosing, WithinRules, NoneWhileDeleting
<1>8. OpenOrClosing'
  BY <1>2, <1>3, <1>4 DEF RosterInv, OpenOrClosing, Covers, Covered
<1>9. ReadsAreFresh'
  BY <1>1, <1>2, OvertakenReadsAreOld DEF RosterInv
<1> QED
  BY <1>6, <1>7, <1>8, <1>9 DEF RosterInv

LEMMA BlackoutClosesKeeps ==
  ASSUME RosterInv, NEW r \in Planners, BlackoutCloses(r)
  PROVE  RosterInv'
<1> DEFINE os == Covered(planner[r])
<1>1. NoPlan \in Planner /\ NoPlan.stage = "idle"
  BY DEF NoPlan, Planner
<1>2. /\ opening' = Turn(os, "free", "blocked") /\ excused' = StillFree(opening')
      /\ Step(r, NoPlan) /\ UNCHANGED <<active, rule, absence>> /\ planner[r].stage = "close"
  BY DEF BlackoutCloses
<1>3. /\ planner' \in [Planners -> Planner] /\ planner'[r] = NoPlan
      /\ \A q \in Planners \ {r} :
           /\ planner'[q].stage = planner[q].stage /\ planner'[q].who = planner[q].who
           /\ planner'[q].hours = planner[q].hours
  BY <1>1, <1>2, StepIsTyped DEF RosterInv
<1>4. /\ opening' \in [Openings -> {"absent", "free", "blocked"}] /\ excused' \in SUBSET Openings
      /\ \A o \in Openings : Unexcused(o)' => Unexcused(o) /\ o \notin os
  BY <1>2, ClosingExcusesNone DEF RosterInv
<1>5. RosterTypeOK'
  BY <1>2, <1>3, <1>4 DEF RosterInv, RosterTypeOK
<1>6. ActiveOrClosing' /\ WithinRules' /\ NoneWhileDeleting'
  BY <1>1, <1>2, <1>3, <1>4 DEF RosterInv, ActiveOrClosing, WithinRules, NoneWhileDeleting
<1>7. \A o \in Openings, q \in Planners \ {r} :
        o \in Covered(planner[q]) => o \in Covered(planner[q])'
  BY <1>3 DEF Covered
<1>8. OpenOrClosing'
  <2> SUFFICES ASSUME NEW o \in Openings, NEW b \in Absences, Unexcused(o)', Covers(absence[b], o)
               PROVE  \E q \in Planners : planner'[q].stage = "close" /\ o \in Covered(planner[q])'
    BY <1>2 DEF OpenOrClosing, Covers
  <2>1. PICK q \in Planners : planner[q].stage = "close" /\ o \in Covered(planner[q])
    BY <1>4 DEF RosterInv, OpenOrClosing
  <2>2. q # r
    BY <2>1, <1>4
  <2> QED
    BY <2>1, <2>2, <1>3, <1>7
<1>9. ReadsAreFresh'
  BY <1>1, <1>2, OvertakenReadsAreOld DEF RosterInv
<1> QED
  BY <1>5, <1>6, <1>8, <1>9 DEF RosterInv

LEMMA ReplaceKeeps ==
  ASSUME RosterInv, NEW r \in Planners, NEW e \in Experts, NEW hours \in SUBSET Times,
         ReplaceAvailability(r, e, hours)
  PROVE  RosterInv'
<1> DEFINE os == {e} \X Times
           x == [NoPlan EXCEPT !.stage = "delete", !.who = e, !.hours = hours]
<1>1. x \in Planner /\ x.stage = "delete" /\ x.who = e
  BY DEF NoPlan, Planner
<1>2. /\ opening' = Turn(os, "free", "absent") /\ excused' = StillFree(opening')
      /\ Step(r, x) /\ UNCHANGED <<active, rule, absence>> /\ planner[r].stage = "idle"
  BY DEF ReplaceAvailability
<1> HIDE DEF os, x
<1>3. /\ planner' \in [Planners -> Planner] /\ planner'[r] = x
      /\ \A q \in Planners \ {r} :
           /\ planner'[q].stage = planner[q].stage /\ planner'[q].who = planner[q].who
           /\ planner'[q].hours = planner[q].hours
  BY <1>1, <1>2, StepIsTyped DEF RosterInv
<1>4. /\ opening' \in [Openings -> {"absent", "free", "blocked"}] /\ excused' \in SUBSET Openings
      /\ \A o \in Openings : Unexcused(o)' => Unexcused(o) /\ o \notin os
  BY <1>2, ClosingExcusesNone DEF RosterInv
<1>5. \A o \in Openings : o[1] = e => o \in os
  BY DEF Openings, os
<1>6. RosterTypeOK'
  BY <1>2, <1>3, <1>4 DEF RosterInv, RosterTypeOK
<1>7. ActiveOrClosing' /\ WithinRules' /\ NoneWhileDeleting'
  BY <1>1, <1>2, <1>3, <1>4, <1>5 DEF RosterInv, ActiveOrClosing, WithinRules, NoneWhileDeleting
<1>8. OpenOrClosing'
  BY <1>2, <1>3, <1>4 DEF RosterInv, OpenOrClosing, Covers, Covered
<1>9. ReadsAreFresh'
  BY <1>1, <1>2, OvertakenReadsAreOld DEF RosterInv
<1> QED
  BY <1>6, <1>7, <1>8, <1>9 DEF RosterInv

----------------------------------------------------------------------------
(* The rules themselves: deleted when the architect has no unexcused slot, *)
(* and only added to afterwards.                                           *)
LEMMA ReplaceDeletesKeeps ==
  ASSUME RosterInv, NEW r \in Planners, ReplaceDeletes(r)
  PROVE  RosterInv'
<1> DEFINE x == [planner[r] EXCEPT !.stage = "replace"]
<1>1. planner[r] \in Planner
  BY DEF RosterInv, RosterTypeOK
<1>2. x \in Planner /\ x.stage = "replace" /\ x.who = planner[r].who
  BY <1>1 DEF Planner
<1>3. /\ rule' = [rule EXCEPT ![planner[r].who] = {}] /\ UNCHANGED <<active, absence, opening, excused>>
      /\ Step(r, x) /\ planner[r].stage = "delete"
  BY DEF ReplaceDeletes
<1> HIDE DEF x
<1>4. /\ planner' \in [Planners -> Planner] /\ planner'[r] = x
      /\ \A q \in Planners \ {r} :
           /\ planner'[q].stage = planner[q].stage /\ planner'[q].who = planner[q].who
           /\ planner'[q].hours = planner[q].hours
  BY <1>2, <1>3, StepIsTyped DEF RosterInv
<1>5. RosterTypeOK'
  BY <1>3, <1>4 DEF RosterInv, RosterTypeOK
<1>6. \A o \in Openings : Unexcused(o)' => Unexcused(o) /\ o[1] # planner[r].who
  BY <1>3 DEF Unexcused, RosterInv, NoneWhileDeleting
<1>7. \A o \in Openings : o[1] \in Experts /\ (o[1] # planner[r].who => rule'[o[1]] = rule[o[1]])
  BY <1>3 DEF RosterInv, RosterTypeOK, Openings
<1>8. ActiveOrClosing' /\ WithinRules' /\ NoneWhileDeleting'
  BY <1>2, <1>3, <1>4, <1>6, <1>7 DEF RosterInv, ActiveOrClosing, WithinRules, NoneWhileDeleting
<1>9. OpenOrClosing'
  BY <1>3, <1>4, <1>6 DEF RosterInv, OpenOrClosing, Covers, Covered
<1>10. ReadsAreFresh'
  BY <1>2, <1>3, OvertakenReadsAreOld DEF RosterInv
<1> QED
  BY <1>5, <1>8, <1>9, <1>10 DEF RosterInv

LEMMA ReplaceSavesKeeps ==
  ASSUME RosterInv, NEW r \in Planners, ReplaceSaves(r)
  PROVE  RosterInv'
<1>1. planner[r] \in Planner /\ NoPlan \in Planner /\ NoPlan.stage = "idle"
  BY DEF RosterInv, RosterTypeOK, NoPlan, Planner
<1>2. /\ rule' = [rule EXCEPT ![planner[r].who] = @ \cup planner[r].hours]
      /\ UNCHANGED <<active, absence, opening, excused>>
      /\ Step(r, NoPlan) /\ planner[r].stage = "replace"
  BY DEF ReplaceSaves
<1>3. /\ planner' \in [Planners -> Planner] /\ planner'[r] = NoPlan
      /\ \A q \in Planners \ {r} :
           /\ planner'[q].stage = planner[q].stage /\ planner'[q].who = planner[q].who
           /\ planner'[q].hours = planner[q].hours
  BY <1>1, <1>2, StepIsTyped DEF RosterInv
<1>4. planner[r].hours \in SUBSET Times
  BY <1>1 DEF Planner
<1>5. rule' \in [Experts -> SUBSET Times] /\ \A e \in Experts : rule[e] \subseteq rule'[e]
  BY <1>2, <1>4 DEF RosterInv, RosterTypeOK
<1>6. RosterTypeOK'
  BY <1>2, <1>3, <1>5 DEF RosterInv, RosterTypeOK
<1>7. \A o \in Openings : o[1] \in Experts /\ (Unexcused(o)' <=> Unexcused(o))
  BY <1>2 DEF Unexcused, Openings
<1>8. ActiveOrClosing' /\ WithinRules' /\ NoneWhileDeleting'
  BY <1>1, <1>2, <1>3, <1>5, <1>7 DEF RosterInv, ActiveOrClosing, WithinRules, NoneWhileDeleting
<1>9. OpenOrClosing'
  BY <1>2, <1>3, <1>7 DEF RosterInv, OpenOrClosing, Covers, Covered
<1>10. ReadsAreFresh'
  BY <1>1, <1>2, OvertakenReadsAreOld DEF RosterInv
<1> QED
  BY <1>6, <1>8, <1>9, <1>10 DEF RosterInv

----------------------------------------------------------------------------
LEMMA CreateBlackoutKeeps ==
  ASSUME RosterInv, NEW r \in Planners, NEW b \in Absences, NEW of \in Experts \cup {Everyone},
         NEW hours \in SUBSET Times, CreateBlackout(r, b, of, hours)
  PROVE  RosterInv'
<1> DEFINE x == [NoPlan EXCEPT !.stage = "close", !.who = of, !.hours = hours]
           a == [of |-> of, hours |-> hours]
<1>1. x \in Planner /\ x.stage = "close" /\ x.who = of /\ x.hours = hours
  BY DEF NoPlan, Planner
<1>2. a \in Absence /\ a.of = of /\ a.hours = hours
  BY DEF Absence
<1>3. /\ absence' = [absence EXCEPT ![b] = a] /\ UNCHANGED <<active, rule, opening, excused>>
      /\ Step(r, x) /\ planner[r].stage = "idle"
  BY DEF CreateBlackout
<1> HIDE DEF x, a
<1>4. /\ planner' \in [Planners -> Planner] /\ planner'[r] = x
      /\ \A q \in Planners \ {r} :
           /\ planner'[q].stage = planner[q].stage /\ planner'[q].who = planner[q].who
           /\ planner'[q].hours = planner[q].hours
  BY <1>1, <1>3, StepIsTyped DEF RosterInv
<1>5. RosterTypeOK'
  BY <1>2, <1>3, <1>4 DEF RosterInv, RosterTypeOK
<1>6. \A o \in Openings : Unexcused(o)' <=> Unexcused(o)
  BY <1>3 DEF Unexcused
<1>7. ActiveOrClosing' /\ WithinRules' /\ NoneWhileDeleting'
  BY <1>1, <1>3, <1>4, <1>6 DEF RosterInv, ActiveOrClosing, WithinRules, NoneWhileDeleting
<1>8. OpenOrClosing'
  <2> SUFFICES ASSUME NEW o \in Openings, NEW c \in Absences, Unexcused(o)', Covers(absence[c], o)'
               PROVE  \E q \in Planners : planner'[q].stage = "close" /\ o \in Covered(planner[q])'
    BY DEF OpenOrClosing
  <2>1. CASE c = b
    <3>1. absence'[b] = a
      BY <1>3 DEF RosterInv, RosterTypeOK
    <3>2. o \in Covered(planner[r])'
      BY <2>1, <3>1, <1>1, <1>2, <1>4 DEF Covers, Covered
    <3> QED
      BY <3>2, <1>1, <1>4
  <2>2. CASE c # b
    <3>1. absence'[c] = absence[c]
      BY <2>2, <1>3 DEF RosterInv, RosterTypeOK
    <3>2. PICK q \in Planners : planner[q].stage = "close" /\ o \in Covered(planner[q])
      BY <3>1, <1>6 DEF Covers, RosterInv, OpenOrClosing
    <3>3. q # r
      BY <3>2, <1>3
    <3> QED
      BY <3>2, <3>3, <1>4 DEF Covered
  <2> QED
    BY <2>1, <2>2
<1>9. ReadsAreFresh'
  BY <1>1, <1>3, OvertakenReadsAreOld DEF RosterInv
<1> QED
  BY <1>5, <1>7, <1>8, <1>9 DEF RosterInv

LEMMA RemoveBlackoutKeeps ==
  ASSUME RosterInv, NEW r \in Planners, NEW b \in Absences, RemoveBlackout(r, b)
  PROVE  RosterInv'
<1> DEFINE x == [NoPlan EXCEPT !.stage = "reopen", !.who = absence[b].of, !.hours = absence[b].hours]
<1>1. absence[b] \in Absence /\ NotAway \in Absence /\ NotAway.hours = {}
  BY DEF RosterInv, RosterTypeOK, Absence, NotAway
<1>2. absence[b].of \in Experts \cup {Everyone} /\ absence[b].hours \in SUBSET Times
  BY <1>1 DEF Absence
<1>3. x \in Planner /\ x.stage = "reopen"
  BY <1>2 DEF NoPlan, Planner
<1>4. /\ absence' = [absence EXCEPT ![b] = NotAway] /\ UNCHANGED <<active, rule, opening, excused>>
      /\ Step(r, x) /\ planner[r].stage = "idle"
  BY DEF RemoveBlackout
<1> HIDE DEF x
<1>5. /\ planner' \in [Planners -> Planner] /\ planner'[r] = x
      /\ \A q \in Planners \ {r} :
           /\ planner'[q].stage = planner[q].stage /\ planner'[q].who = planner[q].who
           /\ planner'[q].hours = planner[q].hours
  BY <1>3, <1>4, StepIsTyped DEF RosterInv
<1>6. RosterTypeOK'
  BY <1>1, <1>4, <1>5 DEF RosterInv, RosterTypeOK
<1>7. \A o \in Openings : Unexcused(o)' <=> Unexcused(o)
  BY <1>4 DEF Unexcused
<1>8. ActiveOrClosing' /\ WithinRules' /\ NoneWhileDeleting'
  BY <1>3, <1>4, <1>5, <1>7 DEF RosterInv, ActiveOrClosing, WithinRules, NoneWhileDeleting
<1>9. \A o \in Openings, c \in Absences : Covers(absence[c], o)' => Covers(absence[c], o)
  BY <1>1, <1>4 DEF RosterInv, RosterTypeOK, Covers
<1>10. OpenOrClosing'
  BY <1>4, <1>5, <1>7, <1>9 DEF RosterInv, OpenOrClosing, Covered
<1>11. ReadsAreFresh'
  BY <1>3, <1>4, OvertakenReadsAreOld DEF RosterInv
<1> QED
  BY <1>6, <1>8, <1>10, <1>11 DEF RosterInv

(* What a lifted blackout frees is excused.                                *)
LEMMA BlackoutReopensKeeps ==
  ASSUME RosterInv, NEW r \in Planners, BlackoutReopens(r)
  PROVE  RosterInv'
<1> DEFINE freed == {o \in Covered(planner[r]) : opening[o] = "blocked"}
<1>1. NoPlan \in Planner /\ NoPlan.stage = "idle"
  BY DEF NoPlan, Planner
<1>2. /\ opening' = Turn(freed, "blocked", "free") /\ excused' = excused \cup freed
      /\ Step(r, NoPlan) /\ UNCHANGED <<active, rule, absence>> /\ planner[r].stage = "reopen"
  BY DEF BlackoutReopens
<1>3. freed \in SUBSET Openings
  BY DEF Covered
<1> HIDE DEF freed
<1>4. /\ planner' \in [Planners -> Planner] /\ planner'[r] = NoPlan
      /\ \A q \in Planners \ {r} :
           /\ planner'[q].stage = planner[q].stage /\ planner'[q].who = planner[q].who
           /\ planner'[q].hours = planner[q].hours
  BY <1>1, <1>2, StepIsTyped DEF RosterInv
<1>5. /\ opening' \in [Openings -> {"absent", "free", "blocked"}] /\ excused' \in SUBSET Openings
      /\ \A o \in Openings : Unexcused(o)' => Unexcused(o)
  BY <1>2, <1>3 DEF RosterInv, RosterTypeOK, Turn, Unexcused
<1>6. RosterTypeOK'
  BY <1>2, <1>4, <1>5 DEF RosterInv, RosterTypeOK
<1>7. ActiveOrClosing' /\ WithinRules' /\ NoneWhileDeleting'
  BY <1>1, <1>2, <1>4, <1>5 DEF RosterInv, ActiveOrClosing, WithinRules, NoneWhileDeleting
<1>8. OpenOrClosing'
  BY <1>2, <1>4, <1>5 DEF RosterInv, OpenOrClosing, Covers, Covered
<1>9. ReadsAreFresh'
  BY <1>1, <1>2, OvertakenReadsAreOld DEF RosterInv
<1> QED
  BY <1>6, <1>7, <1>8, <1>9 DEF RosterInv

----------------------------------------------------------------------------
LEMMA SetActiveKeeps ==
  ASSUME RosterInv, NEW e \in Experts, NEW on \in BOOLEAN, SetActive(e, on)
  PROVE  RosterInv'
<1> DEFINE Late(q) == [planner[q] EXCEPT !.late = TRUE]
<1>1. \A q \in Planners : planner[q] \in Planner
  BY DEF RosterInv, RosterTypeOK
<1>2. \A q \in Planners :
        /\ Late(q) \in Planner /\ Late(q).stage = planner[q].stage /\ Late(q).who = planner[q].who
        /\ Late(q).hours = planner[q].hours /\ Late(q).late
  BY <1>1 DEF Planner
<1>3. planner' = [q \in Planners |-> IF planner[q].stage = "idle" THEN planner[q] ELSE Late(q)]
  BY DEF SetActive
<1> HIDE DEF Late
<1>4. /\ planner' \in [Planners -> Planner]
      /\ \A q \in Planners :
           /\ planner'[q].stage = planner[q].stage /\ planner'[q].who = planner[q].who
           /\ planner'[q].hours = planner[q].hours
           /\ planner[q].stage # "idle" => planner'[q].late
  BY <1>1, <1>2, <1>3
<1>5. /\ active' = (IF on THEN active \cup {e} ELSE active \ {e})
      /\ excused' = (IF on THEN excused
                     ELSE excused \cup {o \in Openings : o[1] = e /\ opening[o] = "free"})
      /\ UNCHANGED <<rule, absence, opening>>
  BY DEF SetActive
<1>6. RosterTypeOK'
  BY <1>4, <1>5 DEF RosterInv, RosterTypeOK
<1>7. \A o \in Openings : Unexcused(o)' =>
        Unexcused(o) /\ (o[1] \in active => o[1] \in active')
  BY <1>5 DEF Unexcused
<1>8. ActiveOrClosing'
  BY <1>4, <1>7 DEF RosterInv, ActiveOrClosing
<1>9. WithinRules' /\ NoneWhileDeleting'
  BY <1>4, <1>5, <1>7 DEF RosterInv, WithinRules, NoneWhileDeleting
<1>10. OpenOrClosing'
  BY <1>4, <1>5, <1>7 DEF RosterInv, OpenOrClosing, Covers, Covered
<1>11. ReadsAreFresh'
  BY <1>4 DEF ReadsAreFresh
<1> QED
  BY <1>6, <1>8, <1>9, <1>10, <1>11 DEF RosterInv

LEMMA PlannerStopsKeeps ==
  ASSUME RosterInv, NEW r \in Planners, PlannerStops(r)
  PROVE  RosterInv'
<1>1. NoPlan \in Planner /\ NoPlan.stage = "idle"
  BY DEF NoPlan, Planner
<1>2. /\ planner' = [planner EXCEPT ![r] = NoPlan]
      /\ excused' = (IF planner[r].stage \in {"deactivate", "close"}
                     THEN excused \cup {o \in Openings : opening[o] = "free"} ELSE excused)
      /\ UNCHANGED <<active, rule, absence, opening>>
  BY DEF PlannerStops, Proceed
<1>3. /\ planner' \in [Planners -> Planner] /\ planner'[r] = NoPlan
      /\ \A q \in Planners : q # r => planner'[q] = planner[q]
  BY <1>1, <1>2 DEF RosterInv, RosterTypeOK
<1>4. RosterTypeOK'
  BY <1>2, <1>3 DEF RosterInv, RosterTypeOK
<1>5. \A o \in Openings : Unexcused(o)' =>
        Unexcused(o) /\ planner[r].stage \notin {"deactivate", "close"}
  BY <1>2 DEF Unexcused
<1>6. ActiveOrClosing' /\ WithinRules' /\ NoneWhileDeleting'
  BY <1>1, <1>2, <1>3, <1>5 DEF RosterInv, ActiveOrClosing, WithinRules, NoneWhileDeleting
<1>7. OpenOrClosing'
  BY <1>2, <1>3, <1>5 DEF RosterInv, OpenOrClosing, Covers, Covered
<1>8. Shut' = Shut
  BY <1>2 DEF Shut, Covers
<1>9. ReadsAreFresh'
  BY <1>1, <1>2, <1>3, <1>8 DEF RosterInv, ReadsAreFresh
<1> QED
  BY <1>4, <1>6, <1>7, <1>9 DEF RosterInv

----------------------------------------------------------------------------
LEMMA RosterStep == RosterInv /\ [RosterNext]_rosterVars => RosterInv'
<1> SUFFICES ASSUME RosterInv, [RosterNext]_rosterVars PROVE RosterInv'
  OBVIOUS
<1>1. CASE UNCHANGED rosterVars
  BY <1>1 DEF rosterVars, RosterInv, RosterTypeOK, ActiveOrClosing, WithinRules, NoneWhileDeleting,
              OpenOrClosing, ReadsAreFresh, Unexcused, Covers, Covered, Shut
<1>2. ASSUME NEW e \in Experts, NEW on \in BOOLEAN, SetActive(e, on) PROVE RosterInv'
  BY <1>2, SetActiveKeeps
<1>3. ASSUME NEW r \in Planners,
             \/ Generate(r) \/ GenerateReadsRules(r) \/ GenerateReadsBlackouts(r) \/ GenerateInserts(r)
             \/ DeactivateCloses(r) \/ ReplaceDeletes(r) \/ ReplaceSaves(r)
             \/ BlackoutCloses(r) \/ BlackoutReopens(r) \/ PlannerStops(r)
      PROVE  RosterInv'
  BY <1>3, GenerateKeeps, ReadsKeep, InsertKeeps, DeactivateClosesKeeps, ReplaceDeletesKeeps,
     ReplaceSavesKeeps, BlackoutClosesKeeps, BlackoutReopensKeeps, PlannerStopsKeeps
<1>4. ASSUME NEW r \in Planners, NEW e \in Experts, Deactivate(r, e) PROVE RosterInv'
  BY <1>4, DeactivateKeeps
<1>5. ASSUME NEW r \in Planners, NEW e \in Experts, NEW hours \in SUBSET Times,
             ReplaceAvailability(r, e, hours)
      PROVE  RosterInv'
  BY <1>5, ReplaceKeeps
<1>6. ASSUME NEW r \in Planners, NEW b \in Absences, RemoveBlackout(r, b) PROVE RosterInv'
  BY <1>6, RemoveBlackoutKeeps
<1>7. ASSUME NEW r \in Planners, NEW b \in Absences, NEW of \in Experts \cup {Everyone},
             NEW hours \in SUBSET Times, CreateBlackout(r, b, of, hours)
      PROVE  RosterInv'
  BY <1>7, CreateBlackoutKeeps
<1> QED
  BY <1>1, <1>2, <1>3, <1>4, <1>5, <1>6, <1>7 DEF RosterNext

LEMMA RosterInvariant == RosterSpec => []RosterInv
  BY RosterInitially, RosterStep, PTL DEF RosterSpec

(* Once nobody is working on the roster, a free slot belongs to an active  *)
(* architect, lies within their rules and under no blackout, unless one of *)
(* the recorded causes made it free (architect.service.ts:211-445,         *)
(* slot.service.ts:59-162), for any number of architects, hours, blackouts *)
(* and overlapping requests.                                               *)
THEOREM FreeSlotsAreInOrder == RosterSpec => []OpenSlotsAreExplained
<1>1. RosterInv => OpenSlotsAreExplained
  BY DEF RosterInv, OpenSlotsAreExplained, ActiveOrClosing, WithinRules, OpenOrClosing, Unexcused
<1> QED
  BY <1>1, RosterInvariant, PTL
----------------------------------------------------------------------------
(* Deadlines.  The walk counts, up to its cursor, the working days that    *)
(* were not holidays, and it stops on the day that completes the count.    *)
(* That it fails only for holidays needs a bound on the working days of    *)
(* the calendar: of seven days in a row one is, so that d days have at     *)
(* least (d - v) \div 7 of them, v being the last such day up to day 0.    *)

Counted(d) == {e \in 1..d : WorksOn(e) /\ e \notin walk.holidays}

CountOK ==
  /\ walk.counted <= walk.days
  /\ Cardinality(Counted(walk.cursor)) = walk.counted
  /\ walk.counted = walk.days => Cardinality(Counted(walk.cursor - 1)) = walk.days - 1

HolidaysOK ==
  /\ walk.holidays \subseteq 1..walk.cursor
  /\ IsFiniteSet(walk.holidays)
  /\ walk.turns = walk.cursor
  /\ \A v \in -6..0 : v % 7 \in walk.week =>
       walk.counted + Cardinality(walk.holidays) >= (walk.cursor - v) \div 7

DueOK ==
  /\ walk.phase = "due" =>
       /\ walk.counted = walk.days
       /\ Exists(walk.zone, Deadline(walk.cursor)) =>
            LocalClock(walk.zone, walk.due) = Deadline(walk.cursor)
  /\ walk.phase = "failed" => walk.turns = MaxIterations(walk.days) /\ walk.counted < walk.days

DaysInv == DaysTypeOK /\ CountOK /\ HolidaysOK /\ DueOK

LEMMA CountedIsFinite ==
  ASSUME NEW d \in Nat
  PROVE  IsFiniteSet(Counted(d)) /\ Cardinality(Counted(d)) \in Nat
<1>1. IsFiniteSet(1..d)
  BY FS_Interval
<1>2. IsFiniteSet(Counted(d))
  BY <1>1, FS_Subset DEF Counted
<1> QED
  BY <1>2, FS_CardinalityType

(* Any week has a working day, and so has one in the seven days up to 0.   *)
LEMMA SomeWorkingDay ==
  ASSUME NEW week \in Weeks
  PROVE  \E v \in -6..0 : v % 7 \in week
<1>1. PICK w \in 0..6 : w \in week
  BY DaysAssumption
<1>2. CASE w = 0
  BY <1>1, <1>2
<1>3. CASE w # 0
  <2>1. w - 7 \in -6..0 /\ (w - 7) % 7 = w
    BY <1>1, <1>3
  <2> QED
    BY <1>1, <2>1
<1> QED
  BY <1>2, <1>3

(* The two passes land on the clock: if neither offset brings the instant  *)
(* back to the local time, no offset does and the hour does not exist.     *)
LEMMA TwoPassesLand ==
  ASSUME NEW zone \in Zone, NEW local \in Int, Exists(zone, local)
  PROVE  LocalClock(zone, ZonedTimeToUtc(zone, local)) = local
<1>1. PICK z \in Offsets : (local - z) + Offset(zone, local - z) = local
  BY DEF Exists, LocalClock
<1>2. zone.before \in Int /\ zone.after \in Int /\ zone.change \in Int /\ z \in Int
  <2>1. Offsets \subseteq Int
    BY DaysAssumption
  <2> QED
    BY <2>1 DEF Zone
<1> DEFINE B == zone.before
           A == zone.after
           C == zone.change
<1>3. \/ z = B /\ local - B < C
      \/ z = A /\ ~ (local - A < C)
  BY <1>1, <1>2 DEF Offset
<1> HIDE DEF A, B, C
<1>4. \A t \in Int : Offset(zone, t) = IF t < C THEN B ELSE A
  BY DEF Offset, A, B, C
<1>5. A \in Int /\ B \in Int /\ C \in Int
  BY <1>2 DEF A, B, C
<1>6. CASE local < C
  <2>1. Offset(zone, local) = B
    BY <1>4, <1>5, <1>6
  <2>2. CASE local - B < C
    <3>1. ZonedTimeToUtc(zone, local) = local - B /\ Offset(zone, local - B) = B
      BY <1>4, <1>5, <2>1, <2>2 DEF ZonedTimeToUtc
    <3> QED
      BY <1>5, <3>1 DEF LocalClock
  <2>3. CASE ~ (local - B < C)
    <3>1. Offset(zone, local - B) = A /\ Offset(zone, local - A) = A
      BY <1>3, <1>4, <1>5, <2>3
    <3>2. ZonedTimeToUtc(zone, local) = local - A
      BY <1>5, <2>1, <3>1 DEF ZonedTimeToUtc
    <3> QED
      BY <1>5, <3>1, <3>2 DEF LocalClock
  <2> QED
    BY <2>2, <2>3
<1>7. CASE ~ (local < C)
  <2>1. Offset(zone, local) = A
    BY <1>4, <1>5, <1>7
  <2>2. CASE ~ (local - A < C)
    <3>1. ZonedTimeToUtc(zone, local) = local - A /\ Offset(zone, local - A) = A
      BY <1>4, <1>5, <2>1, <2>2 DEF ZonedTimeToUtc
    <3> QED
      BY <1>5, <3>1 DEF LocalClock
  <2>3. CASE local - A < C
    <3>1. Offset(zone, local - A) = B /\ Offset(zone, local - B) = B
      BY <1>3, <1>4, <1>5, <2>3
    <3>2. ZonedTimeToUtc(zone, local) = local - B
      BY <1>5, <2>1, <3>1 DEF ZonedTimeToUtc
    <3> QED
      BY <1>5, <3>1, <3>2 DEF LocalClock
  <2> QED
    BY <2>2, <2>3
<1> QED
  BY <1>6, <1>7

----------------------------------------------------------------------------
LEMMA DaysInitially == DaysInit => DaysInv
<1> SUFFICES ASSUME NEW week \in Weeks, NEW days \in 1..MaxDays,
                    walk = [phase |-> "walking", week |-> week, days |-> days, turns |-> 0,
                            counted |-> 0, cursor |-> 0, holidays |-> {}, due |-> 0, zone |-> NoZone]
             PROVE  DaysInv
  BY DEF DaysInit
<1>1. NoZone \in Zone
  BY DaysAssumption DEF NoZone, Zone
<1>2. DaysTypeOK
  BY <1>1 DEF DaysTypeOK, Walk
<1>3. days \in Nat /\ days >= 1
  BY DaysAssumption
<1>4. /\ walk.counted = 0 /\ walk.cursor = 0 /\ walk.turns = 0 /\ walk.holidays = {}
      /\ walk.days = days /\ walk.phase = "walking"
  OBVIOUS
<1>5. Counted(0) = {}
  BY DEF Counted
<1>6. CountOK
  BY <1>3, <1>4, <1>5, FS_EmptySet DEF CountOK
<1>7. HolidaysOK
  <2>1. \A v \in -6..0 : (0 - v) \div 7 = 0
    OBVIOUS
  <2> QED
    BY <1>4, <2>1, FS_EmptySet DEF HolidaysOK
<1>8. DueOK
  BY <1>4 DEF DueOK
<1> QED
  BY <1>2, <1>6, <1>7, <1>8 DEF DaysInv

LEMMA WalkADayKeeps ==
  ASSUME DaysInv, NEW holiday \in BOOLEAN, WalkADay(holiday)
  PROVE  DaysInv'
<1>0. PICK d : d = walk.cursor + 1
  OBVIOUS
<1> DEFINE count == IF WorksOn(d) /\ ~ holiday THEN walk.counted + 1 ELSE walk.counted
           off == IF holiday THEN walk.holidays \cup {d} ELSE walk.holidays
           new == [walk EXCEPT !.turns = walk.turns + 1, !.cursor = d,
                               !.counted = count, !.holidays = off]
<1>1. /\ walk.cursor \in Nat /\ walk.counted \in Nat /\ walk.turns \in Nat /\ walk.days \in Nat
      /\ walk.holidays \in SUBSET Nat /\ walk.week \in Weeks
      /\ walk \in Walk
  BY DaysAssumption DEF DaysInv, DaysTypeOK, Walk
<1>2. d \in Nat /\ count \in Nat /\ off \in SUBSET Nat /\ walk.turns + 1 \in Nat
  BY <1>0, <1>1
<1>3. /\ walk' = new /\ walk.phase = "walking" /\ walk.counted < walk.days
      /\ holiday => WorksOn(d)
  BY <1>0 DEF WalkADay
<1>4. /\ count = (IF WorksOn(d) /\ ~ holiday THEN walk.counted + 1 ELSE walk.counted)
      /\ off = (IF holiday THEN walk.holidays \cup {d} ELSE walk.holidays)
  OBVIOUS
<1> HIDE DEF count, off
<1>5. /\ new \in Walk /\ new.phase = walk.phase /\ new.week = walk.week /\ new.days = walk.days
      /\ new.turns = walk.turns + 1 /\ new.cursor = d /\ new.counted = count /\ new.holidays = off
  BY <1>1, <1>2 DEF Walk
<1> HIDE DEF new
<1>6. DaysTypeOK'
  BY <1>3, <1>5 DEF DaysTypeOK
<1>7. DueOK'
  BY <1>3, <1>5 DEF DueOK
<1>8. /\ Counted(walk.cursor)' = {e \in 1..d : e % 7 \in walk.week /\ e \notin off}
      /\ Counted(walk.cursor - 1)' = {e \in 1..(d - 1) : e % 7 \in walk.week /\ e \notin off}
  BY <1>3, <1>5 DEF Counted, WorksOn
<1>9. /\ 1..d = (1..walk.cursor) \cup {d} /\ d \notin 1..walk.cursor
      /\ d - 1 = walk.cursor
  BY <1>0, <1>1
<1>10. /\ walk.holidays \subseteq 1..walk.cursor /\ IsFiniteSet(walk.holidays)
       /\ walk.turns = walk.cursor /\ Cardinality(Counted(walk.cursor)) = walk.counted
  BY DEF DaysInv, HolidaysOK, CountOK
<1>11. \A e \in 1..walk.cursor : e \in off <=> e \in walk.holidays
  BY <1>4, <1>9
<1>12. Counted(walk.cursor - 1)' = Counted(walk.cursor)
  BY <1>8, <1>9, <1>11 DEF Counted, WorksOn
<1>13. Counted(walk.cursor)' =
         IF WorksOn(d) /\ ~ holiday THEN Counted(walk.cursor) \cup {d} ELSE Counted(walk.cursor)
  <2>1. d \in off <=> holiday
    BY <1>4, <1>9, <1>10
  <2>2. Counted(walk.cursor)' =
          Counted(walk.cursor) \cup (IF WorksOn(d) /\ ~ holiday THEN {d} ELSE {})
    BY <1>8, <1>9, <1>11, <2>1 DEF Counted, WorksOn
  <2> QED
    BY <2>2
<1>14. Cardinality(Counted(walk.cursor)') = count
  <2>1. IsFiniteSet(Counted(walk.cursor)) /\ d \notin Counted(walk.cursor)
    BY <1>1, <1>9, CountedIsFinite DEF Counted
  <2>2. Cardinality(Counted(walk.cursor) \cup {d}) = walk.counted + 1
    BY <1>10, <2>1, FS_AddElement
  <2> QED
    BY <1>4, <1>10, <1>13, <2>2
<1>15. CountOK'
  <2>1. count <= walk.days
    BY <1>1, <1>3, <1>4
  <2>2. count = walk.days => Cardinality(Counted(walk.cursor - 1)') = walk.days - 1
    BY <1>1, <1>3, <1>4, <1>10, <1>12
  <2> QED
    BY <1>3, <1>5, <1>14, <2>1, <2>2 DEF CountOK
<1>16. off \subseteq 1..d /\ IsFiniteSet(off)
  BY <1>0, <1>1, <1>4, <1>9, <1>10, FS_AddElement
<1>17. Cardinality(walk.holidays) \in Nat /\ Cardinality(off) \in Nat
  BY <1>10, <1>16, FS_CardinalityType
<1>18. count + Cardinality(off) = walk.counted + Cardinality(walk.holidays) + (IF WorksOn(d) THEN 1 ELSE 0)
  <2>1. d \notin walk.holidays
    BY <1>9, <1>10
  <2>2. Cardinality(walk.holidays \cup {d}) = Cardinality(walk.holidays) + 1
    BY <1>10, <2>1, FS_AddElement
  <2> QED
    BY <1>1, <1>3, <1>4, <1>17, <2>2
<1>19. ASSUME NEW v \in -6..0, v % 7 \in walk.week
       PROVE  count + Cardinality(off) >= (d - v) \div 7
  <2>1. walk.counted + Cardinality(walk.holidays) >= (walk.cursor - v) \div 7
    BY <1>19 DEF DaysInv, HolidaysOK
  <2> DEFINE c == walk.cursor
  <2>2. c \in Nat /\ d = c + 1 /\ v \in Int
    BY <1>0, <1>1
  <2> HIDE DEF c
  <2>3. \/ (d - v) \div 7 = (c - v) \div 7
        \/ (d - v) \div 7 = ((c - v) \div 7) + 1 /\ d % 7 = v % 7
    BY <2>2
  <2>4. (c - v) \div 7 \in Int
    BY <2>2
  <2> QED
    BY <1>1, <1>17, <1>18, <1>19, <2>1, <2>3, <2>4 DEF WorksOn, c
<1>20. HolidaysOK'
  BY <1>0, <1>3, <1>5, <1>10, <1>16, <1>19 DEF HolidaysOK
<1> QED
  BY <1>6, <1>7, <1>15, <1>20 DEF DaysInv

LEMMA NoDueDateKeeps ==
  ASSUME DaysInv, NoDueDate
  PROVE  DaysInv'
<1> DEFINE new == [walk EXCEPT !.phase = "failed"]
<1>1. walk \in Walk
  BY DEF DaysInv, DaysTypeOK
<1>2. /\ walk' = new /\ walk.turns = MaxIterations(walk.days) /\ walk.counted < walk.days
  BY DEF NoDueDate
<1>3. /\ new \in Walk /\ new.phase = "failed" /\ new.week = walk.week /\ new.days = walk.days
      /\ new.turns = walk.turns /\ new.cursor = walk.cursor /\ new.counted = walk.counted
      /\ new.holidays = walk.holidays
  BY <1>1 DEF Walk
<1> HIDE DEF new
<1>4. DaysTypeOK' /\ DueOK'
  BY <1>2, <1>3 DEF DaysTypeOK, DueOK, MaxIterations
<1>5. CountOK' /\ HolidaysOK'
  BY <1>2, <1>3 DEF DaysInv, CountOK, HolidaysOK, Counted, WorksOn
<1> QED
  BY <1>4, <1>5 DEF DaysInv

LEMMA ResolveKeeps ==
  ASSUME DaysInv, NEW zone \in Zone, Resolve(zone)
  PROVE  DaysInv'
<1> DEFINE due == ZonedTimeToUtc(zone, Deadline(walk.cursor))
           new == [walk EXCEPT !.phase = "due", !.zone = zone, !.due = due]
<1>1. walk \in Walk /\ walk.cursor \in Nat /\ Deadline(walk.cursor) \in Int
  BY DaysAssumption DEF DaysInv, DaysTypeOK, Walk, Deadline
<1>2. due \in Int
  <2>1. zone.before \in Int /\ zone.after \in Int /\ zone.change \in Int
    <3>1. Offsets \subseteq Int
      BY DaysAssumption
    <3> QED
      BY <3>1 DEF Zone
  <2>2. \A t \in Int : Offset(zone, t) \in Int
    BY <2>1 DEF Offset
  <2> QED
    BY <1>1, <2>2 DEF ZonedTimeToUtc
<1>3. walk' = new /\ walk.counted = walk.days
  BY DEF Resolve
<1>4. Exists(zone, Deadline(walk.cursor)) => LocalClock(zone, due) = Deadline(walk.cursor)
  BY <1>1, TwoPassesLand
<1> HIDE DEF due
<1>5. /\ new \in Walk /\ new.phase = "due" /\ new.week = walk.week /\ new.days = walk.days
      /\ new.turns = walk.turns /\ new.cursor = walk.cursor /\ new.counted = walk.counted
      /\ new.holidays = walk.holidays /\ new.zone = zone /\ new.due = due
  BY <1>1, <1>2 DEF Walk
<1> HIDE DEF new
<1>6. DaysTypeOK'
  BY <1>3, <1>5 DEF DaysTypeOK
<1>7. DueOK'
  BY <1>3, <1>4, <1>5 DEF DueOK, Exists, LocalClock, Offset, Deadline
<1>8. CountOK' /\ HolidaysOK'
  BY <1>3, <1>5 DEF DaysInv, CountOK, HolidaysOK, Counted, WorksOn
<1> QED
  BY <1>6, <1>7, <1>8 DEF DaysInv

LEMMA DaysStep == DaysInv /\ [DaysNext]_walk => DaysInv'
<1> SUFFICES ASSUME DaysInv, [DaysNext]_walk PROVE DaysInv'
  OBVIOUS
<1>1. ASSUME NEW before \in Offsets, NEW after \in Offsets, NEW shift \in -16..16,
             Resolve([before |-> before, after |-> after, change |-> Deadline(walk.cursor) + shift])
      PROVE  DaysInv'
  <2>1. Deadline(walk.cursor) + shift \in Int
    BY DaysAssumption DEF DaysInv, DaysTypeOK, Walk, Deadline
  <2>2. [before |-> before, after |-> after, change |-> Deadline(walk.cursor) + shift] \in Zone
    BY <2>1 DEF Zone
  <2> QED
    BY <1>1, <2>2, ResolveKeeps
<1>2. CASE UNCHANGED walk
  BY <1>2 DEF DaysInv, DaysTypeOK, CountOK, HolidaysOK, DueOK, Counted, WorksOn
<1> QED
  BY <1>1, <1>2, WalkADayKeeps, NoDueDateKeeps DEF DaysNext

LEMMA DaysInvImplies == DaysInv => DeadlineIsNthWorkingDay
<1> SUFFICES ASSUME DaysInv PROVE DeadlineIsNthWorkingDay
  OBVIOUS
<1>1. \A d : WorkingDays(d) = Cardinality(Counted(d))
  BY DEF WorkingDays, Counted
<1>2. walk.phase = "due" =>
        /\ WorkingDays(walk.cursor) = walk.days
        /\ WorkingDays(walk.cursor - 1) = walk.days - 1
  BY <1>1 DEF DaysInv, CountOK, DueOK
<1>3. ASSUME walk.phase = "failed" PROVE Cardinality(walk.holidays) > 2
  <2>1. walk.days \in Nat /\ walk.counted \in Nat /\ walk.week \in Weeks /\ walk.cursor \in Nat
    BY DaysAssumption DEF DaysInv, DaysTypeOK, Walk
  <2>2. walk.cursor = walk.days * 7 + 14 /\ walk.counted < walk.days
    BY <1>3 DEF DaysInv, DueOK, HolidaysOK, MaxIterations
  <2>3. Cardinality(walk.holidays) \in Nat
    BY FS_CardinalityType DEF DaysInv, HolidaysOK
  <2>4. PICK v \in -6..0 : v % 7 \in walk.week
    BY <2>1, SomeWorkingDay
  <2>5. walk.counted + Cardinality(walk.holidays) >= (walk.cursor - v) \div 7
    BY <2>4 DEF DaysInv, HolidaysOK
  <2>6. (walk.cursor - v) \div 7 >= walk.days + 2 /\ (walk.cursor - v) \div 7 \in Int
    BY <2>1, <2>2
  <2> QED
    BY <2>1, <2>2, <2>3, <2>5, <2>6
<1> QED
  BY <1>2, <1>3 DEF DaysInv, DueOK, DeadlineIsNthWorkingDay

(* addBusinessDays: a deadline falls on the working day that completes the *)
(* count, at the end of business on the office's own clock wherever its    *)
(* offset changes, and the walk gives up only after three holidays, for    *)
(* every calendar, number of days and set of offsets.                      *)
THEOREM DeadlinesFallDue == DaysSpec => []DeadlineIsNthWorkingDay
BY DaysInitially, DaysStep, DaysInvImplies, PTL DEF DaysSpec
=============================================================================
