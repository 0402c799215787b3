------------------------------ MODULE Visits ------------------------------
(***************************************************************************)
(* Site visits of the crane desk and the engineers who attend them         *)
(* (crane/site-visit/crane-site-visit.service.ts, crane-engineer.service). *)
(*                                                                         *)
(* A handler reads the visit, decides, writes the row and records an event *)
(* in a further statement; none of it is in a transaction.  The code tables*)
(* a form refers to, the address copied beside an engineer's id and the    *)
(* notification that follows the acknowledgement are left out.             *)
(***************************************************************************)
EXTENDS Naturals, FiniteSets

CONSTANTS
  Visits,     (* rows of crane_site_visits                                 *)
  Engineers,  (* rows of crane_engineers, those not created yet included   *)
  Requests,   (* requests the server may be serving at one moment          *)
  MaxDay,     (* the last day of the model's clock                         *)
  MaxEvents,  (* bound: no request is taken on a longer timeline           *)
  None

ASSUME ClockAssumption == MaxDay \in Nat \ {0} /\ MaxEvents \in Nat
ASSUME NoneAssumption == None \notin Visits \cup Engineers

VARIABLES
  visit,     (* crane_site_visits                                          *)
  timeline,  (* crane_site_visit_events: what each visit's events say      *)
  engineer,  (* crane_engineers                                            *)
  req,       (* the requests being served                                  *)
  today

vars == <<visit, timeline, engineer, req, today>>

Days == 1..MaxDay
Statuses == {"NEW", "COORDINATING", "SCHEDULED", "COMPLETED", "REPORT_SENT", "CANCELLED"}

Row == [status    : Statuses \cup {"ABSENT"},
        date      : 0..MaxDay,                 (* scheduledAt, 0: not set  *)
        engineer  : Engineers \cup {None},
        responded : 0..MaxDay]                 (* firstRespondedAt         *)

Absent == [status |-> "ABSENT", date |-> 0, engineer |-> None, responded |-> 0]

Event ==
  [type : {"CREATED", "NOTIFICATION_SENT", "NOTE_ADDED"}]
  \cup [type : {"STATUS_CHANGED"}, from : Statuses, to : Statuses]
  \cup [type : {"SCHEDULED"}, date : Days, by : Engineers \cup {None}]
  \cup [type : {"ASSIGNED"}, whom : Engineers]

Request == [pc     : {"idle", "write", "event"},
            op     : {"none", "submit", "setStatus", "schedule", "assign", "deactivate"},
            id     : Visits \cup {None},
            seen   : Row,                      (* the visit as it was read *)
            status : Statuses \cup {"ABSENT"}, (* setStatus's argument     *)
            date   : 0..MaxDay,                (* schedule's               *)
            whom   : Engineers \cup {None}]    (* schedule's, assign's ... *)

Asked(pc, op, v, seen, status, date, whom) ==
  [pc |-> pc, op |-> op, id |-> v, seen |-> seen, status |-> status, date |-> date, whom |-> whom]

Idle == Asked("idle", "none", None, Absent, "ABSENT", 0, None)

TypeOK ==
  /\ visit \in [Visits -> Row]
  /\ timeline \in [Visits -> SUBSET Event]
  /\ engineer \in [Engineers -> {"absent", "active", "inactive"}]
  /\ req \in [Requests -> Request]
  /\ today \in Days

Init ==
  /\ visit = [v \in Visits |-> Absent]
  /\ timeline = [v \in Visits |-> {}]
  /\ engineer = [e \in Engineers |-> "absent"]
  /\ req = [r \in Requests |-> Idle]
  /\ today = 1

----------------------------------------------------------------------------
Exists(v) == visit[v].status # "ABSENT"
OnFile(e) == engineer[e] # "absent"      (* CraneEngineerService.findById  *)

At(r, op, pc) == req[r].op = op /\ req[r].pc = pc
Free(r) == req[r].pc = "idle"
Begin(r, q) == Free(r) /\ req' = [req EXCEPT ![r] = q]
ToEvent(r) == req' = [req EXCEPT ![r].pc = "event"]
Answer(r) == req' = [req EXCEPT ![r] = Idle]

Record(v, e) == timeline' = [timeline EXCEPT ![v] = @ \cup {e}]

Changes(v) == {e \in timeline[v] : e.type \in {"STATUS_CHANGED", "SCHEDULED", "ASSIGNED"}}
Servable(v) == Exists(v) /\ Cardinality(Changes(v)) < MaxEvents

(* Mutant: any answer stops the clock again.                               *)
RespondedAnew(r) == today

(* firstRespondedAt as a write leaves it, by what the handler read.        *)
Responded(r) == IF req[r].seen.responded = 0 THEN today ELSE visit[req[r].id].responded

----------------------------------------------------------------------------
(* submit: the row and its CREATED event in one transaction, the letters   *)
(* and their event after it.                                               *)
Submit(r, v) ==
  /\ ~ Exists(v)
  /\ visit' = [visit EXCEPT ![v].status = "NEW"]
  /\ Record(v, [type |-> "CREATED"])
  /\ Begin(r, Asked("event", "submit", v, Absent, "ABSENT", 0, None))
  /\ UNCHANGED <<engineer, today>>

SubmitEvent(r) ==
  /\ At(r, "submit", "event")
  /\ Record(req[r].id, [type |-> "NOTIFICATION_SENT"])
  /\ Answer(r)
  /\ UNCHANGED <<visit, engineer, today>>

(* Mutant: SCHEDULED is a status like any other.                           *)
SetAnyStatus(r, v, s) ==
  /\ Servable(v)
  /\ visit[v].status # "CANCELLED" /\ s # visit[v].status
  /\ Begin(r, Asked("write", "setStatus", v, visit[v], s, 0, None))
  /\ UNCHANGED <<visit, timeline, engineer, today>>

(* setStatus: anything but SCHEDULED, which only a date makes.             *)
SetStatus(r, v, s) ==
  /\ Servable(v)
  /\ visit[v].status # "CANCELLED"
  /\ s # "SCHEDULED" /\ s # visit[v].status
  /\ Begin(r, Asked("write", "setStatus", v, visit[v], s, 0, None))
  /\ UNCHANGED <<visit, timeline, engineer, today>>

SetStatusWrite(r) ==
  LET v == req[r].id
      s == req[r].status
  IN
  /\ At(r, "setStatus", "write")
  /\ visit' = [visit EXCEPT ![v].status = s,
                            ![v].responded = IF s \in {"NEW", "CANCELLED"} THEN @ ELSE Responded(r)]
  /\ ToEvent(r)
  /\ UNCHANGED <<timeline, engineer, today>>

SetStatusEvent(r) ==
  /\ At(r, "setStatus", "event")
  /\ Record(req[r].id, [type |-> "STATUS_CHANGED", from |-> req[r].seen.status, to |-> req[r].status])
  /\ Answer(r)
  /\ UNCHANGED <<visit, engineer, today>>

(* Mutant: a date brings a cancelled visit back.                           *)
ScheduleAnyway(r, v, d, e) ==
  /\ Servable(v)
  /\ e \in {None} \cup {f \in Engineers : OnFile(f)}
  /\ Begin(r, Asked("write", "schedule", v, visit[v], "ABSENT", d, e))
  /\ UNCHANGED <<visit, timeline, engineer, today>>

(* schedule: any date, and with an engineer or without.                    *)
Schedule(r, v, d, e) ==
  /\ Servable(v)
  /\ visit[v].status # "CANCELLED"
  /\ e \in {None} \cup {f \in Engineers : OnFile(f)}
  /\ Begin(r, Asked("write", "schedule", v, visit[v], "ABSENT", d, e))
  /\ UNCHANGED <<visit, timeline, engineer, today>>

ScheduleWrite(r) ==
  LET v == req[r].id
      e == req[r].whom
  IN
  /\ At(r, "schedule", "write")
  /\ visit' = [visit EXCEPT ![v].status = "SCHEDULED",
                            ![v].date = req[r].date,
                            ![v].engineer = IF e = None THEN @ ELSE e,
                            ![v].responded = Responded(r)]
  /\ ToEvent(r)
  /\ UNCHANGED <<timeline, engineer, today>>

(* Mutant: the event names the engineer of the row that was read.          *)
ScheduleEventAsRead(r) ==
  /\ At(r, "schedule", "event")
  /\ Record(req[r].id, [type |-> "SCHEDULED", date |-> req[r].date, by |-> req[r].seen.engineer])
  /\ Answer(r)
  /\ UNCHANGED <<visit, engineer, today>>

ScheduleEvent(r) ==
  /\ At(r, "schedule", "event")
  /\ Record(req[r].id, [type |-> "SCHEDULED", date |-> req[r].date, by |-> req[r].whom])
  /\ Answer(r)
  /\ UNCHANGED <<visit, engineer, today>>

(* assign looks at no status.                                              *)
Assign(r, v, e) ==
  /\ Servable(v)
  /\ OnFile(e)
  /\ Begin(r, Asked("write", "assign", v, visit[v], "ABSENT", 0, e))
  /\ UNCHANGED <<visit, timeline, engineer, today>>

AssignWrite(r) ==
  /\ At(r, "assign", "write")
  /\ visit' = [visit EXCEPT ![req[r].id].engineer = req[r].whom]
  /\ ToEvent(r)
  /\ UNCHANGED <<timeline, engineer, today>>

(* Mutant: the event names the engineer the visit had.                     *)
AssignEventAsRead(r) ==
  /\ At(r, "assign", "event")
  /\ Record(req[r].id, [type |-> "ASSIGNED", whom |-> req[r].seen.engineer])
  /\ Answer(r)
  /\ UNCHANGED <<visit, engineer, today>>

AssignEvent(r) ==
  /\ At(r, "assign", "event")
  /\ Record(req[r].id, [type |-> "ASSIGNED", whom |-> req[r].whom])
  /\ Answer(r)
  /\ UNCHANGED <<visit, engineer, today>>

AddNote(v) ==
  /\ Exists(v)
  /\ Record(v, [type |-> "NOTE_ADDED"])
  /\ UNCHANGED <<visit, engineer, req, today>>

----------------------------------------------------------------------------
(* THE ROSTER                                                              *)

Upcoming(e) ==
  {v \in Visits : /\ visit[v].engineer = e
                  /\ visit[v].status \notin {"CANCELLED", "COMPLETED"}
                  /\ visit[v].date > today}

CreateEngineer(e, state) ==
  /\ ~ OnFile(e)
  /\ engineer' = [engineer EXCEPT ![e] = state]
  /\ UNCHANGED <<visit, timeline, req, today>>

(* update sets isActive like any other field.                              *)
UpdateEngineer(e, state) ==
  /\ OnFile(e) /\ engineer[e] # state
  /\ engineer' = [engineer EXCEPT ![e] = state]
  /\ UNCHANGED <<visit, timeline, req, today>>

(* deactivate: refused on upcoming visits, which are counted beforehand.   *)
DeactivateEngineer(r, e) ==
  /\ OnFile(e) /\ Upcoming(e) = {}
  /\ Begin(r, Asked("write", "deactivate", None, Absent, "ABSENT", 0, e))
  /\ UNCHANGED <<visit, timeline, engineer, today>>

DeactivateWrite(r) ==
  /\ At(r, "deactivate", "write")
  /\ engineer' = [engineer EXCEPT ![req[r].whom] = "inactive"]
  /\ Answer(r)
  /\ UNCHANGED <<visit, timeline, today>>

Tomorrow ==
  /\ today < MaxDay
  /\ today' = today + 1
  /\ UNCHANGED <<visit, timeline, engineer, req>>

Arrive(r) ==
  \/ \E v \in Visits :
       \/ Submit(r, v)
       \/ \E s \in Statuses : SetStatus(r, v, s)
       \/ \E d \in Days, e \in Engineers \cup {None} : Schedule(r, v, d, e)
       \/ \E e \in Engineers : Assign(r, v, e)
  \/ \E e \in Engineers : DeactivateEngineer(r, e)

Continue(r) ==
  \/ SubmitEvent(r)
  \/ SetStatusWrite(r) \/ SetStatusEvent(r)
  \/ ScheduleWrite(r) \/ ScheduleEvent(r)
  \/ AssignWrite(r) \/ AssignEvent(r)
  \/ DeactivateWrite(r)

Next ==
  \/ \E r \in Requests : Arrive(r) \/ Continue(r)
  \/ \E v \in Visits : AddNote(v)
  \/ \E e \in Engineers, state \in {"active", "inactive"} :
       CreateEngineer(e, state) \/ UpdateEngineer(e, state)
  \/ Tomorrow

Spec == Init /\ [][Next]_vars

----------------------------------------------------------------------------
(* PROPERTIES                                                              *)

Writing(r, v) == req[r].id = v /\ req[r].pc = "write"

(* Cancelled, with no setStatus and no schedule that read it otherwise.    *)
Closed(v) ==
  /\ visit[v].status = "CANCELLED"
  /\ \A r \in Requests : ~ (Writing(r, v) /\ req[r].op \in {"setStatus", "schedule"})

(* setStatus: "This request was cancelled and cannot be reopened".  Once   *)
(* nothing that began before the cancellation is under way, it is final.   *)
CancellationSettles == [][\A v \in Visits : Closed(v) => Closed(v)']_vars

(* Stopped, with no writer that read the clock still running.              *)
Stopped(v) ==
  /\ visit[v].responded # 0
  /\ \A r \in Requests : Writing(r, v) => req[r].seen.responded # 0

(* "The first move stops the 48-hour clock", and no later one starts it,   *)
(* stops it again or moves the moment it stopped.                          *)
ClockStopsForGood ==
  [][\A v \in Visits :
       Stopped(v) => Stopped(v)' /\ visit'[v].responded = visit[v].responded]_vars

(* Whatever was answered has stopped the clock, and SCHEDULED "is what     *)
(* having a date means", though neither is decided on the row written.     *)
StatusIsBacked ==
  \A v \in Visits :
    /\ visit[v].status \in {"COORDINATING", "SCHEDULED", "COMPLETED", "REPORT_SENT"}
         => visit[v].responded # 0
    /\ visit[v].status = "SCHEDULED" => visit[v].date # 0

(* "When did you say you were coming?", and who: once nothing is under way *)
(* on a visit, its date and its engineer are on its timeline, whichever    *)
(* of overlapping schedule and assign wrote last, provided that no stop of *)
(* the server kept an event from following its row.                        *)
PromisesAreOnRecord ==
  \A v \in Visits :
    (\A r \in Requests : req[r].id # v) =>
      /\ visit[v].date # 0 =>
           \E e \in timeline[v] : e.type = "SCHEDULED" /\ e.date = visit[v].date
      /\ visit[v].engineer # None =>
           \E e \in timeline[v] : \/ e.type = "SCHEDULED" /\ e.by = visit[v].engineer
                                  \/ e.type = "ASSIGNED" /\ e.whom = visit[v].engineer

(* deactivate: "a roster that lets somebody vanish from a confirmed visit  *)
(* is worse than no roster".  Nobody leaves the roster with visits ahead.  *)
ConfirmedVisitsAreStaffed ==
  [][\A e \in Engineers : engineer[e] = "active" /\ engineer'[e] = "inactive" => Upcoming(e) = {}]_vars
============================================================================
