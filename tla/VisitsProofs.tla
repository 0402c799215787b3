--------------------------- MODULE VisitsProofs ---------------------------
(***************************************************************************)
(* What Visits promises, for any number of visits, engineers, days and     *)
(* overlapping requests.                                                   *)
(***************************************************************************)
EXTENDS Visits, TLAPS

(* What a request under way carries, and the one thing it still knows of   *)
(* its visit: a clock it read as stopped is stopped.                       *)
Carries(q) ==
  /\ q.pc = "idle" => q = Idle
  /\ q.op = "none" => q.pc = "idle"
  /\ q.op \in {"submit", "setStatus", "schedule", "assign"} => q.id \in Visits
  /\ q.op = "setStatus" => /\ q.status \in Statuses \ {"SCHEDULED"}
                           /\ q.seen.status \in Statuses
  /\ q.op = "schedule" => q.date \in Days
  /\ q.op \in {"assign", "deactivate"} => q.whom \in Engineers
  /\ q.op = "deactivate" => q.id = None

Knows(q) == q.id \in Visits /\ q.seen.responded # 0 => visit[q.id].responded # 0

(* A date, or an engineer, is on the timeline or about to be.              *)
DateOnRecord(v) == \E e \in timeline[v] : e.type = "SCHEDULED" /\ e.date = visit[v].date
DateComing(v, r) ==
  /\ At(r, "schedule", "event")
  /\ req[r].id = v /\ req[r].date = visit[v].date

EngineerOnRecord(v) ==
  \E e \in timeline[v] : \/ e.type = "SCHEDULED" /\ e.by = visit[v].engineer
                         \/ e.type = "ASSIGNED" /\ e.whom = visit[v].engineer
EngineerComing(v, r) ==
  /\ At(r, "schedule", "event") \/ At(r, "assign", "event")
  /\ req[r].id = v /\ req[r].whom = visit[v].engineer

DateKept(v) ==
  visit[v].date # 0 => DateOnRecord(v) \/ \E r \in Requests : DateComing(v, r)
EngineerKept(v) ==
  visit[v].engineer # None => EngineerOnRecord(v) \/ \E r \in Requests : EngineerComing(v, r)

IInv ==
  /\ TypeOK
  /\ \A r \in Requests : Carries(req[r]) /\ Knows(req[r])
  /\ StatusIsBacked
  /\ \A v \in Visits : DateKept(v) /\ EngineerKept(v)

----------------------------------------------------------------------------
LEMMA IdleIsRequest == Idle \in Request /\ Carries(Idle) /\ Knows(Idle)
  BY ClockAssumption, NoneAssumption DEF Idle, Asked, Request, Row, Absent, Carries, Knows

LEMMA Initially == Init => IInv
<1> SUFFICES ASSUME Init PROVE IInv
  OBVIOUS
<1>1. Absent \in Row
  BY ClockAssumption DEF Absent, Row
<1>2. TypeOK
  BY <1>1, IdleIsRequest, ClockAssumption DEF Init, TypeOK, Days
<1>3. \A r \in Requests : Carries(req[r]) /\ Knows(req[r])
  BY IdleIsRequest DEF Init
<1>4. StatusIsBacked
  BY DEF Init, StatusIsBacked, Absent
<1>5. \A v \in Visits : DateKept(v) /\ EngineerKept(v)
  BY DEF Init, DateKept, EngineerKept, Absent
<1> QED
  BY <1>2, <1>3, <1>4, <1>5 DEF IInv

----------------------------------------------------------------------------
(* A request that begins: the state but for itself stays, and what it      *)
(* carries is right.                                                       *)
LEMMA BeginningKeeps ==
  ASSUME IInv, NEW r \in Requests, NEW q \in Request,
         Begin(r, q), Carries(q), Knows(q),
         UNCHANGED <<visit, timeline, engineer, today>>
  PROVE  IInv'
<1>1. req \in [Requests -> Request] /\ req[r].pc = "idle"
  BY DEF IInv, TypeOK, Begin, Free
<1>2. /\ req'[r] = q
      /\ \A p \in Requests \ {r} : req'[p] = req[p]
      /\ req' \in [Requests -> Request]
  BY <1>1 DEF Begin
<1>3. TypeOK'
  BY <1>2 DEF IInv, TypeOK
<1>4. \A p \in Requests : Carries(req[p])' /\ Knows(req[p])'
  <2> TAKE p \in Requests
  <2>1. Carries(q) /\ Knows(q)'
    BY DEF Knows
  <2>2. Carries(req[p]) /\ Knows(req[p])
    BY DEF IInv
  <2> QED
    BY <1>2, <2>1, <2>2 DEF Carries, Knows, Idle, Asked
<1>5. StatusIsBacked'
  BY DEF IInv, StatusIsBacked
<1>6. \A v \in Visits : DateKept(v)' /\ EngineerKept(v)'
  <2> TAKE v \in Visits
  <2>1. DateKept(v) /\ EngineerKept(v)
    BY DEF IInv
  <2>2. \A p \in Requests : DateComing(v, p) => DateComing(v, p)'
    BY <1>1, <1>2 DEF DateComing, At
  <2>3. \A p \in Requests : EngineerComing(v, p) => EngineerComing(v, p)'
    BY <1>1, <1>2 DEF EngineerComing, At
  <2>4. (DateOnRecord(v) <=> DateOnRecord(v)') /\ (EngineerOnRecord(v) <=> EngineerOnRecord(v)')
    BY DEF DateOnRecord, EngineerOnRecord
  <2> QED
    BY <2>1, <2>2, <2>3, <2>4 DEF DateKept, EngineerKept
<1> QED
  BY <1>3, <1>4, <1>5, <1>6 DEF IInv

(* A row that is written: its clock stays stopped and its new date and     *)
(* engineer are about to be recorded by the request that wrote them.       *)
LEMMA WritingKeeps ==
  ASSUME IInv, NEW r \in Requests, NEW row \in Row,
         req[r].pc = "write", req[r].id \in Visits,
         visit' = [visit EXCEPT ![req[r].id] = row],
         ToEvent(r), UNCHANGED <<timeline, engineer, today>>,
         visit[req[r].id].responded # 0 => row.responded # 0,
         row.status \in {"COORDINATING", "SCHEDULED", "COMPLETED", "REPORT_SENT"} => row.responded # 0,
         row.status = "SCHEDULED" => row.date # 0,
         \/ row.date = visit[req[r].id].date
         \/ req[r].op = "schedule" /\ req[r].date = row.date,
         \/ row.engineer = visit[req[r].id].engineer
         \/ req[r].op \in {"schedule", "assign"} /\ req[r].whom = row.engineer
  PROVE  IInv'
<1> DEFINE w == req[r].id
<1>1. /\ visit \in [Visits -> Row] /\ req \in [Requests -> Request] /\ w \in Visits
      /\ \A p \in Requests : Carries(req[p]) /\ Knows(req[p])
  BY DEF IInv, TypeOK
<1>2. /\ visit' \in [Visits -> Row] /\ visit'[w] = row
      /\ \A v \in Visits \ {w} : visit'[v] = visit[v]
  BY <1>1
<1>3. \A p \in Requests \ {r} : req'[p] = req[p]
  BY <1>1 DEF ToEvent
<1>4. req'[r] = [req[r] EXCEPT !.pc = "event"] /\ req[r] \in Request
  BY <1>1 DEF ToEvent
<1>5. /\ req'[r] \in Request /\ req'[r].pc = "event" /\ req'[r].op = req[r].op
      /\ req'[r].id = w /\ req'[r].seen = req[r].seen /\ req'[r].status = req[r].status
      /\ req'[r].date = req[r].date /\ req'[r].whom = req[r].whom
  BY <1>4 DEF Request
<1>6. req' \in [Requests -> Request]
  BY <1>1, <1>5 DEF ToEvent
<1> HIDE DEF w
<1>7. TypeOK'
  BY <1>2, <1>6 DEF IInv, TypeOK
<1>8. \A p \in Requests : Carries(req[p])' /\ Knows(req[p])'
  <2> TAKE p \in Requests
  <2>1. \A v \in Visits : visit[v].responded # 0 => visit'[v].responded # 0
    BY <1>2 DEF w
  <2>2. CASE p = r
    <3>1. Carries(req[r]) /\ Knows(req[r]) /\ req[r].id = w
      BY <1>1 DEF w
    <3>2. Carries(req'[r])
      BY <1>5, <3>1 DEF Carries
    <3>3. Knows(req[r])'
      BY <1>1, <1>5, <2>1, <3>1 DEF Knows
    <3> QED
      BY <2>2, <3>2, <3>3 DEF Carries, Idle, Asked
  <2>3. CASE p # r
    BY <1>1, <1>3, <2>1, <2>3 DEF Carries, Knows, Idle, Asked
  <2> QED
    BY <2>2, <2>3
<1>9. StatusIsBacked'
  BY <1>2 DEF IInv, StatusIsBacked
<1>10. \A v \in Visits : DateKept(v)' /\ EngineerKept(v)'
  <2> TAKE v \in Visits
  <2>1. DateKept(v) /\ EngineerKept(v)
    BY DEF IInv
  <2>2. CASE v # w
    <3>1. \A p \in Requests : DateComing(v, p) => DateComing(v, p)'
      BY <1>2, <1>3, <2>2 DEF DateComing, At, w
    <3>2. \A p \in Requests : EngineerComing(v, p) => EngineerComing(v, p)'
      BY <1>2, <1>3, <2>2 DEF EngineerComing, At, w
    <3> QED
      BY <1>2, <2>1, <2>2, <3>1, <3>2
      DEF DateKept, EngineerKept, DateOnRecord, EngineerOnRecord
  <2>3. CASE v = w
    <3>1. DateKept(v)'
      <4>1. CASE row.date = visit[v].date
        <5>1. \A p \in Requests : DateComing(v, p) => DateComing(v, p)'
          BY <1>2, <1>3, <2>3, <4>1 DEF DateComing, At
        <5> QED
          BY <1>2, <2>1, <2>3, <4>1, <5>1 DEF DateKept, DateOnRecord
      <4>2. CASE req[r].op = "schedule" /\ req[r].date = row.date
        BY <1>2, <1>5, <2>3, <4>2 DEF DateKept, DateComing, At
      <4> QED
        BY <2>3, <4>1, <4>2 DEF w
    <3>2. EngineerKept(v)'
      <4>1. CASE row.engineer = visit[v].engineer
        <5>1. \A p \in Requests : EngineerComing(v, p) => EngineerComing(v, p)'
          BY <1>2, <1>3, <2>3, <4>1 DEF EngineerComing, At
        <5> QED
          BY <1>2, <2>1, <2>3, <4>1, <5>1 DEF EngineerKept, EngineerOnRecord
      <4>2. CASE req[r].op \in {"schedule", "assign"} /\ req[r].whom = row.engineer
        BY <1>2, <1>5, <2>3, <4>2 DEF EngineerKept, EngineerComing, At
      <4> QED
        BY <2>3, <4>1, <4>2 DEF w
    <3> QED
      BY <3>1, <3>2
  <2> QED
    BY <2>2, <2>3
<1> QED
  BY <1>7, <1>8, <1>9, <1>10 DEF IInv

(* An event that is recorded by the request that answers: what was coming  *)
(* is on the timeline.                                                     *)
LEMMA RecordingKeeps ==
  ASSUME IInv, NEW r \in Requests, NEW e \in Event,
         req[r].pc = "event", req[r].id \in Visits,
         Record(req[r].id, e), Answer(r), UNCHANGED <<visit, engineer, today>>,
         req[r].op = "schedule" => /\ e.type = "SCHEDULED"
                                   /\ e.date = req[r].date /\ e.by = req[r].whom,
         req[r].op = "assign" => e.type = "ASSIGNED" /\ e.whom = req[r].whom
  PROVE  IInv'
<1>1. /\ req \in [Requests -> Request] /\ timeline \in [Visits -> SUBSET Event]
      /\ \A p \in Requests : Carries(req[p]) /\ Knows(req[p])
  BY DEF IInv, TypeOK
<1>2. /\ req' \in [Requests -> Request] /\ req'[r] = Idle
      /\ \A p \in Requests \ {r} : req'[p] = req[p]
  BY <1>1, IdleIsRequest DEF Answer
<1>3. /\ timeline' \in [Visits -> SUBSET Event] /\ e \in timeline'[req[r].id]
      /\ \A v \in Visits : timeline[v] \subseteq timeline'[v]
  BY <1>1 DEF Record
<1>4. TypeOK'
  BY <1>2, <1>3 DEF IInv, TypeOK
<1>5. \A p \in Requests : Carries(req[p])' /\ Knows(req[p])'
  <2> TAKE p \in Requests
  <2>1. Carries(Idle) /\ Knows(Idle)'
    BY IdleIsRequest DEF Knows
  <2> QED
    BY <1>1, <1>2, <2>1 DEF Carries, Knows, Idle, Asked
<1>6. StatusIsBacked'
  BY DEF IInv, StatusIsBacked
<1>7. \A v \in Visits : DateKept(v)' /\ EngineerKept(v)'
  <2> TAKE v \in Visits
  <2>1. DateKept(v) /\ EngineerKept(v)
    BY DEF IInv
  <2>2. DateOnRecord(v) => DateOnRecord(v)'
    BY <1>3 DEF DateOnRecord
  <2>3. EngineerOnRecord(v) => EngineerOnRecord(v)'
    BY <1>3 DEF EngineerOnRecord
  <2>4. ASSUME NEW p \in Requests, DateComing(v, p)
        PROVE  DateComing(v, p)' \/ DateOnRecord(v)'
    <3>1. CASE p = r
      BY <1>3, <2>4, <3>1 DEF DateComing, DateOnRecord, At
    <3>2. CASE p # r
      BY <1>2, <2>4, <3>2 DEF DateComing, At
    <3> QED
      BY <3>1, <3>2
  <2>5. ASSUME NEW p \in Requests, EngineerComing(v, p)
        PROVE  EngineerComing(v, p)' \/ EngineerOnRecord(v)'
    <3>1. CASE p = r
      BY <1>3, <2>5, <3>1 DEF EngineerComing, EngineerOnRecord, At
    <3>2. CASE p # r
      BY <1>2, <2>5, <3>2 DEF EngineerComing, At
    <3> QED
      BY <3>1, <3>2
  <2>6. DateKept(v)'
    BY <2>1, <2>2, <2>4 DEF DateKept
  <2>7. EngineerKept(v)'
    BY <2>1, <2>3, <2>5 DEF EngineerKept
  <2> QED
    BY <2>6, <2>7
<1> QED
  BY <1>4, <1>5, <1>6, <1>7 DEF IInv

(* Steps that touch no request: rows, promises and what is carried stand.  *)
LEMMA OthersKeep ==
  ASSUME IInv, TypeOK', UNCHANGED <<visit, req>>,
         \A v \in Visits : timeline[v] \subseteq timeline'[v]
  PROVE  IInv'
<1>1. \A r \in Requests : Carries(req[r])' /\ Knows(req[r])'
  BY DEF IInv, Carries, Knows, Idle, Asked
<1>2. StatusIsBacked'
  BY DEF IInv, StatusIsBacked
<1>3. \A v \in Visits : DateKept(v)' /\ EngineerKept(v)'
  <2> TAKE v \in Visits
  <2>1. DateKept(v) /\ EngineerKept(v)
    BY DEF IInv
  <2>2. DateOnRecord(v) => DateOnRecord(v)'
    BY DEF DateOnRecord
  <2>3. EngineerOnRecord(v) => EngineerOnRecord(v)'
    BY DEF EngineerOnRecord
  <2>4. \A r \in Requests : DateComing(v, r) => DateComing(v, r)'
    BY DEF DateComing, At
  <2>5. \A r \in Requests : EngineerComing(v, r) => EngineerComing(v, r)'
    BY DEF EngineerComing, At
  <2> QED
    BY <2>1, <2>2, <2>3, <2>4, <2>5 DEF DateKept, EngineerKept
<1> QED
  BY <1>1, <1>2, <1>3 DEF IInv
LEMMA SubmittingKeeps ==
  ASSUME IInv, NEW r \in Requests, NEW v \in Visits, Submit(r, v)
  PROVE  IInv'
<1> DEFINE q == Asked("event", "submit", v, Absent, "ABSENT", 0, None)
<1>1. /\ visit \in [Visits -> Row] /\ timeline \in [Visits -> SUBSET Event]
      /\ req \in [Requests -> Request] /\ req[r].pc = "idle"
  BY DEF IInv, TypeOK, Submit, Begin, Free
<1>2. q \in Request /\ Carries(q) /\ Knows(q)'
  BY ClockAssumption, NoneAssumption DEF Asked, Request, Row, Absent, Carries, Knows
<1>3. /\ req' \in [Requests -> Request] /\ req'[r] = q
      /\ \A p \in Requests \ {r} : req'[p] = req[p]
  BY <1>1, <1>2 DEF Submit, Begin
<1> HIDE DEF q
<1>4. /\ visit' \in [Visits -> Row] /\ visit'[v].status = "NEW"
      /\ \A u \in Visits \ {v} : visit'[u] = visit[u]
      /\ \A u \in Visits : /\ visit'[u].date = visit[u].date
                           /\ visit'[u].engineer = visit[u].engineer
                           /\ visit'[u].responded = visit[u].responded
  BY <1>1 DEF Submit, Row, Statuses
<1>5. /\ timeline' \in [Visits -> SUBSET Event]
      /\ \A u \in Visits : timeline[u] \subseteq timeline'[u]
  BY <1>1 DEF Submit, Record, Event
<1>6. TypeOK'
  BY <1>3, <1>4, <1>5 DEF IInv, TypeOK, Submit
<1>7. \A p \in Requests : Carries(req[p])' /\ Knows(req[p])'
  <2> TAKE p \in Requests
  <2>1. Carries(req[p]) /\ Knows(req[p])
    BY DEF IInv
  <2> QED
    BY <1>2, <1>3, <1>4, <2>1 DEF Carries, Knows, Idle, Asked
<1>8. StatusIsBacked'
  BY <1>4 DEF IInv, StatusIsBacked
<1>9. \A u \in Visits : DateKept(u)' /\ EngineerKept(u)'
  <2> TAKE u \in Visits
  <2>1. DateKept(u) /\ EngineerKept(u)
    BY DEF IInv
  <2>2. DateOnRecord(u) => DateOnRecord(u)'
    BY <1>4, <1>5 DEF DateOnRecord
  <2>3. EngineerOnRecord(u) => EngineerOnRecord(u)'
    BY <1>4, <1>5 DEF EngineerOnRecord
  <2>4. \A p \in Requests : DateComing(u, p) => DateComing(u, p)'
    BY <1>1, <1>3, <1>4 DEF DateComing, At
  <2>5. \A p \in Requests : EngineerComing(u, p) => EngineerComing(u, p)'
    BY <1>1, <1>3, <1>4 DEF EngineerComing, At
  <2>6. DateKept(u)'
    BY <1>4, <2>1, <2>2, <2>4 DEF DateKept
  <2>7. EngineerKept(u)'
    BY <1>4, <2>1, <2>3, <2>5 DEF EngineerKept
  <2> QED
    BY <2>6, <2>7
<1> QED
  BY <1>6, <1>7, <1>8, <1>9 DEF IInv

LEMMA ArrivingKeeps ==
  ASSUME IInv, NEW r \in Requests, Arrive(r)
  PROVE  IInv'
<1>1. visit \in [Visits -> Row] /\ Absent \in Row /\ TypeOK
  BY ClockAssumption DEF IInv, TypeOK, Absent, Row
<1> HIDE DEF IInv
<1>2. ASSUME NEW v \in Visits, Submit(r, v) PROVE IInv'
  BY <1>2, SubmittingKeeps
<1>3. ASSUME NEW v \in Visits, NEW s \in Statuses, SetStatus(r, v, s) PROVE IInv'
  <2> DEFINE q == Asked("write", "setStatus", v, visit[v], s, 0, None)
  <2>1. Begin(r, q) /\ UNCHANGED <<visit, timeline, engineer, today>>
    BY <1>3 DEF SetStatus
  <2>2. visit[v].status \in Statuses /\ s # "SCHEDULED"
    BY <1>1, <1>3 DEF SetStatus, Servable, Exists, Row
  <2>3. q \in Request
    BY <1>1, <2>2, ClockAssumption DEF Asked, Request
  <2>4. Carries(q) /\ Knows(q)
    BY <2>2 DEF Asked, Carries, Knows
  <2> QED
    BY <2>1, <2>3, <2>4, BeginningKeeps
<1>4. ASSUME NEW v \in Visits, NEW d \in Days, NEW e \in Engineers \cup {None},
             Schedule(r, v, d, e)
      PROVE  IInv'
  <2> DEFINE q == Asked("write", "schedule", v, visit[v], "ABSENT", d, e)
  <2>1. Begin(r, q) /\ UNCHANGED <<visit, timeline, engineer, today>>
    BY <1>4 DEF Schedule
  <2>2. d \in 0..MaxDay
    BY DEF Days
  <2>3. q \in Request
    BY <1>1, <2>2 DEF Asked, Request
  <2>4. Carries(q) /\ Knows(q)
    BY DEF Asked, Carries, Knows
  <2> QED
    BY <2>1, <2>3, <2>4, BeginningKeeps
<1>5. ASSUME NEW v \in Visits, NEW e \in Engineers, Assign(r, v, e) PROVE IInv'
  <2> DEFINE q == Asked("write", "assign", v, visit[v], "ABSENT", 0, e)
  <2>1. Begin(r, q) /\ UNCHANGED <<visit, timeline, engineer, today>>
    BY <1>5 DEF Assign
  <2>2. q \in Request
    BY <1>1, ClockAssumption DEF Asked, Request
  <2>3. Carries(q) /\ Knows(q)
    BY DEF Asked, Carries, Knows
  <2> QED
    BY <2>1, <2>2, <2>3, BeginningKeeps
<1>6. ASSUME NEW e \in Engineers, DeactivateEngineer(r, e) PROVE IInv'
  <2> DEFINE q == Asked("write", "deactivate", None, Absent, "ABSENT", 0, e)
  <2>1. Begin(r, q) /\ UNCHANGED <<visit, timeline, engineer, today>>
    BY <1>6 DEF DeactivateEngineer
  <2>2. q \in Request
    BY <1>1, ClockAssumption DEF Asked, Request
  <2>3. Carries(q) /\ Knows(q)
    BY NoneAssumption DEF Asked, Carries, Knows
  <2> QED
    BY <2>1, <2>2, <2>3, BeginningKeeps
<1> QED
  BY <1>2, <1>3, <1>4, <1>5, <1>6 DEF Arrive

(* The three rows a handler may write.                                     *)
LEMMA WritesKeep ==
  ASSUME IInv, NEW r \in Requests,
         SetStatusWrite(r) \/ ScheduleWrite(r) \/ AssignWrite(r)
  PROVE  IInv'
<1> DEFINE w == req[r].id
           row == visit[w]
<1>1. /\ req[r] \in Request /\ w \in Visits /\ row \in Row /\ req[r].pc = "write"
      /\ Carries(req[r]) /\ Knows(req[r]) /\ today \in Days
  BY DEF IInv, TypeOK, SetStatusWrite, ScheduleWrite, AssignWrite, At, Carries
<1>2. Responded(r) \in 0..MaxDay /\ Responded(r) # 0
  BY <1>1 DEF Responded, Knows, Row, Days
<1>3. visit \in [Visits -> Row]
  BY DEF IInv, TypeOK
<1> HIDE DEF IInv
<1>4. CASE SetStatusWrite(r)
  <2> DEFINE s == req[r].status
             new == [row EXCEPT !.status = s,
                                !.responded = IF s \in {"NEW", "CANCELLED"} THEN @ ELSE Responded(r)]
  <2>1. /\ visit' = [visit EXCEPT ![w] = new] /\ ToEvent(r)
        /\ UNCHANGED <<timeline, engineer, today>>
    BY <1>1, <1>3, <1>4 DEF SetStatusWrite
  <2>2. s \in Statuses \ {"SCHEDULED"}
    BY <1>1, <1>4 DEF SetStatusWrite, At, Carries
  <2>3. /\ new \in Row /\ new.status = s /\ new.date = row.date /\ new.engineer = row.engineer
        /\ s \notin {"NEW", "CANCELLED"} => new.responded = Responded(r)
        /\ s \in {"NEW", "CANCELLED"} => new.responded = row.responded
    BY <1>1, <1>2, <2>2 DEF Row
  <2> HIDE DEF new
  <2>4. row.responded # 0 => new.responded # 0
    BY <1>2, <2>3
  <2>5. new.status \in {"COORDINATING", "SCHEDULED", "COMPLETED", "REPORT_SENT"} => new.responded # 0
    BY <1>2, <2>3
  <2>6. new.status # "SCHEDULED"
    BY <2>2, <2>3
  <2> QED
    BY <1>1, <2>1, <2>3, <2>4, <2>5, <2>6, WritingKeeps
<1>5. CASE ScheduleWrite(r)
  <2> DEFINE e == req[r].whom
             new == [row EXCEPT !.status = "SCHEDULED", !.date = req[r].date,
                                !.engineer = IF e = None THEN @ ELSE e,
                                !.responded = Responded(r)]
  <2>1. /\ visit' = [visit EXCEPT ![w] = new] /\ ToEvent(r) /\ req[r].op = "schedule"
        /\ UNCHANGED <<timeline, engineer, today>>
    BY <1>1, <1>3, <1>5 DEF ScheduleWrite, At
  <2>2. req[r].date \in Days /\ e \in Engineers \cup {None}
    BY <1>1, <2>1 DEF Carries, Request
  <2>3. req[r].date # 0 /\ req[r].date \in 0..MaxDay
    BY <2>2 DEF Days
  <2>4. /\ new \in Row /\ new.date = req[r].date /\ new.responded = Responded(r)
        /\ new.engineer = row.engineer \/ e = new.engineer
    BY <1>1, <1>2, <2>2, <2>3 DEF Row, Statuses
  <2> HIDE DEF new
  <2> QED
    BY <1>1, <1>2, <2>1, <2>3, <2>4, WritingKeeps
<1>6. CASE AssignWrite(r)
  <2> DEFINE new == [row EXCEPT !.engineer = req[r].whom]
  <2>1. /\ visit' = [visit EXCEPT ![w] = new] /\ ToEvent(r) /\ req[r].op = "assign"
        /\ UNCHANGED <<timeline, engineer, today>>
    BY <1>1, <1>3, <1>6 DEF AssignWrite, At
  <2>2. /\ new \in Row /\ new.date = row.date /\ new.responded = row.responded
        /\ new.status = row.status /\ new.engineer = req[r].whom
    BY <1>1, <2>1 DEF Row, Request
  <2>3. /\ row.status \in {"COORDINATING", "SCHEDULED", "COMPLETED", "REPORT_SENT"} => row.responded # 0
        /\ row.status = "SCHEDULED" => row.date # 0
    BY <1>1 DEF IInv, StatusIsBacked
  <2> HIDE DEF new
  <2> QED
    BY <1>1, <2>1, <2>2, <2>3, WritingKeeps
<1> QED
  BY <1>4, <1>5, <1>6
LEMMA ContinuingKeeps ==
  ASSUME IInv, NEW r \in Requests, Continue(r)
  PROVE  IInv'
<1>1. req[r] \in Request /\ Carries(req[r]) /\ TypeOK
  BY DEF IInv, TypeOK
<1> HIDE DEF IInv
<1>2. CASE SubmitEvent(r)
  <2> DEFINE e == [type |-> "NOTIFICATION_SENT"]
  <2>1. e \in Event
    BY DEF Event
  <2>2. /\ req[r].pc = "event" /\ req[r].op = "submit" /\ Record(req[r].id, e)
        /\ Answer(r) /\ UNCHANGED <<visit, engineer, today>>
    BY <1>2 DEF SubmitEvent, At
  <2>3. req[r].id \in Visits
    BY <1>1, <2>2 DEF Carries
  <2> QED
    BY <2>1, <2>2, <2>3, RecordingKeeps
<1>3. CASE SetStatusEvent(r)
  <2> DEFINE e == [type |-> "STATUS_CHANGED", from |-> req[r].seen.status, to |-> req[r].status]
  <2>1. /\ req[r].pc = "event" /\ req[r].op = "setStatus" /\ Record(req[r].id, e)
        /\ Answer(r) /\ UNCHANGED <<visit, engineer, today>>
    BY <1>3 DEF SetStatusEvent, At
  <2>2. /\ req[r].id \in Visits /\ req[r].seen.status \in Statuses /\ req[r].status \in Statuses
    BY <1>1, <2>1 DEF Carries
  <2>3. e \in Event
    BY <2>2 DEF Event
  <2> QED
    BY <2>1, <2>2, <2>3, RecordingKeeps
<1>4. CASE ScheduleEvent(r)
  <2> DEFINE e == [type |-> "SCHEDULED", date |-> req[r].date, by |-> req[r].whom]
  <2>1. /\ req[r].pc = "event" /\ req[r].op = "schedule" /\ Record(req[r].id, e)
        /\ Answer(r) /\ UNCHANGED <<visit, engineer, today>>
    BY <1>4 DEF ScheduleEvent, At
  <2>2. req[r].id \in Visits /\ req[r].date \in Days /\ req[r].whom \in Engineers \cup {None}
    BY <1>1, <2>1 DEF Carries, Request
  <2>3. e \in Event
    BY <2>2 DEF Event
  <2>4. e.type = "SCHEDULED" /\ e.date = req[r].date /\ e.by = req[r].whom
    OBVIOUS
  <2> QED
    BY <2>1, <2>2, <2>3, <2>4, RecordingKeeps
<1>5. CASE AssignEvent(r)
  <2> DEFINE e == [type |-> "ASSIGNED", whom |-> req[r].whom]
  <2>1. /\ req[r].pc = "event" /\ req[r].op = "assign" /\ Record(req[r].id, e)
        /\ Answer(r) /\ UNCHANGED <<visit, engineer, today>>
    BY <1>5 DEF AssignEvent, At
  <2>2. req[r].id \in Visits /\ req[r].whom \in Engineers
    BY <1>1, <2>1 DEF Carries
  <2>3. e \in Event
    BY <2>2 DEF Event
  <2>4. e.type = "ASSIGNED" /\ e.whom = req[r].whom
    OBVIOUS
  <2> QED
    BY <2>1, <2>2, <2>3, <2>4, RecordingKeeps
<1>6. CASE DeactivateWrite(r)
  <2>1. /\ req[r].op = "deactivate" /\ req[r].whom \in Engineers /\ Answer(r)
        /\ engineer' = [engineer EXCEPT ![req[r].whom] = "inactive"]
        /\ UNCHANGED <<visit, timeline, today>>
    BY <1>1, <1>6 DEF DeactivateWrite, At, Carries
  <2>2. /\ req' \in [Requests -> Request] /\ req'[r] = Idle
        /\ \A p \in Requests \ {r} : req'[p] = req[p]
    BY <1>1, <2>1, IdleIsRequest DEF TypeOK, Answer
  <2>3. TypeOK'
    BY <1>1, <2>1, <2>2 DEF TypeOK
  <2>4. \A p \in Requests : Carries(req[p])' /\ Knows(req[p])'
    <3> TAKE p \in Requests
    <3>1. Carries(req[p]) /\ Knows(req[p])
      BY DEF IInv
    <3> QED
      BY <2>1, <2>2, <3>1, IdleIsRequest DEF Carries, Knows, Idle, Asked
  <2>5. StatusIsBacked'
    BY <2>1 DEF IInv, StatusIsBacked
  <2>6. \A v \in Visits : DateKept(v)' /\ EngineerKept(v)'
    <3> TAKE v \in Visits
    <3>1. DateKept(v) /\ EngineerKept(v)
      BY DEF IInv
    <3>2. (DateOnRecord(v) => DateOnRecord(v)') /\ (EngineerOnRecord(v) => EngineerOnRecord(v)')
      BY <2>1 DEF DateOnRecord, EngineerOnRecord
    <3>3. \A p \in Requests : /\ DateComing(v, p) => DateComing(v, p)'
                              /\ EngineerComing(v, p) => EngineerComing(v, p)'
      BY <2>1, <2>2 DEF DateComing, EngineerComing, At
    <3> QED
      BY <2>1, <3>1, <3>2, <3>3 DEF DateKept, EngineerKept
  <2> QED
    BY <2>3, <2>4, <2>5, <2>6 DEF IInv
<1>7. CASE SetStatusWrite(r) \/ ScheduleWrite(r) \/ AssignWrite(r)
  BY <1>7, WritesKeep
<1> QED
  BY <1>2, <1>3, <1>4, <1>5, <1>6, <1>7 DEF Continue

LEMMA NextKeeps == IInv /\ [Next]_vars => IInv'
<1> SUFFICES ASSUME IInv, [Next]_vars PROVE IInv'
  OBVIOUS
<1>1. TypeOK
  BY DEF IInv
<1> HIDE DEF IInv
<1>2. ASSUME NEW r \in Requests, Arrive(r) \/ Continue(r) PROVE IInv'
  BY <1>2, ArrivingKeeps, ContinuingKeeps
<1>3. ASSUME NEW v \in Visits, AddNote(v) PROVE IInv'
  <2>1. [type |-> "NOTE_ADDED"] \in Event
    BY DEF Event
  <2>2. TypeOK' /\ \A u \in Visits : timeline[u] \subseteq timeline'[u]
    BY <1>1, <1>3, <2>1 DEF AddNote, Record, TypeOK
  <2> QED
    BY <1>3, <2>2, OthersKeep DEF AddNote
<1>4. ASSUME NEW e \in Engineers, NEW state \in {"active", "inactive"},
             CreateEngineer(e, state) \/ UpdateEngineer(e, state)
      PROVE  IInv'
  <2>1. TypeOK'
    BY <1>1, <1>4 DEF CreateEngineer, UpdateEngineer, TypeOK
  <2> QED
    BY <1>4, <2>1, OthersKeep DEF CreateEngineer, UpdateEngineer
<1>5. CASE Tomorrow
  <2>1. today' \in Days
    BY <1>1, <1>5, ClockAssumption DEF Tomorrow, TypeOK, Days
  <2>2. TypeOK'
    BY <1>1, <1>5, <2>1 DEF Tomorrow, TypeOK
  <2> QED
    BY <1>5, <2>2, OthersKeep DEF Tomorrow
<1>6. CASE UNCHANGED vars
  <2>1. TypeOK'
    BY <1>1, <1>6 DEF vars, TypeOK
  <2> QED
    BY <1>6, <2>1, OthersKeep DEF vars
<1> QED
  BY <1>2, <1>3, <1>4, <1>5, <1>6 DEF Next

THEOREM Invariance == Spec => []IInv
  BY Initially, NextKeeps, PTL DEF Spec

(* Types are kept, by every interleaving.                                  *)
THEOREM VisitsTypes == Spec => []TypeOK
<1>1. IInv => TypeOK
  BY DEF IInv
<1> QED
  BY <1>1, Invariance, PTL

(* setStatus and schedule: whatever was answered stopped the clock, and    *)
(* what is scheduled has a date.                                           *)
THEOREM StatusesAreBacked == Spec => []StatusIsBacked
<1>1. IInv => StatusIsBacked
  BY DEF IInv
<1> QED
  BY <1>1, Invariance, PTL

(* recordEvent: the date and the engineer of a visit nobody is working on  *)
(* are on its timeline.                                                    *)
THEOREM PromisesAreRecorded == Spec => []PromisesAreOnRecord
<1>1. IInv => PromisesAreOnRecord
  <2> SUFFICES ASSUME IInv, NEW v \in Visits, \A r \in Requests : req[r].id # v
               PROVE  /\ visit[v].date # 0 => DateOnRecord(v)
                      /\ visit[v].engineer # None => EngineerOnRecord(v)
    BY DEF PromisesAreOnRecord, DateOnRecord, EngineerOnRecord
  <2>1. DateKept(v) /\ EngineerKept(v)
    BY DEF IInv
  <2> QED
    BY <2>1 DEF DateKept, EngineerKept, DateComing, EngineerComing
<1> QED
  BY <1>1, Invariance, PTL
----------------------------------------------------------------------------
(* A request moved, and nobody became a writer it had not been.            *)
LEMMA ClosedStays ==
  ASSUME TypeOK, NEW v \in Visits, Closed(v), NEW r \in Requests, NEW q,
         req' = [req EXCEPT ![r] = q],
         ~ (q.id = v /\ q.pc = "write" /\ q.op \in {"setStatus", "schedule"}),
         visit'[v].status = "CANCELLED"
  PROVE  Closed(v)'
<1>1. req'[r] = q /\ \A p \in Requests \ {r} : req'[p] = req[p]
  BY DEF TypeOK
<1> QED
  BY <1>1 DEF Closed, Writing

LEMMA StoppedStays ==
  ASSUME TypeOK, NEW v \in Visits, Stopped(v), NEW r \in Requests, NEW q,
         req' = [req EXCEPT ![r] = q],
         q.id = v /\ q.pc = "write" => q.seen.responded # 0,
         visit'[v].responded = visit[v].responded
  PROVE  Stopped(v)'
<1>1. req'[r] = q /\ \A p \in Requests \ {r} : req'[p] = req[p]
  BY DEF TypeOK
<1> QED
  BY <1>1 DEF Stopped, Writing

(* An arrival names its visit as it stands, a continuation writes no more. *)
LEMMA ArrivalReads ==
  ASSUME TypeOK, NEW r \in Requests, NEW v \in Visits, Arrive(r)
  PROVE  \E q : /\ req' = [req EXCEPT ![r] = q]
                /\ q.id = v /\ q.pc = "write" => q.seen = visit[v]
                /\ q.id = v /\ q.pc = "write" /\ q.op \in {"setStatus", "schedule"}
                     => visit[v].status # "CANCELLED"
                /\ visit[v].status = "CANCELLED" => visit'[v].status = "CANCELLED"
                /\ visit'[v].responded = visit[v].responded
<1>1. visit \in [Visits -> Row]
  BY DEF TypeOK
<1>2. ASSUME NEW u \in Visits, Submit(r, u)
      PROVE  /\ req' = [req EXCEPT ![r] = Asked("event", "submit", u, Absent, "ABSENT", 0, None)]
             /\ visit[v].status = "CANCELLED" => visit'[v].status = "CANCELLED"
             /\ visit'[v].responded = visit[v].responded
  BY <1>1, <1>2 DEF Submit, Begin, Exists, Row
<1>3. ASSUME NEW u \in Visits, NEW s \in Statuses, SetStatus(r, u, s)
      PROVE  /\ req' = [req EXCEPT ![r] = Asked("write", "setStatus", u, visit[u], s, 0, None)]
             /\ visit' = visit /\ visit[u].status # "CANCELLED"
  BY <1>3 DEF SetStatus, Begin
<1>4. ASSUME NEW u \in Visits, NEW d \in Days, NEW e \in Engineers \cup {None}, Schedule(r, u, d, e)
      PROVE  /\ req' = [req EXCEPT ![r] = Asked("write", "schedule", u, visit[u], "ABSENT", d, e)]
             /\ visit' = visit /\ visit[u].status # "CANCELLED"
  BY <1>4 DEF Schedule, Begin
<1>5. ASSUME NEW u \in Visits, NEW e \in Engineers, Assign(r, u, e)
      PROVE  /\ req' = [req EXCEPT ![r] = Asked("write", "assign", u, visit[u], "ABSENT", 0, e)]
             /\ visit' = visit
  BY <1>5 DEF Assign, Begin
<1>6. ASSUME NEW e \in Engineers, DeactivateEngineer(r, e)
      PROVE  /\ req' = [req EXCEPT ![r] = Asked("write", "deactivate", None, Absent, "ABSENT", 0, e)]
             /\ visit' = visit
  BY <1>6 DEF DeactivateEngineer, Begin
<1> USE DEF Asked
<1>7. CASE \E u \in Visits : Submit(r, u)
  BY <1>2, <1>7
<1>8. CASE \E u \in Visits, s \in Statuses : SetStatus(r, u, s)
  BY <1>3, <1>8
<1>9. CASE \E u \in Visits, d \in Days, e \in Engineers \cup {None} : Schedule(r, u, d, e)
  BY <1>4, <1>9
<1>10. CASE \E u \in Visits, e \in Engineers : Assign(r, u, e)
  BY <1>5, <1>10
<1>11. CASE \E e \in Engineers : DeactivateEngineer(r, e)
  BY <1>6, <1>11, NoneAssumption
<1> QED
  BY <1>7, <1>8, <1>9, <1>10, <1>11 DEF Arrive

LEMMA ContinuationWrites ==
  ASSUME TypeOK, NEW r \in Requests, NEW v \in Visits, Continue(r)
  PROVE  \E q : /\ req' = [req EXCEPT ![r] = q] /\ q.pc # "write"
                /\ visit'[v].status # visit[v].status
                     => Writing(r, v) /\ req[r].op \in {"setStatus", "schedule"}
                /\ visit'[v].responded # visit[v].responded
                     => Writing(r, v) /\ req[r].seen.responded = 0
<1>1. visit \in [Visits -> Row] /\ req \in [Requests -> Request] /\ req[r] \in Request
  BY DEF TypeOK
<1>2. CASE SetStatusWrite(r) \/ ScheduleWrite(r) \/ AssignWrite(r)
  <2> DEFINE q == [req[r] EXCEPT !.pc = "event"]
  <2>1. req' = [req EXCEPT ![r] = q]
    BY <1>1, <1>2 DEF SetStatusWrite, ScheduleWrite, AssignWrite, ToEvent
  <2>2. q.pc = "event"
    BY <1>1 DEF Request
  <2>3. CASE req[r].id # v
    BY <1>1, <1>2, <2>1, <2>2, <2>3 DEF SetStatusWrite, ScheduleWrite, AssignWrite
  <2>4. CASE req[r].id = v
    <3>1. Writing(r, v)
      BY <1>2, <2>4 DEF SetStatusWrite, ScheduleWrite, AssignWrite, At, Writing
    <3>2. visit'[v].status # visit[v].status => req[r].op \in {"setStatus", "schedule"}
      BY <1>1, <1>2, <2>4 DEF SetStatusWrite, ScheduleWrite, AssignWrite, At, Row
    <3>3. visit'[v].responded # visit[v].responded => req[r].seen.responded = 0
      BY <1>1, <1>2, <2>4 DEF SetStatusWrite, ScheduleWrite, AssignWrite, Responded, Row
    <3> QED
      BY <2>1, <2>2, <3>1, <3>2, <3>3
  <2> QED
    BY <2>3, <2>4
<1>3. CASE SubmitEvent(r) \/ SetStatusEvent(r) \/ ScheduleEvent(r) \/ AssignEvent(r) \/ DeactivateWrite(r)
  <2>1. req' = [req EXCEPT ![r] = Idle] /\ visit' = visit /\ Idle.pc = "idle"
    BY <1>3 DEF SubmitEvent, SetStatusEvent, ScheduleEvent, AssignEvent, DeactivateWrite, Answer, Idle, Asked
  <2> QED
    BY <2>1
<1> QED
  BY <1>2, <1>3 DEF Continue

LEMMA CancellationStep ==
  ASSUME TypeOK, [Next]_vars, NEW v \in Visits, Closed(v)
  PROVE  Closed(v)'
<1>1. ASSUME NEW r \in Requests, Arrive(r) PROVE Closed(v)'
  BY <1>1, ArrivalReads, ClosedStays DEF Closed
<1>2. ASSUME NEW r \in Requests, Continue(r) PROVE Closed(v)'
  BY <1>2, ContinuationWrites, ClosedStays DEF Closed
<1>3. CASE UNCHANGED <<visit, req>>
  BY <1>3 DEF Closed, Writing
<1> QED
  BY <1>1, <1>2, <1>3 DEF Next, vars, AddNote, CreateEngineer, UpdateEngineer, Tomorrow

LEMMA ClockStep ==
  ASSUME TypeOK, [Next]_vars, NEW v \in Visits, Stopped(v)
  PROVE  Stopped(v)' /\ visit'[v].responded = visit[v].responded
<1>1. ASSUME NEW r \in Requests, Arrive(r)
      PROVE  Stopped(v)' /\ visit'[v].responded = visit[v].responded
  BY <1>1, ArrivalReads, StoppedStays DEF Stopped
<1>2. ASSUME NEW r \in Requests, Continue(r)
      PROVE  Stopped(v)' /\ visit'[v].responded = visit[v].responded
  BY <1>2, ContinuationWrites, StoppedStays DEF Stopped
<1>3. CASE UNCHANGED <<visit, req>>
  BY <1>3 DEF Stopped, Writing
<1> QED
  BY <1>1, <1>2, <1>3 DEF Next, vars, AddNote, CreateEngineer, UpdateEngineer, Tomorrow

(* setStatus, schedule: a cancellation no writer overlapped is final.      *)
THEOREM CancellationIsFinal == Spec => CancellationSettles
<1>1. TypeOK /\ [Next]_vars => [\A v \in Visits : Closed(v) => Closed(v)']_vars
  BY CancellationStep
<1> QED
  BY <1>1, VisitsTypes, PTL DEF Spec, CancellationSettles

(* firstRespondedAt: a clock no writer saw running is never touched again. *)
THEOREM ClockStopsOnce == Spec => ClockStopsForGood
<1>1. TypeOK /\ [Next]_vars =>
        [\A v \in Visits : Stopped(v) => Stopped(v)' /\ visit'[v].responded = visit[v].responded]_vars
  BY ClockStep
<1> QED
  BY <1>1, VisitsTypes, PTL DEF Spec, ClockStopsForGood

----------------------------------------------------------------------------
(* The moment the clock stopped.                                           *)
Past(v) == visit[v].responded <= today
AllPast == \A v \in Visits : Past(v)

LEMMA MomentStep ==
  ASSUME TypeOK, TypeOK', [Next]_vars, NEW v \in Visits, Past(v)
  PROVE  Past(v)' /\ visit'[v].responded >= visit[v].responded
<1>1. /\ visit[v].responded \in Nat /\ visit'[v].responded \in Nat
      /\ today \in Nat /\ today' \in Nat
  BY ClockAssumption DEF TypeOK, Row, Days
<1>2. today' >= today
  <2>1. today' = today \/ today' = today + 1
    BY DEF Next, vars, Arrive, Submit, SetStatus, Schedule, Assign, DeactivateEngineer, Continue,
           SubmitEvent, SetStatusWrite, SetStatusEvent, ScheduleWrite, ScheduleEvent, AssignWrite,
           AssignEvent, DeactivateWrite, AddNote, CreateEngineer, UpdateEngineer, Tomorrow
  <2> QED
    BY <1>1, <2>1
<1>3. CASE visit'[v].responded = visit[v].responded
  BY <1>1, <1>2, <1>3 DEF Past
<1>4. ASSUME NEW r \in Requests, Continue(r), visit'[v].responded # visit[v].responded
      PROVE  visit'[v].responded = today
  <2>1. visit \in [Visits -> Row] /\ visit[v] \in Row
    BY DEF TypeOK
  <2>2. SetStatusWrite(r) \/ ScheduleWrite(r) \/ AssignWrite(r)
    BY <1>4 DEF Continue, SubmitEvent, SetStatusEvent, ScheduleEvent, AssignEvent, DeactivateWrite
  <2>3. CASE req[r].id # v
    BY <1>4, <2>1, <2>2, <2>3 DEF SetStatusWrite, ScheduleWrite, AssignWrite
  <2>4. CASE req[r].id = v
    BY <1>4, <2>1, <2>2, <2>4 DEF SetStatusWrite, ScheduleWrite, AssignWrite, Responded, Row
  <2> QED
    BY <2>3, <2>4
<1>5. ASSUME NEW r \in Requests, Arrive(r) PROVE visit'[v].responded = visit[v].responded
  BY <1>5, ArrivalReads
<1>6. CASE UNCHANGED visit
  BY <1>3, <1>6
<1>7. CASE visit'[v].responded = today
  BY <1>1, <1>2, <1>7 DEF Past
<1> QED
  BY <1>3, <1>4, <1>5, <1>6, <1>7
     DEF Next, vars, AddNote, CreateEngineer, UpdateEngineer, Tomorrow

(* firstRespondedAt, even when answers overlap:  a later one that read the *)
(* clock running moves the moment forward, never back; what was answered   *)
(* never counts as unanswered again, and no moment is in the future.       *)
THEOREM ClockNeverRunsBack ==
  Spec => /\ [](\A v \in Visits : visit[v].responded <= today)
          /\ [][\A v \in Visits : visit'[v].responded >= visit[v].responded]_vars
<1>1. Init => AllPast
  BY DEF Init, AllPast, Past, Absent
<1>2. TypeOK /\ TypeOK' /\ AllPast /\ [Next]_vars => AllPast'
  BY MomentStep DEF AllPast
<1>3. TypeOK /\ TypeOK' /\ AllPast /\ [Next]_vars =>
        [\A v \in Visits : visit'[v].responded >= visit[v].responded]_vars
  BY MomentStep DEF AllPast
<1>4. AllPast => \A v \in Visits : visit[v].responded <= today
  BY DEF AllPast, Past
<1>5. Spec => []AllPast
  BY <1>1, <1>2, VisitsTypes, PTL DEF Spec
<1>6. Spec => [](\A v \in Visits : visit[v].responded <= today)
  BY <1>4, <1>5, PTL
<1>7. Spec => [][\A v \in Visits : visit'[v].responded >= visit[v].responded]_vars
  BY <1>3, <1>5, VisitsTypes, PTL DEF Spec
<1> QED
  BY <1>6, <1>7
===========================================================================
