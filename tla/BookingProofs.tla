--------------------------- MODULE BookingProofs ---------------------------
(***************************************************************************)
(* Proofs about Booking: its invariants, for any number of bookings,       *)
(* requests, architects and hours, crashes included, and that the service  *)
(* implements HourBoard, also while the roster is being worked on.         *)
(***************************************************************************)
EXTENDS RosteredSessions, TLAPS

USE DEF Hours

(* An appended event keeps every earlier one, and adds itself.             *)
LEMMA AppendEvent ==
  ASSUME NEW s \in Seq(Event), NEW e \in Event
  PROVE  /\ Append(s, e) \in Seq(Event)
         /\ (\E i \in 1..Len(Append(s, e)) : Cancels(Append(s, e)[i]))
              <=> (\E i \in 1..Len(s) : Cancels(s[i])) \/ Cancels(e)
<1>1. /\ Append(s, e) \in Seq(Event)
      /\ Len(Append(s, e)) = Len(s) + 1
      /\ Len(s) \in Nat
      /\ \A i \in 1..Len(s) : Append(s, e)[i] = s[i]
      /\ Append(s, e)[Len(s) + 1] = e
  OBVIOUS
<1> QED  BY <1>1

LEMMA RecordEvent ==
  ASSUME IInv, NEW b \in Bookings, NEW e \in Event, Record(b, e)
  PROVE  /\ timeline' \in [Bookings -> Seq(Event)]
         /\ \A c \in Bookings \ {b} : timeline'[c] = timeline[c]
         /\ (\E i \in 1..Len(timeline'[b]) : Cancels(timeline'[b][i]))
              <=> (\E i \in 1..Len(timeline[b]) : Cancels(timeline[b][i])) \/ Cancels(e)
<1>1. timeline \in [Bookings -> Seq(Event)]
  BY DEF IInv, TypeOK
<1>2. timeline'[b] = Append(timeline[b], e) /\ timeline' = [timeline EXCEPT ![b] = timeline'[b]]
  BY <1>1 DEF Record
<1>3. timeline'[b] \in Seq(Event)
  BY <1>1, <1>2, AppendEvent
<1>4. (\E i \in 1..Len(timeline'[b]) : Cancels(timeline'[b][i]))
        <=> (\E i \in 1..Len(timeline[b]) : Cancels(timeline[b][i])) \/ Cancels(e)
  BY <1>1, <1>2, AppendEvent
<1> QED  BY <1>1, <1>2, <1>3, <1>4

LEMMA InitIInv == Init => IInv
<1> SUFFICES ASSUME Init PROVE IInv
  OBVIOUS
<1>1. TypeOK
  BY ClockAssumption DEF Init, TypeOK, Absent, Row, Idle, Request
<1>2. OneBookingPerHour
  BY DEF Init, OneBookingPerHour, Live, Absent
<1>3. \A b \in Bookings : RowOK(b)
  BY DEF Init, RowOK, Exists, Absent
<1>4. \A r \in Requests : RequestOK(req[r])
  BY DEF Init, RequestOK, Idle
<1>5. \A r, q \in Requests :
        req[r].op = "book" /\ req[q].op = "book" /\ req[r].id = req[q].id => r = q
  BY DEF Init, Idle
<1> QED  BY <1>1, <1>2, <1>3, <1>4, <1>5 DEF IInv

(* A request that arrives only stores itself.                              *)
LEMMA ArriveIInv ==
  ASSUME IInv, NEW r \in Requests, Arrive(r)
  PROVE  IInv'
<1> USE DEF IInv
<1>1. PICK b \in Bookings, op \in {"book", "cancel", "setStatus", "assign", "reschedule"},
           s \in Statuses \cup {"ABSENT"}, h \in 0..MaxHour, a \in Architects \cup {None} :
        /\ Begin(r, op, b, s, h, a)
        /\ op = "book" => Fresh(b) /\ h \in Hours
        /\ op # "book" => Exists(b)
        /\ op = "setStatus" => s \in Statuses /\ (s = "BOOKED" => booking[b].architect # None)
        /\ op = "assign" => a \in Architects
        /\ op = "reschedule" => h \in Hours
  <2>1. PICK b \in Bookings : 
          \/ CancelByToken(r, b)
          \/ \E s \in Statuses : SetStatus(r, b, s)
          \/ \E a \in Architects : Assign(r, b, a)
          \/ \E h \in Hours : Book(r, b, h) \/ Reschedule(r, b, h)
    BY DEF Arrive
  <2>2. CASE CancelByToken(r, b)
    BY <2>2, ClockAssumption DEF CancelByToken, Servable, Statuses
  <2>3. CASE \E s \in Statuses : SetStatus(r, b, s)
    BY <2>3, ClockAssumption DEF SetStatus, Servable
  <2>4. CASE \E a \in Architects : Assign(r, b, a)
    BY <2>4, ClockAssumption DEF Assign, Servable
  <2>5. CASE \E h \in Hours : Book(r, b, h)
    BY <2>5 DEF Book, Statuses
  <2>6. CASE \E h \in Hours : Reschedule(r, b, h)
    BY <2>6 DEF Reschedule, Servable
  <2> QED  BY <2>1, <2>2, <2>3, <2>4, <2>5, <2>6
<1> DEFINE new == [pc |-> "write", op |-> op, id |-> b, seen |-> booking[b],
                   status |-> s, hour |-> h, architect |-> a]
<1>2. /\ req' = [req EXCEPT ![r] = new]
      /\ UNCHANGED <<booking, timeline, letter, bell, now, asked>>
  BY <1>1 DEF Begin
<1>3. new \in Request
  BY <1>1 DEF Request, TypeOK
<1>4. TypeOK'
  BY <1>2, <1>3 DEF TypeOK
<1>5. OneBookingPerHour'
  BY <1>2 DEF OneBookingPerHour
<1>6. \A c \in Bookings : RowOK(c)'
  BY <1>2 DEF RowOK, Exists
<1>7. RequestOK(new)
  BY <1>1 DEF RequestOK, SnapshotOK, Exists, RowOK, Fresh, TypeOK, Row
<1>8. \A q \in Requests : RequestOK(req[q])'
  BY <1>2, <1>7 DEF RequestOK, SnapshotOK, Exists, TypeOK
<1>9. (\A q, p \in Requests :
        req[q].op = "book" /\ req[p].op = "book" /\ req[q].id = req[p].id => q = p)'
  BY <1>1, <1>2 DEF Fresh, TypeOK
<1> QED  BY <1>4, <1>5, <1>6, <1>8, <1>9

(* A request that goes on to its next await, or ends, keeps what it holds. *)
NextOf(q) == {Idle} \cup {[q EXCEPT !.pc = p] : p \in {"event", "letter", "bell"}}

LEMMA NextOfRequest ==
  ASSUME NEW q \in Request, NEW n \in NextOf(q), RequestOK(q)
  PROVE  /\ n \in Request /\ RequestOK(n)
         /\ n.pc # "write"
         /\ n.op = "book" => q.op = "book" /\ n.id = q.id
<1>1. CASE n = Idle
  BY <1>1, ClockAssumption DEF Request, RequestOK, Idle, Absent, Row
<1>2. ASSUME NEW p \in {"event", "letter", "bell"}, n = [q EXCEPT !.pc = p]
      PROVE  /\ n \in Request /\ RequestOK(n)
             /\ n.pc # "write" /\ n.op = q.op /\ n.id = q.id
  <2>1. /\ n \in Request
        /\ n.op = q.op /\ n.id = q.id /\ n.seen = q.seen /\ n.status = q.status
        /\ n.hour = q.hour /\ n.architect = q.architect /\ n.pc # "write"
    BY <1>2 DEF Request
  <2> QED  BY <2>1 DEF RequestOK, SnapshotOK
<1> QED  BY <1>1, <1>2 DEF NextOf

(* The heart of the argument.  A statement the unique index lets through,  *)
(* on the row of the request that sends it, keeps the invariant if it      *)
(* takes neither an architect nor the cancellation's date off the row.     *)
LEMMA StoreIInv ==
  ASSUME IInv,
         NEW r \in Requests, NEW b \in Bookings, NEW row \in Row,
         req[r].op # "none", req[r].id = b,
         Store(b, row), IndexAllows(b, row),
         req'[r] \in NextOf(req[r]), req' = [req EXCEPT ![r] = req'[r]],
         timeline' \in [Bookings -> Seq(Event)],
         \A c \in Bookings \ {b} : timeline'[c] = timeline[c],
         row.status # "ABSENT", row.hour \in Hours,
         row.status = "BOOKED" => row.architect # None,
         row.status = "CANCELLED" => row.dated,
         row.dated <=> \E i \in 1..Len(timeline'[b]) : Cancels(timeline'[b][i]),
         booking[b].architect # None => row.architect # None,
         booking[b].dated => row.dated,
         asked' \in [Bookings -> 0..MaxHour],
         UNCHANGED <<letter, bell, now>>
  PROVE  IInv'
<1> USE DEF IInv
<1>1. /\ booking'[b] = row
      /\ \A c \in Bookings \ {b} : booking'[c] = booking[c]
  BY DEF Store, TypeOK
<1>2. /\ req'[r] \in Request /\ RequestOK(req'[r])
      /\ \A q \in Requests \ {r} : req'[q] = req[q]
  BY NextOfRequest DEF TypeOK
<1>2a. /\ req'[r].pc # "write"
       /\ req'[r].op = "book" => req[r].op = "book" /\ req'[r].id = b
  BY NextOfRequest DEF TypeOK
<1>3. TypeOK'
  BY <1>2 DEF TypeOK, Store
<1>4. OneBookingPerHour'
  <2> SUFFICES ASSUME NEW c \in Bookings, NEW d \in Bookings,
                      Live(booking'[c]), Live(booking'[d]), booking'[c].hour = booking'[d].hour
               PROVE  c = d
    BY DEF OneBookingPerHour
  <2>1. Live(booking'[b]) =>
          \A e \in Bookings \ {b} : ~ (Live(booking'[e]) /\ booking'[e].hour = booking'[b].hour)
    BY <1>1 DEF IndexAllows
  <2>2. CASE c = b
    BY <2>1, <2>2
  <2>3. CASE d = b
    BY <2>1, <2>3
  <2>4. CASE c # b /\ d # b
    BY <1>1, <2>4 DEF OneBookingPerHour
  <2> QED  BY <2>2, <2>3, <2>4
<1>5. \A c \in Bookings : RowOK(c)'
  <2>1. RowOK(b)'
    BY <1>1 DEF RowOK, Exists
  <2>2. ASSUME NEW c \in Bookings \ {b} PROVE RowOK(c)'
    <3>1. RowOK(c) /\ booking'[c] = booking[c] /\ timeline'[c] = timeline[c]
      BY <1>1
    <3> QED  BY <3>1 DEF RowOK, Exists
  <2> QED  BY <2>1, <2>2
<1>6. \A q \in Requests : RequestOK(req[q])'
  <2> SUFFICES ASSUME NEW q \in Requests PROVE RequestOK(req[q])'
    OBVIOUS
  <2>1. (req[q].op \in {"cancel", "setStatus", "assign", "reschedule"} => SnapshotOK(req[q]))'
    <3> SUFFICES ASSUME (req[q].op \in {"cancel", "setStatus", "assign", "reschedule"})'
                 PROVE  SnapshotOK(req[q])'
      OBVIOUS
    <3>1. SnapshotOK(req'[q])
      BY <1>2 DEF RequestOK
    <3>2. /\ booking[req'[q].id].architect # None => booking'[req'[q].id].architect # None
          /\ booking[req'[q].id].dated => booking'[req'[q].id].dated
          /\ Exists(req'[q].id) => booking'[req'[q].id].status # "ABSENT"
      BY <3>1, <1>1 DEF SnapshotOK, Exists
    <3> QED  BY <3>1, <3>2 DEF SnapshotOK, Exists
  <2>2. (req[q].op = "book" /\ req[q].pc = "write" => ~ Exists(req[q].id))'
    <3>1. req'[r].pc # "write"
      BY <1>2a
    <3>2. CASE q # r
      <4>1. req'[q] = req[q]
        BY <1>2, <3>2
      <4>2. CASE req[r].op = "book"
        BY <4>1, <4>2, <3>2, <1>1, <1>2 DEF RequestOK, Exists
      <4>3. CASE req[r].op # "book"
        <5>1. Exists(b)
          BY <4>3 DEF RequestOK, SnapshotOK, TypeOK, Request
        <5> QED  BY <4>1, <5>1, <1>1, <1>2 DEF RequestOK, Exists
      <4> QED  BY <4>2, <4>3
    <3> QED  BY <3>1, <3>2
  <2> QED  BY <2>1, <2>2, <1>2 DEF RequestOK
<1>7. (\A q, p \in Requests :
        req[q].op = "book" /\ req[p].op = "book" /\ req[q].id = req[p].id => q = p)'
  BY <1>2, <1>2a
<1> QED  BY <1>3, <1>4, <1>5, <1>6, <1>7

(* Any other step of a request writes no row; it may append an event that  *)
(* cancels nothing, write a letter or ring the bell.                       *)
WritesNoRow ==
  /\ req' \in [Requests -> Request]
  /\ \A r \in Requests : req'[r] = req[r] \/ req'[r] \in NextOf(req[r])
  /\ timeline' \in [Bookings -> Seq(Event)]
  /\ \A b \in Bookings : (\E i \in 1..Len(timeline'[b]) : Cancels(timeline'[b][i]))
                          <=> (\E i \in 1..Len(timeline[b]) : Cancels(timeline[b][i]))
  /\ letter' \in [Bookings -> SUBSET Letter]
  /\ bell' \subseteq Bookings
  /\ now' \in 0..MaxHour
  /\ UNCHANGED <<booking, asked>>

LEMMA WritesNoRowIInv ==
  ASSUME IInv, WritesNoRow
  PROVE  IInv'
<1> USE DEF IInv, WritesNoRow
<1>1. TypeOK'
  BY DEF TypeOK
<1>2. OneBookingPerHour'
  BY DEF OneBookingPerHour
<1>3. \A b \in Bookings : RowOK(b)'
  BY DEF RowOK, Exists
<1>4. \A r \in Requests : RequestOK(req'[r])
  BY NextOfRequest DEF TypeOK
<1>5. \A r \in Requests : RequestOK(req[r])'
  BY <1>4 DEF RequestOK, SnapshotOK, Exists
<1>6. \A r \in Requests : req'[r].op = "book" => req[r].op = "book" /\ req'[r].id = req[r].id
  BY NextOfRequest DEF TypeOK
<1> QED  BY <1>1, <1>2, <1>3, <1>5, <1>6

LEMMA GotoNext ==
  ASSUME IInv, NEW r \in Requests, NEW pc \in {"event", "letter", "bell"},
         Goto(r, pc) \/ Answer(r)
  PROVE  /\ req' \in [Requests -> Request]
         /\ req'[r] \in NextOf(req[r])
         /\ req' = [req EXCEPT ![r] = req'[r]]
         /\ \A q \in Requests : req'[q] = req[q] \/ req'[q] \in NextOf(req[q])
<1>1. req \in [Requests -> Request] /\ RequestOK(req[r])
  BY DEF IInv, TypeOK
<1>2. \E n \in NextOf(req[r]) : req' = [req EXCEPT ![r] = n]
  BY <1>1 DEF Goto, Answer, NextOf
<1> QED  BY <1>1, <1>2, NextOfRequest

LEMMA RefusedIInv ==
  ASSUME IInv, NEW r \in Requests, Refused(r)
  PROVE  IInv'
<1>1. WritesNoRow
  BY GotoNext DEF Refused, WritesNoRow, IInv, TypeOK
<1> QED  BY <1>1, WritesNoRowIInv

(* What a write step relies on: that its row is there, and well formed.    *)
LEMMA RowOfRequest ==
  ASSUME IInv, NEW r \in Requests,
         req[r].op \in {"cancel", "setStatus", "assign", "reschedule"}
  PROVE  /\ req[r].id \in Bookings
         /\ SnapshotOK(req[r])
         /\ booking[req[r].id] \in Row
         /\ booking[req[r].id].status \in Statuses
         /\ booking[req[r].id].hour \in Hours
         /\ RowOK(req[r].id)
BY DEF IInv, RequestOK, SnapshotOK, TypeOK, Row, RowOK, Exists

LEMMA BookWriteIInv ==
  ASSUME IInv, NEW r \in Requests, BookWrite(r)
  PROVE  IInv'
<1> DEFINE b == req[r].id
           row == Requested(req[r].hour)
<1>1. CASE ~ IndexAllows(b, row)
  BY <1>1, RefusedIInv DEF BookWrite
<1>2. CASE IndexAllows(b, row)
  <2>1. /\ b \in Bookings /\ req[r].op = "book" /\ req[r].hour \in Hours
        /\ booking[b] = Absent /\ RowOK(b)
    BY DEF BookWrite, At, IInv, RequestOK, RowOK
  <2>1a. booking[b].architect = None /\ ~ booking[b].dated
    BY <2>1 DEF Absent
  <2>2. /\ row \in Row /\ row.status = "REQUESTED" /\ row.hour \in Hours
        /\ row.architect = None /\ ~ row.dated
    BY <2>1, ClockAssumption DEF Requested, Row, Statuses
  <2>3. /\ Store(b, row) /\ Goto(r, "letter")
        /\ asked' = [asked EXCEPT ![b] = req[r].hour]
        /\ UNCHANGED <<timeline, letter, bell, now>>
    BY <1>2 DEF BookWrite
  <2>4. asked' \in [Bookings -> 0..MaxHour] /\ timeline' \in [Bookings -> Seq(Event)]
    BY <2>1, <2>3, ClockAssumption DEF IInv, TypeOK
  <2>5. ~ \E i \in 1..Len(timeline'[b]) : Cancels(timeline'[b][i])
    BY <2>1, <2>1a, <2>3 DEF RowOK
  <2>6. req'[r] \in NextOf(req[r]) /\ req' = [req EXCEPT ![r] = req'[r]]
    BY <2>3, GotoNext
  <2>7. req[r].id = b
    OBVIOUS
  <2> HIDE DEF row, b
  <2> QED  BY <1>2, <2>1, <2>1a, <2>2, <2>3, <2>4, <2>5, <2>6, <2>7, StoreIInv
<1> QED  BY <1>1, <1>2

LEMMA CancelByTokenWriteIInv ==
  ASSUME IInv, NEW r \in Requests, CancelByTokenWrite(r)
  PROVE  IInv'
<1> DEFINE b == req[r].id
           row == [booking[b] EXCEPT !.status = "CANCELLED", !.dated = TRUE]
           e == [type |-> "CANCELLED_BY_ATTENDEE", from |-> req[r].seen.status, to |-> "CANCELLED"]
<1>1. /\ req[r].op = "cancel" /\ Store(b, row) /\ Record(b, e) /\ Answer(r)
      /\ UNCHANGED <<letter, bell, now, asked>>
  BY DEF CancelByTokenWrite, At
<1>2. /\ b \in Bookings /\ booking[b] \in Row /\ booking[b].hour \in Hours
      /\ req[r].seen.status \in Statuses
  BY <1>1, RowOfRequest DEF SnapshotOK
<1>3. /\ row \in Row /\ row.status = "CANCELLED" /\ row.dated
      /\ row.hour = booking[b].hour /\ row.architect = booking[b].architect
  BY <1>2 DEF Row, Statuses
<1>4. e \in Event /\ Cancels(e)
  BY <1>2 DEF Event, Cancels, Statuses
<1>5. IndexAllows(b, row)
  BY <1>3 DEF IndexAllows, Live
<1>6. req'[r] \in NextOf(req[r]) /\ req' = [req EXCEPT ![r] = req'[r]]
  BY <1>1, GotoNext
<1>7. /\ timeline' \in [Bookings -> Seq(Event)]
      /\ \A c \in Bookings \ {b} : timeline'[c] = timeline[c]
      /\ \E i \in 1..Len(timeline'[b]) : Cancels(timeline'[b][i])
  BY <1>1, <1>2, <1>4, RecordEvent
<1>8. asked' \in [Bookings -> 0..MaxHour] /\ req[r].id = b
  BY <1>1 DEF IInv, TypeOK
<1> HIDE DEF b, row, e
<1> QED  BY <1>1, <1>2, <1>3, <1>5, <1>6, <1>7, <1>8, StoreIInv

LEMMA SetStatusWriteIInv ==
  ASSUME IInv, NEW r \in Requests, SetStatusWrite(r)
  PROVE  IInv'
<1> DEFINE b == req[r].id
           s == req[r].status
           row == [booking[b] EXCEPT !.status = s, !.dated = @ \/ s = "CANCELLED"]
           e == [type |-> "STATUS_CHANGED", from |-> req[r].seen.status, to |-> s]
<1>1. CASE ~ IndexAllows(b, row)
  BY <1>1, RefusedIInv DEF SetStatusWrite
<1>2. CASE IndexAllows(b, row)
  <2>1. /\ req[r].op = "setStatus" /\ Store(b, row) /\ Record(b, e) /\ Answer(r)
        /\ UNCHANGED <<letter, bell, now, asked>>
    BY <1>2 DEF SetStatusWrite, At
  <2>2. /\ b \in Bookings /\ booking[b] \in Row /\ booking[b].hour \in Hours
        /\ req[r].seen.status \in Statuses /\ RowOK(b)
        /\ req[r].seen.architect # None => booking[b].architect # None
    BY <2>1, RowOfRequest DEF SnapshotOK
  <2>3. s \in Statuses /\ (s = "BOOKED" => booking[b].architect # None)
    BY <2>1, <2>2 DEF IInv, RequestOK
  <2>4. /\ row \in Row /\ row.status = s /\ s # "ABSENT"
        /\ row.dated <=> booking[b].dated \/ s = "CANCELLED"
        /\ row.hour = booking[b].hour /\ row.architect = booking[b].architect
    BY <2>2, <2>3 DEF Row, Statuses
  <2>5. e \in Event /\ (Cancels(e) <=> s = "CANCELLED")
    BY <2>2, <2>3 DEF Event, Cancels
  <2>6. req'[r] \in NextOf(req[r]) /\ req' = [req EXCEPT ![r] = req'[r]]
    BY <2>1, GotoNext
  <2>7. /\ timeline' \in [Bookings -> Seq(Event)]
        /\ \A c \in Bookings \ {b} : timeline'[c] = timeline[c]
        /\ row.dated <=> \E i \in 1..Len(timeline'[b]) : Cancels(timeline'[b][i])
    <3> HIDE DEF e, row
    <3> QED  BY <2>1, <2>2, <2>4, <2>5, RecordEvent DEF RowOK
  <2>8. asked' \in [Bookings -> 0..MaxHour] /\ req[r].id = b
    BY <2>1 DEF IInv, TypeOK
  <2> HIDE DEF b, row, e, s
  <2> QED  BY <1>2, <2>1, <2>2, <2>3, <2>4, <2>6, <2>7, <2>8, StoreIInv
<1> QED  BY <1>1, <1>2

LEMMA AssignWriteIInv ==
  ASSUME IInv, NEW r \in Requests, AssignWrite(r)
  PROVE  IInv'
<1> DEFINE b == req[r].id
           a == req[r].architect
           s == AssignedStatus(req[r].seen)
           row == [booking[b] EXCEPT !.architect = a, !.status = s]
<1>1. CASE ~ IndexAllows(b, row)
  BY <1>1, RefusedIInv DEF AssignWrite
<1>2. CASE IndexAllows(b, row)
  <2>1. /\ req[r].op = "assign" /\ Store(b, row) /\ Goto(r, "event")
        /\ UNCHANGED <<timeline, letter, bell, now, asked>>
    BY <1>2 DEF AssignWrite, At
  <2>2. /\ b \in Bookings /\ booking[b] \in Row /\ booking[b].hour \in Hours
        /\ req[r].seen.status \in Statuses /\ RowOK(b)
        /\ req[r].seen.status = "CANCELLED" => booking[b].dated
    BY <2>1, RowOfRequest DEF SnapshotOK
  <2>3. a \in Architects /\ a # None
    BY <2>1, NoneAssumption DEF IInv, RequestOK
  <2>4. s \in Statuses /\ (s = "CANCELLED" => booking[b].dated)
    BY <2>2 DEF AssignedStatus, Statuses
  <2>5. /\ row \in Row /\ row.status = s /\ s # "ABSENT"
        /\ row.dated <=> booking[b].dated
        /\ row.hour = booking[b].hour /\ row.architect = a
    <3> HIDE DEF s, a
    <3> QED  BY <2>2, <2>3, <2>4 DEF Row, Statuses
  <2>6. req'[r] \in NextOf(req[r]) /\ req' = [req EXCEPT ![r] = req'[r]]
    BY <2>1, GotoNext
  <2>7. /\ timeline' \in [Bookings -> Seq(Event)]
        /\ row.dated <=> \E i \in 1..Len(timeline'[b]) : Cancels(timeline'[b][i])
    <3> HIDE DEF row
    <3> QED  BY <2>1, <2>2, <2>5 DEF RowOK, IInv, TypeOK
  <2>8. asked' \in [Bookings -> 0..MaxHour] /\ req[r].id = b
    BY <2>1 DEF IInv, TypeOK
  <2> HIDE DEF b, row, a, s
  <2> QED  BY <1>2, <2>1, <2>2, <2>3, <2>4, <2>5, <2>6, <2>7, <2>8, StoreIInv
<1> QED  BY <1>1, <1>2

LEMMA RescheduleWriteIInv ==
  ASSUME IInv, NEW r \in Requests, RescheduleWrite(r)
  PROVE  IInv'
<1> DEFINE b == req[r].id
           h == req[r].hour
           row == [booking[b] EXCEPT !.hour = h]
           e == [type |-> "RESCHEDULED", fromHour |-> req[r].seen.hour, toHour |-> h]
<1>1. CASE ~ IndexAllows(b, row)
  BY <1>1, RefusedIInv DEF RescheduleWrite
<1>2. CASE IndexAllows(b, row)
  <2>1. /\ req[r].op = "reschedule" /\ Store(b, row) /\ Record(b, e) /\ Goto(r, "letter")
        /\ UNCHANGED <<letter, bell, now, asked>>
    BY <1>2 DEF RescheduleWrite, At
  <2>2. /\ b \in Bookings /\ booking[b] \in Row /\ booking[b].status \in Statuses
        /\ req[r].seen.hour \in Hours /\ RowOK(b)
    BY <2>1, RowOfRequest DEF SnapshotOK
  <2>3. h \in Hours
    BY <2>1 DEF IInv, RequestOK
  <2>4. /\ row \in Row /\ row.status = booking[b].status /\ row.status # "ABSENT"
        /\ row.dated <=> booking[b].dated
        /\ row.hour = h /\ row.architect = booking[b].architect
    BY <2>2, <2>3, ClockAssumption DEF Row, Statuses
  <2>5. e \in Event /\ ~ Cancels(e)
    BY <2>2, <2>3 DEF Event, Cancels
  <2>6. req'[r] \in NextOf(req[r]) /\ req' = [req EXCEPT ![r] = req'[r]]
    BY <2>1, GotoNext
  <2>7. /\ timeline' \in [Bookings -> Seq(Event)]
        /\ \A c \in Bookings \ {b} : timeline'[c] = timeline[c]
        /\ row.dated <=> \E i \in 1..Len(timeline'[b]) : Cancels(timeline'[b][i])
    <3> HIDE DEF e, row
    <3> QED  BY <2>1, <2>2, <2>4, <2>5, RecordEvent DEF RowOK
  <2>8. asked' \in [Bookings -> 0..MaxHour] /\ req[r].id = b
    BY <2>1 DEF IInv, TypeOK
  <2>9. /\ row.status = "BOOKED" => row.architect # None
        /\ row.status = "CANCELLED" => row.dated
    BY <2>2, <2>4 DEF RowOK
  <2> HIDE DEF b, row, e, h
  <2> QED  BY <1>2, <2>1, <2>2, <2>3, <2>4, <2>6, <2>7, <2>8, <2>9, StoreIInv
<1> QED  BY <1>1, <1>2

(* The steps that touch no row.                                            *)
LEMMA QuietStepIInv ==
  ASSUME IInv,
         \/ Tick \/ Crash \/ UNCHANGED vars
         \/ \E b \in Bookings : AddNote(b)
         \/ \E r \in Requests : \/ BookLetter(r) \/ BookBell(r) \/ AssignEvent(r)
                                \/ AssignLetter(r) \/ RescheduleLetter(r)
  PROVE  IInv'
<1> SUFFICES WritesNoRow
  BY WritesNoRowIInv
<1>0. TypeOK
  BY DEF IInv
<1>1. CASE Tick
  BY <1>0, <1>1, ClockAssumption DEF Tick, WritesNoRow, TypeOK
<1>2. CASE Crash
  <2>1. req' \in [Requests -> Request] /\ \A r \in Requests : req'[r] \in NextOf(req[r])
    BY <1>2, ClockAssumption DEF Crash, NextOf, Idle, Request, Absent, Row
  <2> QED  BY <1>0, <1>2, <2>1 DEF Crash, WritesNoRow, TypeOK
<1>3. CASE UNCHANGED vars
  BY <1>0, <1>3 DEF vars, WritesNoRow, TypeOK
<1>4. ASSUME NEW b \in Bookings, AddNote(b) PROVE WritesNoRow
  <2> DEFINE e == [type |-> "NOTE_ADDED"]
  <2>1. Record(b, e) /\ UNCHANGED <<booking, req, letter, bell, now, asked>>
    BY <1>4 DEF AddNote
  <2>2. e \in Event /\ ~ Cancels(e)
    BY DEF Event, Cancels
  <2> HIDE DEF e
  <2> QED  BY <1>0, <2>1, <2>2, RecordEvent DEF WritesNoRow, TypeOK
<1>5. ASSUME NEW r \in Requests, BookLetter(r) PROVE WritesNoRow
  <2>1. req[r].id \in Bookings /\ req[r].hour \in 0..MaxHour
    BY <1>0, <1>5, ClockAssumption DEF BookLetter, At, IInv, RequestOK
  <2>2. letter' \in [Bookings -> SUBSET Letter]
    BY <1>0, <1>5, <2>1 DEF BookLetter, Write, Letter, TypeOK
  <2> QED  BY <1>0, <1>5, <2>2, GotoNext DEF BookLetter, WritesNoRow, TypeOK
<1>6. ASSUME NEW r \in Requests, BookBell(r) PROVE WritesNoRow
  <2>1. req[r].id \in Bookings
    BY <1>0, <1>6 DEF BookBell, At, IInv, RequestOK
  <2> QED  BY <1>0, <1>6, <2>1, GotoNext DEF BookBell, WritesNoRow, TypeOK
<1>7. ASSUME NEW r \in Requests, AssignEvent(r) PROVE WritesNoRow
  <2> DEFINE e == [type |-> "ASSIGNED", fromId |-> req[r].seen.architect, toId |-> req[r].architect]
  <2>1. /\ Record(req[r].id, e) /\ Goto(r, "letter") /\ req[r].op = "assign"
        /\ UNCHANGED <<booking, letter, bell, now, asked>>
    BY <1>7 DEF AssignEvent, At
  <2>2. req[r].id \in Bookings
    BY <2>1, RowOfRequest
  <2>3. e \in Event /\ ~ Cancels(e)
    BY <1>0, <2>1 DEF Event, Cancels, IInv, RequestOK, TypeOK, Request, Row
  <2> HIDE DEF e
  <2> QED  BY <1>0, <2>1, <2>2, <2>3, RecordEvent, GotoNext DEF WritesNoRow, TypeOK
<1>8. ASSUME NEW r \in Requests, AssignLetter(r) PROVE WritesNoRow
  <2>1. /\ req[r].id \in Bookings /\ booking[req[r].id] \in Row
        /\ req[r].architect \in Architects
    BY <1>8, RowOfRequest DEF AssignLetter, At, IInv, RequestOK
  <2>2. \A k \in {"confirmed", "change"} :
          [kind |-> k, hour |-> booking[req[r].id].hour, architect |-> req[r].architect] \in Letter
    BY <2>1 DEF Letter, Row
  <2>3. \/ UNCHANGED letter
        \/ \E l \in Letter : Write(req[r].id, l)
    BY <1>8, <2>2 DEF AssignLetter
  <2>4. letter' \in [Bookings -> SUBSET Letter]
    <3>1. CASE UNCHANGED letter
      BY <1>0, <3>1 DEF TypeOK
    <3>2. ASSUME NEW l \in Letter, Write(req[r].id, l) PROVE letter' \in [Bookings -> SUBSET Letter]
      <4> DEFINE sent == letter[req[r].id] \cup {l}
      <4>1. sent \in SUBSET Letter /\ letter' = [letter EXCEPT ![req[r].id] = sent]
        BY <1>0, <2>1, <3>2 DEF Write, TypeOK
      <4> HIDE DEF sent
      <4> QED  BY <1>0, <4>1 DEF TypeOK
    <3> QED  BY <2>3, <3>1, <3>2
  <2> QED  BY <1>0, <1>8, <2>4, GotoNext DEF AssignLetter, WritesNoRow, TypeOK
<1>9. ASSUME NEW r \in Requests, RescheduleLetter(r) PROVE WritesNoRow
  <2>1. /\ req[r].id \in Bookings /\ booking[req[r].id] \in Row
        /\ req[r].hour \in 0..MaxHour
    BY <1>9, RowOfRequest, ClockAssumption DEF RescheduleLetter, At, IInv, RequestOK
  <2>2. letter' \in [Bookings -> SUBSET Letter]
    BY <1>0, <1>9, <2>1 DEF RescheduleLetter, Write, Letter, TypeOK, Row
  <2> QED  BY <1>0, <1>9, <2>2, GotoNext DEF RescheduleLetter, WritesNoRow, TypeOK
<1> QED  BY <1>1, <1>2, <1>3, <1>4, <1>5, <1>6, <1>7, <1>8, <1>9

LEMMA NextIInv == IInv /\ [Next]_vars => IInv'
BY ArriveIInv, BookWriteIInv, CancelByTokenWriteIInv, SetStatusWriteIInv, AssignWriteIInv,
   RescheduleWriteIInv, QuietStepIInv
   DEF Next, Continue

(* Whatever the requests, their interleaving and the crashes, the          *)
(* inductive invariant holds of book, cancelByToken, setStatus, assign and *)
(* reschedule.                                                             *)
THEOREM Invariance == Spec => []IInv
BY InitIInv, NextIInv, PTL DEF Spec

(* Every row, event, request and letter has its type in every state.       *)
THEOREM TypeCorrect == Spec => []TypeOK
<1>1. IInv => TypeOK
  BY DEF IInv
<1> QED  BY <1>1, Invariance, PTL

(* No two sessions hold the same hour: the partial unique index, checked   *)
(* by every statement that writes a row, is enough.                        *)
THEOREM HourHasOneBooking == Spec => []OneBookingPerHour
<1>1. IInv => OneBookingPerHour
  BY DEF IInv
<1> QED  BY <1>1, Invariance, PTL

(* A BOOKED session has an architect although setStatus and assign decide  *)
(* on a stale row: an architect, once on a row, is never taken off.        *)
THEOREM BookedSessionIsStaffed == Spec => []BookedHasArchitect
<1>1. IInv => BookedHasArchitect
  BY DEF IInv, RowOK, BookedHasArchitect
<1> QED  BY <1>1, Invariance, PTL

(* A cancelled session is dated, a dated one has its cancellation on the   *)
(* timeline, and no date is ever cleared, whatever stale status assign     *)
(* writes back.                                                            *)
THEOREM CancellationIsOnRecord == Spec => [](CancellationIsRecorded /\ DateIsKept)
<1>1. IInv => CancellationIsRecorded /\ DateIsKept
  BY DEF IInv, RowOK, CancellationIsRecorded, DateIsKept, CancellationOf
<1> QED  BY <1>1, Invariance, PTL

----------------------------------------------------------------------------
(* The refinement: a statement that writes a row takes, moves, gives up or *)
(* keeps the hour of that row, and every other step keeps them all.        *)

LEMMA BoardInit == Init => Board!Init
BY DEF Init, Board!Init, HeldHour, Live, Absent

LEMMA BoardStore ==
  ASSUME IInv, NEW b \in Bookings, NEW row \in Row, row.hour \in Hours,
         Store(b, row), IndexAllows(b, row)
  PROVE  [Board!Next]_HeldHour
<1> DEFINE hour == IF Live(row) THEN row.hour ELSE 0
<1>1. /\ booking \in [Bookings -> Row]
      /\ booking'[b] = row
      /\ \A c \in Bookings \ {b} : booking'[c] = booking[c]
  BY DEF Store, IInv, TypeOK
<1>2. HeldHour' = [HeldHour EXCEPT ![b] = hour]
  <2>1. \A c \in Bookings :
          (IF Live(booking'[c]) THEN booking'[c].hour ELSE 0) = [HeldHour EXCEPT ![b] = hour][c]
    BY <1>1 DEF HeldHour, Live
  <2> QED  BY <2>1 DEF HeldHour, Live
<1>3. Live(booking[b]) => booking[b].hour \in Hours
  BY DEF IInv, RowOK, Exists, Live, Absent
<1>4. CASE hour = HeldHour[b]
  BY <1>2, <1>4 DEF HeldHour
<1>5. CASE hour = 0 /\ hour # HeldHour[b]
  BY <1>2, <1>5 DEF Board!Next, Board!Release
<1>6. CASE hour # 0 /\ hour # HeldHour[b]
  <2>1. Live(row) /\ hour = row.hour /\ hour \in Hours
    BY <1>6
  <2>2. \A c \in Bookings \ {b} : HeldHour[c] # hour
    BY <2>1, <1>6 DEF IndexAllows, HeldHour
  <2>3. Board!Free(hour)
    BY <2>2, <1>6 DEF Board!Free
  <2> HIDE DEF hour
  <2>4. CASE HeldHour[b] = 0
    BY <2>1, <2>3, <2>4, <1>2 DEF Board!Next, Board!Take
  <2>5. CASE HeldHour[b] # 0
    BY <2>1, <2>3, <2>5, <1>2 DEF Board!Next, Board!Move
  <2> QED  BY <2>4, <2>5
<1> QED  BY <1>4, <1>5, <1>6

LEMMA BoardStep == IInv /\ [Next]_vars => [Board!Next]_HeldHour
<1> SUFFICES ASSUME IInv, [Next]_vars PROVE [Board!Next]_HeldHour
  OBVIOUS
<1>0. ASSUME UNCHANGED booking PROVE [Board!Next]_HeldHour
  BY <1>0 DEF HeldHour
<1>1. ASSUME NEW r \in Requests, BookWrite(r) PROVE [Board!Next]_HeldHour
  <2>1. req[r].id \in Bookings /\ req[r].hour \in Hours
    BY <1>1 DEF BookWrite, At, IInv, RequestOK
  <2>2. Requested(req[r].hour) \in Row /\ Requested(req[r].hour).hour \in Hours
    BY <2>1, ClockAssumption DEF Requested, Row, Statuses
  <2> QED  BY <1>0, <1>1, <2>1, <2>2, BoardStore DEF BookWrite, Refused
<1>2. ASSUME NEW r \in Requests, CancelByTokenWrite(r) PROVE [Board!Next]_HeldHour
  <2> DEFINE row == [booking[req[r].id] EXCEPT !.status = "CANCELLED", !.dated = TRUE]
  <2>1. req[r].id \in Bookings /\ booking[req[r].id] \in Row /\ booking[req[r].id].hour \in Hours
    BY <1>2, RowOfRequest DEF CancelByTokenWrite, At
  <2>2. row \in Row /\ row.hour \in Hours /\ row.status = "CANCELLED"
    BY <2>1 DEF Row, Statuses
  <2>3. IndexAllows(req[r].id, row)
    BY <2>2 DEF IndexAllows, Live
  <2>4. Store(req[r].id, row)
    BY <1>2 DEF CancelByTokenWrite
  <2> HIDE DEF row
  <2> QED  BY <2>1, <2>2, <2>3, <2>4, BoardStore
<1>3. ASSUME NEW r \in Requests, SetStatusWrite(r) PROVE [Board!Next]_HeldHour
  <2> DEFINE s == req[r].status
             row == [booking[req[r].id] EXCEPT !.status = s, !.dated = @ \/ s = "CANCELLED"]
  <2>1. req[r].id \in Bookings /\ booking[req[r].id] \in Row /\ booking[req[r].id].hour \in Hours
    BY <1>3, RowOfRequest DEF SetStatusWrite, At
  <2>2. s \in Statuses
    BY <1>3 DEF SetStatusWrite, At, IInv, RequestOK
  <2>3. row \in Row /\ row.hour \in Hours
    BY <2>1, <2>2 DEF Row
  <2>4. UNCHANGED booking \/ (Store(req[r].id, row) /\ IndexAllows(req[r].id, row))
    BY <1>3 DEF SetStatusWrite, Refused
  <2> HIDE DEF row
  <2> QED  BY <1>0, <2>1, <2>3, <2>4, BoardStore
<1>4. ASSUME NEW r \in Requests, AssignWrite(r) PROVE [Board!Next]_HeldHour
  <2> DEFINE s == AssignedStatus(req[r].seen)
             row == [booking[req[r].id] EXCEPT !.architect = req[r].architect, !.status = s]
  <2>1. /\ req[r].id \in Bookings /\ booking[req[r].id] \in Row /\ booking[req[r].id].hour \in Hours
        /\ req[r].architect \in Architects /\ req[r].seen.status \in Statuses
    BY <1>4, RowOfRequest DEF AssignWrite, At, SnapshotOK, IInv, RequestOK
  <2>2. s \in Statuses
    BY <2>1 DEF AssignedStatus, Statuses
  <2>3. row \in Row /\ row.hour \in Hours
    <3> HIDE DEF s
    <3> QED  BY <2>1, <2>2 DEF Row
  <2>4. UNCHANGED booking \/ (Store(req[r].id, row) /\ IndexAllows(req[r].id, row))
    BY <1>4 DEF AssignWrite, Refused
  <2> HIDE DEF row
  <2> QED  BY <1>0, <2>1, <2>3, <2>4, BoardStore
<1>5. ASSUME NEW r \in Requests, RescheduleWrite(r) PROVE [Board!Next]_HeldHour
  <2> DEFINE row == [booking[req[r].id] EXCEPT !.hour = req[r].hour]
  <2>1. req[r].id \in Bookings /\ booking[req[r].id] \in Row /\ req[r].hour \in Hours
    BY <1>5, RowOfRequest DEF RescheduleWrite, At, IInv, RequestOK
  <2>2. row \in Row /\ row.hour \in Hours
    BY <2>1, ClockAssumption DEF Row
  <2>3. UNCHANGED booking \/ (Store(req[r].id, row) /\ IndexAllows(req[r].id, row))
    BY <1>5 DEF RescheduleWrite, Refused
  <2> HIDE DEF row
  <2> QED  BY <1>0, <2>1, <2>2, <2>3, BoardStore
<1>6. ASSUME NEW r \in Requests, Arrive(r) PROVE UNCHANGED booking
  BY <1>6 DEF Arrive, Book, CancelByToken, SetStatus, Assign, Reschedule, Begin
<1>7. ASSUME NEW r \in Requests,
             BookLetter(r) \/ BookBell(r) \/ AssignEvent(r) \/ AssignLetter(r) \/ RescheduleLetter(r)
      PROVE  UNCHANGED booking
  BY <1>7 DEF BookLetter, BookBell, AssignEvent, AssignLetter, RescheduleLetter
<1>8. (\E b \in Bookings : AddNote(b)) \/ Tick \/ Crash \/ UNCHANGED vars => UNCHANGED booking
  BY DEF AddNote, Tick, Crash, vars
<1> QED  BY <1>0, <1>1, <1>2, <1>3, <1>4, <1>5, <1>6, <1>7, <1>8 DEF Next, Continue

(* The booking service implements the board of hours: an hour changes      *)
(* hands only by being given up first, under every interleaving.           *)
THEOREM BookingImplementsBoard == Spec => ImplementsHourBoard
BY BoardInit, BoardStep, Invariance, PTL DEF Spec, ImplementsHourBoard, Board!Spec

----------------------------------------------------------------------------
(* The hour first asked for.  Beside the property the invariant says that  *)
(* a timeline begins with its booking, and that the reschedule which will  *)
(* record the first move has read the hour that was asked for.             *)

HourOK(b) ==
  /\ ~ Exists(b) => timeline[b] = <<>>
  /\ Exists(b) => /\ \A i \in Moves(b) :
                       (\A j \in Moves(b) : j <= i) => timeline[b][i].toHour = booking[b].hour
                  /\ Moves(b) = {} => asked[b] = booking[b].hour
                  /\ Moves(b) # {} => \E i \in Moves(b) : /\ \A j \in Moves(b) : i <= j
                                                          /\ timeline[b][i].fromHour = asked[b]

FirstMoveKnows(q) ==
  q.op = "reschedule" /\ q.pc = "write" /\ Moves(q.id) = {} => q.seen.hour = booking[q.id].hour

HourInv ==
  /\ IInv
  /\ \A b \in Bookings : HourOK(b)
  /\ \A r \in Requests : FirstMoveKnows(req[r])

LEMMA HourInvImplies == HourInv => OriginalHourIsKept
<1> SUFFICES ASSUME HourInv, NEW b \in Bookings, Exists(b)
             PROVE  /\ \A i \in Moves(b) :
                         (\A j \in Moves(b) : j <= i) => timeline[b][i].toHour = booking[b].hour
                    /\ asked[b] = IF Moves(b) = {} THEN booking[b].hour
                         ELSE LET first == CHOOSE i \in Moves(b) : \A j \in Moves(b) : i <= j
                              IN  timeline[b][first].fromHour
  BY DEF OriginalHourIsKept
<1>1. HourOK(b)
  BY DEF HourInv
<1>2. CASE Moves(b) = {}
  BY <1>1, <1>2 DEF HourOK
<1>3. CASE Moves(b) # {}
  <2> DEFINE first == CHOOSE i \in Moves(b) : \A j \in Moves(b) : i <= j
  <2>1. PICK i \in Moves(b) : (\A j \in Moves(b) : i <= j) /\ timeline[b][i].fromHour = asked[b]
    BY <1>1, <1>3 DEF HourOK
  <2>2. first \in Moves(b) /\ \A j \in Moves(b) : first <= j
    BY <2>1
  <2>3. \A j \in Moves(b) : j \in Nat
    BY DEF Moves, HourInv, IInv, TypeOK
  <2> HIDE DEF first
  <2>4. first <= i /\ i <= first /\ first \in Nat /\ i \in Nat
    BY <2>1, <2>2, <2>3
  <2>5. first = i
    BY <2>4
  <2> QED  BY <1>1, <1>3, <2>1, <2>5 DEF HourOK, first
<1> QED  BY <1>2, <1>3

(* What an appended event does to the moves on a timeline.                 *)
LEMMA RecordedMoves ==
  ASSUME IInv, NEW b \in Bookings, NEW e, Record(b, e)
  PROVE  /\ \A c \in Bookings \ {b} : timeline'[c] = timeline[c]
         /\ \A i \in Moves(b) : timeline'[b][i] = timeline[b][i]
         /\ Moves(b) \subseteq 1..Len(timeline[b]) /\ Len(timeline[b]) \in Nat
         /\ e.type # "RESCHEDULED" => Moves(b)' = Moves(b)
         /\ e.type = "RESCHEDULED" => /\ Moves(b)' = Moves(b) \cup {Len(timeline[b]) + 1}
                                      /\ timeline'[b][Len(timeline[b]) + 1] = e
<1> DEFINE s == timeline[b]
           n == Len(timeline[b]) + 1
<1>1. timeline \in [Bookings -> Seq(Event)] /\ s \in Seq(Event)
  BY DEF IInv, TypeOK
<1>2. timeline'[b] = Append(s, e) /\ \A c \in Bookings \ {b} : timeline'[c] = timeline[c]
  BY <1>1 DEF Record
<1>3. /\ Len(s) \in Nat /\ Len(Append(s, e)) = n /\ Append(s, e)[n] = e
      /\ \A i \in 1..Len(s) : Append(s, e)[i] = s[i]
  BY <1>1
<1>4. 1..n = (1..Len(s)) \cup {n} /\ n \notin 1..Len(s)
  BY <1>3
<1>5. Moves(b) = {i \in 1..Len(s) : s[i].type = "RESCHEDULED"}
  BY DEF Moves
<1>6. Moves(b)' = {i \in 1..n : Append(s, e)[i].type = "RESCHEDULED"}
  BY <1>2, <1>3 DEF Moves
<1> HIDE DEF s, n
<1>7. /\ e.type # "RESCHEDULED" => Moves(b)' = Moves(b)
      /\ e.type = "RESCHEDULED" => Moves(b)' = Moves(b) \cup {n}
  BY <1>3, <1>4, <1>5, <1>6
<1> QED  BY <1>2, <1>3, <1>5, <1>7 DEF s, n

(* A step after which b's hour and moves are what they were.               *)
HourStays(b) ==
  /\ booking'[b].hour = booking[b].hour /\ asked'[b] = asked[b]
  /\ Exists(b)' <=> Exists(b)
  /\ ~ Exists(b) => timeline'[b] = timeline[b]
  /\ Moves(b)' = Moves(b)
  /\ \A i \in Moves(b) : timeline'[b][i] = timeline[b][i]

LEMMA HourStaysOK ==
  ASSUME NEW b \in Bookings, HourOK(b), HourStays(b)
  PROVE  HourOK(b)'
BY DEF HourOK, HourStays

LEMMA HoursStay ==
  ASSUME HourInv, IInv', \A b \in Bookings : HourStays(b),
         \A r \in Requests : \/ req'[r] = req[r] \/ req'[r].pc # "write"
                              \/ req'[r].seen.hour = booking[req'[r].id].hour
  PROVE  HourInv'
<1>1. ASSUME NEW r \in Requests PROVE FirstMoveKnows(req[r])'
  <2>1. req'[r].op = "reschedule" => req'[r].id \in Bookings
    BY DEF IInv, RequestOK, SnapshotOK
  <2> QED  BY <2>1 DEF HourInv, FirstMoveKnows, HourStays
<1> QED  BY <1>1, HourStaysOK DEF HourInv

(* Everything but the insert of book and the move of reschedule.           *)
LEMMA UntouchedHours ==
  ASSUME UNCHANGED <<booking, timeline, asked>>
  PROVE  \A b \in Bookings : HourStays(b)
BY DEF HourStays, Exists, Moves

LEMMA RecordedHours ==
  ASSUME IInv, NEW c \in Bookings, Exists(c), NEW e, e.type # "RESCHEDULED", Record(c, e),
         UNCHANGED asked,
         \A b \in Bookings : booking'[b].hour = booking[b].hour /\ (Exists(b)' <=> Exists(b))
  PROVE  \A b \in Bookings : HourStays(b)
BY RecordedMoves DEF HourStays, Moves

LEMMA ArriveHours ==
  ASSUME HourInv, IInv', NEW r \in Requests, Arrive(r)
  PROVE  HourInv'
<1>0. PICK b \in Bookings : \E op, s, h, a : Begin(r, op, b, s, h, a)
  BY DEF Arrive, CancelByToken, SetStatus, Assign, Book, Reschedule
<1>1. PICK op, s, h, a : Begin(r, op, b, s, h, a)
  BY <1>0
<1>2. UNCHANGED <<booking, timeline, asked>>
  BY <1>1 DEF Begin
<1>3. \A q \in Requests : q # r => req'[q] = req[q]
  BY <1>1 DEF Begin, HourInv, IInv, TypeOK
<1>4. req'[r].seen = booking[b] /\ req'[r].id = b
  BY <1>1 DEF Begin, HourInv, IInv, TypeOK
<1> QED  BY <1>2, <1>3, <1>4, UntouchedHours, HoursStay

LEMMA MovedOn ==
  ASSUME TypeOK, NEW r \in Requests, NEW pc, pc # "write", Goto(r, pc) \/ Answer(r)
  PROVE  \A q \in Requests : req'[q] = req[q] \/ req'[q].pc # "write"
<1>1. \A q \in Requests : req[q] \in Request
  BY DEF TypeOK
<1>2. \A q \in Requests :
        req'[q] = req[q] \/ req'[q] = Idle \/ req'[q] = [req[q] EXCEPT !.pc = pc]
  BY DEF TypeOK, Goto, Answer
<1>3. Idle.pc = "idle"
  BY DEF Idle
<1>4. ASSUME NEW q \in Requests, req'[q] = [req[q] EXCEPT !.pc = pc] PROVE req'[q].pc = pc
  BY <1>1, <1>4 DEF Request
<1> QED  BY <1>2, <1>3, <1>4

LEMMA ContinueHours ==
  ASSUME HourInv, IInv', NEW r \in Requests,
         \/ BookLetter(r) \/ BookBell(r) \/ AssignLetter(r) \/ RescheduleLetter(r)
         \/ AssignEvent(r) \/ CancelByTokenWrite(r) \/ SetStatusWrite(r) \/ AssignWrite(r)
         \/ Refused(r)
  PROVE  HourInv'
<1> USE DEF HourInv
<1>1. \E pc : pc # "write" /\ (Goto(r, pc) \/ Answer(r))
  BY DEF BookLetter, BookBell, AssignLetter, RescheduleLetter, AssignEvent, CancelByTokenWrite,
         SetStatusWrite, AssignWrite, Refused
<1>2. \A q \in Requests : req'[q] = req[q] \/ req'[q].pc # "write"
  BY <1>1, MovedOn DEF IInv
<1>3. CASE BookLetter(r) \/ BookBell(r) \/ AssignLetter(r) \/ RescheduleLetter(r) \/ Refused(r)
  <2>1. UNCHANGED <<booking, timeline, asked>>
    BY <1>3 DEF BookLetter, BookBell, AssignLetter, RescheduleLetter, Refused
  <2> QED  BY <1>2, <2>1, UntouchedHours, HoursStay
<1> DEFINE b == req[r].id
<1>4. CASE AssignEvent(r)
  <2>1. b \in Bookings /\ Exists(b)
    BY <1>4 DEF AssignEvent, At, IInv, RequestOK, SnapshotOK
  <2>2. UNCHANGED <<booking, asked>> /\ \E e : e.type # "RESCHEDULED" /\ Record(b, e)
    BY <1>4 DEF AssignEvent
  <2>3. \A c \in Bookings : HourStays(c)
    BY <2>1, <2>2, RecordedHours DEF Exists
  <2> QED  BY <1>2, <2>3, HoursStay
<1>5. CASE CancelByTokenWrite(r) \/ SetStatusWrite(r) \/ AssignWrite(r)
  <2>1. /\ b \in Bookings /\ Exists(b) /\ booking[b] \in Row
        /\ req[r].op = "setStatus" => req[r].status \in Statuses
        /\ req[r].seen.status \in Statuses
        /\ booking \in [Bookings -> Row]
    BY <1>5 DEF CancelByTokenWrite, SetStatusWrite, AssignWrite, At, IInv, TypeOK, RequestOK, SnapshotOK
  <2>2. CASE UNCHANGED <<booking, timeline, asked>>
    BY <1>2, <2>2, UntouchedHours, HoursStay
  <2>3. CASE ~ UNCHANGED <<booking, timeline, asked>>
    <3>1. PICK row \in Row : Store(b, row) /\ row.hour = booking[b].hour /\ row.status # "ABSENT"
      <4>1. CASE CancelByTokenWrite(r)
        <5> DEFINE row == [booking[b] EXCEPT !.status = "CANCELLED", !.dated = TRUE]
        <5>1. row \in Row /\ row.hour = booking[b].hour /\ row.status # "ABSENT"
          BY <2>1 DEF Row, Statuses
        <5>2. Store(b, row)
          BY <4>1 DEF CancelByTokenWrite
        <5> HIDE DEF row
        <5> QED  BY <5>1, <5>2
      <4>2. CASE SetStatusWrite(r)
        <5> DEFINE s == req[r].status
                   row == [booking[b] EXCEPT !.status = s, !.dated = @ \/ s = "CANCELLED"]
        <5>1. s \in Statuses /\ s # "ABSENT"
          BY <2>1, <4>2 DEF SetStatusWrite, At, Statuses
        <5>2. row \in Row /\ row.hour = booking[b].hour /\ row.status = s
          BY <2>1, <5>1 DEF Row
        <5>3. Store(b, row)
          BY <2>3, <4>2 DEF SetStatusWrite, Refused
        <5> HIDE DEF row
        <5> QED  BY <5>1, <5>2, <5>3
      <4>3. CASE AssignWrite(r)
        <5> DEFINE s == AssignedStatus(req[r].seen)
                   row == [booking[b] EXCEPT !.architect = req[r].architect, !.status = s]
        <5>1. s \in Statuses /\ s # "ABSENT"
          BY <2>1 DEF AssignedStatus, Statuses
        <5>2. req[r].architect \in Architects \cup {None}
          BY DEF IInv, TypeOK, Request
        <5>3. row \in Row /\ row.hour = booking[b].hour /\ row.status = s
          <6> HIDE DEF s
          <6> QED  BY <2>1, <5>1, <5>2 DEF Row
        <5>4. Store(b, row)
          BY <2>3, <4>3 DEF AssignWrite, Refused
        <5> HIDE DEF row
        <5> QED  BY <5>1, <5>3, <5>4
      <4> QED  BY <1>5, <4>1, <4>2, <4>3
    <3>2. \A c \in Bookings : booking'[c].hour = booking[c].hour /\ (Exists(c)' <=> Exists(c))
      <4>1. booking'[b] = row /\ \A c \in Bookings \ {b} : booking'[c] = booking[c]
        BY <2>1, <3>1 DEF Store
      <4> QED  BY <2>1, <3>1, <4>1 DEF Exists
    <3>3. UNCHANGED asked
      BY <1>5 DEF CancelByTokenWrite, SetStatusWrite, AssignWrite, Refused
    <3>4. CASE UNCHANGED timeline
      <4>1. \A c \in Bookings : HourStays(c)
        BY <3>2, <3>3, <3>4 DEF HourStays, Moves
      <4> QED  BY <1>2, <4>1, HoursStay
    <3>5. CASE \E e : e.type # "RESCHEDULED" /\ Record(b, e)
      <4>1. \A c \in Bookings : HourStays(c)
        BY <2>1, <3>2, <3>3, <3>5, RecordedHours
      <4> QED  BY <1>2, <4>1, HoursStay
    <3>6. UNCHANGED timeline \/ \E e : e.type # "RESCHEDULED" /\ Record(b, e)
      BY <1>5 DEF CancelByTokenWrite, SetStatusWrite, AssignWrite, Refused
    <3> QED  BY <3>4, <3>5, <3>6
  <2> QED  BY <2>2, <2>3
<1> QED  BY <1>3, <1>4, <1>5

(* The insert: no event precedes it, and nobody has read the row.          *)
LEMMA BookHours ==
  ASSUME HourInv, IInv', NEW r \in Requests, BookWrite(r)
  PROVE  HourInv'
<1> USE DEF HourInv
<1>0. PICK b, h : b = req[r].id /\ h = req[r].hour
  OBVIOUS
<1>1. CASE Refused(r)
  BY <1>1, ContinueHours
<1>2. CASE ~ Refused(r)
  <2>1. b \in Bookings /\ ~ Exists(b) /\ timeline[b] = <<>>
    BY <1>0 DEF BookWrite, At, IInv, RequestOK, HourOK
  <2>2. /\ Store(b, Requested(h)) /\ asked' = [asked EXCEPT ![b] = h]
        /\ Goto(r, "letter") /\ UNCHANGED timeline
    BY <1>0, <1>2 DEF BookWrite
  <2>3. \A c \in Bookings : c # b => HourStays(c)
    BY <2>2 DEF Store, HourStays, Exists, Moves, IInv, TypeOK
  <2>4. HourOK(b)'
    <3>1. booking'[b] = Requested(h) /\ asked'[b] = h
      BY <2>1, <2>2 DEF Store, IInv, TypeOK
    <3>2. Moves(b)' = {}
      BY <2>1, <2>2 DEF Moves
    <3> QED  BY <3>1, <3>2 DEF HourOK, Exists, Requested
  <2>5. \A q \in Requests : req'[q] = req[q] \/ req'[q].pc # "write"
    BY <2>2, MovedOn DEF IInv
  <2>6. ASSUME NEW q \in Requests PROVE FirstMoveKnows(req[q])'
    <3>1. SUFFICES ASSUME req'[q] = req[q], req[q].op = "reschedule"
                   PROVE  FirstMoveKnows(req[q])'
      BY <2>5 DEF FirstMoveKnows
    <3>2. req[q].id \in Bookings /\ Exists(req[q].id)
      BY <3>1 DEF IInv, RequestOK, SnapshotOK
    <3>3. HourStays(req[q].id) /\ FirstMoveKnows(req[q])
      BY <2>1, <2>3, <3>2
    <3> QED  BY <3>1, <3>3 DEF FirstMoveKnows, HourStays
  <2> QED  BY <2>3, <2>4, <2>6, HourStaysOK
<1> QED  BY <1>1, <1>2

(* The move: the first one names the hour asked for, the last one the hour *)
(* that is written.                                                        *)
LEMMA RescheduleHours ==
  ASSUME HourInv, IInv', NEW r \in Requests, RescheduleWrite(r)
  PROVE  HourInv'
<1> USE DEF HourInv
<1>0. PICK b, h, n : b = req[r].id /\ h = req[r].hour /\ n = Len(timeline[b]) + 1
  OBVIOUS
<1> DEFINE e == [type |-> "RESCHEDULED", fromHour |-> req[r].seen.hour, toHour |-> h]
           row == [booking[b] EXCEPT !.hour = h]
<1>1. CASE Refused(r)
  BY <1>1, ContinueHours
<1>2. CASE ~ Refused(r)
  <2>1. /\ b \in Bookings /\ Exists(b) /\ booking[b] \in Row /\ h \in Hours
        /\ Moves(b) = {} => req[r].seen.hour = booking[b].hour
    BY <1>0 DEF RescheduleWrite, At, IInv, TypeOK, RequestOK, SnapshotOK, FirstMoveKnows
  <2>2. Store(b, row) /\ Record(b, e) /\ Goto(r, "letter") /\ UNCHANGED asked
    BY <1>0, <1>2 DEF RescheduleWrite
  <2>3. row.hour = h /\ row.status = booking[b].status
    BY <2>1 DEF Row
  <2> HIDE DEF row
  <2>4. booking'[b] = row /\ \A c \in Bookings \ {b} : booking'[c] = booking[c]
    BY <2>1, <2>2 DEF Store, IInv, TypeOK
  <2>5. /\ \A c \in Bookings \ {b} : timeline'[c] = timeline[c]
        /\ \A i \in Moves(b) : timeline'[b][i] = timeline[b][i]
        /\ Moves(b) \subseteq 1..(n - 1) /\ n \in Nat
        /\ Moves(b)' = Moves(b) \cup {n} /\ timeline'[b][n] = e
    <3>1. e.type = "RESCHEDULED"
      OBVIOUS
    <3> HIDE DEF e
    <3>2. Len(timeline[b]) \in Nat /\ n = Len(timeline[b]) + 1 /\ n - 1 = Len(timeline[b])
      BY <1>0, <2>1, <2>2, RecordedMoves
    <3> QED  BY <2>1, <2>2, <3>1, <3>2, RecordedMoves
  <2>6. e.fromHour = req[r].seen.hour /\ e.toHour = h
    OBVIOUS
  <2> HIDE DEF e
  <2>7. \A i \in Moves(b) : i < n /\ i <= n /\ ~ (n <= i) /\ i \in Nat
    BY <2>5
  <2>8. HourOK(b)'
    <3>1. Exists(b)' /\ booking'[b].hour = h /\ asked'[b] = asked[b]
      BY <2>1, <2>2, <2>3, <2>4 DEF Exists
    <3>2. \A i \in Moves(b)' : (\A j \in Moves(b)' : j <= i) => timeline'[b][i].toHour = h
      BY <2>5, <2>6, <2>7
    <3>3. \E i \in Moves(b)' : /\ \A j \in Moves(b)' : i <= j
                               /\ timeline'[b][i].fromHour = asked[b]
      <4>1. CASE Moves(b) = {}
        <5>1. req[r].seen.hour = asked[b]
          BY <2>1, <4>1 DEF HourOK
        <5> QED  BY <2>5, <2>6, <4>1, <5>1
      <4>2. CASE Moves(b) # {}
        <5>1. PICK i \in Moves(b) : /\ \A j \in Moves(b) : i <= j
                                    /\ timeline[b][i].fromHour = asked[b]
          BY <2>1, <4>2 DEF HourOK
        <5> QED  BY <2>5, <2>7, <5>1
      <4> QED  BY <4>1, <4>2
    <3>4. Moves(b)' # {}
      BY <2>5
    <3> QED  BY <3>1, <3>2, <3>3, <3>4 DEF HourOK
  <2>9. \A c \in Bookings : c # b => HourStays(c)
    BY <2>2, <2>4, <2>5 DEF HourStays, Exists, Moves
  <2>10. \A q \in Requests : req'[q] = req[q] \/ req'[q].pc # "write"
    BY <2>2, MovedOn DEF IInv
  <2>11. ASSUME NEW q \in Requests PROVE FirstMoveKnows(req[q])'
    <3>1. SUFFICES ASSUME req'[q] = req[q], req[q].op = "reschedule", req[q].id # b
                   PROVE  FirstMoveKnows(req[q])'
      BY <2>5, <2>10 DEF FirstMoveKnows
    <3>2. req[q].id \in Bookings
      BY <3>1 DEF IInv, RequestOK, SnapshotOK
    <3>3. HourStays(req[q].id) /\ FirstMoveKnows(req[q])
      BY <2>9, <3>1, <3>2
    <3> QED  BY <3>1, <3>3 DEF FirstMoveKnows, HourStays
  <2> QED  BY <2>8, <2>9, <2>11, HourStaysOK
<1> QED  BY <1>1, <1>2

LEMMA HourStep == HourInv /\ [Next]_vars => HourInv'
<1> SUFFICES ASSUME HourInv, [Next]_vars PROVE HourInv'
  OBVIOUS
<1>0. IInv'
  BY NextIInv DEF HourInv
<1>1. ASSUME NEW r \in Requests, Arrive(r) PROVE HourInv'
  BY <1>0, <1>1, ArriveHours
<1>2. ASSUME NEW r \in Requests, Continue(r) PROVE HourInv'
  BY <1>0, <1>2, ContinueHours, BookHours, RescheduleHours DEF Continue
<1>3. ASSUME NEW b \in Bookings, AddNote(b) PROVE HourInv'
  <2>1. /\ Exists(b) /\ UNCHANGED <<booking, req, asked>>
        /\ \E e : e.type # "RESCHEDULED" /\ Record(b, e)
    BY <1>3 DEF AddNote, Servable
  <2>2. \A c \in Bookings : HourStays(c)
    BY <2>1, RecordedHours DEF HourInv, Exists
  <2> QED  BY <1>0, <2>1, <2>2, HoursStay
<1>4. CASE Tick \/ Crash \/ UNCHANGED vars
  <2>1. UNCHANGED <<booking, timeline, asked>>
    BY <1>4 DEF Tick, Crash, vars
  <2>2. \A r \in Requests : req'[r] = req[r] \/ req'[r].pc # "write"
    BY <1>4 DEF Tick, Crash, vars, Idle
  <2> QED  BY <1>0, <2>1, <2>2, UntouchedHours, HoursStay
<1> QED  BY <1>1, <1>2, <1>3, <1>4 DEF Next

(* However many reschedules read the same row, and wherever the process    *)
(* stops, the timeline gives back the hour the visitor asked for and its   *)
(* last move names the hour of the row.                                    *)
THEOREM AskedHourIsOnRecord == Spec => []OriginalHourIsKept
<1>1. Init => HourInv
  <2>1. Init => \A b \in Bookings : HourOK(b)
    BY DEF Init, HourOK, Exists, Absent
  <2>2. Init => \A r \in Requests : FirstMoveKnows(req[r])
    BY DEF Init, FirstMoveKnows, Idle
  <2> QED  BY <2>1, <2>2, InitIInv DEF HourInv
<1> QED  BY <1>1, HourStep, HourInvImplies, PTL DEF Spec

----------------------------------------------------------------------------
(* The letters.  A row whose hour no letter names has a request about to   *)
(* write one; only a stop of the process could lose it.                    *)

Telling(q) == q.pc = "letter" /\ q.op \in {"book", "reschedule"}

LettersInv ==
  /\ IInv
  /\ \A b \in Bookings : Exists(b) =>
       \/ \E l \in letter[b] : l.hour = booking[b].hour
       \/ \E r \in Requests : Telling(req[r]) /\ req[r].id = b /\ req[r].hour = booking[b].hour

(* A step that writes no hour, takes no letter back and leaves the         *)
(* requests with a letter to write alone.                                  *)
LEMMA LettersStay ==
  ASSUME LettersInv, IInv',
         \A b \in Bookings : letter[b] \subseteq letter'[b],
         \A b \in Bookings : Exists(b)' => Exists(b) /\ booking'[b].hour = booking[b].hour,
         \A r \in Requests : Telling(req[r]) => req'[r] = req[r]
  PROVE  LettersInv'
BY DEF LettersInv

LEMMA OnlyIts ==
  ASSUME TypeOK, NEW r \in Requests, NEW pc, Goto(r, pc) \/ Answer(r)
  PROVE  \A q \in Requests : q # r => req'[q] = req[q]
BY DEF TypeOK, Goto, Answer

LEMMA WrittenLetter ==
  ASSUME TypeOK, NEW b \in Bookings, NEW l, Write(b, l)
  PROVE  l \in letter'[b] /\ \A c \in Bookings : letter[c] \subseteq letter'[c]
BY DEF TypeOK, Write

(* book and reschedule, writing the row: their letter comes next.          *)
LEMMA HourWritten ==
  ASSUME LettersInv, IInv', NEW r \in Requests, ~ Telling(req[r]),
         NEW row, row.hour = req[r].hour, req[r].id \in Bookings,
         req[r].op \in {"book", "reschedule"},
         Store(req[r].id, row), Goto(r, "letter"), UNCHANGED letter
  PROVE  LettersInv'
<1> USE DEF LettersInv
<1>1. /\ booking'[req[r].id] = row
      /\ \A c \in Bookings : c # req[r].id => booking'[c] = booking[c]
  BY DEF Store, IInv, TypeOK
<1>2. req[r] \in Request /\ req'[r] = [req[r] EXCEPT !.pc = "letter"]
  BY DEF Goto, IInv, TypeOK
<1>3. Telling(req'[r]) /\ req'[r].id = req[r].id /\ req'[r].hour = req[r].hour
  BY <1>2 DEF Telling, Request
<1>4. \A q \in Requests : q # r => req'[q] = req[q]
  BY OnlyIts DEF IInv
<1>5. ASSUME NEW b \in Bookings, Exists(b)'
      PROVE  \/ \E l \in letter'[b] : l.hour = booking'[b].hour
             \/ \E q \in Requests : Telling(req'[q]) /\ req'[q].id = b /\ req'[q].hour = booking'[b].hour
  <2>1. CASE b = req[r].id
    BY <2>1, <1>1, <1>3
  <2>2. CASE b # req[r].id
    BY <2>2, <1>1, <1>4, <1>5 DEF Exists
  <2> QED  BY <2>1, <2>2
<1> QED  BY <1>5 DEF LettersInv

(* The letter itself.                                                      *)
LEMMA HourTold ==
  ASSUME LettersInv, IInv', NEW r \in Requests, NEW l, l.hour = req[r].hour,
         req[r].id \in Bookings, Write(req[r].id, l),
         NEW pc, Goto(r, pc) \/ Answer(r), UNCHANGED booking
  PROVE  LettersInv'
<1>1. /\ l \in letter'[req[r].id] /\ \A c \in Bookings : letter[c] \subseteq letter'[c]
  BY WrittenLetter DEF LettersInv, IInv
<1>2. \A q \in Requests : q # r => req'[q] = req[q]
  BY OnlyIts DEF LettersInv, IInv
<1>3. ASSUME NEW b \in Bookings, Exists(b)
      PROVE  \/ \E m \in letter'[b] : m.hour = booking[b].hour
             \/ \E q \in Requests : Telling(req'[q]) /\ req'[q].id = b /\ req'[q].hour = booking[b].hour
  BY <1>1, <1>2, <1>3 DEF LettersInv
<1> QED  BY <1>3 DEF LettersInv, Exists

LEMMA ContinueLetters ==
  ASSUME LettersInv, IInv', NEW r \in Requests, Continue(r)
  PROVE  LettersInv'
<1> USE DEF LettersInv
<1>1. \E pc : Goto(r, pc) \/ Answer(r)
  BY DEF Continue, BookWrite, BookLetter, BookBell, CancelByTokenWrite, SetStatusWrite, AssignWrite,
         AssignEvent, AssignLetter, RescheduleWrite, RescheduleLetter, Refused
<1>2. \A q \in Requests : q # r => req'[q] = req[q]
  BY <1>1, OnlyIts DEF IInv
<1>3. CASE BookLetter(r) \/ RescheduleLetter(r)
  <2>1. req[r].id \in Bookings /\ UNCHANGED booking
    BY <1>3 DEF BookLetter, RescheduleLetter, At, IInv, RequestOK, SnapshotOK
  <2>2. \E l : l.hour = req[r].hour /\ Write(req[r].id, l)
    BY <1>3 DEF BookLetter, RescheduleLetter
  <2> QED  BY <1>1, <2>1, <2>2, HourTold
<1>4. CASE (BookWrite(r) \/ RescheduleWrite(r)) /\ ~ Refused(r)
  <2>1. /\ req[r].id \in Bookings /\ booking[req[r].id] \in Row
        /\ req[r].op \in {"book", "reschedule"} /\ ~ Telling(req[r])
    BY <1>4 DEF BookWrite, RescheduleWrite, At, Telling, IInv, TypeOK, RequestOK, SnapshotOK
  <2>2. Goto(r, "letter") /\ UNCHANGED letter
    BY <1>4 DEF BookWrite, RescheduleWrite
  <2>3. PICK row : row.hour = req[r].hour /\ Store(req[r].id, row)
    <3>1. CASE BookWrite(r)
      BY <1>4, <3>1 DEF BookWrite, Requested
    <3>2. CASE RescheduleWrite(r)
      <4> DEFINE new == [booking[req[r].id] EXCEPT !.hour = req[r].hour]
      <4>1. new.hour = req[r].hour
        BY <2>1 DEF Row
      <4>2. Store(req[r].id, new)
        BY <1>4, <3>2 DEF RescheduleWrite
      <4> HIDE DEF new
      <4> QED  BY <4>1, <4>2
    <3> QED  BY <1>4, <3>1, <3>2
  <2> QED  BY <2>1, <2>2, <2>3, HourWritten
<1>5. CASE \/ Refused(r) /\ (BookWrite(r) \/ RescheduleWrite(r))
           \/ BookBell(r) \/ AssignEvent(r) \/ AssignLetter(r)
           \/ CancelByTokenWrite(r) \/ SetStatusWrite(r) \/ AssignWrite(r)
  <2>1. ~ Telling(req[r])
    BY <1>5 DEF BookWrite, RescheduleWrite, BookBell, AssignEvent, AssignLetter, CancelByTokenWrite,
                SetStatusWrite, AssignWrite, At, Telling
  <2>2. \A b \in Bookings : letter[b] \subseteq letter'[b]
    <3>1. CASE AssignLetter(r)
      <4>1. req[r].id \in Bookings
        BY <3>1 DEF AssignLetter, At, IInv, RequestOK, SnapshotOK
      <4>2. UNCHANGED letter \/ \E l : Write(req[r].id, l)
        BY <3>1 DEF AssignLetter
      <4> QED  BY <4>1, <4>2, WrittenLetter DEF IInv
    <3>2. CASE ~ AssignLetter(r)
      BY <1>5, <3>2 DEF Refused, BookBell, AssignEvent, CancelByTokenWrite, SetStatusWrite, AssignWrite
    <3> QED  BY <3>1, <3>2
  <2>3. \A b \in Bookings : Exists(b)' => Exists(b) /\ booking'[b].hour = booking[b].hour
    <3>1. CASE UNCHANGED booking
      BY <3>1 DEF Exists
    <3>2. CASE ~ UNCHANGED booking
      <4>1. CancelByTokenWrite(r) \/ SetStatusWrite(r) \/ AssignWrite(r)
        BY <1>5, <3>2 DEF Refused, BookBell, AssignEvent, AssignLetter
      <4>2. req[r].id \in Bookings /\ Exists(req[r].id) /\ booking[req[r].id] \in Row
        BY <4>1 DEF CancelByTokenWrite, SetStatusWrite, AssignWrite, At, IInv, TypeOK, RequestOK, SnapshotOK
      <4>3. booking'[req[r].id].hour = booking[req[r].id].hour
            /\ \A c \in Bookings : c # req[r].id => booking'[c] = booking[c]
        <5>1. CASE CancelByTokenWrite(r)
          BY <4>2, <5>1 DEF CancelByTokenWrite, Store, IInv, TypeOK, Row
        <5>2. CASE SetStatusWrite(r)
          <6> DEFINE row == [booking[req[r].id] EXCEPT !.status = req[r].status,
                                                       !.dated = @ \/ req[r].status = "CANCELLED"]
          <6>1. Store(req[r].id, row)
            BY <3>2, <5>2 DEF SetStatusWrite, Refused
          <6>2. row.hour = booking[req[r].id].hour
            BY <4>2 DEF Row
          <6> HIDE DEF row
          <6> QED  BY <4>2, <6>1, <6>2 DEF Store, IInv, TypeOK
        <5>3. CASE AssignWrite(r)
          <6> DEFINE row == [booking[req[r].id] EXCEPT !.architect = req[r].architect,
                                                       !.status = AssignedStatus(req[r].seen)]
          <6>1. Store(req[r].id, row)
            BY <3>2, <5>3 DEF AssignWrite, Refused
          <6>2. row.hour = booking[req[r].id].hour
            BY <4>2 DEF Row
          <6> HIDE DEF row
          <6> QED  BY <4>2, <6>1, <6>2 DEF Store, IInv, TypeOK
        <5> QED  BY <4>1, <5>1, <5>2, <5>3
      <4> QED  BY <4>2, <4>3 DEF Exists
    <3> QED  BY <3>1, <3>2
  <2> QED  BY <1>2, <2>1, <2>2, <2>3, LettersStay
<1> QED  BY <1>3, <1>4, <1>5 DEF Continue

LEMMA LettersStep ==
  ASSUME ~ MayCrash
  PROVE  LettersInv /\ [Next]_vars => LettersInv'
<1> SUFFICES ASSUME LettersInv, [Next]_vars PROVE LettersInv'
  OBVIOUS
<1>0. IInv'
  BY NextIInv DEF LettersInv
<1>1. ASSUME NEW r \in Requests, Arrive(r) PROVE LettersInv'
  <2>1. \E b, op, s, h, a : Begin(r, op, b, s, h, a)
    BY <1>1 DEF Arrive, CancelByToken, SetStatus, Assign, Book, Reschedule
  <2>2. UNCHANGED <<booking, letter>> /\ ~ Telling(req[r])
    BY <2>1 DEF Begin, Telling
  <2>3. \A q \in Requests : q # r => req'[q] = req[q]
    BY <2>1 DEF Begin, LettersInv, IInv, TypeOK
  <2> QED  BY <1>0, <2>2, <2>3, LettersStay DEF Exists
<1>2. ASSUME NEW r \in Requests, Continue(r) PROVE LettersInv'
  BY <1>0, <1>2, ContinueLetters
<1>3. CASE (\E b \in Bookings : AddNote(b)) \/ Tick \/ UNCHANGED vars
  <2>1. UNCHANGED <<booking, letter, req>>
    BY <1>3 DEF AddNote, Tick, vars
  <2> QED  BY <1>0, <2>1, LettersStay DEF Exists
<1> QED  BY <1>1, <1>2, <1>3 DEF Next, Crash

(* While the process does not stop, and once nothing is under way, the     *)
(* attendee of every booking has a letter with the hour of the row.        *)
THEOREM AttendeesKnowTheHour ==
  ASSUME ~ MayCrash
  PROVE  Spec => []LettersNameTheHour
<1>1. Init => LettersInv
  <2>1. Init => \A b \in Bookings : ~ Exists(b)
    BY DEF Init, Exists, Absent
  <2> QED  BY <2>1, InitIInv DEF LettersInv
<1>2. LettersInv /\ [Next]_vars => LettersInv'
  BY LettersStep
<1>3. LettersInv => LettersNameTheHour
  BY DEF LettersInv, LettersNameTheHour, Quiet, Telling
<1> QED  BY <1>1, <1>2, <1>3, PTL DEF Spec
----------------------------------------------------------------------------
(* Settled sessions.                                                       *)

SettledStays(b) ==
  /\ booking'[b].hour = booking[b].hour
  /\ \/ booking'[b].status = booking[b].status /\ ~ Overlooked(b)'
     \/ \E r \in Requests : req[r].id = b /\ (SetStatusWrite(r) \/ CancelByTokenWrite(r))

(* Nobody comes to overlook b whose request stays what it was, or is past  *)
(* its write.                                                              *)
LEMMA NobodyOverlooks ==
  ASSUME NEW b \in Bookings, ~ Overlooked(b),
         booking'[b].status = booking[b].status,
         \A q \in Requests : req'[q] = req[q] \/ req'[q].pc # "write"
  PROVE  ~ Overlooked(b)'
BY DEF Overlooked

LEMMA ArriveSettled ==
  ASSUME IInv, NEW r \in Requests, Arrive(r), NEW b \in Bookings,
         booking[b].status \in Closed, ~ Overlooked(b)
  PROVE  SettledStays(b)
<1>1. UNCHANGED booking /\ \A q \in Requests : q # r => req'[q] = req[q]
  BY DEF Arrive, CancelByToken, SetStatus, Assign, Book, Reschedule, Begin, IInv, TypeOK
<1>2. ASSUME req'[r].pc = "write", req'[r].id = b,
             req'[r].op = "reschedule" \/ (req'[r].op = "assign" /\ req'[r].seen.status # booking[b].status)
      PROVE  FALSE
  <2>1. PICK c \in Bookings :
          \/ CancelByToken(r, c)
          \/ \E s \in Statuses : SetStatus(r, c, s)
          \/ \E a \in Architects : Assign(r, c, a)
          \/ \E h \in Hours : Book(r, c, h) \/ Reschedule(r, c, h)
    BY DEF Arrive
  <2>2. CASE \E h \in Hours : Reschedule(r, c, h)
    <3>1. req'[r].id = c /\ booking[c].status \in {"REQUESTED", "BOOKED"}
      BY <2>2 DEF Reschedule, Begin, IInv, TypeOK
    <3> QED  BY <1>2, <3>1 DEF Closed
  <2>3. CASE \E a \in Architects : Assign(r, c, a)
    <3>1. req'[r].id = c /\ req'[r].op = "assign" /\ req'[r].seen = booking[c]
      BY <2>3 DEF Assign, Begin, IInv, TypeOK
    <3> QED  BY <1>2, <3>1
  <2>4. CASE \/ CancelByToken(r, c) \/ \E s \in Statuses : SetStatus(r, c, s)
             \/ \E h \in Hours : Book(r, c, h)
    <3>1. req'[r].op \in {"cancel", "setStatus", "book"}
      BY <2>4 DEF CancelByToken, SetStatus, Book, Begin, IInv, TypeOK
    <3> QED  BY <1>2, <3>1
  <2> QED  BY <2>1, <2>2, <2>3, <2>4
<1>3. ~ Overlooked(b)'
  BY <1>1, <1>2 DEF Overlooked
<1> QED  BY <1>1, <1>3 DEF SettledStays

LEMMA ContinueSettled ==
  ASSUME IInv, NEW r \in Requests, Continue(r), NEW b \in Bookings,
         booking[b].status \in Closed, ~ Overlooked(b)
  PROVE  SettledStays(b)
<1>0. booking[b] \in Row /\ booking \in [Bookings -> Row] /\ Exists(b) /\ req[r] \in Request
  BY DEF IInv, TypeOK, Closed, Exists
<1>1. \E pc : pc # "write" /\ (Goto(r, pc) \/ Answer(r))
  BY DEF Continue, BookWrite, BookLetter, BookBell, CancelByTokenWrite, SetStatusWrite, AssignWrite,
         AssignEvent, AssignLetter, RescheduleWrite, RescheduleLetter, Refused
<1>2. \A q \in Requests : req'[q] = req[q] \/ req'[q].pc # "write"
  BY <1>1, MovedOn DEF IInv
<1>3. CASE booking'[b] = booking[b]
  BY <1>2, <1>3, NobodyOverlooks DEF SettledStays
<1>4. CASE req[r].id # b
  <2>1. UNCHANGED booking \/ \E row : Store(req[r].id, row)
    BY DEF Continue, BookWrite, BookLetter, BookBell, CancelByTokenWrite, SetStatusWrite, AssignWrite,
           AssignEvent, AssignLetter, RescheduleWrite, RescheduleLetter, Refused
  <2>2. booking'[b] = booking[b]
    BY <1>0, <1>4, <2>1 DEF Store
  <2> QED  BY <1>3, <2>2
<1>5. CASE req[r].id = b /\ BookWrite(r)
  BY <1>0, <1>5 DEF BookWrite, At, IInv, RequestOK
<1>6. CASE req[r].id = b /\ CancelByTokenWrite(r)
  <2>1. booking'[b].hour = booking[b].hour
    BY <1>0, <1>6 DEF CancelByTokenWrite, Store, Row
  <2> QED  BY <1>6, <2>1 DEF SettledStays
<1>7. CASE req[r].id = b /\ SetStatusWrite(r)
  <2> DEFINE s == req[r].status
             row == [booking[b] EXCEPT !.status = s, !.dated = @ \/ s = "CANCELLED"]
  <2>1. row.hour = booking[b].hour
    BY <1>0 DEF Row
  <2>2. UNCHANGED booking \/ Store(b, row)
    BY <1>7 DEF SetStatusWrite, Refused
  <2> HIDE DEF row
  <2>3. booking'[b].hour = booking[b].hour
    BY <1>0, <2>1, <2>2 DEF Store
  <2> QED  BY <1>7, <2>3 DEF SettledStays
<1>8. CASE req[r].id = b /\ AssignWrite(r)
  <2> DEFINE row == [booking[b] EXCEPT !.architect = req[r].architect,
                                       !.status = AssignedStatus(req[r].seen)]
  <2>1. req[r].seen.status = booking[b].status
    BY <1>8 DEF AssignWrite, At, Overlooked
  <2>2. AssignedStatus(req[r].seen) = booking[b].status
    BY <2>1 DEF AssignedStatus, Closed
  <2>3. row.hour = booking[b].hour /\ row.status = booking[b].status
    BY <1>0, <2>2 DEF Row
  <2>4. UNCHANGED booking \/ Store(b, row)
    BY <1>8 DEF AssignWrite, Refused
  <2> HIDE DEF row
  <2>5. booking'[b].hour = booking[b].hour /\ booking'[b].status = booking[b].status
    BY <1>0, <2>3, <2>4 DEF Store
  <2> QED  BY <1>2, <2>5, NobodyOverlooks DEF SettledStays
<1>9. CASE req[r].id = b /\ RescheduleWrite(r)
  BY <1>9 DEF RescheduleWrite, At, Overlooked
<1>10. CASE BookLetter(r) \/ BookBell(r) \/ AssignEvent(r) \/ AssignLetter(r) \/ RescheduleLetter(r)
  BY <1>3, <1>10 DEF BookLetter, BookBell, AssignEvent, AssignLetter, RescheduleLetter
<1> QED  BY <1>4, <1>5, <1>6, <1>7, <1>8, <1>9, <1>10 DEF Continue

(* reschedule and assign: once nobody acts on an earlier reading of it, a  *)
(* closed session keeps its hour, and only setStatus and its attendee      *)
(* change how it ended, with any number of requests and with crashes.      *)
THEOREM SettledSessionsAreLeft == Spec => SettledSessionsStay
<1>1. IInv /\ [Next]_vars =>
        [\A b \in Bookings : booking[b].status \in Closed /\ ~ Overlooked(b) =>
           /\ booking'[b].hour = booking[b].hour
           /\ \/ booking'[b].status = booking[b].status /\ ~ Overlooked(b)'
              \/ \E r \in Requests :
                   req[r].id = b /\ (SetStatusWrite(r) \/ CancelByTokenWrite(r))]_vars
  <2>1. ASSUME IInv, Next, NEW b \in Bookings, booking[b].status \in Closed, ~ Overlooked(b)
        PROVE  SettledStays(b)
    <3>1. CASE Tick \/ Crash \/ \E c \in Bookings : AddNote(c)
      <4>1. UNCHANGED booking /\ \A q \in Requests : req'[q] = req[q] \/ req'[q].pc # "write"
        BY <3>1 DEF Tick, Crash, AddNote, Idle
      <4> QED  BY <2>1, <4>1, NobodyOverlooks DEF SettledStays
    <3> QED  BY <2>1, <3>1, ArriveSettled, ContinueSettled DEF Next
  <2> QED  BY <2>1 DEF SettledStays
<1> QED  BY <1>1, Invariance, PTL DEF Spec, SettledSessionsStay

----------------------------------------------------------------------------
(* With the roster at work beside them (RosteredSessions), the bookings    *)
(* and the roster each still behave as specified alone: the checks that    *)
(* one makes of the other only rule steps out, and neither writes the      *)
(* other's tables.  What is proved of the bookings holds there too.        *)
THEOREM RosterLeavesBookings ==
  RosteredSpec =>
    /\ Spec /\ Desk!RosterSpec
    /\ []OneBookingPerHour /\ []BookedHasArchitect /\ []CancellationIsRecorded
    /\ []OriginalHourIsKept /\ SettledSessionsStay /\ ImplementsHourBoard
<1>1. RosteredInit => Init /\ Desk!RosterInit
  BY DEF RosteredInit
<1>2. [SessionsMove \/ RosterMoves]_rosteredVars => [Next]_vars /\ [Desk!RosterNext]_(Desk!rosterVars)
  BY DEF SessionsMove, RosterMoves, rosteredVars, deskVars, Desk!rosterVars
<1> QED
  BY <1>1, <1>2, HourHasOneBooking, BookedSessionIsStaffed, CancellationIsOnRecord,
     AskedHourIsOnRecord, SettledSessionsAreLeft, BookingImplementsBoard, PTL
     DEF RosteredSpec, Spec, Desk!RosterSpec
============================================================================
