------------------------------ MODULE Booking ------------------------------
(***************************************************************************)
(* Discovery sessions of one site (discovery/booking.service.ts).          *)
(*                                                                         *)
(* Every handler reads the row, decides on what it read, and writes later: *)
(* between two awaits any other request may run.  A request is therefore a *)
(* process with a program counter; a database transaction, and a single    *)
(* statement, is one step.  The partial unique index                       *)
(*   (site, requested_start_at) WHERE status <> 'CANCELLED'                *)
(* is checked by every statement that writes a row.                        *)
(***************************************************************************)
EXTENDS Naturals, Sequences, FiniteSets

CONSTANTS
  Bookings,      (* row identities                                         *)
  Requests,      (* requests the server may be serving at one moment       *)
  Architects,    (* the site's active architects                           *)
  MaxHour,       (* the last hour of the model's clock                     *)
  SessionHours,  (* the hours that pass the 9:00-23:00 on-the-hour rule    *)
  MaxEvents,     (* bound: no request is taken on a longer timeline        *)
  MaxNotes,      (* bound: internal notes per booking                      *)
  MayCrash,      (* whether the process may stop between two awaits        *)
  None

ASSUME ClockAssumption == MaxHour \in Nat \ {0}
ASSUME SessionHoursAssumption == SessionHours \subseteq 1..MaxHour
ASSUME NoneAssumption == None \notin Bookings /\ None \notin Architects
ASSUME BoundAssumption == MaxEvents \in Nat /\ MaxNotes \in Nat /\ MayCrash \in BOOLEAN

VARIABLES
  booking,   (* discovery_bookings: one row per identity                   *)
  timeline,  (* discovery_booking_events, in commit order                  *)
  req,       (* the requests being served                                  *)
  letter,    (* the letters written to each attendee                       *)
  bell,      (* the bookings the panel's bell has announced                *)
  now,       (* the hour that has begun                                    *)
  asked      (* history variable: the hour each visitor asked for          *)

vars == <<booking, timeline, req, letter, bell, now, asked>>

Hours == 1..MaxHour
Statuses == {"REQUESTED", "BOOKED", "COMPLETED", "CANCELLED", "NO_SHOW"}

Row == [status    : Statuses \cup {"ABSENT"},
        hour      : 0..MaxHour,
        architect : Architects \cup {None},
        dated     : BOOLEAN]                  (* cancelledAt IS NOT NULL   *)

Absent == [status |-> "ABSENT", hour |-> 0, architect |-> None, dated |-> FALSE]

Event ==
  [type : {"CANCELLED_BY_ATTENDEE", "STATUS_CHANGED"}, from : Statuses, to : Statuses]
  \cup [type : {"RESCHEDULED"}, fromHour : Hours, toHour : Hours]
  \cup [type : {"ASSIGNED"}, fromId : Architects \cup {None}, toId : Architects]
  \cup [type : {"NOTE_ADDED"}]

Letter == [kind      : {"received", "confirmed", "change", "moved"},
           hour      : 0..MaxHour,
           architect : Architects \cup {None}]

Request == [pc        : {"idle", "write", "event", "letter", "bell"},
            op        : {"none", "book", "cancel", "setStatus", "assign", "reschedule"},
            id        : Bookings \cup {None},
            seen      : Row,                       (* the row as it was read *)
            status    : Statuses \cup {"ABSENT"},  (* setStatus's argument   *)
            hour      : 0..MaxHour,                (* book's, reschedule's   *)
            architect : Architects \cup {None}]    (* assign's               *)

Idle == [pc |-> "idle", op |-> "none", id |-> None, seen |-> Absent,
         status |-> "ABSENT", hour |-> 0, architect |-> None]

TypeOK ==
  /\ booking \in [Bookings -> Row]
  /\ timeline \in [Bookings -> Seq(Event)]
  /\ req \in [Requests -> Request]
  /\ letter \in [Bookings -> SUBSET Letter]
  /\ bell \subseteq Bookings
  /\ now \in 0..MaxHour
  /\ asked \in [Bookings -> 0..MaxHour]

Init ==
  /\ booking = [b \in Bookings |-> Absent]
  /\ timeline = [b \in Bookings |-> <<>>]
  /\ req = [r \in Requests |-> Idle]
  /\ letter = [b \in Bookings |-> {}]
  /\ bell = {}
  /\ now = 0
  /\ asked = [b \in Bookings |-> 0]

----------------------------------------------------------------------------
Exists(b) == booking[b].status # "ABSENT"
Live(row) == row.status \notin {"ABSENT", "CANCELLED"}
Ahead(row) == row.hour > now

(* Mutant: only an insert looks for a session already on the hour.         *)
IndexOnInsertOnly(b, row) ==
  Live(row) /\ ~ Exists(b) => \A c \in Bookings \ {b} :
                 ~ (Live(booking[c]) /\ booking[c].hour = row.hour)

(* The partial unique index: may b's row be written as row?                *)
IndexAllows(b, row) ==
  Live(row) => \A c \in Bookings \ {b} :
                 ~ (Live(booking[c]) /\ booking[c].hour = row.hour)

(* The public form's rule, which the desk's reschedule passes too.         *)
ReadSessionTime(h) == h \in SessionHours /\ h > now

Store(b, row) == booking' = [booking EXCEPT ![b] = row]
Record(b, e) == timeline' = [timeline EXCEPT ![b] = Append(@, e)]
Write(b, l) == letter' = [letter EXCEPT ![b] = @ \cup {l}]

At(r, op, pc) == req[r].op = op /\ req[r].pc = pc
Goto(r, pc) == req' = [req EXCEPT ![r].pc = pc]
Answer(r) == req' = [req EXCEPT ![r] = Idle]

(* A request that passed its checks on booking b; what it read is kept.    *)
Begin(r, op, b, status, hour, architect) ==
  /\ req[r].pc = "idle"
  /\ req' = [req EXCEPT ![r] =
               [pc |-> "write", op |-> op, id |-> b,
                seen |-> booking[b],
                status |-> status, hour |-> hour, architect |-> architect]]
  /\ UNCHANGED <<booking, timeline, letter, bell, now, asked>>

Servable(b) == Exists(b) /\ Len(timeline[b]) < MaxEvents

(* A write the unique index turned down: the request ends, nothing is kept. *)
Refused(r) == Answer(r) /\ UNCHANGED <<booking, timeline, letter, bell, now, asked>>

----------------------------------------------------------------------------
(* book: the hour is checked against the clock, the spam check is awaited, *)
(* the row is inserted, the visitor is written to, the bell is rung.  The  *)
(* CREATED event stands after the transaction's return and is never saved. *)
(* b is the identity the inserted row will have.                           *)
Fresh(b) == ~ Exists(b) /\ \A q \in Requests : ~ (req[q].op = "book" /\ req[q].id = b)

Book(r, b, h) ==
  /\ Fresh(b)
  /\ ReadSessionTime(h)
  /\ Begin(r, "book", b, "REQUESTED", h, None)

Requested(h) == [status |-> "REQUESTED", hour |-> h, architect |-> None, dated |-> FALSE]

BookWrite(r) ==
  LET b == req[r].id
      row == Requested(req[r].hour)
  IN
  /\ At(r, "book", "write")
  /\ \/ /\ IndexAllows(b, row)
        /\ Store(b, row)
        /\ asked' = [asked EXCEPT ![b] = req[r].hour]
        /\ Goto(r, "letter")
        /\ UNCHANGED <<timeline, letter, bell, now>>
     \/ ~ IndexAllows(b, row) /\ Refused(r)

(* Mutant: a letter that could not be sent ends the request.               *)
BookLetterThrows(r) ==
  /\ At(r, "book", "letter")
  /\ Answer(r)
  /\ UNCHANGED <<booking, timeline, letter, bell, now, asked>>

BookLetter(r) ==
  /\ At(r, "book", "letter")
  /\ Write(req[r].id, [kind |-> "received", hour |-> req[r].hour, architect |-> None])
  /\ Goto(r, "bell")
  /\ UNCHANGED <<booking, timeline, bell, now, asked>>

BookBell(r) ==
  /\ At(r, "book", "bell")
  /\ bell' = bell \cup {req[r].id}
  /\ Answer(r)
  /\ UNCHANGED <<booking, timeline, letter, now, asked>>

----------------------------------------------------------------------------
(* cancelByToken: refused only when the row read was already cancelled.    *)
CancelByToken(r, b) ==
  /\ Servable(b)
  /\ booking[b].status # "CANCELLED"
  /\ Begin(r, "cancel", b, "CANCELLED", 0, None)

(* Mutant: the slot's status is written to the booking.                    *)
CancelByTokenSwapped(r) ==
  LET b == req[r].id IN
  /\ At(r, "cancel", "write")
  /\ Store(b, [booking[b] EXCEPT !.status = "FREE", !.dated = TRUE])
  /\ Record(b, [type |-> "CANCELLED_BY_ATTENDEE",
                from |-> req[r].seen.status, to |-> "CANCELLED"])
  /\ Answer(r)
  /\ UNCHANGED <<letter, bell, now, asked>>

CancelByTokenWrite(r) ==
  LET b == req[r].id IN
  /\ At(r, "cancel", "write")
  /\ Store(b, [booking[b] EXCEPT !.status = "CANCELLED", !.dated = TRUE])
  /\ Record(b, [type |-> "CANCELLED_BY_ATTENDEE",
                from |-> req[r].seen.status, to |-> "CANCELLED"])
  /\ Answer(r)
  /\ UNCHANGED <<letter, bell, now, asked>>

----------------------------------------------------------------------------
(* Mutant: BOOKED may be set with nobody on the session.                   *)
SetStatusUnstaffed(r, b, s) ==
  /\ Servable(b)
  /\ Begin(r, "setStatus", b, s, 0, None)

(* setStatus: any status but BOOKED may be set on any row, BOOKED on a row *)
(* that was read with an architect.  The row and its event commit together.*)
SetStatus(r, b, s) ==
  /\ Servable(b)
  /\ s = "BOOKED" => booking[b].architect # None
  /\ Begin(r, "setStatus", b, s, 0, None)

(* Mutant: every status but CANCELLED clears cancelledAt.                  *)
SetStatusClearsDate(r) ==
  LET b == req[r].id
      s == req[r].status
      row == [booking[b] EXCEPT !.status = s, !.dated = (s = "CANCELLED")]
  IN
  /\ At(r, "setStatus", "write")
  /\ IndexAllows(b, row)
  /\ Store(b, row)
  /\ Record(b, [type |-> "STATUS_CHANGED", from |-> req[r].seen.status, to |-> s])
  /\ Answer(r)
  /\ UNCHANGED <<letter, bell, now, asked>>

SetStatusWrite(r) ==
  LET b == req[r].id
      s == req[r].status
      row == [booking[b] EXCEPT !.status = s, !.dated = @ \/ s = "CANCELLED"]
  IN
  /\ At(r, "setStatus", "write")
  /\ \/ /\ IndexAllows(b, row)
        /\ Store(b, row)
        /\ Record(b, [type |-> "STATUS_CHANGED", from |-> req[r].seen.status, to |-> s])
        /\ Answer(r)
        /\ UNCHANGED <<letter, bell, now, asked>>
     \/ ~ IndexAllows(b, row) /\ Refused(r)

----------------------------------------------------------------------------
(* assign: the status to write is computed from the row as it was read;    *)
(* the update, the event and the letter are three separate awaits.         *)
Assign(r, b, a) ==
  /\ Servable(b)
  /\ Begin(r, "assign", b, "ABSENT", 0, a)

(* Mutant: whoever is given an architect is booked.                        *)
AlwaysBooked(seen) == "BOOKED"

AssignedStatus(seen) == IF seen.status = "REQUESTED" THEN "BOOKED" ELSE seen.status

AssignWrite(r) ==
  LET b == req[r].id
      row == [booking[b] EXCEPT !.architect = req[r].architect,
                                !.status = AssignedStatus(req[r].seen)]
  IN
  /\ At(r, "assign", "write")
  /\ \/ /\ IndexAllows(b, row)
        /\ Store(b, row)
        /\ Goto(r, "event")
        /\ UNCHANGED <<timeline, letter, bell, now, asked>>
     \/ ~ IndexAllows(b, row) /\ Refused(r)

(* Mutant: the event is saved only for a change of architect.              *)
AssignEventOnChange(r) ==
  /\ At(r, "assign", "event")
  /\ IF req[r].seen.architect = None
       THEN UNCHANGED timeline
       ELSE Record(req[r].id, [type |-> "ASSIGNED", fromId |-> req[r].seen.architect,
                               toId |-> req[r].architect])
  /\ Goto(r, "letter")
  /\ UNCHANGED <<booking, letter, bell, now, asked>>

AssignEvent(r) ==
  /\ At(r, "assign", "event")
  /\ Record(req[r].id, [type |-> "ASSIGNED", fromId |-> req[r].seen.architect,
                        toId |-> req[r].architect])
  /\ Goto(r, "letter")
  /\ UNCHANGED <<booking, letter, bell, now, asked>>

(* The row is read again, and the attendee hears of it if it is ahead.     *)
AssignLetter(r) ==
  LET b == req[r].id IN
  /\ At(r, "assign", "letter")
  /\ IF booking[b].status # "CANCELLED" /\ Ahead(booking[b])
       THEN Write(b, [kind |-> IF req[r].seen.architect = None THEN "confirmed" ELSE "change",
                      hour |-> booking[b].hour, architect |-> req[r].architect])
       ELSE UNCHANGED letter
  /\ Answer(r)
  /\ UNCHANGED <<booking, timeline, bell, now, asked>>

----------------------------------------------------------------------------
(* reschedule: only a session read as open and still ahead moves, and only *)
(* to another hour the form would have taken.                              *)
Reschedule(r, b, h) ==
  /\ Servable(b)
  /\ booking[b].status \in {"REQUESTED", "BOOKED"}
  /\ Ahead(booking[b])
  /\ ReadSessionTime(h)
  /\ h # booking[b].hour
  /\ Begin(r, "reschedule", b, "ABSENT", h, None)

(* Mutant: the old hour is read after the row was updated.                 *)
RescheduleForgets(r) ==
  LET b == req[r].id
      row == [booking[b] EXCEPT !.hour = req[r].hour]
  IN
  /\ At(r, "reschedule", "write")
  /\ IndexAllows(b, row)
  /\ Store(b, row)
  /\ Record(b, [type |-> "RESCHEDULED", fromHour |-> row.hour, toHour |-> req[r].hour])
  /\ Goto(r, "letter")
  /\ UNCHANGED <<letter, bell, now, asked>>

RescheduleWrite(r) ==
  LET b == req[r].id
      row == [booking[b] EXCEPT !.hour = req[r].hour]
  IN
  /\ At(r, "reschedule", "write")
  /\ \/ /\ IndexAllows(b, row)
        /\ Store(b, row)
        /\ Record(b, [type |-> "RESCHEDULED", fromHour |-> req[r].seen.hour,
                      toHour |-> req[r].hour])
        /\ Goto(r, "letter")
        /\ UNCHANGED <<letter, bell, now, asked>>
     \/ ~ IndexAllows(b, row) /\ Refused(r)


(* Mutant: a session nobody is assigned to moves without a letter.         *)
RescheduleSilently(r) ==
  /\ At(r, "reschedule", "letter")
  /\ IF booking[req[r].id].architect = None
       THEN UNCHANGED letter
       ELSE Write(req[r].id, [kind |-> "moved", hour |-> req[r].hour,
                              architect |-> booking[req[r].id].architect])
  /\ Answer(r)
  /\ UNCHANGED <<booking, timeline, bell, now, asked>>

RescheduleLetter(r) ==
  /\ At(r, "reschedule", "letter")
  /\ Write(req[r].id, [kind |-> "moved", hour |-> req[r].hour,
                       architect |-> booking[req[r].id].architect])
  /\ Answer(r)
  /\ UNCHANGED <<booking, timeline, bell, now, asked>>

----------------------------------------------------------------------------
(* addNote appends to the timeline and touches nothing else.               *)
Notes(b) == {i \in 1..Len(timeline[b]) : timeline[b][i].type = "NOTE_ADDED"}

AddNote(b) ==
  /\ Servable(b)
  /\ Cardinality(Notes(b)) < MaxNotes
  /\ Record(b, [type |-> "NOTE_ADDED"])
  /\ UNCHANGED <<booking, req, letter, bell, now, asked>>

Tick ==
  /\ now < MaxHour
  /\ now' = now + 1
  /\ UNCHANGED <<booking, timeline, req, letter, bell, asked>>

(* The process stops: what was committed stays, the requests are gone.     *)
Crash ==
  /\ MayCrash
  /\ \E r \in Requests : req[r].pc # "idle"
  /\ req' = [r \in Requests |-> Idle]
  /\ UNCHANGED <<booking, timeline, letter, bell, now, asked>>

Arrive(r) ==
  \E b \in Bookings :
    \/ CancelByToken(r, b)
    \/ \E s \in Statuses : SetStatus(r, b, s)
    \/ \E a \in Architects : Assign(r, b, a)
    \/ \E h \in Hours : Book(r, b, h) \/ Reschedule(r, b, h)

Continue(r) ==
  \/ BookWrite(r) \/ BookLetter(r) \/ BookBell(r)
  \/ CancelByTokenWrite(r)
  \/ SetStatusWrite(r)
  \/ AssignWrite(r) \/ AssignEvent(r) \/ AssignLetter(r)
  \/ RescheduleWrite(r) \/ RescheduleLetter(r)

Next ==
  \/ \E r \in Requests : Arrive(r) \/ Continue(r)
  \/ \E b \in Bookings : AddNote(b)
  \/ Tick
  \/ Crash

Spec == Init /\ [][Next]_vars

(* A request that was taken is carried on; nobody is obliged to send one.  *)
FairSpec == Spec /\ \A r \in Requests : WF_vars(Continue(r))

----------------------------------------------------------------------------
(* PROPERTIES                                                              *)

(* No two sessions that are not cancelled hold the same hour, whichever of *)
(* book, setStatus, assign and reschedule wrote them and in what order     *)
(* (migration DiscoveryBookingsWithoutSlots: "ONE BOOKING PER TIME").      *)
OneBookingPerHour ==
  \A b, c \in Bookings :
    Live(booking[b]) /\ Live(booking[c]) /\ booking[b].hour = booking[c].hour => b = c

(* A session that reads BOOKED has an architect, although setStatus and    *)
(* assign both decide on a row read before their write.                    *)
BookedHasArchitect ==
  \A b \in Bookings : booking[b].status = "BOOKED" => booking[b].architect # None

Cancels(e) == e.type \in {"CANCELLED_BY_ATTENDEE", "STATUS_CHANGED"} /\ e.to = "CANCELLED"

CancellationOf(b) == {i \in 1..Len(timeline[b]) : Cancels(timeline[b][i])}

(* A cancelled session has a date and an entry on its timeline, and a date *)
(* is never without one.  assign breaks this as soon as reopening clears   *)
(* the date: having read CANCELLED, it writes that back over a setStatus   *)
(* that reopened the session, and neither dates that nor records it.       *)
CancellationIsRecorded ==
  \A b \in Bookings :
    /\ booking[b].status = "CANCELLED" => booking[b].dated
    /\ booking[b].dated => CancellationOf(b) # {}

(* What makes it so: cancelledAt, once set, is never cleared, whatever     *)
(* setStatus, assign and reschedule write over the session afterwards.     *)
DateIsKept == \A b \in Bookings : CancellationOf(b) # {} => booking[b].dated

Moves(b) == {i \in 1..Len(timeline[b]) : timeline[b][i].type = "RESCHEDULED"}

(* The hour the attendee asked for is never lost, though nothing but the   *)
(* timeline keeps it and several reschedules may read the same row: the    *)
(* last move names the hour the row holds, the first one names the hour    *)
(* asked for (the event entity: "RESCHEDULED keeps the hour the attendee   *)
(* originally asked for").                                                 *)
OriginalHourIsKept ==
  \A b \in Bookings :
    Exists(b) =>
      /\ \A i \in Moves(b) :
           (\A j \in Moves(b) : j <= i) => timeline[b][i].toHour = booking[b].hour
      /\ asked[b] = IF Moves(b) = {} THEN booking[b].hour
                    ELSE LET first == CHOOSE i \in Moves(b) : \A j \in Moves(b) : i <= j
                         IN  timeline[b][first].fromHour

(* The hours are handed around as the board promises.                      *)
HeldHour == [b \in Bookings |-> IF Live(booking[b]) THEN booking[b].hour ELSE 0]
Board == INSTANCE HourBoard WITH held <- HeldHour, NoHour <- 0
ImplementsHourBoard == Board!Spec

Quiet == \A r \in Requests : req[r].pc = "idle"

(* An attendee always has a letter that names the hour the row holds:      *)
(* however requests overlap, no route to another hour ends without one.    *)
LettersNameTheHour ==
  Quiet => \A b \in Bookings :
             Exists(b) => \E l \in letter[b] : l.hour = booking[b].hour

(* assign: "Forcing BOOKED here would quietly reopen a closed record".     *)
AssignKeepsOutcome ==
  [][\A r \in Requests : \A b \in Bookings :
       AssignWrite(r) /\ req[r].id = b /\ booking[b].status \notin {"REQUESTED", "BOOKED"}
         => booking'[b].status = booking[b].status]_vars

Closed == {"COMPLETED", "CANCELLED", "NO_SHOW"}

(* A request about to write to b what it decided when b was still open, or *)
(* closed otherwise.                                                       *)
Overlooked(b) ==
  \E r \in Requests :
    /\ req[r].pc = "write" /\ req[r].id = b
    /\ \/ req[r].op = "reschedule"
       \/ req[r].op = "assign" /\ req[r].seen.status # booking[b].status

(* reschedule refuses a session that "is already closed" (794-804), and    *)
(* assign must not "quietly reopen a closed record".  They decide on what  *)
(* they read, so the promise holds from the moment no earlier reading is   *)
(* left:  a closed session then keeps its hour, and nothing but a status   *)
(* set on purpose, or its cancellation, changes how it ended.              *)
SettledSessionsStay ==
  [][\A b \in Bookings :
       booking[b].status \in Closed /\ ~ Overlooked(b) =>
         /\ booking'[b].hour = booking[b].hour
         /\ \/ booking'[b].status = booking[b].status /\ ~ Overlooked(b)'
            \/ \E r \in Requests :
                 req[r].id = b /\ (SetStatusWrite(r) \/ CancelByTokenWrite(r))]_vars

(* An architect who was put on a session is eventually named on its        *)
(* timeline, unless another has taken the session since.                   *)
AssignmentIsRecorded ==
  \A b \in Bookings, a \in Architects :
    booking[b].architect = a ~>
      \/ booking[b].architect # a
      \/ \E i \in 1..Len(timeline[b]) : /\ timeline[b][i].type = "ASSIGNED"
                                        /\ timeline[b][i].toId = a

(* A booking that was stored is eventually announced on the panel.         *)
BookingIsAnnounced == \A b \in Bookings : Exists(b) ~> b \in bell

----------------------------------------------------------------------------
(* THE INDUCTIVE INVARIANT behind the theorems of BookingProofs.           *)

RowOK(b) ==
  /\ IF Exists(b) THEN booking[b].hour \in Hours ELSE booking[b] = Absent
  /\ booking[b].status = "BOOKED" => booking[b].architect # None
  /\ booking[b].status = "CANCELLED" => booking[b].dated
  /\ booking[b].dated <=> \E i \in 1..Len(timeline[b]) : Cancels(timeline[b][i])

(* What a request read stays true of its row in the one way its write      *)
(* relies on: an architect, once there, is never taken off, and a          *)
(* cancellation, once dated, stays dated.                                  *)
SnapshotOK(q) ==
  /\ q.id \in Bookings /\ Exists(q.id)
  /\ q.seen.status \in Statuses /\ q.seen.hour \in Hours
  /\ q.seen.architect # None => booking[q.id].architect # None
  /\ q.seen.status = "BOOKED" => q.seen.architect # None
  /\ q.seen.status = "CANCELLED" => booking[q.id].dated

RequestOK(q) ==
  /\ q.op \in {"cancel", "setStatus", "assign", "reschedule"} => SnapshotOK(q)
  /\ q.op = "setStatus" => /\ q.status \in Statuses
                           /\ q.status = "BOOKED" => q.seen.architect # None
  /\ q.op = "assign" => q.architect \in Architects
  /\ q.op = "reschedule" => q.hour \in Hours
  /\ q.op = "book" => /\ q.id \in Bookings
                      /\ q.hour \in Hours
                      /\ q.pc = "write" => ~ Exists(q.id)

IInv ==
  /\ TypeOK
  /\ OneBookingPerHour
  /\ \A b \in Bookings : RowOK(b)
  /\ \A r \in Requests : RequestOK(req[r])
  /\ \A r, q \in Requests :
       req[r].op = "book" /\ req[q].op = "book" /\ req[r].id = req[q].id => r = q
============================================================================
