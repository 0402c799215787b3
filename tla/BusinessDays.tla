---------------------------- MODULE BusinessDays ----------------------------
(***************************************************************************)
(* Response deadlines (common/utils/business-hours.util.ts): the end of    *)
(* business on the nth working day after an arrival, walked day by day on  *)
(* the office's calendar, and that time of day as an instant.              *)
(*                                                                         *)
(* Day 0 is the arrival's day on the office's calendar and a Sunday; other *)
(* weeks are the same ones shifted.  Local time and instants are whole     *)
(* hours.  A timezone has one change of its offset, near the deadline.     *)
(***************************************************************************)
EXTENDS Integers, FiniteSets

CONSTANTS
  Weeks,       (* calendars: sets of working weekdays, 0 to 6              *)
  MaxDays,     (* bound: the most working days a deadline is away          *)
  WorkEnd,     (* the calendar's workEndHour                               *)
  Offsets      (* a timezone's distance from UTC                           *)

ASSUME DaysAssumption ==
  /\ Weeks \subseteq (SUBSET (0..6)) \ {{}}
  /\ MaxDays \in Nat \ {0} /\ WorkEnd \in 0..23 /\ Offsets \subseteq (-12)..14 /\ Offsets # {}

VARIABLE walk  (* the deadline being worked out                            *)

Zone == [before : Offsets, after : Offsets, change : Int]
Walk == [phase    : {"walking", "due", "failed"},
         week     : Weeks,
         days     : 1..MaxDays,                (* businessDays             *)
         turns    : Nat,                       (* i                        *)
         counted  : Nat,
         cursor   : Nat,
         holidays : SUBSET Nat,                (* those met so far         *)
         due      : Int,                       (* the result               *)
         zone     : Zone]

DaysTypeOK == walk \in Walk

(* The zone is chosen where it is used.                                    *)
NoZone == LET z == CHOOSE o \in Offsets : TRUE IN [before |-> z, after |-> z, change |-> 0]

DaysInit ==
  \E week \in Weeks, days \in 1..MaxDays :
    walk = [phase |-> "walking", week |-> week, days |-> days, turns |-> 0, counted |-> 0,
            cursor |-> 0, holidays |-> {}, due |-> 0, zone |-> NoZone]

----------------------------------------------------------------------------
WorksOn(d) == d % 7 \in walk.week

(* Mutant: whole weeks, without the two to spare.                          *)
WeeksOnly(days) == days * 7

MaxIterations(days) == days * 7 + 14

(* One turn of the loop; whether the day is a holiday is an input.         *)
WalkADay(holiday) ==
  LET d == walk.cursor + 1
      works == WorksOn(d) /\ ~ holiday
  IN
  /\ walk.phase = "walking"
  /\ walk.turns < MaxIterations(walk.days) /\ walk.counted < walk.days
  /\ holiday => WorksOn(d)
  /\ walk' = [walk EXCEPT !.turns = @ + 1, !.cursor = d,
                          !.counted = IF works THEN @ + 1 ELSE @,
                          !.holidays = IF holiday THEN @ \cup {d} ELSE @]

NoDueDate ==
  /\ walk.phase = "walking"
  /\ walk.turns = MaxIterations(walk.days) /\ walk.counted < walk.days
  /\ walk' = [walk EXCEPT !.phase = "failed"]

Offset(zone, t) == IF t < zone.change THEN zone.before ELSE zone.after
LocalClock(zone, t) == t + Offset(zone, t)                  (* getZonedParts *)

(* In two passes, so that a change between the guess and the instant still *)
(* lands.                                                                  *)
ZonedTimeToUtc(zone, local) ==
  LET first == Offset(zone, local)
      second == Offset(zone, local - first)
  IN IF second # first THEN local - second ELSE local - first

Deadline(day) == 24 * day + WorkEnd

Resolve(zone) ==
  /\ walk.phase = "walking" /\ walk.counted = walk.days
  /\ walk' = [walk EXCEPT !.phase = "due", !.zone = zone,
                          !.due = ZonedTimeToUtc(zone, Deadline(walk.cursor))]

(* Bound: the change is within sixteen hours of the deadline.             *)
DaysNext ==
  \/ \E holiday \in BOOLEAN : WalkADay(holiday)
  \/ NoDueDate
  \/ \E before, after \in Offsets, shift \in -16..16 :
       Resolve([before |-> before, after |-> after, change |-> Deadline(walk.cursor) + shift])

DaysSpec == DaysInit /\ [][DaysNext]_walk

----------------------------------------------------------------------------
WorkingDays(d) == Cardinality({e \in 1..d : WorksOn(e) /\ e \notin walk.holidays})
Exists(zone, local) == \E z \in Offsets : LocalClock(zone, local - z) = local

(* A deadline is at the end of business of the first day by which as many  *)
(* working days have passed as were asked for, the arrival's own not       *)
(* counting, on the office's own clock whenever that hour exists on it     *)
(* ("a DST transition ... still lands correctly").  The walk gives up only *)
(* when three working days or more were holidays                           *)
(* (business-hours.util.ts:88-112, 124-185).                               *)
DeadlineIsNthWorkingDay ==
  /\ walk.phase = "due" =>
       /\ WorkingDays(walk.cursor) = walk.days
       /\ WorkingDays(walk.cursor - 1) = walk.days - 1
       /\ Exists(walk.zone, Deadline(walk.cursor)) =>
            LocalClock(walk.zone, walk.due) = Deadline(walk.cursor)
  /\ walk.phase = "failed" => Cardinality(walk.holidays) > 2
=============================================================================
