-------------------------- MODULE RosteredSessions --------------------------
(***************************************************************************)
(* Bookings and the roster at work together: a session is given to an      *)
(* active architect, and whoever leaves the roster or records leave first  *)
(* looks for sessions (deactivate, createBlackout and findBookingConflicts *)
(* in discovery/architect.service.ts, assign in booking.service.ts).       *)
(*                                                                         *)
(* Bound: the day before, so that every hour is ahead, as in Roster.       *)
(***************************************************************************)
EXTENDS Booking

CONSTANTS Absences, Planners, Everyone, NoAbsence

VARIABLES active, rule, absence, opening, planner, excused

Desk == INSTANCE Roster WITH Experts <- Architects, Times <- SessionHours

deskVars == <<active, rule, absence, opening, planner, excused>>
rosteredVars == <<vars, deskVars>>

RosteredInit == Init /\ Desk!RosterInit

----------------------------------------------------------------------------
(* booking.slotId: book reserves an hour, and no slot.                     *)
SlotOf(b) == None

(* findBookingConflicts, and the count deactivate makes: confirmed         *)
(* sessions joined to their slots, so that those without one drop out.     *)
Conflicts(of, hours) ==
  {b \in Bookings : /\ booking[b].status = "BOOKED"
                    /\ SlotOf(b) # None /\ booking[b].hour \in hours
                    /\ of \in {booking[b].architect, Everyone}}

(* assign takes architects that are active when it looks.                  *)
SessionsMove ==
  /\ Next /\ now' = now
  /\ \A r \in Requests :
       req[r].pc = "idle" /\ req'[r].op = "assign" => req'[r].architect \in active
  /\ UNCHANGED deskVars

BlackoutsLook ==
  \A a \in Absences :
    absence'[a] # absence[a] => Conflicts(absence'[a].of, absence'[a].hours) = {}

DeactivationLooks ==
  \A p \in Planners :
    planner[p].stage = "idle" /\ planner'[p].stage = "deactivate"
      => Conflicts(planner'[p].who, SessionHours) = {}

RosterMoves ==
  /\ Desk!RosterNext
  /\ BlackoutsLook /\ DeactivationLooks
  /\ UNCHANGED vars

RosteredSpec == RosteredInit /\ [][SessionsMove \/ RosterMoves]_rosteredVars

----------------------------------------------------------------------------
(* createBlackout "refuses rather than silently cancelling if the period   *)
(* already contains a confirmed session" (architect.service.ts:354-355):   *)
(* no blackout comes to lie on a session that was confirmed, with nobody   *)
(* else at work.                                                           *)
BlackoutsSpareSessions ==
  [][\A a \in Absences, b \in Bookings :
       Quiet /\ booking[b].status = "BOOKED" /\ absence[a] = Desk!NotAway
         => ~ Desk!Covers(absence'[a], <<booking[b].architect, booking[b].hour>>)]_rosteredVars
=============================================================================
