----------------------------- MODULE HourBoard -----------------------------
(***************************************************************************)
(* What the discovery desk promises about hours, whoever is writing:  an   *)
(* hour has at most one session on it, a session sits on at most one hour, *)
(* and an hour changes hands only by being given up first.  The booking    *)
(* service (Booking.tla) implements this board.                            *)
(***************************************************************************)
CONSTANTS
  Bookings,   (* the sessions that may ever ask for an hour                *)
  Hours,      (* the hours a session may hold                              *)
  NoHour      (* "holds none"                                              *)

VARIABLE held  (* held[b]: the hour session b holds, or NoHour             *)

TypeOK == held \in [Bookings -> Hours \cup {NoHour}]

Free(h) == \A b \in Bookings : held[b] # h

Init == held = [b \in Bookings |-> NoHour]

(* A session without an hour takes a free one.                             *)
Take(b, h) ==
  /\ held[b] = NoHour
  /\ Free(h)
  /\ held' = [held EXCEPT ![b] = h]

(* A session exchanges its hour for a free one in a single step.           *)
Move(b, h) ==
  /\ held[b] # NoHour
  /\ Free(h)
  /\ held' = [held EXCEPT ![b] = h]

Release(b) ==
  /\ held[b] # NoHour
  /\ held' = [held EXCEPT ![b] = NoHour]

Next ==
  \E b \in Bookings :
    \/ Release(b)
    \/ \E h \in Hours : Take(b, h) \/ Move(b, h)

Spec == Init /\ [][Next]_held
============================================================================
