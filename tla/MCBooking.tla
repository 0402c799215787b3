----------------------------- MODULE MCBooking -----------------------------
(* Instances of Booking for TLC.                                           *)
EXTENDS Booking, TLC

Symmetry == Permutations(Bookings) \cup Permutations(Requests) \cup Permutations(Architects)

(* No guard reads the letters or the bell, so a run whose properties do    *)
(* not mention them may identify the states that differ only there.        *)
WithoutMail == <<booking, timeline, req, now, asked>>
============================================================================
