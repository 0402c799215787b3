---------------------------- MODULE SessionBook ----------------------------
(***************************************************************************)
(* What a sign-in is promised to be:  a session of one account, in one     *)
(* scope, that goes back to one password; it can never become another's or *)
(* anything else's, and once it is over it never begins again.  How many   *)
(* tokens carry it is nobody's business here.  Sessions implements this    *)
(* book.                                                                   *)
(***************************************************************************)
CONSTANTS Families, Admins, Scopes, Eras

VARIABLE session    (* session[f]: the session of family f, if it has one  *)

NoSession == [state |-> "none"]

Session == [state : {"open", "over"}, owner : Admins, scope : Scopes, era : Eras]

TypeOK == session \in [Families -> Session \cup {NoSession}]

Init == session = [f \in Families |-> NoSession]

SignIn(f, a, s, e) ==
  /\ session[f] = NoSession
  /\ session' = [session EXCEPT ![f] = [state |-> "open", owner |-> a, scope |-> s, era |-> e]]

(* What may become of a session: nothing, its end, or to be forgotten.     *)
Later(x) == IF x = NoSession THEN {NoSession} ELSE {x, [x EXCEPT !.state = "over"], NoSession}

(* Several may end at once: an account leaves, or the server stops.        *)
Pass ==
  /\ session' = [f \in Families |-> session'[f]]
  /\ \A f \in Families : session'[f] \in Later(session[f])

Next ==
  \/ \E f \in Families, a \in Admins, s \in Scopes, e \in Eras : SignIn(f, a, s, e)
  \/ Pass

Spec == Init /\ [][Next]_session
============================================================================
