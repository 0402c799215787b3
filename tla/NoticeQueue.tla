---------------------------- MODULE NoticeQueue ----------------------------
(***************************************************************************)
(* Hospitals waiting to hear that a module has shipped                     *)
(* (knode-demo/knode-demo.service.ts): a batch selects who is waiting and  *)
(* then, in one transaction, stamps them and writes an event for each; one *)
(* request at a time is stamped or cleared by hand, in two statements.     *)
(* Demo requests, which have statuses instead, are left out.               *)
(***************************************************************************)
CONSTANTS
  Notices,   (* requests with the intent NOTIFY                            *)
  Tellers    (* requests the server may be serving at one moment           *)

VARIABLES
  notified,  (* who has a notifiedAt                                       *)
  trail,     (* the last NOTIFIED event of each timeline                   *)
  teller,    (* the requests being served                                  *)
  again,     (* history: told by a batch while they were stamped already   *)
  crossed    (* history: worked on by two requests at once, or left halfway*)

noticeVars == <<notified, trail, teller, again, crossed>>

Teller == [stage : {"idle", "batch", "set", "event"}, on : SUBSET Notices, stamp : BOOLEAN]
NoTeller == [stage |-> "idle", on |-> {}, stamp |-> FALSE]

NoticesTypeOK ==
  /\ notified \in SUBSET Notices
  /\ trail \in [Notices -> BOOLEAN]
  /\ teller \in [Tellers -> Teller]
  /\ again \in SUBSET Notices
  /\ crossed \in SUBSET Notices

(* A timeline without the event reads as not told.                         *)
NoticesInit ==
  /\ notified = {}
  /\ trail = [n \in Notices |-> FALSE]
  /\ teller = [t \in Tellers |-> NoTeller]
  /\ again = {}
  /\ crossed = {}

----------------------------------------------------------------------------
TakeUp(t, stage, on, stamp) ==
  /\ teller[t].stage = "idle" /\ on # {}
  /\ teller' = [teller EXCEPT ![t] = [stage |-> stage, on |-> on, stamp |-> stamp]]
  /\ crossed' = crossed \cup {n \in on : \E u \in Tellers : n \in teller[u].on}
  /\ UNCHANGED <<notified, trail, again>>

(* Mutant: a second run of the batch stamps everybody anew.                *)
Everybody(asked) == asked

(* notifiedAt IS NULL.                                                     *)
Waiting(asked) == asked \ notified

(* asked: those who asked for the module, or the ids picked among them.    *)
SelectWaiting(t, asked) == TakeUp(t, "batch", Waiting(asked), TRUE)

MarkBatch(t) ==
  /\ teller[t].stage = "batch"
  /\ notified' = notified \cup teller[t].on
  /\ trail' = [n \in Notices |-> trail[n] \/ n \in teller[t].on]
  /\ again' = again \cup (teller[t].on \cap notified)
  /\ teller' = [teller EXCEPT ![t] = NoTeller]
  /\ UNCHANGED crossed

SetNotified(t, n, stamp) ==
  /\ (n \in notified) # stamp
  /\ TakeUp(t, "set", {n}, stamp)

SetNotifiedWrite(t) ==
  /\ teller[t].stage = "set"
  /\ notified' = IF teller[t].stamp THEN notified \cup teller[t].on ELSE notified \ teller[t].on
  /\ teller' = [teller EXCEPT ![t].stage = "event"]
  /\ UNCHANGED <<trail, again, crossed>>

SetNotifiedEvent(t) ==
  /\ teller[t].stage = "event"
  /\ trail' = [n \in Notices |-> IF n \in teller[t].on THEN teller[t].stamp ELSE trail[n]]
  /\ teller' = [teller EXCEPT ![t] = NoTeller]
  /\ UNCHANGED <<notified, again, crossed>>

(* A statement fails, or the server stops.                                 *)
TellerStops(t) ==
  /\ teller[t].stage # "idle"
  /\ crossed' = IF teller[t].stage = "event" THEN crossed \cup teller[t].on ELSE crossed
  /\ teller' = [teller EXCEPT ![t] = NoTeller]
  /\ UNCHANGED <<notified, trail, again>>

NoticesNext ==
  \E t \in Tellers :
    \/ MarkBatch(t) \/ SetNotifiedWrite(t) \/ SetNotifiedEvent(t) \/ TellerStops(t)
    \/ \E asked \in SUBSET Notices : SelectWaiting(t, asked)
    \/ \E n \in Notices, stamp \in BOOLEAN : SetNotified(t, n, stamp)

NoticesSpec == NoticesInit /\ [][NoticesNext]_noticeVars

----------------------------------------------------------------------------
(* "Already-notified rows are skipped rather than re-stamped, so running   *)
(* it twice after a partial send is safe" (knode-demo.service.ts:549): who *)
(* was told is told again, or has a stamp that the timeline does not       *)
(* explain, only after two requests worked on them at once or one stopped  *)
(* between its stamp and its event.                                        *)
ToldOnce ==
  /\ again \subseteq crossed
  /\ \A n \in Notices \ crossed :
       trail[n] # (n \in notified) => \E t \in Tellers : teller[t].stage = "event" /\ n \in teller[t].on
=============================================================================
