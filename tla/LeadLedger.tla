----------------------------- MODULE LeadLedger -----------------------------
(***************************************************************************)
(* What the sales deck is promised about its records, however often it     *)
(* sends one:  a record is entered once, under a reference no other record *)
(* has, the entry is never changed, and whoever is told or shown a         *)
(* reference is told the entry's.  DeckCapture implements this ledger.     *)
(***************************************************************************)
CONSTANTS
  Records,
  Refs,       (* the references there are                                  *)
  NoRef       (* "not entered"                                             *)

VARIABLES
  entry,      (* entry[k]: the reference of record k, or NoRef             *)
  told,       (* told[k]: the references the deck was told for k           *)
  rung        (* the references the panel announced                        *)

ledgerVars == <<entry, told, rung>>

TypeOK ==
  /\ entry \in [Records -> Refs \cup {NoRef}]
  /\ told \in [Records -> SUBSET Refs]
  /\ rung \in SUBSET Refs

Init ==
  /\ entry = [k \in Records |-> NoRef]
  /\ told = [k \in Records |-> {}]
  /\ rung = {}

Enter(k, r) ==
  /\ entry[k] = NoRef
  /\ \A j \in Records : entry[j] # r
  /\ entry' = [entry EXCEPT ![k] = r]
  /\ UNCHANGED <<told, rung>>

(* An answer, with or without the bell.                                    *)
Answer(k) ==
  /\ entry[k] # NoRef
  /\ told' = [told EXCEPT ![k] = @ \cup {entry[k]}]
  /\ rung' \in {rung, rung \cup {entry[k]}}
  /\ UNCHANGED entry

Next == \E k \in Records : Answer(k) \/ \E r \in Refs : Enter(k, r)

Spec == Init /\ [][Next]_ledgerVars
=============================================================================
