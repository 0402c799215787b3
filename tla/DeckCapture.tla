---------------------------- MODULE DeckCapture ----------------------------
(***************************************************************************)
(* Leads from the sales deck (knode/knode.service.ts, capture).  The deck  *)
(* queues what a rep records and sends it, again and again, until it is    *)
(* told a reference; an answer may be lost, and a record may be sent while *)
(* an earlier attempt is still being served.  The desk's own moves on a    *)
(* lead are left out.                                                      *)
(***************************************************************************)
EXTENDS Naturals

CONSTANTS
  Records,   (* records the deck made, each with its clientKey             *)
  Attempts,  (* requests the server may be serving at one moment           *)
  MaxDraw,   (* bound: numbers the sequence gives out                      *)
  NoRecord

ASSUME CaptureAssumption == MaxDraw \in Nat /\ NoRecord \notin Records

VARIABLES
  lead,      (* knode_leads: the key and the reference of each row         *)
  drawn,     (* the sequence's last number                                 *)
  attempt,   (* the requests being served                                  *)
  told,      (* the references the deck was told, by record                *)
  rung       (* the references the panel's bell announced                  *)

deckVars == <<lead, drawn, attempt, told, rung>>

Refs == 1..MaxDraw
Attempt == [stage : {"idle", "write", "bell"}, key : Records \cup {NoRecord}, ref : 0..MaxDraw]
NoAttempt == [stage |-> "idle", key |-> NoRecord, ref |-> 0]

DeckTypeOK ==
  /\ lead \in SUBSET (Records \X Refs)
  /\ drawn \in 0..MaxDraw
  /\ attempt \in [Attempts -> Attempt]
  /\ told \in [Records -> SUBSET Refs]
  /\ rung \in SUBSET Refs

DeckInit ==
  /\ lead = {}
  /\ drawn = 0
  /\ attempt = [a \in Attempts |-> NoAttempt]
  /\ told = [k \in Records |-> {}]
  /\ rung = {}

----------------------------------------------------------------------------
RefsOf(k) == {r \in Refs : <<k, r>> \in lead}

(* A record that is on file already: the same reference back.              *)
CaptureAgain(k, r) ==
  /\ <<k, r>> \in lead
  /\ told' = [told EXCEPT ![k] = @ \cup {r}]
  /\ UNCHANGED <<lead, drawn, attempt, rung>>

Capture(a, k) ==
  /\ attempt[a].stage = "idle" /\ RefsOf(k) = {}
  /\ attempt' = [attempt EXCEPT ![a] = [stage |-> "write", key |-> k, ref |-> 0]]
  /\ UNCHANGED <<lead, drawn, told, rung>>

(* Mutant: client_key has an index, but not a unique one.                  *)
NotKept(k) == TRUE

(* client_key is unique.                                                   *)
KeyIsNew(k) == RefsOf(k) = {}

(* The transaction.  The number is drawn from a sequence, which does not   *)
(* give it back when the insert violates the key or fails otherwise.       *)
CaptureWrite(a) ==
  /\ attempt[a].stage = "write" /\ drawn < MaxDraw
  /\ KeyIsNew(attempt[a].key)
  /\ drawn' = drawn + 1
  /\ lead' = lead \cup {<<attempt[a].key, drawn + 1>>}
  /\ attempt' = [attempt EXCEPT ![a].stage = "bell", ![a].ref = drawn + 1]
  /\ UNCHANGED <<told, rung>>

CaptureFails(a) ==
  /\ attempt[a].stage = "write"
  /\ drawn' \in {drawn} \cup {d \in Refs : d = drawn + 1}
  /\ attempt' = [attempt EXCEPT ![a] = NoAttempt]
  /\ UNCHANGED <<lead, told, rung>>

(* raise never fails its caller.                                           *)
CaptureBell(a) ==
  /\ attempt[a].stage = "bell"
  /\ rung' \in {rung, rung \cup {attempt[a].ref}}
  /\ told' = [told EXCEPT ![attempt[a].key] = @ \cup {attempt[a].ref}]
  /\ attempt' = [attempt EXCEPT ![a] = NoAttempt]
  /\ UNCHANGED <<lead, drawn>>

(* The server stops: nothing more is done, and nobody is answered.         *)
DeckServerStops ==
  /\ \E a \in Attempts : attempt[a].stage # "idle"
  /\ attempt' = [a \in Attempts |-> NoAttempt]
  /\ UNCHANGED <<lead, drawn, told, rung>>

DeckNext ==
  \/ DeckServerStops
  \/ \E k \in Records, r \in Refs : CaptureAgain(k, r)
  \/ \E a \in Attempts :
       \/ CaptureWrite(a) \/ CaptureFails(a) \/ CaptureBell(a)
       \/ \E k \in Records : Capture(a, k)

DeckSpec == DeckInit /\ [][DeckNext]_deckVars

----------------------------------------------------------------------------
(* "A deck retrying a queued record gets the same reference back and       *)
(* nothing is written twice" (knode.service.ts:107-115): however attempts  *)
(* overlap, are lost or are cut off, a record has one lead, every answer   *)
(* names it, and the bell announced only leads that are there.             *)
RetriesShareOneLead ==
  /\ \A k \in Records :
       /\ \A r, s \in Refs : <<k, r>> \in lead /\ <<k, s>> \in lead => r = s
       /\ \A r \in told[k] : <<k, r>> \in lead
  /\ \A k, j \in Records, r \in Refs : <<k, r>> \in lead /\ <<j, r>> \in lead => k = j
  /\ \A r \in rung : \E k \in Records : <<k, r>> \in lead

(* The deck may take its leads for entries of a ledger: made once, never   *)
(* changed, and the same in every answer and announcement, however         *)
(* attempts overlap, are lost or are cut off (knode.service.ts:107-115:    *)
(* "A deck retrying a queued record gets the same reference back").        *)
EntryOf == [k \in Records |-> IF RefsOf(k) = {} THEN 0 ELSE CHOOSE r \in RefsOf(k) : TRUE]
Ledger == INSTANCE LeadLedger WITH entry <- EntryOf, NoRef <- 0
ImplementsLeadLedger == Ledger!Spec
=============================================================================
