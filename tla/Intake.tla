------------------------------- MODULE Intake -------------------------------
(***************************************************************************)
(* Forms that bring files: crane quote requests, IT job applications and   *)
(* crane job applications (the three submit handlers, over FileStore).     *)
(*                                                                         *)
(* Files are uploaded one by one, a transaction writes the record, a       *)
(* notification is recorded, and what goes wrong is cleaned up by hand,    *)
(* in each form differently.  Validation, spam scoring and letters, which  *)
(* never fail a request, are left out, and so is the duplicate check.      *)
(***************************************************************************)
EXTENDS FileStore, Naturals, FiniteSets

CONSTANTS
  Submissions,  (* submissions made to the forms                           *)
  MaxFiles,     (* the most files one submission brings                    *)
  NoFile

ASSUME IntakeAssumption == MaxFiles \in Nat \ {0} /\ NoFile \notin Files

VARIABLES
  sub,      (* what the server does for each submission, and its record    *)
  ordered   (* history: files whose removal somebody at the desk ordered   *)

intakeVars == <<object, registry, removing, sub, ordered>>

Forms == {"quote", "job", "crane"}

Submission ==
  [form   : Forms,
   pc     : {"idle", "upload", "scan", "register", "notify", "discard", "done"},
   want   : 0..MaxFiles,          (* files the form brings                 *)
   hand   : Files \cup {NoFile},  (* the file being uploaded               *)
   cv     : Files \cup {NoFile},  (* the first file of a crane application *)
   stored : SUBSET Files,         (* uploaded so far, not cleaned up       *)
   holds  : SUBSET Files,         (* the files the record refers to        *)
   written : BOOLEAN,             (* the transaction has committed         *)
   lost   : SUBSET Files,         (* history: files its clean-up removed   *)
   answer : {"none", "accepted", "failed"}]

NoSubmission ==
  [form |-> "quote", pc |-> "idle", want |-> 0, hand |-> NoFile, cv |-> NoFile,
   stored |-> {}, holds |-> {}, written |-> FALSE, lost |-> {}, answer |-> "none"]

IntakeTypeOK ==
  /\ FileStoreTypeOK
  /\ sub \in [Submissions -> Submission]
  /\ ordered \in SUBSET Files

IntakeInit ==
  /\ FileStoreInit
  /\ sub = [s \in Submissions |-> NoSubmission]
  /\ ordered = {}

----------------------------------------------------------------------------
Serving(s, pc) == sub[s].pc = pc

(* The checks passed: a quote may bring no file, an application brings one *)
(* and a crane application its certificates as well.                       *)
Receive(s, form, n) ==
  /\ Serving(s, "idle")
  /\ form # "quote" => n > 0
  /\ form = "job" => n = 1
  /\ sub' = [sub EXCEPT ![s].form = form, ![s].want = n, ![s].pc = "upload"]
  /\ UNCHANGED <<storeVars, ordered>>

(* An upload throws: only the crane form has its uploads under a catch.    *)
AfterUploadThrew(x) ==
  [x EXCEPT !.pc = IF x.form = "crane" THEN "discard" ELSE "done",
            !.hand = NoFile, !.answer = "failed"]

Put(s, f) ==
  /\ Serving(s, "upload") /\ Cardinality(sub[s].stored) < sub[s].want
  /\ PutObject(f)
  /\ sub' = [sub EXCEPT ![s].hand = f, ![s].pc = "scan"]
  /\ UNCHANGED ordered

PutFails(s) ==
  /\ Serving(s, "upload") /\ Cardinality(sub[s].stored) < sub[s].want
  /\ sub' = [sub EXCEPT ![s] = AfterUploadThrew(@)]
  /\ UNCHANGED <<storeVars, ordered>>

ScanPasses(s) ==
  /\ Serving(s, "scan")
  /\ sub' = [sub EXCEPT ![s].pc = "register"]
  /\ UNCHANGED <<storeVars, ordered>>

ScanRejects(s) ==
  /\ Serving(s, "scan")
  /\ RejectObject(sub[s].hand)
  /\ sub' = [sub EXCEPT ![s] = AfterUploadThrew(@)]
  /\ UNCHANGED ordered

Register(s) ==
  /\ Serving(s, "register")
  /\ SaveRow(sub[s].hand)
  /\ sub' = [sub EXCEPT ![s].pc = "upload", ![s].hand = NoFile,
                        ![s].stored = @ \cup {sub[s].hand},
                        ![s].cv = IF sub[s].form = "crane" /\ @ = NoFile THEN sub[s].hand ELSE @]
  /\ UNCHANGED ordered

(* The object stays behind without a row.                                  *)
RegisterFails(s) ==
  /\ Serving(s, "register")
  /\ sub' = [sub EXCEPT ![s] = AfterUploadThrew(@)]
  /\ UNCHANGED <<storeVars, ordered>>

Ready(s) == Serving(s, "upload") /\ Cardinality(sub[s].stored) = sub[s].want

(* Mutant: the crane form's certificates are linked without the last one.  *)
RecordWithoutOne(x) ==
  {[x EXCEPT !.pc = "notify", !.written = TRUE, !.holds = h] :
     h \in {g \in SUBSET x.stored : Cardinality(x.stored \ g) = 1}}

(* The record as the transaction writes it.                                *)
Recorded(x) == {[x EXCEPT !.pc = "notify", !.written = TRUE, !.holds = x.stored]}

(* The references are foreign keys, so every row must still be there.      *)
Commit(s) ==
  /\ Ready(s)
  /\ \A f \in sub[s].stored : registry[f] = "live"
  /\ \E x \in Recorded(sub[s]) : sub' = [sub EXCEPT ![s] = x]
  /\ UNCHANGED <<storeVars, ordered>>

CommitFails(s) ==
  /\ Ready(s)
  /\ sub' = [sub EXCEPT ![s].answer = "failed",
                        ![s].pc = IF sub[s].form = "crane" THEN "done" ELSE "discard"]
  /\ UNCHANGED <<storeVars, ordered>>

(* The letters are away and the last event is on the timeline.             *)
Notified(s) ==
  /\ Serving(s, "notify")
  /\ sub' = [sub EXCEPT ![s].pc = "done", ![s].answer = "accepted"]
  /\ UNCHANGED <<storeVars, ordered>>

(* Mutant: the answer is given before the event is awaited.                *)
NotifyFailsUnseen(s) ==
  /\ Serving(s, "notify")
  /\ sub' = [sub EXCEPT ![s].answer = "accepted", ![s].pc = "discard"]
  /\ UNCHANGED <<storeVars, ordered>>

(* The catch of the quote and job forms covers the committed record too.   *)
NotifyFails(s) ==
  /\ Serving(s, "notify")
  /\ sub' = [sub EXCEPT ![s].answer = "failed",
                        ![s].pc = IF sub[s].form = "crane" THEN "done" ELSE "discard"]
  /\ UNCHANGED <<storeVars, ordered>>

----------------------------------------------------------------------------
(* crane_applications keeps its CV and the moment it came together (a      *)
(* CHECK), so a row that a written application names as its CV cannot go:  *)
(* ON DELETE SET NULL would clear the one without the other.               *)
NamedAsCv(f) == \E s \in Submissions : sub[s].written /\ sub[s].cv = f /\ f \in sub[s].holds

(* The other references follow the row: set null, or the link cascades.    *)
Unlinked(f) == [s \in Submissions |-> [sub[s] EXCEPT !.holds = @ \ {f}]]

(* The clean-up, best effort: a file that cannot be removed is skipped.    *)
DiscardObject(s, f) ==
  /\ Serving(s, "discard") /\ f \in sub[s].stored \ removing
  /\ RemoveObject(f)
  /\ sub' = [sub EXCEPT ![s].lost = @ \cup {f}]
  /\ UNCHANGED ordered

DiscardRow(s, f) ==
  /\ Serving(s, "discard") /\ f \in sub[s].stored
  /\ ~ NamedAsCv(f)
  /\ RemoveRow(f)
  /\ sub' = [Unlinked(f) EXCEPT ![s].stored = @ \ {f}]
  /\ UNCHANGED ordered

DiscardFails(s, f) ==
  /\ Serving(s, "discard") /\ f \in sub[s].stored
  /\ \/ RemoveRowFails(f)
     \/ f \notin removing /\ UNCHANGED storeVars
  /\ sub' = [sub EXCEPT ![s].stored = @ \ {f}]
  /\ UNCHANGED ordered

Discarded(s) ==
  /\ Serving(s, "discard") /\ sub[s].stored = {}
  /\ sub' = [sub EXCEPT ![s].pc = "done"]
  /\ UNCHANGED <<storeVars, ordered>>

(* DELETE /admin/files/:id, the retention purge, a withdrawal.             *)
OrderRemoval(f) ==
  /\ f \notin removing
  /\ RemoveObject(f)
  /\ ordered' = ordered \cup {f}
  /\ UNCHANGED sub

FinishRemoval(f) ==
  /\ f \in ordered
  /\ \/ ~ NamedAsCv(f) /\ RemoveRow(f) /\ sub' = Unlinked(f)
     \/ RemoveRowFails(f) /\ UNCHANGED sub
  /\ UNCHANGED ordered

(* The server stops: what it was serving is not taken up again.            *)
Stop ==
  /\ \E s \in Submissions : sub[s].pc \notin {"idle", "done"}
  /\ StoreStops
  /\ sub' = [s \in Submissions |->
               [sub[s] EXCEPT !.pc = IF @ = "idle" THEN @ ELSE "done", !.hand = NoFile]]
  /\ UNCHANGED ordered

IntakeNext ==
  \/ Stop
  \/ \E f \in Files : OrderRemoval(f) \/ FinishRemoval(f)
  \/ \E s \in Submissions :
       \/ \E form \in Forms, n \in 0..MaxFiles : Receive(s, form, n)
       \/ PutFails(s) \/ ScanPasses(s) \/ ScanRejects(s) \/ Register(s) \/ RegisterFails(s)
       \/ Commit(s) \/ CommitFails(s) \/ Notified(s) \/ NotifyFails(s) \/ Discarded(s)
       \/ \E f \in Files : Put(s, f) \/ DiscardObject(s, f) \/ DiscardRow(s, f) \/ DiscardFails(s, f)

IntakeSpec == IntakeInit /\ [][IntakeNext]_intakeVars

----------------------------------------------------------------------------
(* A removal cut off between object and row leaves a row without its bytes *)
(* (files.service.ts:305-309), and nothing else does: somebody ordered     *)
(* that removal, or a form's clean-up began it, whose sender was told that *)
(* the submission failed (crane-quote.service.ts:486-496).  No overlapping *)
(* submission, scan or stop takes the bytes from under a row.              *)
RowsNameStoredBytes ==
  \A f \in Files : registry[f] = "live" =>
    \/ object[f] = "stored"
    \/ f \in ordered
    \/ \E s \in Submissions : f \in sub[s].lost /\ sub[s].answer = "failed"

(* Bucket and registry tell of each other, in both directions: a row that  *)
(* is gone took its object with it, a row that is there has its object,    *)
(* but for removals that were called for and cut off in between.           *)
RowsAndObjectsAgree == RowsOutliveObjects /\ RowsNameStoredBytes

(* A sender who was told the submission was accepted has a record with     *)
(* every file in place: only a removal somebody ordered takes one away,    *)
(* never the clean-up and never an overlapping submission.  An error after *)
(* the commit must therefore reach the sender as a failure                 *)
(* (crane-quote.service.ts:462-496, application.service.ts:300-352).       *)
AcceptedKeepsItsFiles ==
  \A s \in Submissions : sub[s].answer = "accepted" =>
    /\ sub[s].written
    /\ Cardinality(sub[s].stored) = sub[s].want
    /\ \A f \in sub[s].stored \ ordered :
         f \in sub[s].holds /\ object[f] = "stored" /\ registry[f] = "live"

(* The clean-up of the crane form is for uploads that failed: once an      *)
(* application is written, nothing that fails afterwards takes its files   *)
(* (crane-application.service.ts:166-186, 240-262).                        *)
CleanUpSparesCraneRecords ==
  \A s \in Submissions : sub[s].form = "crane" /\ sub[s].written => sub[s].lost = {}
=============================================================================
