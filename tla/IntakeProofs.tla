----------------------------- MODULE IntakeProofs -----------------------------
(***************************************************************************)
(* Proofs about Intake: what the three forms and the store of files keep   *)
(* to, for any number of files and submissions, failures and stops included.*)
(***************************************************************************)
EXTENDS Intake, TLAPS

(* How far a submission is, and what that says of its record.              *)
Shape(x) ==
  /\ x.pc \in {"scan", "register"} <=> x.hand # NoFile
  /\ x.pc \in {"idle", "upload", "scan", "register"} => ~ x.written /\ x.lost = {} /\ x.answer = "none"
  /\ x.pc = "idle" => x.stored = {}
  /\ x.pc = "discard" => x.answer = "failed"
  /\ x.answer = "accepted" => x.pc = "done"
  /\ x.pc = "notify" \/ x.answer = "accepted" =>
       x.written /\ Cardinality(x.stored) = x.want /\ x.lost = {}
  /\ x.form = "crane" /\ x.written => x.pc \in {"notify", "done"} /\ x.lost = {}

(* The file being uploaded is in the bucket, and nobody can remove it yet. *)
HandOK(x) ==
  x.hand # NoFile => object[x.hand] = "stored" /\ registry[x.hand] = "never" /\ x.hand \notin removing

(* Until something goes wrong, only an order takes an uploaded file.       *)
Holding(x) == x.pc \in {"upload", "scan", "register", "notify"} \/ x.answer = "accepted"
FilesOK(x) ==
  /\ \A f \in x.stored : object[f] # "never"
  /\ Holding(x) => \A f \in x.stored \ ordered :
                  object[f] = "stored" /\ registry[f] = "live" /\ f \notin removing
  /\ x.pc = "notify" \/ x.answer = "accepted" => x.stored \ ordered \subseteq x.holds

Apart(x, y) ==
  /\ x.stored \cap y.stored = {}
  /\ x.hand \notin y.stored /\ y.hand \notin x.stored
  /\ x.hand = y.hand => x.hand = NoFile

StoreOK ==
  /\ \A f \in removing : registry[f] = "live" /\ object[f] = "removed"
  /\ \A f \in Files : object[f] = "never" => registry[f] = "never"
  /\ RowsOutliveObjects

IntakeInv ==
  /\ IntakeTypeOK
  /\ StoreOK
  /\ \A s \in Submissions : /\ Shape(sub[s]) /\ HandOK(sub[s]) /\ FilesOK(sub[s])
                            /\ sub[s].hand \notin sub[s].stored
  /\ \A s, t \in Submissions : s # t => Apart(sub[s], sub[t])

LEMMA IntakeInitially == IntakeInit => IntakeInv
<1> SUFFICES ASSUME IntakeInit PROVE IntakeInv
  OBVIOUS
<1> DEFINE x == NoSubmission
<1>1. /\ x \in Submission /\ x.pc = "idle" /\ x.hand = NoFile /\ x.stored = {} /\ ~ x.written
      /\ x.lost = {} /\ x.answer = "none"
  BY IntakeAssumption DEF NoSubmission, Submission, Forms
<1>2. \A s \in Submissions : sub[s] = x
  BY DEF IntakeInit
<1>3. IntakeTypeOK /\ StoreOK
  BY <1>1 DEF IntakeInit, IntakeTypeOK, FileStoreInit, FileStoreTypeOK, StoreOK, RowsOutliveObjects
<1> HIDE DEF x
<1> QED
  BY <1>1, <1>2, <1>3 DEF IntakeInv, Shape, HandOK, FilesOK, Holding, Apart

Own(x) == x.stored \cup ({x.hand} \ {NoFile})

(* All but the links of the record.                                        *)
Alike(x, y) ==
  /\ y.form = x.form /\ y.pc = x.pc /\ y.want = x.want /\ y.hand = x.hand /\ y.stored = x.stored
  /\ y.written = x.written /\ y.lost = x.lost /\ y.answer = x.answer

(* A submission that a step leaves alone, but for links of files that are  *)
(* not its own: its files are as they were, or somebody ordered them away. *)
LEMMA Untouched ==
  ASSUME NEW x, NEW y, Shape(x), HandOK(x), FilesOK(x), Alike(x, y),
         \A f \in x.stored \ ordered' : f \in x.holds => f \in y.holds,
         ordered \subseteq ordered',
         \A f \in x.stored : object'[f] = "never" => object[f] = "never",
         \A f \in x.stored \ ordered' : /\ object'[f] = object[f] /\ registry'[f] = registry[f]
                                        /\ f \in removing' => f \in removing,
         x.hand # NoFile => /\ object'[x.hand] = object[x.hand] /\ registry'[x.hand] = registry[x.hand]
                            /\ x.hand \in removing' => x.hand \in removing
  PROVE  Shape(y) /\ HandOK(y)' /\ FilesOK(y)'
<1>1. Shape(y)
  BY DEF Shape, Alike
<1>2. HandOK(y)'
  BY DEF HandOK, Alike
<1>3. \A f \in y.stored : object'[f] # "never"
  BY DEF FilesOK, Alike
<1>4. Holding(y) => \A f \in y.stored \ ordered' : object'[f] = "stored" /\ registry'[f] = "live" /\ f \notin removing'
  <2> SUFFICES ASSUME Holding(y), NEW f \in y.stored \ ordered'
               PROVE  object'[f] = "stored" /\ registry'[f] = "live" /\ f \notin removing'
    OBVIOUS
  <2>1. Holding(x) /\ f \in x.stored \ ordered
    BY DEF Holding, Alike
  <2> QED
    BY <2>1 DEF FilesOK, Alike
<1>5. y.pc = "notify" \/ y.answer = "accepted" => y.stored \ ordered' \subseteq y.holds
  BY DEF FilesOK, Alike
<1> QED
  BY <1>1, <1>2, <1>3, <1>4, <1>5 DEF FilesOK, Holding

(* A step of one submission.  It touches its own files and new ones.       *)
LEMMA StepOfOne ==
  ASSUME IntakeInv, NEW s \in Submissions, NEW x \in Submission,
         sub' \in [Submissions -> Submission], sub'[s] = x, UNCHANGED ordered,
         FileStoreTypeOK', StoreOK',
         Shape(x), HandOK(x)', FilesOK(x)', x.hand \notin x.stored,
         x.stored \subseteq Own(sub[s]),
         x.hand \in {NoFile, sub[s].hand} \/ object[x.hand] = "never",
         \A t \in Submissions \ {s} :
           Alike(sub[t], sub'[t]) /\ \A f \in sub[t].stored : f \in sub[t].holds => f \in sub'[t].holds,
         \A f \in Files \ Own(sub[s]) : object[f] # "never" =>
           object'[f] = object[f] /\ registry'[f] = registry[f] /\ (f \in removing' => f \in removing)
  PROVE  IntakeInv'
<1>0. \A t \in Submissions : /\ sub[t] \in Submission /\ sub[t].stored \subseteq Files
                             /\ sub[t].hand \in Files \cup {NoFile}
  BY DEF IntakeInv, IntakeTypeOK, Submission
<1>1. IntakeTypeOK'
  BY DEF IntakeInv, IntakeTypeOK
<1>2. ASSUME NEW t \in Submissions \ {s}
      PROVE  Shape(sub[t])' /\ HandOK(sub[t])' /\ FilesOK(sub[t])' /\ sub'[t].hand \notin sub'[t].stored
  <2>1. PICK y \in Submission : y = sub[t]
    BY <1>0
  <2>2. PICK z \in Submission : z = sub'[t]
    BY DEF IntakeInv
  <2>3. /\ Apart(sub[s], y) /\ Shape(y) /\ HandOK(y) /\ FilesOK(y)
        /\ y.hand \notin y.stored /\ y.stored \subseteq Files /\ y.hand \in Files \cup {NoFile}
    BY <1>0, <2>1 DEF IntakeInv
  <2>4. \A f \in y.stored : f \in Files \ Own(sub[s]) /\ object[f] # "never"
    BY <2>3, IntakeAssumption DEF Apart, FilesOK, Own
  <2>5. y.hand # NoFile => y.hand \in Files \ Own(sub[s]) /\ object[y.hand] # "never"
    BY <2>3 DEF Apart, HandOK, Own
  <2>6. /\ \A f \in y.stored : object'[f] = object[f] /\ registry'[f] = registry[f]
                               /\ (f \in removing' => f \in removing)
        /\ y.hand # NoFile => /\ object'[y.hand] = object[y.hand] /\ registry'[y.hand] = registry[y.hand]
                              /\ y.hand \in removing' => y.hand \in removing
    BY <2>4, <2>5
  <2>7. Alike(y, z) /\ \A f \in y.stored \ ordered' : f \in y.holds => f \in z.holds
    BY <2>1, <2>2
  <2>8. Shape(z) /\ HandOK(z)' /\ FilesOK(z)'
    BY <2>3, <2>6, <2>7, Untouched
  <2>9. z.hand \notin z.stored
    BY <2>3, <2>7 DEF Alike
  <2> QED
    BY <2>2, <2>8, <2>9 DEF Shape, HandOK, FilesOK, Holding
<1>3. ASSUME NEW t \in Submissions \ {s} PROVE Apart(x, sub'[t])
  <2>1. Apart(sub[s], sub[t]) /\ HandOK(sub[t]) /\ FilesOK(sub[t]) /\ Alike(sub[t], sub'[t])
    BY <1>3 DEF IntakeInv
  <2>2. \A f \in sub[t].stored : object[f] # "never"
    BY <2>1 DEF FilesOK
  <2>3. sub[t].hand # NoFile => object[sub[t].hand] # "never"
    BY <2>1 DEF HandOK
  <2>4. x.stored \cap sub[t].stored = {} /\ sub[t].hand \notin x.stored
    BY <2>1, <1>0, IntakeAssumption DEF Apart, Own
  <2>5. x.hand \notin sub[t].stored /\ (x.hand = sub[t].hand => x.hand = NoFile)
    BY <2>1, <2>2, <2>3, <1>0, IntakeAssumption DEF Apart
  <2> QED
    BY <2>1, <2>4, <2>5 DEF Apart, Alike
<1>4. \A t, u \in Submissions : t # u => Apart(sub'[t], sub'[u])
  <2> SUFFICES ASSUME NEW t \in Submissions, NEW u \in Submissions, t # u PROVE Apart(sub'[t], sub'[u])
    OBVIOUS
  <2>1. CASE t = s
    BY <1>3, <2>1
  <2>2. CASE u = s
    BY <1>3, <2>2 DEF Apart
  <2>3. CASE t # s /\ u # s
    <3>1. Apart(sub[t], sub[u]) /\ Alike(sub[t], sub'[t]) /\ Alike(sub[u], sub'[u])
      BY <2>3 DEF IntakeInv
    <3> QED
      BY <3>1 DEF Apart, Alike
  <2> QED
    BY <2>1, <2>2, <2>3
<1>5. /\ Shape(sub[s])' /\ HandOK(sub[s])' /\ FilesOK(sub[s])'
      /\ sub'[s].hand \notin sub'[s].stored
  BY DEF Shape, HandOK, FilesOK, Holding
<1> QED
  BY <1>1, <1>2, <1>4, <1>5 DEF IntakeInv

(* A step of one submission that leaves the store alone.                   *)
LEMMA SubmissionMoves ==
  ASSUME IntakeInv, NEW s \in Submissions, NEW x \in Submission,
         sub' = [sub EXCEPT ![s] = x], UNCHANGED <<storeVars, ordered>>,
         Shape(x), x.stored = sub[s].stored, x.hand \in {NoFile, sub[s].hand},
         Holding(x) => Holding(sub[s]) \/ x.stored = {},
         x.pc = "notify" \/ x.answer = "accepted" => x.stored \ ordered \subseteq x.holds
  PROVE  IntakeInv'
<1>1. /\ UNCHANGED <<object, registry, removing, ordered>>
      /\ sub' \in [Submissions -> Submission] /\ sub'[s] = x
      /\ \A t \in Submissions \ {s} : sub'[t] = sub[t]
  BY DEF storeVars, IntakeInv, IntakeTypeOK
<1>2. FileStoreTypeOK' /\ StoreOK'
  BY <1>1 DEF IntakeInv, IntakeTypeOK, FileStoreTypeOK, StoreOK, RowsOutliveObjects
<1>3. /\ Shape(sub[s]) /\ HandOK(sub[s]) /\ FilesOK(sub[s]) /\ sub[s].hand \notin sub[s].stored
      /\ sub[s].stored \subseteq Files
  BY DEF IntakeInv, IntakeTypeOK, Submission
<1>4. HandOK(x)' /\ FilesOK(x)'
  BY <1>1, <1>3 DEF HandOK, FilesOK, Holding
<1>5. x.hand \notin x.stored /\ x.stored \subseteq Own(sub[s])
  BY <1>3, IntakeAssumption DEF Own
<1> QED
  BY <1>1, <1>2, <1>4, <1>5, StepOfOne DEF Alike

LEMMA ReceiveKeeps ==
  ASSUME IntakeInv, NEW s \in Submissions, NEW form \in Forms, NEW n \in 0..MaxFiles, Receive(s, form, n)
  PROVE  IntakeInv'
<1> DEFINE x == [sub[s] EXCEPT !.form = form, !.want = n, !.pc = "upload"]
<1>1. sub[s] \in Submission /\ sub[s].pc = "idle" /\ Shape(sub[s])
  BY DEF Receive, Serving, IntakeInv, IntakeTypeOK
<1>2. sub' = [sub EXCEPT ![s] = x]
  BY DEF Receive
<1>3. /\ x \in Submission /\ x.pc = "upload" /\ x.stored = sub[s].stored /\ x.hand = sub[s].hand
      /\ x.written = sub[s].written /\ x.lost = sub[s].lost /\ x.answer = sub[s].answer
  BY <1>1 DEF Submission
<1> HIDE DEF x
<1>4. Shape(x) /\ x.stored = {}
  BY <1>1, <1>3 DEF Shape
<1> QED
  BY <1>1, <1>2, <1>3, <1>4, SubmissionMoves DEF Receive, Shape

(* An upload that throws, before or after there is an object.              *)
LEMMA AfterUploadThrewIs ==
  ASSUME NEW y \in Submission, Shape(y), y.pc \in {"upload", "scan", "register"}
  PROVE  LET x == AfterUploadThrew(y) IN
         /\ x \in Submission /\ Shape(x) /\ ~ Holding(x) /\ x.hand = NoFile /\ x.stored = y.stored
         /\ x.pc \in {"discard", "done"} /\ x.answer = "failed"
<1> DEFINE x == AfterUploadThrew(y)
<1>1. /\ x \in Submission /\ x.pc = IF y.form = "crane" THEN "discard" ELSE "done"
      /\ x.hand = NoFile /\ x.answer = "failed" /\ x.stored = y.stored /\ x.form = y.form
      /\ x.written = y.written /\ x.lost = y.lost
  BY DEF AfterUploadThrew, Submission
<1> HIDE DEF x
<1>2. Shape(x) /\ ~ Holding(x)
  BY <1>1 DEF Shape, Holding
<1> QED
  BY <1>1, <1>2 DEF x

LEMMA PutFailsOrRegisterFailsKeeps ==
  ASSUME IntakeInv, NEW s \in Submissions, PutFails(s) \/ RegisterFails(s)
  PROVE  IntakeInv'
<1> DEFINE x == AfterUploadThrew(sub[s])
<1>1. /\ sub[s] \in Submission /\ Shape(sub[s]) /\ sub[s].pc \in {"upload", "register"}
      /\ sub' = [sub EXCEPT ![s] = x] /\ UNCHANGED <<storeVars, ordered>>
  BY DEF PutFails, RegisterFails, Serving, IntakeInv, IntakeTypeOK
<1>2. /\ x \in Submission /\ Shape(x) /\ ~ Holding(x) /\ x.hand = NoFile /\ x.stored = sub[s].stored
      /\ x.pc \in {"discard", "done"} /\ x.answer = "failed"
  BY <1>1, AfterUploadThrewIs
<1> HIDE DEF x
<1> QED
  BY <1>1, <1>2, SubmissionMoves

LEMMA ScanPassesKeeps ==
  ASSUME IntakeInv, NEW s \in Submissions, ScanPasses(s)
  PROVE  IntakeInv'
<1> DEFINE x == [sub[s] EXCEPT !.pc = "register"]
<1>1. /\ sub[s] \in Submission /\ sub[s].pc = "scan" /\ Shape(sub[s])
      /\ sub' = [sub EXCEPT ![s] = x] /\ UNCHANGED <<storeVars, ordered>>
  BY DEF ScanPasses, Serving, IntakeInv, IntakeTypeOK
<1>2. /\ x \in Submission /\ x.pc = "register" /\ x.stored = sub[s].stored /\ x.hand = sub[s].hand
      /\ x.written = sub[s].written /\ x.lost = sub[s].lost /\ x.answer = sub[s].answer
  BY <1>1 DEF Submission
<1> HIDE DEF x
<1>3. Shape(x) /\ Holding(sub[s])
  BY <1>1, <1>2 DEF Shape, Holding
<1> QED
  BY <1>1, <1>2, <1>3, SubmissionMoves DEF Shape

LEMMA CommitKeeps ==
  ASSUME IntakeInv, NEW s \in Submissions, Commit(s)
  PROVE  IntakeInv'
<1> DEFINE x == [sub[s] EXCEPT !.pc = "notify", !.written = TRUE, !.holds = sub[s].stored]
<1>1. /\ sub[s] \in Submission /\ sub[s].pc = "upload" /\ Shape(sub[s])
      /\ Cardinality(sub[s].stored) = sub[s].want
      /\ sub' = [sub EXCEPT ![s] = x] /\ UNCHANGED <<storeVars, ordered>>
  BY DEF Commit, Ready, Recorded, Serving, IntakeInv, IntakeTypeOK
<1>2. /\ x \in Submission /\ x.pc = "notify" /\ x.stored = sub[s].stored /\ x.hand = sub[s].hand
      /\ x.written = TRUE /\ x.lost = sub[s].lost /\ x.answer = sub[s].answer
      /\ x.holds = sub[s].stored /\ x.want = sub[s].want
  BY <1>1 DEF Submission
<1> HIDE DEF x
<1>3. Shape(x) /\ Holding(sub[s])
  BY <1>1, <1>2 DEF Shape, Holding
<1> QED
  BY <1>1, <1>2, <1>3, SubmissionMoves

LEMMA FailuresKeep ==
  ASSUME IntakeInv, NEW s \in Submissions, CommitFails(s) \/ NotifyFails(s)
  PROVE  IntakeInv'
<1> DEFINE to == IF sub[s].form = "crane" THEN "done" ELSE "discard"
           x == [sub[s] EXCEPT !.answer = "failed", !.pc = to]
<1>1. /\ sub[s] \in Submission /\ sub[s].pc \in {"upload", "notify"} /\ Shape(sub[s])
      /\ sub' = [sub EXCEPT ![s] = x] /\ UNCHANGED <<storeVars, ordered>>
  BY DEF CommitFails, NotifyFails, Ready, Serving, IntakeInv, IntakeTypeOK
<1>2. /\ x \in Submission /\ x.pc = to /\ x.stored = sub[s].stored /\ x.hand = sub[s].hand
      /\ x.written = sub[s].written /\ x.lost = sub[s].lost /\ x.answer = "failed"
      /\ x.form = sub[s].form
  BY <1>1 DEF Submission
<1> HIDE DEF x
<1>3. Shape(x) /\ ~ Holding(x) /\ x.pc # "notify"
  BY <1>1, <1>2 DEF Shape, Holding
<1> QED
  BY <1>1, <1>2, <1>3, SubmissionMoves

LEMMA NotifiedKeeps ==
  ASSUME IntakeInv, NEW s \in Submissions, Notified(s)
  PROVE  IntakeInv'
<1> DEFINE x == [sub[s] EXCEPT !.pc = "done", !.answer = "accepted"]
<1>1. /\ sub[s] \in Submission /\ sub[s].pc = "notify" /\ Shape(sub[s]) /\ FilesOK(sub[s])
      /\ sub' = [sub EXCEPT ![s] = x] /\ UNCHANGED <<storeVars, ordered>>
  BY DEF Notified, Serving, IntakeInv, IntakeTypeOK
<1>2. /\ x \in Submission /\ x.pc = "done" /\ x.stored = sub[s].stored /\ x.hand = sub[s].hand
      /\ x.written = sub[s].written /\ x.lost = sub[s].lost /\ x.answer = "accepted"
      /\ x.form = sub[s].form /\ x.holds = sub[s].holds /\ x.want = sub[s].want
  BY <1>1 DEF Submission
<1> HIDE DEF x
<1>3. Shape(x) /\ Holding(sub[s]) /\ x.stored \ ordered \subseteq x.holds
  BY <1>1, <1>2 DEF Shape, Holding, FilesOK
<1> QED
  BY <1>1, <1>2, <1>3, SubmissionMoves

LEMMA DiscardedKeeps ==
  ASSUME IntakeInv, NEW s \in Submissions, Discarded(s)
  PROVE  IntakeInv'
<1> DEFINE x == [sub[s] EXCEPT !.pc = "done"]
<1>1. /\ sub[s] \in Submission /\ sub[s].pc = "discard" /\ Shape(sub[s])
      /\ sub' = [sub EXCEPT ![s] = x] /\ UNCHANGED <<storeVars, ordered>>
  BY DEF Discarded, Serving, IntakeInv, IntakeTypeOK
<1>2. /\ x \in Submission /\ x.pc = "done" /\ x.stored = sub[s].stored /\ x.hand = sub[s].hand
      /\ x.written = sub[s].written /\ x.lost = sub[s].lost /\ x.answer = sub[s].answer
      /\ x.form = sub[s].form
  BY <1>1 DEF Submission
<1> HIDE DEF x
<1>3. Shape(x) /\ ~ Holding(x) /\ x.answer = "failed"
  BY <1>1, <1>2 DEF Shape, Holding
<1> QED
  BY <1>1, <1>2, <1>3, SubmissionMoves

LEMMA PutKeeps ==
  ASSUME IntakeInv, NEW s \in Submissions, NEW f \in Files, Put(s, f)
  PROVE  IntakeInv'
<1>1. /\ sub[s] \in Submission /\ sub[s].pc = "upload" /\ Shape(sub[s]) /\ FilesOK(sub[s])
      /\ object[f] = "never" /\ registry[f] = "never" /\ f \notin removing
      /\ object' = [object EXCEPT ![f] = "stored"] /\ UNCHANGED <<registry, removing, ordered>>
  BY DEF Put, PutObject, Serving, IntakeInv, IntakeTypeOK, StoreOK
<1>2. PICK x \in Submission : x = [sub[s] EXCEPT !.hand = f, !.pc = "scan"]
  BY <1>1 DEF Submission
<1>3. /\ x.pc = "scan" /\ x.stored = sub[s].stored /\ x.hand = f
      /\ x.written = sub[s].written /\ x.lost = sub[s].lost /\ x.answer = sub[s].answer
  BY <1>1, <1>2 DEF Submission
<1>4. /\ sub' = [sub EXCEPT ![s] = x]
      /\ sub' \in [Submissions -> Submission] /\ sub'[s] = x
      /\ \A t \in Submissions \ {s} : sub'[t] = sub[t]
  BY <1>2 DEF Put, IntakeInv, IntakeTypeOK
<1>5. /\ object' \in [Files -> {"never", "stored", "removed"}] /\ object'[f] = "stored"
      /\ \A g \in Files \ {f} : object'[g] = object[g]
  BY <1>1 DEF IntakeInv, IntakeTypeOK, FileStoreTypeOK
<1>6. FileStoreTypeOK' /\ StoreOK'
  BY <1>1, <1>5 DEF IntakeInv, IntakeTypeOK, FileStoreTypeOK, StoreOK, RowsOutliveObjects
<1>7. Shape(x) /\ x.hand \notin x.stored /\ x.stored \subseteq Own(sub[s])
  BY <1>1, <1>3, IntakeAssumption DEF Shape, FilesOK, Own
<1>8. HandOK(x)'
  BY <1>1, <1>3, <1>5 DEF HandOK
<1>9. FilesOK(x)'
  <2>1. x.stored \subseteq Files \ {f} /\ Holding(sub[s])
    BY <1>1, <1>3 DEF FilesOK, Holding, Submission
  <2>2. x.pc # "notify" /\ x.answer # "accepted"
    BY <1>1, <1>3 DEF Shape
  <2> QED
    BY <1>1, <1>3, <1>5, <2>1, <2>2 DEF FilesOK
<1> QED
  BY <1>1, <1>3, <1>4, <1>5, <1>6, <1>7, <1>8, <1>9, StepOfOne DEF Alike

LEMMA ScanRejectsKeeps ==
  ASSUME IntakeInv, NEW s \in Submissions, ScanRejects(s)
  PROVE  IntakeInv'
<1>1. /\ sub[s] \in Submission /\ sub[s].pc = "scan" /\ Shape(sub[s]) /\ FilesOK(sub[s]) /\ HandOK(sub[s])
      /\ sub[s].hand \notin sub[s].stored /\ sub[s].stored \subseteq Files
  BY DEF ScanRejects, Serving, IntakeInv, IntakeTypeOK, Submission
<1>2. PICK f \in Files : f = sub[s].hand
  BY <1>1 DEF Shape, Submission
<1>3. PICK x \in Submission : x = AfterUploadThrew(sub[s])
  BY <1>1, AfterUploadThrewIs
<1>4. /\ Shape(x) /\ ~ Holding(x) /\ x.hand = NoFile /\ x.stored = sub[s].stored
      /\ x.pc \in {"discard", "done"} /\ x.answer = "failed"
  BY <1>1, <1>3, AfterUploadThrewIs
<1>5. /\ sub' = [sub EXCEPT ![s] = x] /\ UNCHANGED <<registry, removing, ordered>>
      /\ object' \in {object, [object EXCEPT ![f] = "removed"]}
  BY <1>2, <1>3 DEF ScanRejects, RejectObject
<1>6. /\ sub' \in [Submissions -> Submission] /\ sub'[s] = x
      /\ \A t \in Submissions \ {s} : sub'[t] = sub[t]
  BY <1>5 DEF IntakeInv, IntakeTypeOK
<1>7. /\ object' \in [Files -> {"never", "stored", "removed"}]
      /\ object'[f] \in {"stored", "removed"} /\ registry[f] = "never" /\ f \notin removing
      /\ \A g \in Files \ {f} : object'[g] = object[g]
  BY <1>1, <1>2, <1>5, IntakeAssumption DEF IntakeInv, IntakeTypeOK, FileStoreTypeOK, HandOK
<1>8. FileStoreTypeOK' /\ StoreOK'
  BY <1>5, <1>7 DEF IntakeInv, IntakeTypeOK, FileStoreTypeOK, StoreOK, RowsOutliveObjects
<1>9. x.hand \notin x.stored /\ x.stored \subseteq Own(sub[s]) /\ f \in Own(sub[s])
  BY <1>1, <1>2, <1>4, IntakeAssumption DEF Own
<1>10. HandOK(x)' /\ FilesOK(x)'
  BY <1>1, <1>2, <1>4, <1>7 DEF HandOK, FilesOK, Holding
<1> QED
  BY <1>4, <1>5, <1>6, <1>7, <1>8, <1>9, <1>10, StepOfOne DEF Alike

LEMMA RegisterKeeps ==
  ASSUME IntakeInv, NEW s \in Submissions, Register(s)
  PROVE  IntakeInv'
<1>1. /\ sub[s] \in Submission /\ sub[s].pc = "register" /\ Shape(sub[s]) /\ FilesOK(sub[s])
      /\ HandOK(sub[s]) /\ sub[s].stored \subseteq Files
  BY DEF Register, Serving, IntakeInv, IntakeTypeOK, Submission
<1>2. PICK f \in Files : f = sub[s].hand
  BY <1>1 DEF Shape, Submission
<1>3. PICK cv \in Files \cup {NoFile} : cv = IF sub[s].form = "crane" /\ sub[s].cv = NoFile THEN f ELSE sub[s].cv
  BY <1>1 DEF Submission
<1>4. PICK x \in Submission :
        x = [sub[s] EXCEPT !.pc = "upload", !.hand = NoFile, !.stored = sub[s].stored \cup {f}, !.cv = cv]
  BY <1>1 DEF Submission
<1>5. /\ x.pc = "upload" /\ x.stored = sub[s].stored \cup {f} /\ x.hand = NoFile
      /\ x.written = sub[s].written /\ x.lost = sub[s].lost /\ x.answer = sub[s].answer
  BY <1>1, <1>4 DEF Submission
<1>6. /\ sub' = [sub EXCEPT ![s] = x] /\ UNCHANGED <<object, removing, ordered>>
      /\ registry' = [registry EXCEPT ![f] = "live"]
  BY <1>2, <1>3, <1>4 DEF Register, SaveRow
<1>7. /\ sub' \in [Submissions -> Submission] /\ sub'[s] = x
      /\ \A t \in Submissions \ {s} : sub'[t] = sub[t]
  BY <1>6 DEF IntakeInv, IntakeTypeOK
<1>8. /\ registry' \in [Files -> {"never", "live", "gone"}] /\ registry'[f] = "live"
      /\ object[f] = "stored" /\ f \notin removing
      /\ \A g \in Files \ {f} : registry'[g] = registry[g]
  BY <1>1, <1>2, <1>6, IntakeAssumption DEF IntakeInv, IntakeTypeOK, FileStoreTypeOK, HandOK
<1>9. FileStoreTypeOK' /\ StoreOK'
  BY <1>6, <1>8 DEF IntakeInv, IntakeTypeOK, FileStoreTypeOK, StoreOK, RowsOutliveObjects
<1>10. x.hand \notin x.stored /\ x.stored \subseteq Own(sub[s]) /\ f \in Own(sub[s]) /\ Shape(x)
  BY <1>1, <1>2, <1>5, IntakeAssumption DEF Own, Shape
<1>11. HandOK(x)' /\ FilesOK(x)'
  <2>1. Holding(sub[s]) /\ x.answer # "accepted"
    BY <1>1, <1>5 DEF Holding, Shape
  <2> QED
    BY <1>1, <1>5, <1>6, <1>8, <2>1 DEF HandOK, FilesOK
<1> QED
  BY <1>5, <1>6, <1>7, <1>8, <1>9, <1>10, <1>11, StepOfOne DEF Alike

(* The clean-up, file by file: nobody else's files, and no answer but      *)
(* "failed" is given by then.                                              *)
LEMMA DiscardKeeps ==
  ASSUME IntakeInv, NEW s \in Submissions, NEW f \in Files,
         DiscardObject(s, f) \/ DiscardRow(s, f) \/ DiscardFails(s, f)
  PROVE  IntakeInv'
<1>1. /\ sub[s] \in Submission /\ sub[s].pc = "discard" /\ Shape(sub[s]) /\ FilesOK(sub[s])
      /\ f \in sub[s].stored /\ sub[s].hand \notin sub[s].stored /\ sub[s].stored \subseteq Files
      /\ f \in Own(sub[s]) /\ UNCHANGED ordered /\ object[f] # "never"
      /\ sub[s].answer = "failed" /\ sub[s].hand = NoFile
  BY DEF DiscardObject, DiscardRow, DiscardFails, Serving, IntakeInv, IntakeTypeOK, Submission, Own,
         Shape, FilesOK
<1>2. /\ object' \in [Files -> {"never", "stored", "removed"}] /\ object'[f] \in {object[f], "removed"}
      /\ registry' \in [Files -> {"never", "live", "gone"}]
      /\ removing' \in SUBSET Files
      /\ \A g \in Files \ {f} : /\ object'[g] = object[g] /\ registry'[g] = registry[g]
                                /\ g \in removing' => g \in removing
      /\ f \in removing' => registry'[f] = "live" /\ object'[f] = "removed"
      /\ registry'[f] = "gone" => object'[f] = "removed"
  <2>1. /\ object \in [Files -> {"never", "stored", "removed"}]
        /\ registry \in [Files -> {"never", "live", "gone"}] /\ removing \in SUBSET Files
        /\ f \in removing => registry[f] = "live" /\ object[f] = "removed"
        /\ registry[f] = "gone" => object[f] = "removed"
    BY DEF IntakeInv, IntakeTypeOK, FileStoreTypeOK, StoreOK, RowsOutliveObjects
  <2>2. CASE DiscardObject(s, f)
    BY <2>1, <2>2 DEF DiscardObject, RemoveObject
  <2>3. CASE DiscardRow(s, f)
    BY <2>1, <2>3 DEF DiscardRow, RemoveRow
  <2>4. CASE DiscardFails(s, f)
    BY <2>1, <2>4 DEF DiscardFails, RemoveRowFails, storeVars
  <2> QED
    BY <2>2, <2>3, <2>4
<1>3. FileStoreTypeOK' /\ StoreOK'
  BY <1>1, <1>2 DEF IntakeInv, IntakeTypeOK, FileStoreTypeOK, StoreOK, RowsOutliveObjects
<1>4. PICK x \in Submission :
        /\ x.form = sub[s].form /\ x.pc = "discard" /\ x.hand = NoFile /\ x.answer = "failed"
        /\ x.written = sub[s].written /\ x.want = sub[s].want
        /\ x.stored \subseteq sub[s].stored
        /\ x.form = "crane" => ~ x.written
        /\ sub' \in [Submissions -> Submission] /\ sub'[s] = x
        /\ \A t \in Submissions \ {s} :
             Alike(sub[t], sub'[t]) /\ \A g \in sub[t].stored : g \in sub[t].holds => g \in sub'[t].holds
  <2>1. sub[s].form = "crane" => ~ sub[s].written
    BY <1>1 DEF Shape
  <2>2. CASE DiscardObject(s, f)
    <3> DEFINE x == [sub[s] EXCEPT !.lost = @ \cup {f}]
    <3>1. /\ x \in Submission /\ x.form = sub[s].form /\ x.pc = "discard" /\ x.hand = NoFile
          /\ x.answer = "failed" /\ x.written = sub[s].written /\ x.want = sub[s].want
          /\ x.stored = sub[s].stored
      BY <1>1 DEF Submission
    <3>2. sub' = [sub EXCEPT ![s] = x]
      BY <2>2 DEF DiscardObject
    <3> HIDE DEF x
    <3> QED
      BY <2>1, <3>1, <3>2 DEF Alike, IntakeInv, IntakeTypeOK
  <2>3. CASE DiscardFails(s, f)
    <3> DEFINE x == [sub[s] EXCEPT !.stored = @ \ {f}]
    <3>1. /\ x \in Submission /\ x.form = sub[s].form /\ x.pc = "discard" /\ x.hand = NoFile
          /\ x.answer = "failed" /\ x.written = sub[s].written /\ x.want = sub[s].want
          /\ x.stored \subseteq sub[s].stored
      BY <1>1 DEF Submission
    <3>2. sub' = [sub EXCEPT ![s] = x]
      BY <2>3 DEF DiscardFails
    <3> HIDE DEF x
    <3> QED
      BY <2>1, <3>1, <3>2 DEF Alike, IntakeInv, IntakeTypeOK
  <2>4. CASE DiscardRow(s, f)
    <3>1. ASSUME NEW t \in Submissions
          PROVE  /\ Unlinked(f)[t] \in Submission /\ Alike(sub[t], Unlinked(f)[t])
                 /\ \A g \in sub[t].holds \ {f} : g \in Unlinked(f)[t].holds
      <4>1. sub[t] \in Submission /\ Unlinked(f)[t] = [sub[t] EXCEPT !.holds = @ \ {f}]
        BY DEF Unlinked, IntakeInv, IntakeTypeOK
      <4> QED
        BY <4>1 DEF Submission, Alike
    <3> DEFINE x == [Unlinked(f)[s] EXCEPT !.stored = @ \ {f}]
    <3>2. /\ x \in Submission /\ x.form = sub[s].form /\ x.pc = "discard" /\ x.hand = NoFile
          /\ x.answer = "failed" /\ x.written = sub[s].written /\ x.want = sub[s].want
          /\ x.stored \subseteq sub[s].stored
      BY <1>1, <3>1 DEF Submission, Alike
    <3>3. sub' = [Unlinked(f) EXCEPT ![s] = x] /\ Unlinked(f) \in [Submissions -> Submission]
      BY <2>4, <3>1 DEF DiscardRow, Unlinked
    <3>4. ASSUME NEW t \in Submissions \ {s} PROVE f \notin sub[t].stored
      BY <1>1 DEF IntakeInv, Apart
    <3> HIDE DEF x
    <3>5. sub' \in [Submissions -> Submission] /\ sub'[s] = x
          /\ \A t \in Submissions \ {s} : sub'[t] = Unlinked(f)[t]
      BY <3>2, <3>3
    <3> QED
      BY <2>1, <3>1, <3>2, <3>4, <3>5
  <2> QED
    BY <2>2, <2>3, <2>4
<1>5. Shape(x) /\ ~ Holding(x) /\ x.hand \notin x.stored /\ x.stored \subseteq Own(sub[s])
  BY <1>1, <1>4, IntakeAssumption DEF Shape, Holding, Own
<1>6. HandOK(x)' /\ FilesOK(x)'
  BY <1>1, <1>2, <1>4, <1>5 DEF HandOK, FilesOK, Holding
<1> QED
  BY <1>1, <1>2, <1>3, <1>4, <1>5, <1>6, StepOfOne

(* A removal that somebody at the desk ordered: no form is served by it.   *)
LEMMA RemovalKeeps ==
  ASSUME IntakeInv, NEW f \in Files, OrderRemoval(f) \/ FinishRemoval(f)
  PROVE  IntakeInv'
<1>0. /\ object \in [Files -> {"never", "stored", "removed"}]
      /\ registry \in [Files -> {"never", "live", "gone"}] /\ removing \in SUBSET Files
      /\ f \in removing => registry[f] = "live" /\ object[f] = "removed"
      /\ object[f] = "never" => registry[f] = "never"
      /\ registry[f] = "gone" => object[f] = "removed"
  BY DEF IntakeInv, IntakeTypeOK, FileStoreTypeOK, StoreOK, RowsOutliveObjects
<1>1. /\ ordered' \in SUBSET Files /\ ordered \subseteq ordered' /\ f \in ordered' /\ registry[f] # "never"
      /\ object' \in [Files -> {"never", "stored", "removed"}] /\ object'[f] = "removed"
      /\ registry' \in [Files -> {"never", "live", "gone"}] /\ registry'[f] # "never"
      /\ removing' \in SUBSET Files
      /\ f \in removing' => registry'[f] = "live"
      /\ \A g \in Files \ {f} : /\ object'[g] = object[g] /\ registry'[g] = registry[g]
                                /\ g \in removing' => g \in removing
  <2>1. CASE OrderRemoval(f)
    BY <1>0, <2>1 DEF OrderRemoval, RemoveObject, IntakeInv, IntakeTypeOK
  <2>2. CASE FinishRemoval(f)
    <3>1. f \in removing /\ f \in ordered /\ ordered' = ordered
      BY <2>2 DEF FinishRemoval, RemoveRow, RemoveRowFails
    <3>2. CASE RemoveRow(f)
      BY <1>0, <3>1, <3>2 DEF RemoveRow, IntakeInv, IntakeTypeOK
    <3>3. CASE RemoveRowFails(f)
      BY <1>0, <3>1, <3>3 DEF RemoveRowFails, IntakeInv, IntakeTypeOK
    <3> QED
      BY <2>2, <3>2, <3>3 DEF FinishRemoval
  <2> QED
    BY <2>1, <2>2
<1>2. /\ sub' \in [Submissions -> Submission]
      /\ \A t \in Submissions : Alike(sub[t], sub'[t])
                                /\ \A g \in sub[t].stored \ {f} : g \in sub[t].holds => g \in sub'[t].holds
  <2>1. CASE UNCHANGED sub
    BY <2>1 DEF Alike, IntakeInv, IntakeTypeOK
  <2>2. CASE sub' = Unlinked(f)
    <3>1. ASSUME NEW t \in Submissions
          PROVE  /\ Unlinked(f)[t] \in Submission /\ Alike(sub[t], Unlinked(f)[t])
                 /\ \A g \in sub[t].holds \ {f} : g \in Unlinked(f)[t].holds
      <4>1. sub[t] \in Submission /\ Unlinked(f)[t] = [sub[t] EXCEPT !.holds = @ \ {f}]
        BY DEF Unlinked, IntakeInv, IntakeTypeOK
      <4> QED
        BY <4>1 DEF Submission, Alike
    <3>2. Unlinked(f) \in [Submissions -> Submission]
      BY <3>1 DEF Unlinked
    <3> QED
      BY <2>2, <3>1, <3>2
  <2> QED
    BY <2>1, <2>2 DEF OrderRemoval, FinishRemoval
<1>3. IntakeTypeOK' /\ StoreOK'
  BY <1>1, <1>2 DEF IntakeInv, IntakeTypeOK, FileStoreTypeOK, StoreOK, RowsOutliveObjects
<1>4. ASSUME NEW t \in Submissions
      PROVE  Shape(sub[t])' /\ HandOK(sub[t])' /\ FilesOK(sub[t])' /\ sub'[t].hand \notin sub'[t].stored
  <2>1. PICK y \in Submission : y = sub[t]
    BY DEF IntakeInv, IntakeTypeOK
  <2>2. PICK z \in Submission : z = sub'[t]
    BY <1>2
  <2>3. /\ Shape(y) /\ HandOK(y) /\ FilesOK(y) /\ y.hand \notin y.stored
        /\ y.stored \subseteq Files /\ y.hand \in Files \cup {NoFile}
    BY <2>1 DEF IntakeInv, Submission
  <2>4. \A g \in y.stored \ ordered' : g \in Files \ {f}
    BY <1>1, <2>3
  <2>5. y.hand # NoFile => y.hand \in Files \ {f}
    BY <1>1, <2>3 DEF HandOK
  <2>6. Alike(y, z) /\ \A g \in y.stored \ ordered' : g \in y.holds => g \in z.holds
    BY <1>1, <1>2, <2>1, <2>2
  <2>7. \A g \in y.stored : object'[g] = "never" => object[g] = "never"
    BY <1>1, <2>3
  <2>8. Shape(z) /\ HandOK(z)' /\ FilesOK(z)'
    BY <1>1, <2>3, <2>4, <2>5, <2>6, <2>7, Untouched
  <2>9. z.hand \notin z.stored
    BY <2>3, <2>6 DEF Alike
  <2> QED
    BY <2>2, <2>8, <2>9 DEF Shape, HandOK, FilesOK, Holding
<1>5. \A t, u \in Submissions : t # u => Apart(sub'[t], sub'[u])
  BY <1>2 DEF Alike, Apart, IntakeInv
<1> QED
  BY <1>3, <1>4, <1>5 DEF IntakeInv

LEMMA StopKeeps ==
  ASSUME IntakeInv, Stop
  PROVE  IntakeInv'
<1>1. removing' = {} /\ UNCHANGED <<object, registry, ordered>>
  BY DEF Stop, StoreStops
<1>2. ASSUME NEW t \in Submissions
      PROVE  /\ sub'[t] \in Submission
             /\ sub'[t].form = sub[t].form /\ sub'[t].want = sub[t].want
             /\ sub'[t].stored = sub[t].stored /\ sub'[t].holds = sub[t].holds
             /\ sub'[t].written = sub[t].written /\ sub'[t].lost = sub[t].lost
             /\ sub'[t].answer = sub[t].answer
             /\ sub'[t].hand = NoFile /\ sub'[t].pc = IF sub[t].pc = "idle" THEN "idle" ELSE "done"
  <2>1. /\ sub[t] \in Submission
        /\ sub'[t] = [sub[t] EXCEPT !.pc = IF sub[t].pc = "idle" THEN sub[t].pc ELSE "done", !.hand = NoFile]
    BY DEF Stop, IntakeInv, IntakeTypeOK
  <2> QED
    BY <2>1 DEF Submission
<1>3. sub' \in [Submissions -> Submission]
  BY <1>2 DEF Stop
<1>4. IntakeTypeOK' /\ StoreOK'
  BY <1>1, <1>3 DEF IntakeInv, IntakeTypeOK, FileStoreTypeOK, StoreOK, RowsOutliveObjects
<1>5. ASSUME NEW t \in Submissions
      PROVE  Shape(sub[t])' /\ HandOK(sub[t])' /\ FilesOK(sub[t])' /\ sub'[t].hand \notin sub'[t].stored
  <2>1. Shape(sub[t]) /\ FilesOK(sub[t]) /\ sub[t].stored \subseteq Files
    BY DEF IntakeInv, IntakeTypeOK, Submission
  <2>2. Shape(sub[t])'
    BY <1>2, <2>1 DEF Shape
  <2>3. FilesOK(sub[t])'
    BY <1>1, <1>2, <2>1 DEF FilesOK, Holding
  <2> QED
    BY <1>2, <2>1, <2>2, <2>3, IntakeAssumption DEF HandOK
<1>6. \A t, u \in Submissions : t # u => Apart(sub'[t], sub'[u])
  <2> SUFFICES ASSUME NEW t \in Submissions, NEW u \in Submissions, t # u PROVE Apart(sub'[t], sub'[u])
    OBVIOUS
  <2>1. Apart(sub[t], sub[u]) /\ sub[t].stored \subseteq Files /\ sub[u].stored \subseteq Files
    BY DEF IntakeInv, IntakeTypeOK, Submission
  <2> QED
    BY <1>2, <2>1, IntakeAssumption DEF Apart
<1> QED
  BY <1>4, <1>5, <1>6 DEF IntakeInv

LEMMA IntakeStep == IntakeInv /\ [IntakeNext]_intakeVars => IntakeInv'
<1> SUFFICES ASSUME IntakeInv, [IntakeNext]_intakeVars PROVE IntakeInv'
  OBVIOUS
<1>1. CASE UNCHANGED intakeVars
  BY <1>1 DEF intakeVars, IntakeInv, IntakeTypeOK, FileStoreTypeOK, StoreOK, RowsOutliveObjects, HandOK,
              FilesOK, Shape, Holding
<1>2. CASE Stop
  BY <1>2, StopKeeps
<1>3. ASSUME NEW f \in Files, OrderRemoval(f) \/ FinishRemoval(f) PROVE IntakeInv'
  BY <1>3, RemovalKeeps
<1>4. ASSUME NEW s \in Submissions, NEW form \in Forms, NEW n \in 0..MaxFiles, Receive(s, form, n)
      PROVE  IntakeInv'
  BY <1>4, ReceiveKeeps
<1>5. ASSUME NEW s \in Submissions,
             \/ PutFails(s) \/ ScanPasses(s) \/ ScanRejects(s) \/ Register(s) \/ RegisterFails(s)
             \/ Commit(s) \/ CommitFails(s) \/ Notified(s) \/ NotifyFails(s) \/ Discarded(s)
      PROVE  IntakeInv'
  BY <1>5, PutFailsOrRegisterFailsKeeps, ScanPassesKeeps, ScanRejectsKeeps, RegisterKeeps, CommitKeeps,
     FailuresKeep, NotifiedKeeps, DiscardedKeeps
<1>6. ASSUME NEW s \in Submissions, NEW f \in Files,
             Put(s, f) \/ DiscardObject(s, f) \/ DiscardRow(s, f) \/ DiscardFails(s, f)
      PROVE  IntakeInv'
  BY <1>6, PutKeeps, DiscardKeeps
<1> QED
  BY <1>1, <1>2, <1>3, <1>4, <1>5, <1>6 DEF IntakeNext

LEMMA IntakeInvariant == IntakeSpec => []IntakeInv
  BY IntakeInitially, IntakeStep, PTL DEF IntakeSpec

----------------------------------------------------------------------------
(* The bytes a row names.  Whoever was told of a failure is never told     *)
(* otherwise, and what its clean-up took stays on its account.             *)
CleanedUp(x, f) == f \in x.lost /\ x.answer = "failed"

LEMMA FailuresStand ==
  ASSUME IntakeInv, IntakeNext, NEW s \in Submissions, NEW f \in Files, CleanedUp(sub[s], f)
  PROVE  CleanedUp(sub'[s], f)
<1>1. /\ sub[s] \in Submission /\ sub \in [Submissions -> Submission]
      /\ sub[s].pc \in {"discard", "done"} /\ sub[s].answer = "failed" /\ f \in sub[s].lost
  BY DEF IntakeInv, IntakeTypeOK, Shape, CleanedUp, Submission
<1>2. CASE Stop
  BY <1>1, <1>2 DEF Stop, CleanedUp, Submission
<1>3. ASSUME NEW g \in Files, OrderRemoval(g) \/ FinishRemoval(g) PROVE CleanedUp(sub'[s], f)
  BY <1>1, <1>3 DEF OrderRemoval, FinishRemoval, Unlinked, CleanedUp, Submission
<1>4. ASSUME NEW t \in Submissions,
             \/ \E form \in Forms, n \in 0..MaxFiles : Receive(t, form, n)
             \/ PutFails(t) \/ ScanPasses(t) \/ ScanRejects(t) \/ Register(t) \/ RegisterFails(t)
             \/ Commit(t) \/ CommitFails(t) \/ Notified(t) \/ NotifyFails(t)
             \/ \E g \in Files : Put(t, g)
      PROVE  CleanedUp(sub'[s], f)
  <2>1. t # s /\ sub'[s] = sub[s]
    BY <1>1, <1>4 DEF Receive, PutFails, ScanPasses, ScanRejects, Register, RegisterFails, Commit, Ready,
                      CommitFails, Notified, NotifyFails, Put, Serving
  <2> QED
    BY <2>1
<1>5. ASSUME NEW t \in Submissions, Discarded(t) PROVE CleanedUp(sub'[s], f)
  BY <1>1, <1>5 DEF Discarded, CleanedUp, Submission
<1>6. ASSUME NEW t \in Submissions, NEW g \in Files,
             DiscardObject(t, g) \/ DiscardRow(t, g) \/ DiscardFails(t, g)
      PROVE  CleanedUp(sub'[s], f)
  <2>1. CASE DiscardObject(t, g)
    BY <1>1, <2>1 DEF DiscardObject, CleanedUp, Submission
  <2>2. CASE DiscardRow(t, g)
    <3>1. sub' = [Unlinked(g) EXCEPT ![t] = [Unlinked(g)[t] EXCEPT !.stored = @ \ {g}]]
      BY <2>2 DEF DiscardRow
    <3>2. /\ Unlinked(g)[s] = [sub[s] EXCEPT !.holds = @ \ {g}]
          /\ s \in DOMAIN Unlinked(g) /\ t \in DOMAIN Unlinked(g)
      BY DEF Unlinked
    <3>3. Unlinked(g)[s].lost = sub[s].lost /\ Unlinked(g)[s].answer = sub[s].answer
          /\ DOMAIN Unlinked(g)[s] = DOMAIN sub[s]
      BY <1>1, <3>2 DEF Submission
    <3>4. sub'[s] = IF t = s THEN [Unlinked(g)[s] EXCEPT !.stored = @ \ {g}] ELSE Unlinked(g)[s]
      BY <3>1, <3>2
    <3> QED
      BY <1>1, <3>3, <3>4, <3>2 DEF CleanedUp, Submission
  <2>3. CASE DiscardFails(t, g)
    BY <1>1, <2>3 DEF DiscardFails, CleanedUp, Submission
  <2> QED
    BY <1>6, <2>1, <2>2, <2>3
<1> QED
  BY <1>2, <1>3, <1>4, <1>5, <1>6 DEF IntakeNext

(* What a step may do to one file: leave it, store its object, give it a   *)
(* row that has its object, or begin a removal that is accounted for.      *)
LEMMA StoreStep ==
  ASSUME IntakeInv, IntakeNext, NEW f \in Files
  PROVE  \/ registry'[f] # "live"
         \/ object'[f] = "stored"
         \/ registry[f] = "live" /\ object'[f] = object[f]
         \/ f \in ordered'
         \/ \E s \in Submissions : CleanedUp(sub'[s], f)
<1>1. /\ sub \in [Submissions -> Submission] /\ object \in [Files -> {"never", "stored", "removed"}]
      /\ registry \in [Files -> {"never", "live", "gone"}]
  BY DEF IntakeInv, IntakeTypeOK, FileStoreTypeOK
<1>2. CASE Stop
  BY <1>2 DEF Stop, StoreStops
<1>3. ASSUME NEW g \in Files, OrderRemoval(g) \/ FinishRemoval(g)
      PROVE  \/ registry'[f] # "live" \/ f \in ordered'
             \/ registry[f] = "live" /\ object'[f] = object[f]
  BY <1>1, <1>3 DEF OrderRemoval, FinishRemoval, RemoveObject, RemoveRow, RemoveRowFails
<1>4. ASSUME NEW s \in Submissions,
             \/ \E form \in Forms, n \in 0..MaxFiles : Receive(s, form, n)
             \/ PutFails(s) \/ ScanPasses(s) \/ RegisterFails(s)
             \/ Commit(s) \/ CommitFails(s) \/ Notified(s) \/ NotifyFails(s) \/ Discarded(s)
      PROVE  registry' = registry /\ object' = object
  BY <1>4 DEF Receive, PutFails, ScanPasses, RegisterFails, Commit, CommitFails, Notified, NotifyFails,
              Discarded, storeVars
<1>5. ASSUME NEW s \in Submissions, NEW g \in Files, Put(s, g)
      PROVE  registry'[f] = registry[f] /\ (object'[f] = "stored" \/ object'[f] = object[f])
  BY <1>1, <1>5 DEF Put, PutObject
<1>6. ASSUME NEW s \in Submissions, ScanRejects(s) \/ Register(s)
      PROVE  \/ registry'[f] # "live" \/ object'[f] = "stored"
             \/ registry[f] = "live" /\ object'[f] = object[f]
  <2>1. /\ object[sub[s].hand] = "stored" /\ registry[sub[s].hand] = "never"
        /\ sub[s].hand \in Files
    BY <1>1, <1>6 DEF ScanRejects, Register, Serving, IntakeInv, Shape, HandOK, Submission
  <2> QED
    BY <1>1, <1>6, <2>1 DEF ScanRejects, Register, RejectObject, SaveRow
<1>7. ASSUME NEW s \in Submissions, NEW g \in Files, DiscardObject(s, g)
      PROVE  registry'[f] = registry[f] /\ (object'[f] = object[f] \/ CleanedUp(sub'[s], f))
  <2>1. sub[s] \in Submission /\ sub[s].answer = "failed"
    BY <1>1, <1>7 DEF DiscardObject, Serving, IntakeInv, Shape
  <2> QED
    BY <1>1, <1>7, <2>1 DEF DiscardObject, RemoveObject, CleanedUp, Submission
<1>8. ASSUME NEW s \in Submissions, NEW g \in Files, DiscardRow(s, g) \/ DiscardFails(s, g)
      PROVE  object' = object /\ (registry'[f] = registry[f] \/ registry'[f] # "live")
  BY <1>1, <1>8 DEF DiscardRow, DiscardFails, RemoveRow, RemoveRowFails, storeVars
<1> QED
  BY <1>2, <1>3, <1>4, <1>5, <1>6, <1>7, <1>8 DEF IntakeNext

LEMMA OrdersStand == IntakeNext => ordered \subseteq ordered'
BY DEF IntakeNext, Stop, OrderRemoval, FinishRemoval, Receive, PutFails, ScanPasses, ScanRejects,
       Register, RegisterFails, Commit, CommitFails, Notified, NotifyFails, Discarded, Put,
       DiscardObject, DiscardRow, DiscardFails

LEMMA BytesStep ==
  IntakeInv /\ RowsNameStoredBytes /\ [IntakeNext]_intakeVars => RowsNameStoredBytes'
<1> SUFFICES ASSUME IntakeInv, RowsNameStoredBytes, [IntakeNext]_intakeVars,
                    NEW f \in Files, registry'[f] = "live",
                    object'[f] # "stored", f \notin ordered'
             PROVE  \E s \in Submissions : CleanedUp(sub'[s], f)
  BY DEF RowsNameStoredBytes, CleanedUp
<1>1. CASE UNCHANGED intakeVars
  BY <1>1 DEF intakeVars, RowsNameStoredBytes, CleanedUp
<1>2. CASE IntakeNext /\ registry[f] = "live" /\ object'[f] = object[f]
  <2>1. f \notin ordered
    BY <1>2, OrdersStand
  <2>2. PICK s \in Submissions : CleanedUp(sub[s], f)
    BY <1>2, <2>1 DEF RowsNameStoredBytes, CleanedUp
  <2> QED
    BY <1>2, <2>2, FailuresStand
<1> QED
  BY <1>1, <1>2, StoreStep

(* Bucket and registry tell of each other, for any number of files and     *)
(* submissions: a row goes only after its object, and a row that stays     *)
(* has its object, unless a removal somebody ordered, or the clean-up of a *)
(* submission that was told it failed, was cut off between the two         *)
(* (remove, purgeExpired and the forms' clean-up, files.service.ts:304-351).*)
THEOREM RegistryTellsOfTheBucket == IntakeSpec => []RowsAndObjectsAgree
<1>1. IntakeInit => RowsNameStoredBytes
  BY DEF IntakeInit, FileStoreInit, RowsNameStoredBytes
<1>2. IntakeSpec => []RowsNameStoredBytes
  BY <1>1, IntakeInvariant, BytesStep, PTL DEF IntakeSpec
<1>3. IntakeInv /\ RowsNameStoredBytes => RowsAndObjectsAgree
  BY DEF IntakeInv, StoreOK, RowsAndObjectsAgree
<1> QED
  BY <1>2, <1>3, IntakeInvariant, PTL

(* An accepted submission keeps the record and the files it was accepted   *)
(* with, but for those whose removal somebody ordered (the submit handlers *)
(* of the quote, job and crane forms).                                     *)
THEOREM AcceptedSubmissionsKeepFiles == IntakeSpec => []AcceptedKeepsItsFiles
<1>1. IntakeInv => AcceptedKeepsItsFiles
  <2> SUFFICES ASSUME IntakeInv, NEW s \in Submissions, sub[s].answer = "accepted"
               PROVE  /\ sub[s].written /\ Cardinality(sub[s].stored) = sub[s].want
                      /\ \A f \in sub[s].stored \ ordered :
                           f \in sub[s].holds /\ object[f] = "stored" /\ registry[f] = "live"
    BY DEF AcceptedKeepsItsFiles
  <2>1. Shape(sub[s]) /\ FilesOK(sub[s])
    BY DEF IntakeInv
  <2> QED
    BY <2>1 DEF Shape, FilesOK, Holding
<1> QED
  BY <1>1, IntakeInvariant, PTL

(* The crane form's clean-up never reaches a written application           *)
(* (crane-application.service.ts, the catch around the uploads only).      *)
THEOREM CraneRecordsKeepFiles == IntakeSpec => []CleanUpSparesCraneRecords
<1>1. IntakeInv => CleanUpSparesCraneRecords
  BY DEF IntakeInv, Shape, CleanUpSparesCraneRecords
<1> QED
  BY <1>1, IntakeInvariant, PTL
=============================================================================
