----------------------------- MODULE CasesProofs ------------------------------
(***************************************************************************)
(* Proofs about Cases: what overlapping requests can and cannot do to a case*)
(* at any of the desks, for any number of cases, requests and owners.      *)
(***************************************************************************)
EXTENDS Cases, TLAPS

(* What a request carries, what it may do to the row, and what it knows of *)
(* it: nobody else is at a case being submitted, a moment once stamped     *)
(* stays, and a row nobody wrote since is the row that was read.           *)
ClerkOK(k) ==
  /\ clerk[k].op = "none" <=> clerk[k].id = Nobody
  /\ clerk[k].op = "submit" =>
       /\ ~ OnFile(clerk[k].id) /\ \A j \in Clerks \ {k} : clerk[j].id # clerk[k].id
       /\ clerk[k].status # "ABSENT"
       /\ service \in {"quote", "contact"} => clerk[k].status \in {"NEW", "SPAM"}
  /\ clerk[k].op \notin {"none", "submit"} =>
       /\ OnFile(clerk[k].id) /\ clerk[k].seen.status # "ABSENT"
       /\ service \in {"quote", "contact"} /\ clerk[k].seen.responded => case[clerk[k].id].responded
       /\ ~ clerk[k].overlapped => clerk[k].seen = case[clerk[k].id]
  /\ clerk[k].op = "setStatus" =>
       /\ clerk[k].status # "ABSENT"
       /\ service = "quote" => clerk[k].status \in {"NEW", "TRIAGE", "WITHDRAWN"}
       /\ service = "contact" => clerk[k].status \in {"NEW", "ENGAGED", "SPAM"}
       /\ service \in {"quote", "job"} => clerk[k].seen.status # "WITHDRAWN"
  /\ clerk[k].op = "withdraw" => service = "job"
  /\ clerk[k].op = "replaceCv" => service = "crane"

(* Who was on file when another application was checked is on file still,  *)
(* and alive only if somebody reopened it.                                 *)
BeforeOK ==
  service \in ChecksDuplicates =>
    \A a, b \in CaseIds : a \in before[b] => OnFile(a) /\ (Open(a) => a \in reopened)

CasesInv ==
  /\ CasesTypeOK
  /\ \A c \in CaseIds : ~ OnFile(c) => case[c] = NoCase
  /\ \A k \in Clerks : ClerkOK(k)
  /\ TakenUpStopsTheClock
  /\ BeforeOK

LEMMA NoJobIs ==
  /\ NoJob \in Clerk /\ NoJob.op = "none" /\ NoJob.id = Nobody
  /\ NoCase \in CaseRow /\ NoCase.status = "ABSENT" /\ ~ NoCase.responded /\ NoCase.owner = Nobody
<1>1. NoCase \in CaseRow /\ NoCase.status = "ABSENT" /\ ~ NoCase.responded /\ NoCase.owner = Nobody
  BY DEF NoCase, CaseRow, CaseStatuses
<1>2. NoJob = [op |-> "none", id |-> Nobody, seen |-> NoCase, status |-> "ABSENT", owner |-> Nobody,
               overlapped |-> FALSE]
  BY DEF NoJob, Job
<1> QED
  BY <1>1, <1>2 DEF Clerk, CaseStatuses

LEMMA CasesInitially == CasesInit => CasesInv
<1> SUFFICES ASSUME CasesInit PROVE CasesInv
  OBVIOUS
<1>1. CasesTypeOK
  BY NoJobIs DEF CasesInit, CasesTypeOK
<1>2. \A c \in CaseIds : case[c] = NoCase /\ ~ OnFile(c) /\ before[c] = {}
  BY NoJobIs DEF CasesInit, OnFile
<1>3. \A k \in Clerks : ClerkOK(k)
  BY NoJobIs DEF CasesInit, ClerkOK
<1> QED
  BY <1>1, <1>2, <1>3, NoJobIs DEF CasesInv, TakenUpStopsTheClock, BeforeOK

(* A handler has read the row and decided.                                 *)
LEMMA ReadKeeps ==
  ASSUME CasesInv, NEW k \in Clerks, NEW op \in {"setStatus", "assign", "withdraw", "replaceCv"},
         NEW c \in CaseIds, NEW status \in CaseStatuses, NEW owner \in Owners \cup {Nobody},
         OnFile(c), Read(k, op, c, status, owner),
         op = "setStatus" =>
           /\ status # "ABSENT"
           /\ service = "quote" => status \in {"NEW", "TRIAGE", "WITHDRAWN"}
           /\ service = "contact" => status \in {"NEW", "ENGAGED", "SPAM"}
           /\ service \in {"quote", "job"} => case[c].status # "WITHDRAWN",
         op = "withdraw" => service = "job",
         op = "replaceCv" => service = "crane"
  PROVE  CasesInv'
<1> DEFINE x == Job(op, c, status, owner)
<1>1. /\ x \in Clerk /\ x.op = op /\ x.id = c /\ x.seen = case[c] /\ x.status = status
      /\ x.overlapped = FALSE
  BY CasesAssumption DEF Job, Clerk, CasesInv, CasesTypeOK
<1>2. clerk' = [clerk EXCEPT ![k] = x] /\ UNCHANGED <<service, case, before, reopened>>
  BY DEF Read
<1> HIDE DEF x
<1>3. /\ clerk'[k] = x /\ \A j \in Clerks \ {k} : clerk'[j] = clerk[j]
      /\ clerk' \in [Clerks -> Clerk]
  BY <1>1, <1>2 DEF CasesInv, CasesTypeOK
<1>4. CasesTypeOK'
  BY <1>2, <1>3 DEF CasesInv, CasesTypeOK
<1>5. ASSUME NEW j \in Clerks PROVE ClerkOK(j)'
  <2>1. ClerkOK(j)
    BY DEF CasesInv
  <2>2. CASE j = k
    BY <1>1, <1>2, <1>3, <2>2, CasesAssumption DEF ClerkOK, OnFile
  <2>3. CASE j # k
    <3>1. clerk[j].op = "submit" => \A i \in Clerks \ {j} : clerk'[i].id # clerk[j].id
      <4> SUFFICES ASSUME clerk[j].op = "submit", NEW i \in Clerks \ {j} PROVE clerk'[i].id # clerk[j].id
        OBVIOUS
      <4>1. clerk[j].id # c /\ clerk[i].id # clerk[j].id
        BY <2>1 DEF ClerkOK
      <4> QED
        BY <4>1, <1>1, <1>3
    <3> QED
      BY <1>2, <1>3, <2>1, <2>3, <3>1 DEF ClerkOK, OnFile
  <2> QED
    BY <2>2, <2>3
<1> QED
  BY <1>2, <1>4, <1>5 DEF CasesInv, OnFile, Open, TakenUpStopsTheClock, BeforeOK

(* A form's check: nobody else is at the case it is about to file.         *)
LEMMA SubmitKeeps ==
  ASSUME CasesInv, NEW k \in Clerks, NEW c \in CaseIds, NEW status \in CaseStatuses \ {"ABSENT"},
         Submit(k, c, status),
         service \in {"quote", "contact"} => status \in {"NEW", "SPAM"},
         service \in ChecksDuplicates => NoDuplicate
  PROVE  CasesInv'
<1> DEFINE x == Job("submit", c, status, Nobody)
<1>1. /\ x \in Clerk /\ x.op = "submit" /\ x.id = c /\ x.status = status
  BY CasesAssumption DEF Job, Clerk, CasesInv, CasesTypeOK
<1>2. /\ clerk' = [clerk EXCEPT ![k] = x] /\ UNCHANGED <<service, case, reopened>>
      /\ before' = [before EXCEPT ![c] = {b \in CaseIds : OnFile(b)}]
      /\ ~ OnFile(c) /\ \A j \in Clerks : clerk[j].id # c
  BY DEF Submit
<1> HIDE DEF x
<1>3. /\ clerk'[k] = x /\ \A j \in Clerks \ {k} : clerk'[j] = clerk[j]
      /\ clerk' \in [Clerks -> Clerk] /\ before' \in [CaseIds -> SUBSET CaseIds]
  BY <1>1, <1>2 DEF CasesInv, CasesTypeOK
<1>4. CasesTypeOK'
  BY <1>2, <1>3 DEF CasesInv, CasesTypeOK
<1>5. ASSUME NEW j \in Clerks PROVE ClerkOK(j)'
  <2>1. ClerkOK(j)
    BY DEF CasesInv
  <2>2. CASE j = k
    BY <1>1, <1>2, <1>3, <2>2, CasesAssumption DEF ClerkOK, OnFile
  <2>3. CASE j # k
    <3>1. clerk[j].op = "submit" => \A i \in Clerks \ {j} : clerk'[i].id # clerk[j].id
      BY <1>1, <1>2, <1>3, <2>1 DEF ClerkOK
    <3> QED
      BY <1>2, <1>3, <2>1, <2>3, <3>1 DEF ClerkOK, OnFile
  <2> QED
    BY <2>2, <2>3
<1>6. BeforeOK'
  <2> SUFFICES ASSUME service \in ChecksDuplicates, NEW a \in CaseIds, NEW b \in CaseIds, a \in before'[b]
               PROVE  OnFile(a) /\ (Open(a) => a \in reopened)
    BY <1>2 DEF BeforeOK, OnFile, Open
  <2>1. CASE b = c
    BY <1>2, <2>1 DEF NoDuplicate, CasesInv, CasesTypeOK
  <2>2. CASE b # c
    BY <1>2, <2>2 DEF BeforeOK, CasesInv, CasesTypeOK
  <2> QED
    BY <2>1, <2>2
<1> QED
  BY <1>2, <1>4, <1>5, <1>6 DEF CasesInv, OnFile, TakenUpStopsTheClock

(* The write of a handler.                                                 *)
LEMMA WriteKeeps ==
  ASSUME CasesInv, NEW k \in Clerks, NEW row \in CaseRow, Write(k, row),
         clerk[k].op # "none", row.status # "ABSENT",
         service \in {"quote", "contact"} =>
           /\ case[clerk[k].id].responded => row.responded
           /\ row.status \notin {"NEW", "SPAM", "WITHDRAWN"} => row.responded
  PROVE  CasesInv'
<1>1. PICK c \in CaseIds : c = clerk[k].id
  BY DEF CasesInv, CasesTypeOK, Clerk, ClerkOK
<1>2. /\ case' \in [CaseIds -> CaseRow] /\ case'[c] = row
      /\ \A d \in CaseIds \ {c} : case'[d] = case[d]
      /\ clerk'[k] = NoJob /\ UNCHANGED <<service, before>>
      /\ reopened' = IF case[c].status \in Closed /\ row.status \notin Closed
                     THEN reopened \cup {c} ELSE reopened
  BY <1>1 DEF Write, CasesInv, CasesTypeOK
<1>3. ASSUME NEW j \in Clerks \ {k}
      PROVE  /\ clerk'[j] \in Clerk /\ clerk'[j].op = clerk[j].op /\ clerk'[j].id = clerk[j].id
             /\ clerk'[j].seen = clerk[j].seen /\ clerk'[j].status = clerk[j].status
             /\ clerk'[j].overlapped = (clerk[j].overlapped \/ clerk[j].id = c)
  <2>1. clerk[j] \in Clerk /\ clerk'[j] = [clerk[j] EXCEPT !.overlapped = @ \/ clerk[j].id = c]
    BY <1>1, <1>3 DEF Write, CasesInv, CasesTypeOK
  <2> QED
    BY <2>1 DEF Clerk
<1>4. CasesTypeOK'
  <2>1. clerk' \in [Clerks -> Clerk]
    BY <1>2, <1>3, NoJobIs DEF Write
  <2> QED
    BY <1>2, <2>1 DEF CasesInv, CasesTypeOK
<1>5. \A d \in CaseIds : OnFile(d) => OnFile(d)'
  BY <1>2 DEF OnFile
<1>6. ASSUME NEW j \in Clerks PROVE ClerkOK(j)'
  <2>1. CASE j = k
    BY <1>2, <2>1, NoJobIs DEF ClerkOK
  <2>2. CASE j # k /\ clerk[j].id = c
    <3>1. ClerkOK(j) /\ ClerkOK(k)
      BY DEF CasesInv
    <3>2. clerk[j].op # "submit" /\ clerk[j].op # "none"
      BY <1>1, <2>2, <3>1, CasesAssumption DEF ClerkOK
    <3>3. clerk'[j].overlapped = TRUE
      BY <1>3, <2>2
    <3> QED
      BY <1>1, <1>2, <1>3, <1>5, <2>2, <3>1, <3>2, <3>3 DEF ClerkOK
  <2>3. CASE j # k /\ clerk[j].id # c
    <3>1. ClerkOK(j) /\ clerk[j].id \in CaseIds \cup {Nobody}
      BY DEF CasesInv, CasesTypeOK, Clerk
    <3>2. clerk[j].op # "none" => case'[clerk[j].id] = case[clerk[j].id]
      BY <1>2, <2>3, <3>1 DEF ClerkOK
    <3>3. clerk[j].op = "submit" => \A i \in Clerks \ {j} : clerk'[i].id # clerk[j].id
      BY <1>2, <1>3, <3>1, CasesAssumption, NoJobIs DEF ClerkOK
    <3>4. clerk'[j].overlapped = clerk[j].overlapped
      BY <1>3, <2>3 DEF CasesInv, CasesTypeOK, Clerk
    <3> QED
      BY <1>2, <1>3, <2>3, <3>1, <3>2, <3>3, <3>4 DEF ClerkOK, OnFile
  <2> QED
    BY <2>1, <2>2, <2>3
<1>7. BeforeOK'
  <2> SUFFICES ASSUME service \in ChecksDuplicates, NEW a \in CaseIds, NEW b \in CaseIds, a \in before[b]
               PROVE  OnFile(a)' /\ (Open(a)' => a \in reopened')
    BY <1>2 DEF BeforeOK
  <2>1. OnFile(a) /\ (Open(a) => a \in reopened)
    BY DEF BeforeOK, CasesInv
  <2>2. a = c /\ ~ Open(a) /\ Open(a)' => a \in reopened'
    BY <1>2, <2>1 DEF Open, OnFile
  <2>3. a # c /\ Open(a)' => Open(a)
    BY <1>2 DEF Open, OnFile
  <2> QED
    BY <1>2, <1>5, <2>1, <2>2, <2>3
<1>8. TakenUpStopsTheClock'
  BY <1>1, <1>2 DEF TakenUpStopsTheClock, CasesInv
<1>9. \A d \in CaseIds : ~ OnFile(d)' => case'[d] = NoCase
  BY <1>2 DEF OnFile, CasesInv
<1> QED
  BY <1>4, <1>6, <1>7, <1>8, <1>9 DEF CasesInv

(* A handler changes the column it is for and no other.                    *)
MovesItsColumn(k, now, row) ==
  /\ row.status # now.status =>
       \/ clerk[k].op \in {"submit", "setStatus"} /\ row.status = clerk[k].status
       \/ clerk[k].op = "withdraw" /\ row.status = "WITHDRAWN"
  /\ row.owner # now.owner => clerk[k].op = "assign" /\ row.owner = clerk[k].owner
  /\ now.responded => row.responded

(* What every handler's write has in common.                               *)
Sound(k, row) ==
  /\ Write(k, row) /\ clerk[k].op # "none" /\ row.status # "ABSENT"
  /\ service \in {"quote", "contact"} =>
       /\ case[clerk[k].id].responded => row.responded
       /\ row.status \notin {"NEW", "SPAM", "WITHDRAWN"} => row.responded
  /\ service \in {"quote", "job"} /\ case[clerk[k].id].status = "WITHDRAWN" /\ row.status # "WITHDRAWN"
       => clerk[k].seen.status # "WITHDRAWN"
  /\ \/ service \in {"crane", "privacy"} /\ clerk[k].overlapped
     \/ MovesItsColumn(k, case[clerk[k].id], row)

Writes(k) ==
  \/ SubmitWrite(k) \/ AssignColumn(k) \/ CraneAssignWrite(k) \/ PrivacyAssignWrite(k)
  \/ QuoteSetStatusWrite(k) \/ JobSetStatusWrite(k) \/ CraneSetStatusWrite(k)
  \/ ContactSetStatusWrite(k) \/ PrivacySetStatusWrite(k) \/ WithdrawWrite(k)
  \/ ReplaceCvWrite(k) \/ KnodeSetStatusWrite(k)

LEMMA WritesAreSound ==
  ASSUME CasesInv, NEW k \in Clerks, Writes(k)
  PROVE  \E row \in CaseRow : Sound(k, row)
<1> DEFINE x == clerk[k]
           now == case[x.id]
<1>1. /\ x \in Clerk /\ ClerkOK(k) /\ x.op # "none" /\ x.id \in CaseIds
      /\ now \in CaseRow /\ x.seen \in CaseRow /\ x.status \in CaseStatuses
      /\ x.owner \in Owners \cup {Nobody}
  <2>1. clerk[k] \in Clerk /\ ClerkOK(k)
    BY DEF CasesInv, CasesTypeOK
  <2>2. clerk[k].op # "none"
    BY DEF Writes, SubmitWrite, AssignColumn, CraneAssignWrite, PrivacyAssignWrite, QuoteSetStatusWrite,
           JobSetStatusWrite, CraneSetStatusWrite, ContactSetStatusWrite, PrivacySetStatusWrite,
           WithdrawWrite, ReplaceCvWrite, KnodeSetStatusWrite, Doing
  <2> QED
    BY <2>1, <2>2 DEF ClerkOK, Clerk, CasesInv, CasesTypeOK
<1>2. CASE SubmitWrite(k)
  <2>1. PICK row \in CaseRow : row = [NoCase EXCEPT !.status = x.status]
    BY <1>1 DEF NoCase, CaseRow, CaseStatuses
  <2>2. /\ Write(k, row) /\ x.op = "submit" /\ row.status = x.status /\ row.owner = Nobody
        /\ ~ row.responded
    BY <1>2, <2>1 DEF SubmitWrite, Doing, NoCase
  <2>3. now = NoCase
    BY <1>1, <2>2 DEF ClerkOK, CasesInv
  <2> QED
    BY <1>1, <2>2, <2>3, NoJobIs DEF Sound, MovesItsColumn, ClerkOK
<1>3. ASSUME NEW y \in CaseRow, y = now \/ y = x.seen, x.op # "submit"
      PROVE  /\ y.status # "ABSENT"
             /\ service \in {"crane", "privacy"} /\ ~ x.overlapped => y = now
             /\ (service \in {"quote", "contact"} /\ y = now) =>
                  (y.status \notin {"NEW", "SPAM", "WITHDRAWN"} => y.responded)
  BY <1>1, <1>3 DEF ClerkOK, OnFile, CasesInv, TakenUpStopsTheClock
<1>4. CASE AssignColumn(k) \/ CraneAssignWrite(k) \/ PrivacyAssignWrite(k)
  <2>1. PICK y \in CaseRow : /\ y = now \/ (service \in {"crane", "privacy"} /\ y = x.seen)
                             /\ Write(k, [y EXCEPT !.owner = x.owner]) /\ x.op = "assign"
    BY <1>1, <1>4 DEF AssignColumn, CraneAssignWrite, PrivacyAssignWrite, Doing, Current
  <2>2. PICK row \in CaseRow : row = [y EXCEPT !.owner = x.owner]
    BY <1>1 DEF CaseRow
  <2>3. row.status = y.status /\ row.responded = y.responded /\ row.owner = x.owner
    BY <2>2 DEF CaseRow
  <2>4. /\ y.status # "ABSENT"
        /\ service \in {"quote", "contact"} =>
             y = now /\ (y.status \notin {"NEW", "SPAM", "WITHDRAWN"} => y.responded)
        /\ service \in {"quote", "job"} => y = now
        /\ (service \in {"crane", "privacy"} /\ x.overlapped) \/ y = now
    BY <1>3, <2>1
  <2>5. (service \in {"crane", "privacy"} /\ x.overlapped) \/ MovesItsColumn(k, now, row)
    BY <2>1, <2>3, <2>4 DEF MovesItsColumn
  <2> QED
    BY <1>1, <2>1, <2>2, <2>3, <2>4, <2>5 DEF Sound
<1>5. CASE QuoteSetStatusWrite(k) \/ ContactSetStatusWrite(k)
  <2>1. /\ x.op = "setStatus" /\ service \in {"quote", "contact"}
        /\ x.seen.responded => now.responded
        /\ x.status \in {"NEW", "SPAM", "TRIAGE", "WITHDRAWN", "ENGAGED"}
        /\ service = "quote" => x.status \in {"NEW", "TRIAGE", "WITHDRAWN"}
        /\ service = "contact" => x.status \in {"NEW", "ENGAGED", "SPAM"}
        /\ service = "quote" => x.seen.status # "WITHDRAWN"
    BY <1>1, <1>5 DEF QuoteSetStatusWrite, ContactSetStatusWrite, Doing, ClerkOK
  <2>2. PICK b \in BOOLEAN :
          /\ b = IF service = "quote" THEN ~ x.seen.responded /\ x.status \notin {"NEW", "WITHDRAWN"}
                                      ELSE ~ x.seen.responded /\ x.status \notin {"NEW", "SPAM"}
          /\ Write(k, [now EXCEPT !.status = x.status, !.responded = now.responded \/ b])
    BY <1>5 DEF QuoteSetStatusWrite, ContactSetStatusWrite, Current
  <2>3. PICK r \in BOOLEAN : r = (now.responded \/ b)
    OBVIOUS
  <2>4. PICK row \in CaseRow : row = [now EXCEPT !.status = x.status, !.responded = r]
    BY <1>1 DEF CaseRow
  <2>5. row.status = x.status /\ row.responded = r /\ row.owner = now.owner
    BY <1>1, <2>4 DEF CaseRow
  <2>6. /\ now.responded => row.responded
        /\ row.status \notin {"NEW", "SPAM", "WITHDRAWN"} => row.responded
    BY <2>1, <2>2, <2>3, <2>5
  <2> QED
    BY <1>1, <2>1, <2>2, <2>3, <2>4, <2>5, <2>6 DEF Sound, MovesItsColumn
<1>6. CASE JobSetStatusWrite(k) \/ CraneSetStatusWrite(k) \/ KnodeSetStatusWrite(k)
  <2>1. PICK y \in CaseRow : /\ \/ service \in {"job", "lead", "demo"} /\ y = now
                                \/ service = "crane" /\ y = x.seen
                             /\ Write(k, [y EXCEPT !.status = x.status]) /\ x.op = "setStatus"
    BY <1>1, <1>6 DEF JobSetStatusWrite, CraneSetStatusWrite, KnodeSetStatusWrite, Doing, Current
  <2>2. PICK row \in CaseRow : row = [y EXCEPT !.status = x.status]
    BY <1>1 DEF CaseRow
  <2>3. row.status = x.status /\ row.responded = y.responded /\ row.owner = y.owner
    BY <2>2 DEF CaseRow
  <2>4. /\ x.status # "ABSENT" /\ (service = "job" => x.seen.status # "WITHDRAWN")
        /\ service = "crane" /\ ~ x.overlapped => y = now
    BY <1>1, <1>3, <2>1 DEF ClerkOK
  <2> QED
    BY <1>1, <2>1, <2>2, <2>3, <2>4 DEF Sound, MovesItsColumn
<1>7. CASE PrivacySetStatusWrite(k)
  <2>1. service = "privacy" /\ x.op = "setStatus"
    BY <1>7 DEF PrivacySetStatusWrite, Doing
  <2>2. PICK r \in BOOLEAN :
          /\ Write(k, [x.seen EXCEPT !.status = x.status, !.responded = r])
          /\ x.seen.responded => r
    <3>1. PICK r \in BOOLEAN :
            r <=> x.seen.responded \/ (x.seen.status = "NEW" /\ x.status # "NEW")
      OBVIOUS
    <3>2. r = (x.seen.responded \/ (x.seen.status = "NEW" /\ x.status # "NEW"))
      BY <1>1, <3>1 DEF CaseRow
    <3> QED
      BY <1>7, <3>1, <3>2 DEF PrivacySetStatusWrite
  <2>3. PICK row \in CaseRow : row = [x.seen EXCEPT !.status = x.status, !.responded = r]
    BY <1>1 DEF CaseRow
  <2>4. row.status = x.status /\ row.owner = x.seen.owner /\ row.responded = r
    BY <1>1, <2>3 DEF CaseRow
  <2>5. x.status # "ABSENT" /\ (~ x.overlapped => x.seen = now)
    BY <1>1, <2>1 DEF ClerkOK
  <2> QED
    BY <1>1, <2>1, <2>2, <2>3, <2>4, <2>5 DEF Sound, MovesItsColumn
<1>8. CASE WithdrawWrite(k)
  <2>1. x.op = "withdraw" /\ service = "job"
    BY <1>1, <1>8 DEF WithdrawWrite, Doing, ClerkOK
  <2>2. PICK row \in CaseRow : row = [now EXCEPT !.status = "WITHDRAWN"]
    BY <1>1 DEF CaseRow, CaseStatuses
  <2>3. /\ Write(k, row) /\ row.status = "WITHDRAWN" /\ row.owner = now.owner
        /\ row.responded = now.responded
    BY <1>1, <1>8, <2>2 DEF WithdrawWrite, Current, CaseRow
  <2> QED
    BY <1>1, <2>1, <2>3 DEF Sound, MovesItsColumn
<1>9. CASE ReplaceCvWrite(k)
  <2>1. x.op = "replaceCv" /\ service = "crane" /\ Write(k, x.seen)
    BY <1>1, <1>9 DEF ReplaceCvWrite, Doing, ClerkOK
  <2>2. x.seen.status # "ABSENT" /\ (~ x.overlapped => x.seen = now)
    BY <1>1, <2>1 DEF ClerkOK
  <2> QED
    BY <1>1, <2>1, <2>2 DEF Sound, MovesItsColumn
<1> QED
  BY <1>2, <1>4, <1>5, <1>6, <1>7, <1>8, <1>9 DEF Writes

(* A step only reads, or writes one row.                                   *)
LEMMA StepsReadOrWrite ==
  ASSUME CasesInv, [CasesNext]_caseVars
  PROVE  (CasesInv' /\ UNCHANGED case) \/ \E k \in Clerks : Writes(k)
<1>1. CASE UNCHANGED caseVars
  BY <1>1 DEF caseVars, CasesInv, CasesTypeOK, OnFile, Open, ClerkOK, TakenUpStopsTheClock, BeforeOK
<1>2. ASSUME NEW k \in Clerks, NEW c \in CaseIds,
             \/ SubmitQuote(k, c) \/ SubmitJob(k, c) \/ SubmitCrane(k, c)
             \/ SubmitContact(k, c) \/ SubmitPrivacy(k, c) \/ SubmitKnode(k, c)
      PROVE  CasesInv' /\ UNCHANGED case
  <2>1. PICK status \in CaseStatuses \ {"ABSENT"} :
          /\ Submit(k, c, status)
          /\ service \in {"quote", "contact"} => status \in {"NEW", "SPAM"}
          /\ service \in ChecksDuplicates => NoDuplicate
    BY <1>2 DEF SubmitQuote, SubmitJob, SubmitCrane, SubmitContact, SubmitPrivacy, SubmitKnode,
                CaseStatuses, ChecksDuplicates
  <2> QED
    BY <2>1, SubmitKeeps DEF Submit
<1>3. ASSUME NEW k \in Clerks, NEW c \in CaseIds, NEW status \in CaseStatuses,
             \/ QuoteSetStatus(k, c, status) \/ JobSetStatus(k, c, status)
             \/ CraneSetStatus(k, c, status) \/ ContactSetStatus(k, c, status)
             \/ PrivacySetStatus(k, c, status) \/ LeadSetStatus(k, c, status)
             \/ DemoSetStatus(k, c, status)
      PROVE  CasesInv' /\ UNCHANGED case
  <2>1. /\ OnFile(c) /\ Read(k, "setStatus", c, status, Nobody) /\ status # "ABSENT"
        /\ service = "quote" => status \in {"NEW", "TRIAGE", "WITHDRAWN"}
        /\ service = "contact" => status \in {"NEW", "ENGAGED", "SPAM"}
        /\ service \in {"quote", "job"} => case[c].status # "WITHDRAWN"
    BY <1>3 DEF QuoteSetStatus, JobSetStatus, CraneSetStatus, ContactSetStatus, PrivacySetStatus,
                LeadSetStatus, DemoSetStatus, SetStatus
  <2> QED
    BY <2>1, ReadKeeps DEF Read
<1>4. ASSUME NEW k \in Clerks, NEW c \in CaseIds, Withdraw(k, c) \/ ReplaceCv(k, c)
      PROVE  CasesInv' /\ UNCHANGED case
  <2>1. "WITHDRAWN" \in CaseStatuses /\ "ABSENT" \in CaseStatuses
    BY DEF CaseStatuses
  <2>2. CASE Withdraw(k, c)
    BY <2>1, <2>2, ReadKeeps DEF Withdraw, Open, Read
  <2>3. CASE ReplaceCv(k, c)
    BY <2>1, <2>3, ReadKeeps DEF ReplaceCv, Read
  <2> QED
    BY <1>4, <2>2, <2>3
<1>5. ASSUME NEW k \in Clerks, NEW c \in CaseIds, NEW owner \in Owners \cup {Nobody}, Assign(k, c, owner)
      PROVE  CasesInv' /\ UNCHANGED case
  <2>1. "ABSENT" \in CaseStatuses
    BY DEF CaseStatuses
  <2> QED
    BY <1>5, <2>1, ReadKeeps DEF Assign, Read
<1> QED
  BY <1>1, <1>2, <1>3, <1>4, <1>5 DEF CasesNext, Writes

LEMMA CasesStep == CasesInv /\ [CasesNext]_caseVars => CasesInv'
<1> SUFFICES ASSUME CasesInv, [CasesNext]_caseVars PROVE CasesInv'
  OBVIOUS
<1>1. ASSUME NEW k \in Clerks, Writes(k) PROVE CasesInv'
  <2>1. PICK row \in CaseRow : Sound(k, row)
    BY <1>1, WritesAreSound
  <2> QED
    BY <2>1, WriteKeeps DEF Sound
<1> QED
  BY <1>1, StepsReadOrWrite

LEMMA CasesInvariant == CasesSpec => []CasesInv
  BY CasesInitially, CasesStep, PTL DEF CasesSpec

(* The row a handler writes is the only one that changes, and the handler  *)
(* is done.                                                                *)
LEMMA WriteChangesOneRow ==
  ASSUME CasesInv, NEW k \in Clerks, NEW row \in CaseRow, Write(k, row), NEW c \in CaseIds,
         case'[c] # case[c]
  PROVE  clerk[k].id = c /\ case'[c] = row /\ clerk'[k].op = "none"
  BY NoJobIs DEF Write, CasesInv, CasesTypeOK

(* A quote or an enquiry that was taken up has a stopped clock, however    *)
(* moves overlap (setStatus in crane-quote and contact services), for any  *)
(* number of cases and of requests.                                        *)
THEOREM TakenUpCasesAreOnTheClock == CasesSpec => []TakenUpStopsTheClock
<1>1. CasesInv => TakenUpStopsTheClock
  BY DEF CasesInv
<1> QED
  BY <1>1, CasesInvariant, PTL

(* Two live applications for one role come from overlapping forms or from  *)
(* a reopened one (submit in application.service.ts and in                 *)
(* crane-application.service.ts), for any number of cases and requests.    *)
THEOREM DuplicatesComeFromOverlaps == CasesSpec => []DuplicatesNeedAnOverlap
<1>1. CasesInv => DuplicatesNeedAnOverlap
  BY DEF CasesInv, BeforeOK, DuplicatesNeedAnOverlap
<1> QED
  BY <1>1, CasesInvariant, PTL

(* Only a move that had read the row before a withdrawal can undo it       *)
(* (setStatus and withdraw at the quote and job desks).                    *)
THEOREM WithdrawalsStand == CasesSpec => WithdrawalStands
<1>1. ASSUME CasesInv, [CasesNext]_caseVars
      PROVE  \A c \in CaseIds :
               service \in {"quote", "job"} /\ case[c].status = "WITHDRAWN" /\ case'[c].status # "WITHDRAWN"
                 => \E k \in Clerks : clerk[k].id = c /\ clerk[k].seen.status # "WITHDRAWN"
  <2> SUFFICES ASSUME NEW c \in CaseIds, service \in {"quote", "job"}, case[c].status = "WITHDRAWN",
                      case'[c].status # "WITHDRAWN"
               PROVE  \E k \in Clerks : clerk[k].id = c /\ clerk[k].seen.status # "WITHDRAWN"
    OBVIOUS
  <2>1. PICK k \in Clerks : Writes(k)
    BY <1>1, StepsReadOrWrite
  <2>2. PICK row \in CaseRow : Sound(k, row)
    BY <1>1, <2>1, WritesAreSound
  <2>3. clerk[k].id = c /\ case'[c] = row
    BY <1>1, <2>2, WriteChangesOneRow DEF Sound
  <2> QED
    BY <2>2, <2>3 DEF Sound
<1> QED
  BY <1>1, CasesInvariant, PTL DEF CasesSpec, WithdrawalStands

(* A handler changes the column it is for, unless its desk saves whole     *)
(* rows and somebody else has written the row meanwhile (assign, setStatus,*)
(* withdraw, replaceCv), for any number of cases, requests and owners.     *)
THEOREM UpdatesAreNotLost == CasesSpec => HandlersMoveTheirColumn
<1>1. ASSUME CasesInv, [CasesNext]_caseVars
      PROVE  \A c \in CaseIds : case'[c] # case[c] =>
               \E k \in Clerks :
                 /\ clerk[k].id = c /\ clerk'[k].op = "none"
                 /\ \/ service \in {"crane", "privacy"} /\ clerk[k].overlapped
                    \/ MovesItsColumn(k, case[c], case'[c])
  <2> SUFFICES ASSUME NEW c \in CaseIds, case'[c] # case[c]
               PROVE  \E k \in Clerks :
                        /\ clerk[k].id = c /\ clerk'[k].op = "none"
                        /\ \/ service \in {"crane", "privacy"} /\ clerk[k].overlapped
                           \/ MovesItsColumn(k, case[c], case'[c])
    OBVIOUS
  <2>1. PICK k \in Clerks : Writes(k)
    BY <1>1, StepsReadOrWrite
  <2>2. PICK row \in CaseRow : Sound(k, row)
    BY <1>1, <2>1, WritesAreSound
  <2>3. clerk[k].id = c /\ case'[c] = row /\ clerk'[k].op = "none"
    BY <1>1, <2>2, WriteChangesOneRow DEF Sound
  <2> QED
    BY <2>2, <2>3 DEF Sound
<1> QED
  BY <1>1, CasesInvariant, PTL DEF CasesSpec, HandlersMoveTheirColumn, MovesItsColumn
=============================================================================
