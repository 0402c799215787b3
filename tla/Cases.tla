------------------------------- MODULE Cases -------------------------------
(***************************************************************************)
(* What a person sends in and a desk works through: crane quote requests,  *)
(* IT job applications, crane job applications, contact enquiries, privacy *)
(* enquiries, leads from the sales deck and demo requests.  The services   *)
(* share one shape, read the row, decide, write it, and differ in two      *)
(* things: which moves they refuse, and whether the write names its        *)
(* columns (update) or is the row as it was read (save).                   *)
(*                                                                         *)
(* The statuses of a desk are those its handlers tell apart.  The form's   *)
(* answers, the letters and the files (Intake has them) are left out, and  *)
(* so are the timeline, which a handler appends to last and none reads,    *)
(* and the moments written with a column (assignedAt with the owner,       *)
(* stageDueAt with the status).                                            *)
(***************************************************************************)
CONSTANTS
  CaseIds,    (* rows, all sent by one person for one role or track        *)
  Clerks,     (* requests the server may be serving at one moment          *)
  Owners,     (* whom a case can be assigned to                            *)
  Nobody

ASSUME CasesAssumption == Nobody \notin Owners /\ Nobody \notin CaseIds

VARIABLES
  service,   (* the desk this behaviour is about                           *)
  case,      (* its table                                                  *)
  clerk,     (* the requests being served                                  *)
  before,    (* history: the cases on file when a case's check was made    *)
  reopened   (* history: the cases moved from a closed status to another   *)

caseVars == <<service, case, clerk, before, reopened>>

Services == {"quote", "job", "crane", "contact", "privacy", "lead", "demo"}
ChecksDuplicates == {"job", "crane"}

CaseStatuses == {"ABSENT", "NEW", "TRIAGE", "WITHDRAWN", "SCREENING", "REJECTED", "SUBMITTED",
                 "ENGAGED", "SPAM", "IN_PROGRESS"}
Closed == {"REJECTED", "WITHDRAWN"}         (* one may apply again         *)

CaseRow == [status    : CaseStatuses,
            responded : BOOLEAN,               (* firstRespondedAt is set  *)
            owner     : Owners \cup {Nobody}]  (* assignedTo              *)

NoCase == [status |-> "ABSENT", responded |-> FALSE, owner |-> Nobody]

Clerk == [op     : {"none", "submit", "setStatus", "assign", "withdraw", "replaceCv"},
          id     : CaseIds \cup {Nobody},
          seen   : CaseRow,                    (* the row as it was read   *)
          status : CaseStatuses,               (* the status asked for     *)
          owner  : Owners \cup {Nobody},       (* the owner asked for      *)
          overlapped : BOOLEAN]                (* history: the row changed *)
                                               (* between read and write   *)

Job(op, c, status, owner) ==
  [op |-> op, id |-> c, seen |-> IF c = Nobody THEN NoCase ELSE case[c],
   status |-> status, owner |-> owner, overlapped |-> FALSE]

NoJob == Job("none", Nobody, "ABSENT", Nobody)

CasesTypeOK ==
  /\ service \in Services
  /\ case \in [CaseIds -> CaseRow]
  /\ clerk \in [Clerks -> Clerk]
  /\ before \in [CaseIds -> SUBSET CaseIds]
  /\ reopened \in SUBSET CaseIds

CasesInit ==
  /\ service \in Services
  /\ case = [c \in CaseIds |-> NoCase]
  /\ clerk = [k \in Clerks |-> NoJob]
  /\ before = [c \in CaseIds |-> {}]
  /\ reopened = {}

----------------------------------------------------------------------------
OnFile(c) == case[c].status # "ABSENT"
Open(c) == OnFile(c) /\ case[c].status \notin Closed
Doing(k, op) == clerk[k].op = op

(* The first await of a handler: the row is read and the decision taken.   *)
Read(k, op, c, status, owner) ==
  /\ clerk[k].op = "none"
  /\ clerk' = [clerk EXCEPT ![k] = Job(op, c, status, owner)]
  /\ UNCHANGED <<service, case, before, reopened>>

(* The write of a handler; those who read the row earlier are overlapped.  *)
Write(k, row) ==
  LET c == clerk[k].id IN
  /\ case' = [case EXCEPT ![c] = row]
  /\ clerk' = [j \in Clerks |->
                 IF j = k THEN NoJob
                 ELSE [clerk[j] EXCEPT !.overlapped = @ \/ clerk[j].id = c]]
  /\ reopened' = IF case[c].status \in Closed /\ row.status \notin Closed
                 THEN reopened \cup {c} ELSE reopened
  /\ UNCHANGED <<service, before>>

(* Mutant: the row as it was read is saved instead.                        *)
AsRead(k) == clerk[k].seen

(* What update() starts from: it names its columns, so the row as it is.   *)
Current(k) == case[clerk[k].id]

----------------------------------------------------------------------------
(* Mutant: a general application is matched on jobId = NULL, which finds   *)
(* nothing.                                                                *)
NothingFound == TRUE

(* One live application per person and role, or per track.                 *)
NoDuplicate == ~ \E b \in CaseIds : Open(b)

(* Bound: rows of a desk that looks for no duplicates share nothing, so    *)
(* such a behaviour has one.                                               *)
Submit(k, c, status) ==
  /\ \A b \in CaseIds : OnFile(b) => b # c /\ service \in ChecksDuplicates
  /\ \A j \in Clerks : clerk[j].id # c
  /\ clerk[k].op = "none"
  /\ clerk' = [clerk EXCEPT ![k] = Job("submit", c, status, Nobody)]
  /\ before' = [before EXCEPT ![c] = {b \in CaseIds : OnFile(b)}]
  /\ UNCHANGED <<service, case, reopened>>

(* A lead is captured (DeckCapture has the retries) and a demo asked for.  *)
SubmitKnode(k, c) == service \in {"lead", "demo"} /\ Submit(k, c, "NEW")

(* Suspected spam is stored, never rejected.                               *)
SubmitQuote(k, c) == service = "quote" /\ Submit(k, c, "NEW")
SubmitJob(k, c) == service = "job" /\ NoDuplicate /\ Submit(k, c, "NEW")
SubmitCrane(k, c) ==
  service = "crane" /\ NoDuplicate /\ \E s \in {"SUBMITTED", "REJECTED"} : Submit(k, c, s)
SubmitContact(k, c) == service = "contact" /\ \E s \in {"NEW", "SPAM"} : Submit(k, c, s)
SubmitPrivacy(k, c) == service = "privacy" /\ \E s \in {"NEW", "SPAM"} : Submit(k, c, s)

SubmitWrite(k) ==
  /\ Doing(k, "submit")
  /\ Write(k, [NoCase EXCEPT !.status = clerk[k].status])

----------------------------------------------------------------------------
(* setStatus at the desks: what each refuses and when its clock stops.     *)
SetStatus(k, c, status) == OnFile(c) /\ Read(k, "setStatus", c, status, Nobody)

QuoteSetStatus(k, c, status) ==
  /\ service = "quote" /\ status \in {"NEW", "TRIAGE", "WITHDRAWN"}
  /\ case[c].status \notin {"WITHDRAWN", status}
  /\ SetStatus(k, c, status)

(* Mutant: a withdrawal is an outcome like any other.                      *)
JobReopens(k, c, status) ==
  /\ service = "job" /\ status \in {"NEW", "SCREENING", "REJECTED"}
  /\ case[c].status # status
  /\ SetStatus(k, c, status)

JobSetStatus(k, c, status) ==
  /\ service = "job" /\ status \in {"NEW", "SCREENING", "REJECTED"}
  /\ case[c].status \notin {"WITHDRAWN", status}
  /\ SetStatus(k, c, status)

CraneSetStatus(k, c, status) ==
  /\ service = "crane" /\ status \in {"SUBMITTED", "SCREENING", "REJECTED", "WITHDRAWN"}
  /\ SetStatus(k, c, status)

ContactSetStatus(k, c, status) ==
  /\ service = "contact" /\ status \in {"NEW", "ENGAGED", "SPAM"}
  /\ SetStatus(k, c, status)

PrivacySetStatus(k, c, status) ==
  /\ service = "privacy" /\ status \in {"NEW", "IN_PROGRESS", "SPAM"}
  /\ SetStatus(k, c, status)

(* Both ladders of a lead, and that of a demo: NEW, and any other rung.    *)
LeadSetStatus(k, c, status) ==
  /\ service = "lead" /\ status \in {"NEW", "ENGAGED"} \ {case[c].status}
  /\ SetStatus(k, c, status)

DemoSetStatus(k, c, status) ==
  /\ service = "demo" /\ status \in {"NEW", "ENGAGED"} \ {case[c].status}
  /\ SetStatus(k, c, status)

KnodeSetStatusWrite(k) ==
  /\ service \in {"lead", "demo"} /\ Doing(k, "setStatus")
  /\ Write(k, [Current(k) EXCEPT !.status = clerk[k].status])

QuoteSetStatusWrite(k) ==
  /\ service = "quote" /\ Doing(k, "setStatus")
  /\ Write(k, [Current(k) EXCEPT
       !.status = clerk[k].status,
       !.responded = @ \/ (~ clerk[k].seen.responded /\ clerk[k].status \notin {"NEW", "WITHDRAWN"})])

JobSetStatusWrite(k) ==
  /\ service = "job" /\ Doing(k, "setStatus")
  /\ Write(k, [Current(k) EXCEPT !.status = clerk[k].status])

CraneSetStatusWrite(k) ==
  /\ service = "crane" /\ Doing(k, "setStatus")
  /\ Write(k, [clerk[k].seen EXCEPT !.status = clerk[k].status])

(* Mutant: only the first move off NEW stops the clock.                    *)
ContactStopsFromNew(k) ==
  /\ service = "contact" /\ Doing(k, "setStatus")
  /\ Write(k, [Current(k) EXCEPT
       !.status = clerk[k].status,
       !.responded = @ \/ (clerk[k].seen.status = "NEW" /\ clerk[k].status # "NEW")])

ContactSetStatusWrite(k) ==
  /\ service = "contact" /\ Doing(k, "setStatus")
  /\ Write(k, [Current(k) EXCEPT
       !.status = clerk[k].status,
       !.responded = @ \/ (~ clerk[k].seen.responded /\ clerk[k].status \notin {"NEW", "SPAM"})])

PrivacySetStatusWrite(k) ==
  /\ service = "privacy" /\ Doing(k, "setStatus")
  /\ Write(k, [clerk[k].seen EXCEPT
       !.status = clerk[k].status,
       !.responded = @ \/ (clerk[k].seen.status = "NEW" /\ clerk[k].status # "NEW")])

----------------------------------------------------------------------------
(* assign: four of the desks can also take an owner away.                  *)
Assign(k, c, owner) ==
  /\ OnFile(c)
  /\ owner = Nobody => service \in {"crane", "privacy", "lead", "demo"}
  /\ Read(k, "assign", c, "ABSENT", owner)

AssignColumn(k) ==
  /\ service \notin {"crane", "privacy"} /\ Doing(k, "assign")
  /\ Write(k, [Current(k) EXCEPT !.owner = clerk[k].owner])

CraneAssignWrite(k) ==
  /\ service = "crane" /\ Doing(k, "assign")
  /\ Write(k, [clerk[k].seen EXCEPT !.owner = clerk[k].owner])

PrivacyAssignWrite(k) ==
  /\ service = "privacy" /\ Doing(k, "assign")
  /\ Write(k, [clerk[k].seen EXCEPT !.owner = clerk[k].owner])

(* Between reading the application and saving it, the new CV is uploaded.  *)
ReplaceCv(k, c) ==
  /\ service = "crane" /\ OnFile(c)
  /\ Read(k, "replaceCv", c, "ABSENT", Nobody)

ReplaceCvWrite(k) == Doing(k, "replaceCv") /\ Write(k, clerk[k].seen)

(* An IT candidate withdraws by the link in the letter.                    *)
Withdraw(k, c) ==
  /\ service = "job" /\ Open(c)
  /\ Read(k, "withdraw", c, "WITHDRAWN", Nobody)

WithdrawWrite(k) ==
  /\ Doing(k, "withdraw")
  /\ Write(k, [Current(k) EXCEPT !.status = "WITHDRAWN"])

CasesNext ==
  \E k \in Clerks :
    \/ SubmitWrite(k) \/ AssignColumn(k) \/ CraneAssignWrite(k) \/ PrivacyAssignWrite(k)
    \/ QuoteSetStatusWrite(k) \/ JobSetStatusWrite(k) \/ CraneSetStatusWrite(k)
    \/ ContactSetStatusWrite(k) \/ PrivacySetStatusWrite(k) \/ WithdrawWrite(k)
    \/ ReplaceCvWrite(k) \/ KnodeSetStatusWrite(k)
    \/ \E c \in CaseIds :
         \/ SubmitQuote(k, c) \/ SubmitJob(k, c) \/ SubmitCrane(k, c)
         \/ SubmitContact(k, c) \/ SubmitPrivacy(k, c) \/ Withdraw(k, c)
         \/ ReplaceCv(k, c) \/ SubmitKnode(k, c)
         \/ \E owner \in Owners \cup {Nobody} : Assign(k, c, owner)
         \/ \E status \in CaseStatuses :
              \/ QuoteSetStatus(k, c, status) \/ JobSetStatus(k, c, status)
              \/ CraneSetStatus(k, c, status) \/ ContactSetStatus(k, c, status)
              \/ PrivacySetStatus(k, c, status) \/ LeadSetStatus(k, c, status)
              \/ DemoSetStatus(k, c, status)

CasesSpec == CasesInit /\ [][CasesNext]_caseVars

----------------------------------------------------------------------------
(* A quote or an enquiry that somebody has taken up has a stopped clock,   *)
(* whatever moves overlap and although an enquiry may arrive as spam: the  *)
(* overdue list is computed from this column                               *)
(* (crane-quote.service.ts:634-641, contact.service.ts:337-345).           *)
TakenUpStopsTheClock ==
  \A c \in CaseIds :
    service \in {"quote", "contact"} /\ case[c].status \notin {"ABSENT", "NEW", "SPAM", "WITHDRAWN"}
      => case[c].responded

(* Two live applications of one person for one role need more than a       *)
(* repeated form: either neither was on file when the other was checked,   *)
(* or somebody reopened a closed one (application.service.ts:196-226,      *)
(* crane-application.service.ts:136-155; no index backs the check).        *)
DuplicatesNeedAnOverlap ==
  service \in ChecksDuplicates =>
    \A a, b \in CaseIds : a # b /\ Open(a) /\ Open(b) /\ a \in before[b] => a \in reopened

(* "A candidate's withdrawal is theirs, not a state a recruiter can undo": *)
(* a withdrawn quote or IT application stays so, unless a move had read    *)
(* the row before (application.service.ts:610-615, quote 625-629).         *)
WithdrawalStands ==
  [][\A c \in CaseIds :
       service \in {"quote", "job"} /\ case[c].status = "WITHDRAWN" /\ case'[c].status # "WITHDRAWN"
         => \E k \in Clerks : clerk[k].id = c /\ clerk[k].seen.status # "WITHDRAWN"]_caseVars

(* No lost update: a handler changes the column it is for and leaves what  *)
(* others wrote, the status and the stopped clock as much as the owner.    *)
(* The desks that save the row they read are the exception, and only when  *)
(* another write overlapped theirs: then what was stored in between is     *)
(* undone (crane-application.service.ts:406, 515, 541,                     *)
(* privacy-contact.service.ts:332, 362).                                   *)
HandlersMoveTheirColumn ==
  [][\A c \in CaseIds : case'[c] # case[c] =>
       \E k \in Clerks :
         /\ clerk[k].id = c /\ clerk'[k].op = "none"
         /\ \/ service \in {"crane", "privacy"} /\ clerk[k].overlapped
            \/ /\ case'[c].status # case[c].status =>
                     \/ clerk[k].op \in {"submit", "setStatus"} /\ case'[c].status = clerk[k].status
                     \/ clerk[k].op = "withdraw" /\ case'[c].status = "WITHDRAWN"
               /\ case'[c].owner # case[c].owner =>
                     clerk[k].op = "assign" /\ case'[c].owner = clerk[k].owner
               /\ case[c].responded => case'[c].responded]_caseVars
=============================================================================
