---------------------------- MODULE PostingDesk ----------------------------
(***************************************************************************)
(* What goes on the websites: IT job postings (careers/careers.service.ts),*)
(* crane job postings (crane/careers/crane-career.service.ts) and articles *)
(* (insights/insights.service.ts).                                         *)
(*                                                                         *)
(* An edit writes every column of the form: those it was not given, as it  *)
(* read them, the status among them, and, but for crane postings, the      *)
(* moment of publication.  Other columns, slugs and regions are left out.  *)
(***************************************************************************)
CONSTANTS
  Postings,  (* rows                                                       *)
  Editors,   (* requests the server may be serving at one moment           *)
  NoPosting

ASSUME PostingsAssumption == NoPosting \notin Postings

VARIABLES
  board,      (* the service this behaviour is about                       *)
  posting,    (* its table                                                 *)
  editor,     (* the requests being served                                 *)
  published,  (* the postings announced on the panel's bell                *)
  byForm,     (* history: made LIVE by a form, which stamps nothing        *)
  overwritten (* history: written by an edit that had read an older row    *)

postingVars == <<board, posting, editor, published, byForm, overwritten>>

Boards == {"job", "crane", "article"}
Shown == {"DRAFT", "LIVE", "CLOSED"}   (* OPEN or PUBLISHED; CLOSED or ARCHIVED *)
Kept == "KEPT"                         (* the form does not name the status     *)

PostingRow == [status : Shown \cup {"ABSENT"}, dated : BOOLEAN, deleted : BOOLEAN]
NoRow == [status |-> "ABSENT", dated |-> FALSE, deleted |-> FALSE]

Editor == [op     : {"idle", "edit", "setStatus", "announce", "remove"},
           on     : Postings \cup {NoPosting},
           seen   : PostingRow,                (* the row as it was read   *)
           status : Shown \cup {Kept},
           dated  : BOOLEAN,                   (* the form brings a date   *)
           stale  : BOOLEAN]                   (* history: the row changed *)

NoEditor == [op |-> "idle", on |-> NoPosting, seen |-> NoRow, status |-> Kept,
             dated |-> FALSE, stale |-> FALSE]

PostingsTypeOK ==
  /\ board \in Boards
  /\ posting \in [Postings -> PostingRow]
  /\ editor \in [Editors -> Editor]
  /\ published \in SUBSET Postings
  /\ byForm \in SUBSET Postings
  /\ overwritten \in SUBSET Postings

PostingsInit ==
  /\ board \in Boards
  /\ posting = [p \in Postings |-> NoRow]
  /\ editor = [e \in Editors |-> NoEditor]
  /\ published = {}
  /\ byForm = {}
  /\ overwritten = {}

----------------------------------------------------------------------------
(* Editor e writes row p and goes on as x.                                 *)
Rewrite(e, p, row, x) ==
  /\ posting' = [posting EXCEPT ![p] = row]
  /\ editor' = [d \in Editors |->
                  IF d = e THEN x ELSE [editor[d] EXCEPT !.stale = @ \/ editor[d].on = p]]

(* findById.                                                               *)
Look(e, op, p, status, dated) ==
  /\ editor[e].op = "idle"
  /\ posting[p].status # "ABSENT" /\ ~ posting[p].deleted
  /\ editor' = [editor EXCEPT ![e] =
       [op |-> op, on |-> p, seen |-> posting[p], status |-> status, dated |-> dated, stale |-> FALSE]]
  /\ UNCHANGED <<board, posting, published, byForm, overwritten>>

(* The crane form carries no date.                                         *)
CreatePosting(p, status, dated) ==
  /\ posting[p].status = "ABSENT"
  /\ board = "crane" => ~ dated
  /\ posting' = [posting EXCEPT ![p] = [status |-> status, dated |-> dated, deleted |-> FALSE]]
  /\ byForm' = IF status = "LIVE" THEN byForm \cup {p} ELSE byForm
  /\ UNCHANGED <<board, editor, published, overwritten>>

Edit(e, p, status, dated) ==
  /\ board = "crane" => ~ dated
  /\ Look(e, "edit", p, status, dated)

(* Mutant: a status that the form does not name is written all the same.   *)
AsSent(x) == x.status

(* mapScalars: what the form names, else what was read.                    *)
EditedStatus(x) == IF x.status = Kept THEN x.seen.status ELSE x.status

EditWrite(e) ==
  LET x == editor[e]
      p == x.on
      old == posting[p]
  IN
  /\ x.op = "edit"
  /\ Rewrite(e, p,
       [old EXCEPT !.status = EditedStatus(x),
                   !.dated = IF board = "crane" THEN @ ELSE x.dated \/ x.seen.dated], NoEditor)
  /\ byForm' = IF x.status = "LIVE" THEN byForm \cup {p} ELSE byForm
  /\ overwritten' = IF x.stale THEN overwritten \cup {p} ELSE overwritten
  /\ UNCHANGED <<board, published>>

SetPostingStatus(e, p, status) == Look(e, "setStatus", p, status, FALSE)

(* Mutant: only a draft is published for the first time.                   *)
StampsDraft(seen, status) == status = "LIVE" /\ seen.status = "DRAFT"

(* The moment of the first publication.                                    *)
Stamps(seen, status) == status = "LIVE" /\ ~ seen.dated

(* Only articles announce their publication.                               *)
SetPostingStatusWrite(e) ==
  LET x == editor[e]
      p == x.on
      announces == board = "article" /\ x.status = "LIVE" /\ x.seen.status # "LIVE"
  IN
  /\ x.op = "setStatus"
  /\ Rewrite(e, p, [posting[p] EXCEPT !.status = x.status, !.dated = @ \/ Stamps(x.seen, x.status)],
             IF announces THEN [x EXCEPT !.op = "announce"] ELSE NoEditor)
  /\ UNCHANGED <<board, published, byForm, overwritten>>

AnnouncePosting(e) ==
  /\ editor[e].op = "announce"
  /\ published' \in {published, published \cup {editor[e].on}}
  /\ editor' = [editor EXCEPT ![e] = NoEditor]
  /\ UNCHANGED <<board, posting, byForm, overwritten>>

RemovePosting(e, p) == Look(e, "remove", p, Kept, FALSE)

RemovePostingWrite(e) ==
  /\ editor[e].op = "remove"
  /\ Rewrite(e, editor[e].on,
             [posting[editor[e].on] EXCEPT !.deleted = TRUE, !.status = "CLOSED"], NoEditor)
  /\ UNCHANGED <<board, published, byForm, overwritten>>

PostingsNext ==
  \/ \E p \in Postings, status \in Shown, dated \in BOOLEAN : CreatePosting(p, status, dated)
  \/ \E e \in Editors :
       \/ EditWrite(e) \/ SetPostingStatusWrite(e) \/ AnnouncePosting(e) \/ RemovePostingWrite(e)
       \/ \E p \in Postings :
            \/ RemovePosting(e, p)
            \/ \E status \in Shown : SetPostingStatus(e, p, status)
            \/ \E status \in Shown \cup {Kept}, dated \in BOOLEAN : Edit(e, p, status, dated)

PostingsSpec == PostingsInit /\ [][PostingsNext]_postingVars

----------------------------------------------------------------------------
(* What is on the website has its moment of publication ("publishing for   *)
(* the first time stamps", careers.service.ts:299-307), and the lists sort *)
(* by it.  Two things undo that: a form may name the status itself, and an *)
(* edit writes back the date it read, none, over a publication in between  *)
(* (insights.service.ts:369-372).  Crane postings know only the first.     *)
LiveIsDated ==
  \A p \in Postings :
    posting[p].status = "LIVE" /\ ~ posting[p].dated =>
      p \in byForm \/ (p \in overwritten /\ board # "crane")
=============================================================================
