------------------------------ MODULE Register ------------------------------
(***************************************************************************)
(* The register of employees and the account a person may be given         *)
(* (hr/employee.service.ts, create in auth/staff.service.ts).              *)
(*                                                                         *)
(* Handlers check first and write later, outside any transaction.  The     *)
(* other columns of a record, payslips, documents (DocumentSlots has them) *)
(* and the badges of an account (Staff has them) are left out.             *)
(***************************************************************************)
CONSTANTS
  People,    (* employees, those not filed yet included                    *)
  Emails,    (* work addresses                                             *)
  Officers,  (* requests the server may be serving at one moment           *)
  NoPerson

ASSUME RegisterAssumption == NoPerson \notin People \cup Emails

VARIABLES
  person,    (* employees                                                  *)
  account,   (* admins.email of the person's account                       *)
  deed,      (* the requests being served                                  *)
  raced,     (* history: people whose record or account was written while  *)
             (* another request was between its check and its last write   *)
  refused    (* history: people whose account did not take a new address   *)

registerVars == <<person, account, deed, raced, refused>>

PersonRow == [state : {"absent", "filed", "removed"}, active : BOOLEAN, email : Emails \cup {NoPerson}]
Deed == [op    : {"none", "grant", "remove", "update", "follow"},
         who   : People \cup {NoPerson},
         email : Emails \cup {NoPerson},
         active : BOOLEAN]

ADeed(op, p, email, active) ==
  [op |-> op, who |-> p, email |-> email, active |-> active]
NoDeed == ADeed("none", NoPerson, NoPerson, FALSE)

RegisterTypeOK ==
  /\ person \in [People -> PersonRow]
  /\ account \in [People -> Emails \cup {NoPerson}]
  /\ deed \in [Officers -> Deed]
  /\ raced \in SUBSET People
  /\ refused \in SUBSET People

RegisterInit ==
  /\ person = [p \in People |-> [state |-> "absent", active |-> FALSE, email |-> NoPerson]]
  /\ account = [p \in People |-> NoPerson]
  /\ deed = [r \in Officers |-> NoDeed]
  /\ raced = {}
  /\ refused = {}

----------------------------------------------------------------------------
Filed(p) == person[p].state = "filed"                      (* findById     *)
Taken(e) == \E p \in People : person[p].email = e          (* work_email   *)
Others(r, p) == \E q \in Officers \ {r} : deed[q].who = p

Undertake(r, c) ==
  /\ deed[r].op = "none"
  /\ deed' = [deed EXCEPT ![r] = c]
  /\ UNCHANGED <<person, account, raced, refused>>

(* The writes of a request to a record or an account.                      *)
Marked(r, p) == IF Others(r, p) THEN raced \cup {p} ELSE raced

(* create: the person and the empty slots in one transaction.              *)
File(p, e) ==
  /\ person[p].state = "absent" /\ ~ Taken(e)
  /\ person' = [person EXCEPT ![p] = [state |-> "filed", active |-> TRUE, email |-> e]]
  /\ UNCHANGED <<account, deed, raced, refused>>

----------------------------------------------------------------------------
(* Somebody on file and active, without an account, is given one, with the *)
(* address of the record as it was read.                                   *)
Grant(r, p) ==
  /\ Filed(p) /\ person[p].active /\ account[p] = NoPerson
  /\ \A q \in People : account[q] # person[p].email
  /\ Undertake(r, ADeed("grant", p, person[p].email, FALSE))

(* One account per address.                                                *)
GrantWrite(r) ==
  /\ deed[r].op = "grant"
  /\ IF account[deed[r].who] = NoPerson /\ \A q \in People : account[q] # deed[r].email
     THEN account' = [account EXCEPT ![deed[r].who] = deed[r].email]
     ELSE UNCHANGED account
  /\ raced' = Marked(r, deed[r].who)
  /\ deed' = [deed EXCEPT ![r] = NoDeed]
  /\ UNCHANGED <<person, refused>>

(* remove: refused while the person can sign in.                           *)
Remove(r, p) ==
  /\ Filed(p) /\ account[p] = NoPerson
  /\ Undertake(r, ADeed("remove", p, NoPerson, FALSE))

RemoveWrite(r) ==
  LET p == deed[r].who IN
  /\ deed[r].op = "remove"
  /\ person' = [person EXCEPT ![p].state = "removed", ![p].active = FALSE]
  /\ raced' = Marked(r, p)
  /\ deed' = [deed EXCEPT ![r] = NoDeed]
  /\ UNCHANGED <<account, refused>>

(* update, of the address and of isActive.                                 *)
Update(r, p, e, active) ==
  /\ Filed(p)
  /\ e # person[p].email => ~ Taken(e)
  /\ Undertake(r, ADeed("update", p, IF e = person[p].email THEN NoPerson ELSE e, active))

(* Mutant: the account is left as it is.                                   *)
UpdateRecordOnly(r) ==
  LET p == deed[r].who IN
  /\ deed[r].op = "update"
  /\ person' = [person EXCEPT ![p].active = deed[r].active,
                              ![p].email = IF deed[r].email = NoPerson THEN @ ELSE deed[r].email]
  /\ deed' = [deed EXCEPT ![r] = NoDeed]
  /\ raced' = Marked(r, p)
  /\ UNCHANGED <<account, refused>>

(* The record's own row first.  An address that somebody took in between   *)
(* violates the unique constraint, and the request fails.                  *)
UpdateWrite(r) ==
  LET p == deed[r].who IN
  /\ deed[r].op = "update"
  /\ IF deed[r].email # NoPerson /\ Taken(deed[r].email)
     THEN deed' = [deed EXCEPT ![r] = NoDeed] /\ UNCHANGED person
     ELSE /\ person' = [person EXCEPT ![p].active = deed[r].active,
                                      ![p].email = IF deed[r].email = NoPerson THEN @ ELSE deed[r].email]
          /\ deed' = [deed EXCEPT ![r] = IF deed[r].email = NoPerson THEN NoDeed
                                         ELSE [@ EXCEPT !.op = "follow"]]
  /\ raced' = Marked(r, p)
  /\ UNCHANGED <<account, refused>>

(* The account follows, unless another account has the address.            *)
AccountFollows(r) ==
  LET p == deed[r].who IN
  /\ deed[r].op = "follow"
  /\ IF \E q \in People \ {p} : account[q] = deed[r].email
     THEN refused' = refused \cup {p} /\ UNCHANGED account
     ELSE /\ account' = [account EXCEPT ![p] = IF @ = NoPerson THEN @ ELSE deed[r].email]
          /\ UNCHANGED refused
  /\ raced' = Marked(r, p)
  /\ deed' = [deed EXCEPT ![r] = NoDeed]
  /\ UNCHANGED person

RegisterNext ==
  \/ \E p \in People, e \in Emails : File(p, e)
  \/ \E r \in Officers :
       \/ GrantWrite(r) \/ RemoveWrite(r) \/ UpdateWrite(r) \/ AccountFollows(r)
       \/ \E p \in People :
            \/ Grant(r, p) \/ Remove(r, p)
            \/ \E e \in Emails, active \in BOOLEAN : Update(r, p, e, active)

RegisterSpec == RegisterInit /\ [][RegisterNext]_registerVars

----------------------------------------------------------------------------
(* An account belongs to somebody on the register and has the address of   *)
(* their record: once nobody is working on the two, they can have parted   *)
(* only through requests that overlapped, or because another account had   *)
(* the new address (employee.service.ts:262-304, 361-371).                 *)
AccountFollowsItsRecord ==
  \A p \in People :
    account[p] # NoPerson /\ p \notin raced \cup refused /\ (\A r \in Officers : deed[r].who # p)
      => Filed(p) /\ account[p] = person[p].email
=============================================================================
