--------------------------- MODULE DocumentSlots ---------------------------
(***************************************************************************)
(* The document slots of employees' files (hr/employee.service.ts): a slot *)
(* is missing, pending or verified.                                        *)
(*                                                                         *)
(* A slot is read, decided upon and saved.  save(row) reads it again and   *)
(* updates the columns in which the two differ, so an overlapping write is *)
(* overwritten or survives column by column.  Detaching a file is a save   *)
(* and a further update.  Taking the employee off the register (Register   *)
(* has it) only keeps calls from being begun, so every employee is on it.  *)
(***************************************************************************)
CONSTANTS
  Slots,     (* employee_documents: one row per employee and document type *)
  Papers,    (* files that can be attached                                 *)
  Calls,     (* requests the server may be serving at one moment           *)
  NoPaper

ASSUME SlotsAssumption == NoPaper \notin Papers \cup Slots

VARIABLES
  slot,      (* the rows                                                   *)
  shelf,     (* the papers still in the registry of files                  *)
  call,      (* the requests being served                                  *)
  torn       (* history: slots last written by a save that another write   *)
             (* came between, after its second reading                     *)

slotVars == <<slot, shelf, call, torn>>

SlotRow == [status : {"MISSING", "PENDING", "VERIFIED"}, file : Papers \cup {NoPaper},
            signed : Papers \cup {NoPaper}]    (* history: what was read   *)
                                               (* when it was verified     *)
Call == [stage : {"idle", "save", "update", "clear"},
         on    : Slots \cup {NoPaper},
         row   : SlotRow,                      (* the row to be saved      *)
         base  : SlotRow,                      (* save's own reading       *)
         late  : BOOLEAN,                      (* written since then       *)
         detaching : BOOLEAN]

EmptySlot == [status |-> "MISSING", file |-> NoPaper, signed |-> NoPaper]
Saving(p, row, detaching) ==
  [stage |-> "save", on |-> p, row |-> row, base |-> EmptySlot, late |-> FALSE, detaching |-> detaching]
NoCall == [Saving(NoPaper, EmptySlot, FALSE) EXCEPT !.stage = "idle"]

SlotsTypeOK ==
  /\ slot \in [Slots -> SlotRow]
  /\ shelf \in SUBSET Papers
  /\ call \in [Calls -> Call]
  /\ torn \in SUBSET Slots

(* create makes every slot at MISSING, with the employee.                  *)
SlotsInit ==
  /\ slot = [p \in Slots |-> EmptySlot]
  /\ shelf = Papers
  /\ call = [r \in Calls |-> NoCall]
  /\ torn = {}

----------------------------------------------------------------------------
Begin(r, c) ==
  /\ call[r].stage = "idle"
  /\ call' = [call EXCEPT ![r] = c]
  /\ UNCHANGED <<slot, shelf, torn>>

(* Request r goes on as c after a write to slot p; the others see it late. *)
Wrote(r, p, c) ==
  call' = [q \in Calls |-> IF q = r THEN c
                           ELSE [call[q] EXCEPT !.late = @ \/ call[q].on = p]]

(* What upsertDocument makes of the row it read: an attachment lands at    *)
(* PENDING, and only what is verified is signed.                           *)
NewSlot(file, status) ==
  [status |-> status, file |-> file, signed |-> IF status = "VERIFIED" THEN file ELSE NoPaper]

(* fileId may be null: that takes the file away and leaves PENDING.        *)
Attach(r, p, file) ==
  file # slot[p].file /\ Begin(r, Saving(p, NewSlot(file, "PENDING"), FALSE))

MoveDocument(r, p, status) ==
  /\ status = "VERIFIED" => slot[p].file # NoPaper
  /\ Begin(r, Saving(p, NewSlot(slot[p].file, status), FALSE))

(* detachDocument: through upsertDocument to MISSING, then, in a further   *)
(* statement, the file off the slot.                                       *)
Detach(r, p) == Begin(r, Saving(p, NewSlot(slot[p].file, "MISSING"), TRUE))

SaveReloads(r) ==
  /\ call[r].stage = "save"
  /\ call' = [call EXCEPT ![r].stage = "update", ![r].base = slot[call[r].on],
                          ![r].late = FALSE]
  /\ UNCHANGED <<slot, shelf, torn>>

(* Mutant: a request updates the columns it is about.                      *)
MergedByName(c, now) ==
  [c.row EXCEPT !.file = IF c.row.status = "PENDING" THEN @ ELSE now.file]

(* The columns that differ.  A verification has a new moment, so verifiedAt*)
(* and verifiedBy always do then.                                          *)
Merged(c, now) ==
  [status |-> IF c.row.status # c.base.status THEN c.row.status ELSE now.status,
   file   |-> IF c.row.file # c.base.file THEN c.row.file ELSE now.file,
   signed |-> IF c.row.signed # c.base.signed \/ c.row.signed # NoPaper THEN c.row.signed ELSE now.signed]

(* A file that has gone from the registry violates the foreign key.        *)
SaveUpdates(r) ==
  LET c == call[r]
      row == Merged(c, slot[c.on])
  IN
  /\ c.stage = "update"
  /\ IF row.file \in shelf \cup {NoPaper}
     THEN /\ slot' = [slot EXCEPT ![c.on] = row]
          /\ Wrote(r, c.on, IF c.detaching THEN [c EXCEPT !.stage = "clear"] ELSE NoCall)
          /\ torn' = IF c.late THEN torn \cup {c.on} ELSE torn \ {c.on}
     ELSE /\ call' = [call EXCEPT ![r] = NoCall]
          /\ UNCHANGED <<slot, torn>>
  /\ UNCHANGED shelf

DetachClear(r) ==
  /\ call[r].stage = "clear"
  /\ slot' = [slot EXCEPT ![call[r].on].file = NoPaper]
  /\ Wrote(r, call[r].on, NoCall)
  /\ UNCHANGED <<shelf, torn>>

(* The file is deleted from the registry: ON DELETE SET NULL.              *)
PaperRemoved(f) ==
  /\ f \in shelf /\ shelf' = shelf \ {f}
  /\ slot' = [p \in Slots |-> IF slot[p].file = f THEN [slot[p] EXCEPT !.file = NoPaper] ELSE slot[p]]
  /\ call' = [r \in Calls |-> [call[r] EXCEPT
                !.late = @ \/ (call[r].stage # "idle" /\ slot[call[r].on].file = f)]]
  /\ UNCHANGED torn

SlotsNext ==
  \/ \E f \in Papers : PaperRemoved(f)
  \/ \E r \in Calls :
       \/ SaveReloads(r) \/ SaveUpdates(r) \/ DetachClear(r)
       \/ \E p \in Slots :
            \/ Detach(r, p)
            \/ \E f \in shelf \cup {NoPaper} : Attach(r, p, f)
            \/ \E s \in {"MISSING", "PENDING", "VERIFIED"} : MoveDocument(r, p, s)

SlotsSpec == SlotsInit /\ [][SlotsNext]_slotVars

----------------------------------------------------------------------------
(* A sign-off is of the file in the slot: a verified slot holds the file   *)
(* that was read when it was verified, or none (a detachment's second      *)
(* write, or a deletion, came after), "an uploaded document is not a       *)
(* checked one" (employee.service.ts:391-449).  The window left is inside  *)
(* save(): a write that comes between its reading and its update.          *)
SignOffIsOfThisFile ==
  \A p \in Slots \ torn : slot[p].status = "VERIFIED" => slot[p].file \in {slot[p].signed, NoPaper}
=============================================================================
