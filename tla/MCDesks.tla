------------------------------ MODULE MCDesks ------------------------------
(* One instance for the desks that do not touch each other's tables: a     *)
(* behaviour is about one of them, and the others' variables rest.         *)
EXTENDS Intake, Cases, DocumentSlots, Register, DeckCapture, NoticeQueue,
        PostingDesk, RoleOverrides, Roster, BusinessDays, TLC

VARIABLE desk

desksVars == <<desk, intakeVars, caseVars, slotVars, registerVars, deckVars, noticeVars,
               postingVars, overrideVars, rosterVars, walk>>

(* Calendars: the offices' two weeks, and one with a single working day.   *)
OfficeWeeks == {{0, 1, 2, 3, 4}, {1, 2, 3, 4, 5}, {6}}

(* The requests of every desk are the same model values, and so are the    *)
(* rows of most.                                                           *)
Symmetry == Permutations(Files) \cup Permutations(Clerks) \cup Permutations(CaseIds)

DesksTypeOK ==
  /\ IntakeTypeOK /\ CasesTypeOK /\ SlotsTypeOK /\ RegisterTypeOK /\ DeckTypeOK
  /\ NoticesTypeOK /\ PostingsTypeOK /\ OverridesTypeOK /\ RosterTypeOK /\ DaysTypeOK

(* A desk that rests does so in one of its initial states.                 *)
DesksInit ==
  /\ desk \in {"intake", "cases", "slots", "register", "deck", "notices", "postings",
               "overrides", "roster", "days"}
  /\ IntakeInit /\ SlotsInit /\ RegisterInit /\ DeckInit /\ NoticesInit /\ RosterInit
  /\ CasesInit /\ (desk # "cases" => service = "quote")
  /\ PostingsInit /\ (desk # "postings" => board = "job")
  /\ OverridesInit /\ (desk # "overrides" => role = "other")
  /\ DaysInit /\ (desk # "days" => walk.week = {6} /\ walk.days = 1)

IntakeMoves ==
  /\ desk = "intake" /\ IntakeNext
  /\ UNCHANGED <<desk, caseVars, slotVars, registerVars, deckVars, noticeVars,
                  postingVars, overrideVars, rosterVars, walk>>

CasesMoves ==
  /\ desk = "cases" /\ CasesNext
  /\ UNCHANGED <<desk, intakeVars, slotVars, registerVars, deckVars,
                  noticeVars, postingVars, overrideVars, rosterVars, walk>>

SlotsMoves ==
  /\ desk = "slots" /\ SlotsNext
  /\ UNCHANGED <<desk, intakeVars, caseVars, registerVars, deckVars,
                  noticeVars, postingVars, overrideVars, rosterVars, walk>>

RegisterMoves ==
  /\ desk = "register" /\ RegisterNext
  /\ UNCHANGED <<desk, intakeVars, caseVars, slotVars, deckVars, noticeVars,
                  postingVars, overrideVars, rosterVars, walk>>

DeckMoves ==
  /\ desk = "deck" /\ DeckNext
  /\ UNCHANGED <<desk, intakeVars, caseVars, slotVars, registerVars,
                  noticeVars, postingVars, overrideVars, rosterVars, walk>>

NoticesMoves ==
  /\ desk = "notices" /\ NoticesNext
  /\ UNCHANGED <<desk, intakeVars, caseVars, slotVars, registerVars, deckVars,
                  postingVars, overrideVars, rosterVars, walk>>

PostingsMoves ==
  /\ desk = "postings" /\ PostingsNext
  /\ UNCHANGED <<desk, intakeVars, caseVars, slotVars, registerVars, deckVars,
                  noticeVars, overrideVars, rosterVars, walk>>

OverridesMoves ==
  /\ desk = "overrides" /\ OverridesNext
  /\ UNCHANGED <<desk, intakeVars, caseVars, slotVars, registerVars, deckVars,
                  noticeVars, postingVars, rosterVars, walk>>

RosterMoves ==
  /\ desk = "roster" /\ RosterNext
  /\ UNCHANGED <<desk, intakeVars, caseVars, slotVars, registerVars, deckVars,
                  noticeVars, postingVars, overrideVars, walk>>

DaysMoves ==
  /\ desk = "days" /\ DaysNext
  /\ UNCHANGED <<desk, intakeVars, caseVars, slotVars, registerVars, deckVars,
                  noticeVars, postingVars, overrideVars, rosterVars>>

DesksNext ==
  \/ IntakeMoves
  \/ CasesMoves
  \/ SlotsMoves
  \/ RegisterMoves
  \/ DeckMoves
  \/ NoticesMoves
  \/ PostingsMoves
  \/ OverridesMoves
  \/ RosterMoves
  \/ DaysMoves

DesksSpec == DesksInit /\ [][DesksNext]_desksVars
============================================================================
