----------------------------- MODULE FileStore -----------------------------
(***************************************************************************)
(* A stored file is two things, an object in the bucket and a row in the   *)
(* registry (files/files.service.ts).  They are written and removed in     *)
(* separate calls, object first both times.  Signature checks, retention   *)
(* dates and signed links are left out.                                    *)
(***************************************************************************)
CONSTANT Files    (* the ids storage keys and rows are generated from      *)

VARIABLES
  object,    (* the bucket                                                 *)
  registry,  (* stored_files                                               *)
  removing   (* objects just removed whose row is about to be deleted      *)

storeVars == <<object, registry, removing>>

FileStoreTypeOK ==
  /\ object \in [Files -> {"never", "stored", "removed"}]
  /\ registry \in [Files -> {"never", "live", "gone"}]
  /\ removing \in SUBSET Files

FileStoreInit ==
  /\ object = [f \in Files |-> "never"]
  /\ registry = [f \in Files |-> "never"]
  /\ removing = {}

----------------------------------------------------------------------------
(* upload: put, scan, save the row.  The key is generated, so it is new.   *)
PutObject(f) ==
  /\ object[f] = "never"
  /\ object' = [object EXCEPT ![f] = "stored"]
  /\ UNCHANGED <<registry, removing>>

(* An infected object goes, unless removing it fails too.                  *)
RejectObject(f) ==
  /\ object' \in {object, [object EXCEPT ![f] = "removed"]}
  /\ UNCHANGED <<registry, removing>>

SaveRow(f) ==
  /\ registry' = [registry EXCEPT ![f] = "live"]
  /\ UNCHANGED <<object, removing>>

(* Mutant: the row goes and the object is left to be removed later.        *)
RemoveRowOnly(f) ==
  /\ registry[f] = "live"
  /\ registry' = [registry EXCEPT ![f] = "gone"]
  /\ removing' = removing \cup {f}
  /\ UNCHANGED object

(* remove, and each turn of purgeExpired: findById, then the object.       *)
RemoveObject(f) ==
  /\ registry[f] = "live"
  /\ object' = [object EXCEPT ![f] = "removed"]
  /\ removing' = removing \cup {f}
  /\ UNCHANGED registry

RemoveRow(f) ==
  /\ f \in removing
  /\ registry' = [registry EXCEPT ![f] = "gone"]
  /\ removing' = removing \ {f}
  /\ UNCHANGED object

(* The delete is refused or the connection drops: the row stays.           *)
RemoveRowFails(f) ==
  /\ f \in removing
  /\ removing' = removing \ {f}
  /\ UNCHANGED <<object, registry>>

(* The server stops: whatever was about to be done is not.                 *)
StoreStops == removing' = {} /\ UNCHANGED <<object, registry>>

----------------------------------------------------------------------------
(* A row is deleted only after its object, whatever fails and whenever the *)
(* server stops: no row is given up while its bytes are still in the       *)
(* bucket, because "an object without a row is a file nobody knows they    *)
(* are still holding" (files.service.ts:315-317).                          *)
RowsOutliveObjects == \A f \in Files : registry[f] = "gone" => object[f] = "removed"
============================================================================
