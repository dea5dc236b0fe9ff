---------------------------- MODULE ProfileStore ----------------------------
(***************************************************************************)
(* What config.Edit promises the `auth` commands: the stored profiles      *)
(* change only by one accepted request at a time, applied to the value the *)
(* store holds at that moment.  ConfigEdit implements this with a lock     *)
(* file, a temporary file and a rename.                                    *)
(***************************************************************************)
EXTENDS Profiles

CONSTANT InitialStores   \* what the file may hold at first, hand edits included

ASSUME InitialStoresAssumption == InitialStores \subseteq Config

VARIABLE store

Init == store \in InitialStores

Commit(r) == Accepted(r, store) /\ store' = Applied(r, store)

Next == \E r \in Request : Commit(r)

Spec == Init /\ [][Next]_store

-----------------------------------------------------------------------------
TypeOK == store \in Config

(* The selection a write leaves is empty or names a stored profile, even   *)
(* when it starts from a hand-edited file whose selection names none: add, *)
(* update and remove each repair it their own way.                         *)
WritesRepairSelection ==
    [][store'.current = NoName \/ HasCurrentProfile(store')]_store

(* Removing a profile never selects another one: the next one must be      *)
(* chosen with `auth use`.                                                 *)
RemovalNeverSelects ==
    [][Stored(store) \ Stored(store') # {}
          => store'.current \in {store.current, NoName}]_store

(* A selection that names a stored profile moves to another stored one     *)
(* only by `auth use`: writing profiles never switches tenants.            *)
SelectionMovesOnlyByUse ==
    [][(HasCurrentProfile(store) /\ HasCurrentProfile(store')
          /\ store'.current # store.current)
       => store'.profiles = Normalized(store).profiles]_store

(* Whether q is what p was, a missing URL aside. *)
KeptAs(p, q) ==
    IF p = NoProfile THEN q = NoProfile
    ELSE /\ q # NoProfile
         /\ q.key = p.key
         /\ p.url # NoURL => q.url = p.url

(* A write touches one profile: every other one, complete or not, is still *)
(* there with its key, and with its URL unless it had none.                *)
OneProfilePerWrite ==
    [][\E n \in Names : \A m \in Names \ {n} :
          KeptAs(store.profiles[m], store'.profiles[m])]_store

(* No write makes a stored profile keyless: a new profile has a key, and a *)
(* key is replaced, never blanked.                                         *)
WritesKeepKeys ==
    [][\A n \in Stored(store') :
          (n \in Stored(store) => HasKey(store, n)) => HasKey(store', n)]_store
=============================================================================
