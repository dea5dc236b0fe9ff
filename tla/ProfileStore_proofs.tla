------------------------- MODULE ProfileStore_proofs -------------------------
(***************************************************************************)
(* What holds of every sequence of accepted requests, from any file.       *)
(***************************************************************************)
EXTENDS ProfileStore, Profiles_proofs

LEMMA StepIsCommit ==
    ASSUME TypeOK, [Next]_store, store' # store
    PROVE  \E r \in Request : /\ store \in Config
                              /\ Accepted(r, store)
                              /\ store' = Applied(r, store)
BY DEF TypeOK, Next, Commit

LEMMA TypeStep == TypeOK /\ [Next]_store => TypeOK'
BY StepIsCommit, AppliedType DEF TypeOK

(* The store always holds a configuration. *)
THEOREM TypeCorrect == Spec => []TypeOK
<1>1. Init => TypeOK
    BY InitialStoresAssumption DEF Init, TypeOK
<1> QED
    BY <1>1, TypeStep, PTL DEF Spec

(* Whatever a hand-edited file selected, a write leaves a selection that is *)
(* empty or stored.                                                         *)
THEOREM SelectionRepaired == Spec => WritesRepairSelection
<1>1. TypeOK /\ [Next]_store
        => [store'.current = NoName \/ HasCurrentProfile(store')]_store
    BY StepIsCommit, AppliedSelection
<1> QED
    BY <1>1, TypeCorrect, PTL DEF Spec, WritesRepairSelection

(* No removal selects another profile. *)
THEOREM RemovalIsNeutral == Spec => RemovalNeverSelects
<1>1. TypeOK /\ [Next]_store
        => [Stored(store) \ Stored(store') # {}
               => store'.current \in {store.current, NoName}]_store
    BY StepIsCommit, AppliedSelection
<1> QED
    BY <1>1, TypeCorrect, PTL DEF Spec, RemovalNeverSelects

(* Writing profiles never moves a valid selection. *)
THEOREM SelectionStable == Spec => SelectionMovesOnlyByUse
<1>1. TypeOK /\ [Next]_store
        => [(HasCurrentProfile(store) /\ HasCurrentProfile(store')
               /\ store'.current # store.current)
            => store'.profiles = Normalized(store).profiles]_store
    BY StepIsCommit, AppliedSelection
<1> QED
    BY <1>1, TypeCorrect, PTL DEF Spec, SelectionMovesOnlyByUse

(* A write changes one profile at most. *)
THEOREM WritesAreLocal == Spec => OneProfilePerWrite
<1>1. ASSUME TypeOK, [Next]_store, store' # store
      PROVE  \E n \in Names : \A m \in Names \ {n} :
                KeptAs(store.profiles[m], store'.profiles[m])
    <2>1. PICK r \in Request : store \in Config /\ Accepted(r, store)
                               /\ store' = Applied(r, store)
        BY <1>1, StepIsCommit
    <2>2. r.name \in Names
        BY DEF Request, AddRequest, RemoveRequest, UseRequest
    <2>3. ASSUME NEW m \in Names \ {r.name}
          PROVE  KeptAs(store.profiles[m], store'.profiles[m])
        <3>1. store'.profiles[m] = Normalized(store).profiles[m]
            BY <2>1, OthersKept
        <3>2. CASE m \in Stored(store)
            <4>1. store'.profiles[m] = FillURL(store.profiles[m])
                BY <2>1, <3>1, <3>2, NormalizedType
            <4>2. store.profiles[m] \in Profile
                BY <2>1, <3>2 DEF Config, Stored
            <4> QED
                BY <3>2, <4>1, <4>2, FillURLType, ProfilesAssumption
                   DEF KeptAs, FillURL, Stored
        <3>3. CASE m \notin Stored(store)
            BY <2>1, <3>1, <3>3, NormalizedType DEF KeptAs, Stored
        <3> QED
            BY <3>2, <3>3
    <2> QED
        BY <2>2, <2>3
<1>2. TypeOK /\ [Next]_store
        => [\E n \in Names : \A m \in Names \ {n} :
               KeptAs(store.profiles[m], store'.profiles[m])]_store
    BY <1>1
<1> QED
    BY <1>2, TypeCorrect, PTL DEF Spec, OneProfilePerWrite

(* No write makes a profile keyless. *)
THEOREM KeysSurvive == Spec => WritesKeepKeys
<1>1. TypeOK /\ [Next]_store
        => [\A n \in Stored(store') :
               (n \in Stored(store) => HasKey(store, n)) => HasKey(store', n)]_store
    BY StepIsCommit, AppliedKeys
<1> QED
    BY <1>1, TypeCorrect, PTL DEF Spec, WritesKeepKeys
=============================================================================
