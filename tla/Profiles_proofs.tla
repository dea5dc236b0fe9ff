--------------------------- MODULE Profiles_proofs ---------------------------
(***************************************************************************)
(* What one accepted request does to any configuration.                    *)
(***************************************************************************)
EXTENDS Profiles, TLAPS

LEMMA FillURLType ==
    ASSUME NEW p \in Profile
    PROVE  /\ FillURL(p) \in Profile
           /\ FillURL(p).key = p.key
           /\ FillURL(p) # NoProfile
BY ProfilesAssumption DEF Profile, FillURL

LEMMA SetProfileType ==
    ASSUME NEW cfg \in Config, NEW n \in Names, NEW p \in Profile
    PROVE  /\ SetProfile(cfg, n, p) \in Config
           /\ SetProfile(cfg, n, p).current = cfg.current
           /\ SetProfile(cfg, n, p).profiles
                = [cfg.profiles EXCEPT ![n] = FillURL(p)]
           /\ Stored(SetProfile(cfg, n, p)) = Stored(cfg) \cup {n}
BY FillURLType DEF Config, SetProfile, Stored

LEMMA NormalizedType ==
    ASSUME NEW cfg \in Config
    PROVE  /\ Normalized(cfg) \in Config
           /\ Normalized(cfg).current = cfg.current
           /\ Stored(Normalized(cfg)) = Stored(cfg)
           /\ \A n \in Names \ Stored(cfg) : Normalized(cfg).profiles[n] = NoProfile
           /\ \A n \in Stored(cfg) :
                 Normalized(cfg).profiles[n] = FillURL(cfg.profiles[n])
<1>1. \A n \in Stored(cfg) : cfg.profiles[n] \in Profile
    BY DEF Config, Stored
<1>2. \A n \in Stored(cfg) : FillURL(cfg.profiles[n]) \in Profile \ {NoProfile}
    BY <1>1, FillURLType
<1> QED
    BY <1>2 DEF Config, Normalized, Stored

LEMMA AuthAddProfileType ==
    ASSUME NEW r \in AddRequest, NEW cfg \in Config
    PROVE  AuthAddProfile(r, cfg) \in Profile
<1>1. ASSUME r.name \in Stored(cfg) PROVE FillURL(cfg.profiles[r.name]) \in Profile
    BY <1>1, FillURLType DEF Config, Stored, AddRequest
<1> QED
    BY <1>1 DEF AuthAddProfile, AddRequest, Profile

-----------------------------------------------------------------------------
(* The four mutators *)

LEMMA AddCase ==
    ASSUME NEW r \in AddRequest, NEW cfg \in Config, r.name \notin Stored(cfg)
    PROVE  /\ Mutated(r, cfg) = AddProfile(cfg, r.name, AuthAddProfile(r, cfg))
           /\ Mutated(r, cfg) \in Config
           /\ Stored(Mutated(r, cfg)) = Stored(cfg) \cup {r.name}
           /\ Mutated(r, cfg).profiles
                = [cfg.profiles EXCEPT ![r.name] = FillURL(AuthAddProfile(r, cfg))]
           /\ HasCurrentProfile(Mutated(r, cfg))
           /\ HasCurrentProfile(cfg) => Mutated(r, cfg).current = cfg.current
<1> DEFINE new   == AuthAddProfile(r, cfg)
           added == SetProfile(cfg, r.name, new)
<1>1. r.name \in Names /\ r.op = "add" /\ new \in Profile
    BY AuthAddProfileType DEF AddRequest
<1>2. /\ added \in Config /\ added.current = cfg.current
      /\ added.profiles = [cfg.profiles EXCEPT ![r.name] = FillURL(new)]
      /\ Stored(added) = Stored(cfg) \cup {r.name}
    BY <1>1, SetProfileType
<1>3. Mutated(r, cfg) = AddProfile(cfg, r.name, new)
    BY <1>1 DEF Mutated
<1> HIDE DEF new
<1>4. CASE HasCurrentProfile(added)
    BY <1>1, <1>2, <1>3, <1>4 DEF AddProfile, HasCurrentProfile, new
<1>5. CASE ~HasCurrentProfile(added)
    <2>1. Mutated(r, cfg) = Select(added, r.name)
        BY <1>3, <1>5 DEF AddProfile
    <2> QED
        BY <1>1, <1>2, <1>3, <1>5, <2>1 DEF HasCurrentProfile, new, Select, Config, Stored
<1> QED
    BY <1>4, <1>5

LEMMA UpdateCase ==
    ASSUME NEW r \in AddRequest, NEW cfg \in Config, r.name \in Stored(cfg)
    PROVE  /\ Mutated(r, cfg) \in Config
           /\ Stored(Mutated(r, cfg)) = Stored(cfg)
           /\ Mutated(r, cfg).profiles
                = [cfg.profiles EXCEPT ![r.name] = FillURL(AuthAddProfile(r, cfg))]
           /\ Mutated(r, cfg).current = NoName \/ HasCurrentProfile(Mutated(r, cfg))
           /\ HasCurrentProfile(cfg) => Mutated(r, cfg).current = cfg.current
<1> DEFINE new     == AuthAddProfile(r, cfg)
           updated == SetProfile(cfg, r.name, new)
<1>1. r.name \in Names /\ r.op = "add" /\ new \in Profile
    BY AuthAddProfileType DEF AddRequest
<1>2. /\ updated \in Config /\ updated.current = cfg.current
      /\ updated.profiles = [cfg.profiles EXCEPT ![r.name] = FillURL(new)]
      /\ Stored(updated) = Stored(cfg)
    BY <1>1, SetProfileType
<1>3. Mutated(r, cfg) = UpdateProfile(cfg, r.name, new)
    BY <1>1 DEF Mutated
<1> HIDE DEF new
<1>4. CASE updated.current = NoName \/ HasCurrentProfile(updated)
    BY <1>1, <1>2, <1>3, <1>4 DEF UpdateProfile, HasCurrentProfile, new
<1>5. CASE ~(updated.current = NoName \/ HasCurrentProfile(updated))
    <2>1. Mutated(r, cfg) = Select(updated, r.name)
        BY <1>3, <1>5 DEF UpdateProfile
    <2> QED
        BY <1>1, <1>2, <1>3, <1>5, <2>1 DEF HasCurrentProfile, new, Select, Config, Stored
<1> QED
    BY <1>4, <1>5

LEMMA RemoveCase ==
    ASSUME NEW r \in RemoveRequest, NEW cfg \in Config
    PROVE  /\ Mutated(r, cfg) \in Config
           /\ Stored(Mutated(r, cfg)) = Stored(cfg) \ {r.name}
           /\ Mutated(r, cfg).profiles = [cfg.profiles EXCEPT ![r.name] = NoProfile]
           /\ Mutated(r, cfg).current = NoName \/ HasCurrentProfile(Mutated(r, cfg))
           /\ Mutated(r, cfg).current \in {cfg.current, NoName}
<1> DEFINE removed == [current  |-> cfg.current,
                       profiles |-> [cfg.profiles EXCEPT ![r.name] = NoProfile]]
<1>1. r.name \in Names /\ r.op = "remove"
    BY DEF RemoveRequest
<1>2. /\ removed \in Config /\ removed.current = cfg.current
      /\ removed.profiles = [cfg.profiles EXCEPT ![r.name] = NoProfile]
      /\ Stored(removed) = Stored(cfg) \ {r.name}
    BY <1>1 DEF Config, Stored
<1>3. Mutated(r, cfg) = RemoveProfile(cfg, r.name)
    BY <1>1 DEF Mutated
<1>4. CASE HasCurrentProfile(removed)
    BY <1>2, <1>3, <1>4 DEF RemoveProfile
<1>5. CASE ~HasCurrentProfile(removed)
    <2>1. Mutated(r, cfg) = Select(removed, NoName)
        BY <1>3, <1>5 DEF RemoveProfile
    <2> QED
        BY <1>2, <2>1 DEF Select, Config, Stored
<1> QED
    BY <1>4, <1>5

LEMMA UseCase ==
    ASSUME NEW r \in UseRequest, NEW cfg \in Config
    PROVE  /\ Mutated(r, cfg) \in Config
           /\ Stored(Mutated(r, cfg)) = Stored(cfg)
           /\ Mutated(r, cfg).profiles = cfg.profiles
           /\ Mutated(r, cfg).current = r.name
BY DEF UseRequest, Mutated, UseProfile, Select, Config, Stored

LEMMA RequestCases ==
    ASSUME NEW r \in Request, NEW cfg \in Config, Accepted(r, cfg)
    PROVE  \/ r \in AddRequest /\ r.name \notin Stored(cfg)
           \/ r \in AddRequest /\ r.name \in Stored(cfg)
           \/ r \in RemoveRequest /\ r.name \in Stored(cfg)
           \/ r \in UseRequest /\ r.name \in Stored(cfg)
BY DEF Request, AddRequest, RemoveRequest, UseRequest, Accepted

LEMMA AppliedType ==
    ASSUME NEW r \in Request, NEW cfg \in Config, Accepted(r, cfg)
    PROVE  /\ Mutated(r, cfg) \in Config
           /\ Applied(r, cfg) \in Config
           /\ Stored(Applied(r, cfg)) = Stored(Mutated(r, cfg))
           /\ Applied(r, cfg).current = Mutated(r, cfg).current
<1>1. Mutated(r, cfg) \in Config
    BY RequestCases, AddCase, UpdateCase, RemoveCase, UseCase
<1> QED
    BY <1>1, NormalizedType DEF Applied

-----------------------------------------------------------------------------
(* What a request changes, and what it leaves alone *)

(* Every profile but the one a request names keeps its contents, its URL   *)
(* filled in if it had none.                                               *)
LEMMA OthersKept ==
    ASSUME NEW r \in Request, NEW cfg \in Config, Accepted(r, cfg),
           NEW m \in Names, m # r.name
    PROVE  Applied(r, cfg).profiles[m] = Normalized(cfg).profiles[m]
<1> DEFINE mutated == Mutated(r, cfg)
<1>1. mutated \in Config
    BY AppliedType
<1>2. mutated.profiles[m] = cfg.profiles[m]
    <2>0. cfg.profiles \in [Names -> Profile \cup {NoProfile}]
        BY DEF Config
    <2>1. CASE r \in AddRequest
        <3>1. mutated.profiles
                = [cfg.profiles EXCEPT ![r.name] = FillURL(AuthAddProfile(r, cfg))]
            BY <2>1, AddCase, UpdateCase
        <3> QED
            BY <2>0, <3>1
    <2>2. CASE r \in RemoveRequest
        <3>1. mutated.profiles = [cfg.profiles EXCEPT ![r.name] = NoProfile]
            BY <2>2, RemoveCase
        <3> QED
            BY <2>0, <3>1
    <2>3. CASE r \in UseRequest
        BY <2>3, UseCase
    <2> QED
        BY <2>1, <2>2, <2>3 DEF Request
<1>3. m \in Stored(mutated) <=> m \in Stored(cfg)
    BY <1>2 DEF Stored
<1> HIDE DEF mutated
<1>4. Normalized(mutated).profiles[m] = Normalized(cfg).profiles[m]
    BY <1>1, <1>2, <1>3, NormalizedType
<1> QED
    BY <1>4 DEF Applied, mutated

LEMMA UseKeepsProfiles ==
    ASSUME NEW r \in UseRequest, NEW cfg \in Config
    PROVE  Applied(r, cfg).profiles = Normalized(cfg).profiles
<1>1. Mutated(r, cfg).profiles = cfg.profiles
    BY UseCase
<1> QED
    BY <1>1 DEF Applied, Normalized, Stored

LEMMA AppliedSelection ==
    ASSUME NEW r \in Request, NEW cfg \in Config, Accepted(r, cfg)
    PROVE  LET after == Applied(r, cfg) IN
           /\ after.current = NoName \/ HasCurrentProfile(after)
           /\ Stored(cfg) \ Stored(after) # {}
                 => after.current \in {cfg.current, NoName}
           /\ HasCurrentProfile(cfg) /\ HasCurrentProfile(after)
                 /\ after.current # cfg.current
              => after.profiles = Normalized(cfg).profiles
<1> DEFINE after == Applied(r, cfg)
           mutated == Mutated(r, cfg)
<1>1. /\ Stored(after) = Stored(mutated)
      /\ after.current = mutated.current
    BY AppliedType
<1> HIDE DEF after, mutated
<1>2. CASE r \in AddRequest /\ r.name \notin Stored(cfg)
    BY <1>1, <1>2, AddCase DEF HasCurrentProfile, mutated, after
<1>3. CASE r \in AddRequest /\ r.name \in Stored(cfg)
    BY <1>1, <1>3, UpdateCase DEF HasCurrentProfile, mutated, after
<1>4. CASE r \in RemoveRequest /\ r.name \in Stored(cfg)
    <2>1. NoName \notin Names
        BY ProfilesAssumption
    <2> QED
        BY <1>1, <1>4, <2>1, RemoveCase DEF HasCurrentProfile, Stored, mutated, after
<1>5. CASE r \in UseRequest /\ r.name \in Stored(cfg)
    BY <1>1, <1>5, UseCase, UseKeepsProfiles DEF HasCurrentProfile, mutated, after
<1> QED
    BY <1>2, <1>3, <1>4, <1>5, RequestCases DEF after

(* A stored profile an accepted request leaves behind has a key, unless it *)
(* was already there without one.                                          *)
LEMMA AppliedKeys ==
    ASSUME NEW r \in Request, NEW cfg \in Config, Accepted(r, cfg),
           NEW n \in Stored(Applied(r, cfg)),
           n \in Stored(cfg) => HasKey(cfg, n)
    PROVE  HasKey(Applied(r, cfg), n)
<1> DEFINE mutated == Mutated(r, cfg)
<1>1. /\ mutated \in Config
      /\ n \in Stored(mutated)
      /\ Applied(r, cfg) = Normalized(mutated)
    BY AppliedType DEF Applied
<1>2. mutated.profiles[n].key # NoKey
    <2>1. n \in Names
        BY <1>1 DEF Stored
    <2>2. CASE r \in AddRequest
        <3>1. mutated.profiles = [cfg.profiles EXCEPT ![r.name] = FillURL(AuthAddProfile(r, cfg))]
            BY <2>2, AddCase, UpdateCase
        <3>2. AuthAddProfile(r, cfg).key # NoKey \/ n # r.name
            <4>1. CASE r.name \in Stored(cfg)
                <5>1. cfg.profiles[r.name] \in Profile
                    BY <4>1 DEF Config, Stored
                <5>2. FillURL(cfg.profiles[r.name]).key = cfg.profiles[r.name].key
                    BY <5>1, FillURLType
                <5> QED
                    BY <4>1, <5>2 DEF AuthAddProfile, HasKey
            <4>2. CASE r.name \notin Stored(cfg)
                BY <2>2, <4>2 DEF AuthAddProfile, Accepted, AddRequest
            <4> QED
                BY <4>1, <4>2
        <3>3. FillURL(AuthAddProfile(r, cfg)).key = AuthAddProfile(r, cfg).key
            BY <2>2, AuthAddProfileType, FillURLType
        <3>4. CASE n = r.name
            BY <2>1, <3>1, <3>2, <3>3, <3>4 DEF Config
        <3>5. CASE n # r.name
            <4>1. mutated.profiles[n] = cfg.profiles[n] /\ n \in Stored(cfg)
                BY <1>1, <2>1, <3>1, <3>5 DEF Config, Stored
            <4> QED
                BY <4>1 DEF HasKey
        <3> QED
            BY <3>4, <3>5
    <2>3. CASE r \in RemoveRequest
        <3>1. Stored(mutated) = Stored(cfg) \ {r.name}
              /\ mutated.profiles = [cfg.profiles EXCEPT ![r.name] = NoProfile]
            BY <2>3, RemoveCase
        <3>2. mutated.profiles[n] = cfg.profiles[n] /\ n \in Stored(cfg)
            BY <1>1, <2>1, <3>1 DEF Config
        <3> QED
            BY <3>2 DEF HasKey
    <2>4. CASE r \in UseRequest
        <3>1. mutated.profiles[n] = cfg.profiles[n] /\ n \in Stored(cfg)
            BY <1>1, <2>4, UseCase
        <3> QED
            BY <3>1 DEF HasKey
    <2> QED
        BY <2>2, <2>3, <2>4 DEF Request
<1>3. mutated.profiles[n] \in Profile
    BY <1>1 DEF Config, Stored
<1> HIDE DEF mutated
<1>4. Normalized(mutated).profiles[n].key = mutated.profiles[n].key
      /\ n \in Stored(Normalized(mutated))
    BY <1>1, <1>3, NormalizedType, FillURLType
<1> QED
    BY <1>1, <1>2, <1>4 DEF HasKey

-----------------------------------------------------------------------------
(* Requests on different profiles *)

(* An entry as it stands in the file once any write has gone over it. *)
Filled(p) == IF p = NoProfile THEN NoProfile ELSE FillURL(p)

(* The entry an accepted request leaves where it finds the entry p. *)
Left(r, p) ==
    CASE r.op = "remove" -> NoProfile
      [] r.op = "use"    -> Filled(p)
      [] r.op = "add"    ->
            IF p = NoProfile
            THEN FillURL([url |-> r.url, key |-> r.key])
            ELSE FillURL([url |-> IF r.urlSet THEN r.url ELSE FillURL(p).url,
                          key |-> IF r.key # NoKey THEN r.key ELSE FillURL(p).key])

LEMMA NormalizedEntry ==
    ASSUME NEW cfg \in Config, NEW m \in Names
    PROVE  Normalized(cfg).profiles[m] = Filled(cfg.profiles[m])
BY DEF Normalized, Stored, Filled

LEMMA FilledTwice ==
    ASSUME NEW p \in Profile \cup {NoProfile}
    PROVE  /\ Filled(p) \in Profile \cup {NoProfile}
           /\ Filled(Filled(p)) = Filled(p)
           /\ Filled(p) = NoProfile <=> p = NoProfile
           /\ p # NoProfile => FillURL(Filled(p)) = FillURL(p) /\ Filled(p).key = p.key
<1>1. DefaultURL # NoURL /\ NoProfile \notin Profile
    BY ProfilesAssumption
<1>2. CASE p = NoProfile
    BY <1>2 DEF Filled
<1>3. CASE p \in Profile
    <2>1. /\ FillURL(p) \in Profile /\ FillURL(p) # NoProfile
          /\ FillURL(p).key = p.key
        BY <1>3, FillURLType
    <2>2. FillURL(FillURL(p)) = FillURL(p)
        BY <1>1 DEF FillURL
    <2> QED
        BY <1>1, <1>3, <2>1, <2>2 DEF Filled
<1> QED
    BY <1>2, <1>3

(* What a request makes of the entry it names depends on that entry alone. *)
LEMMA NamedChanged ==
    ASSUME NEW r \in Request, NEW cfg \in Config, Accepted(r, cfg)
    PROVE  Applied(r, cfg).profiles[r.name] = Left(r, cfg.profiles[r.name])
<1> DEFINE mutated == Mutated(r, cfg)
           entry   == cfg.profiles[r.name]
<1>1. mutated \in Config /\ r.name \in Names
      /\ cfg.profiles \in [Names -> Profile \cup {NoProfile}]
    BY AppliedType DEF Request, AddRequest, RemoveRequest, UseRequest, Config
<1>2. Applied(r, cfg).profiles[r.name] = Filled(mutated.profiles[r.name])
    BY <1>1, NormalizedEntry DEF Applied
<1>3. CASE r \in AddRequest
    <2> DEFINE new == AuthAddProfile(r, cfg)
    <2>1. mutated.profiles = [cfg.profiles EXCEPT ![r.name] = FillURL(new)]
        BY <1>3, AddCase, UpdateCase
    <2>2. mutated.profiles[r.name] = FillURL(new)
        BY <1>1, <2>1
    <2>3. new \in Profile
        BY <1>3, AuthAddProfileType
    <2>4. FillURL(new) = Left(r, entry)
        BY <1>1, <1>3 DEF AuthAddProfile, Left, Stored, AddRequest
    <2> HIDE DEF new, mutated
    <2>5. Filled(FillURL(new)) = FillURL(new)
        <3>1. Filled(new) = FillURL(new)
            BY <2>3, ProfilesAssumption DEF Filled
        <3> QED
            BY <2>3, <3>1, FilledTwice
    <2> QED
        BY <1>2, <2>2, <2>4, <2>5
<1>4. CASE r \in RemoveRequest
    <2>1. mutated.profiles[r.name] = NoProfile
        BY <1>1, <1>4, RemoveCase
    <2> QED
        BY <1>2, <1>4, <2>1 DEF Left, Filled, RemoveRequest
<1>5. CASE r \in UseRequest
    <2>1. mutated.profiles[r.name] = entry
        BY <1>5, UseCase
    <2> QED
        BY <1>2, <1>5, <2>1 DEF Left, UseRequest
<1> QED
    BY <1>3, <1>4, <1>5 DEF Request

LEMMA LeftOfFilled ==
    ASSUME NEW r \in Request, NEW p \in Profile \cup {NoProfile}
    PROVE  Left(r, Filled(p)) = Left(r, p)
<1>1. r.op \in {"add", "remove", "use"}
    BY DEF Request, AddRequest, RemoveRequest, UseRequest
<1> QED
    BY <1>1, FilledTwice DEF Left

(* Whether a request is accepted depends on the entry it names alone, and *)
(* filling a URL in does not change it.                                   *)
LEMMA AcceptedByEntry ==
    ASSUME NEW r \in Request, NEW cfg \in Config, NEW cfg2 \in Config,
           cfg2.profiles[r.name] = Filled(cfg.profiles[r.name])
    PROVE  Accepted(r, cfg2) <=> Accepted(r, cfg)
<1>1. r.name \in Names /\ cfg.profiles[r.name] \in Profile \cup {NoProfile}
    BY DEF Request, AddRequest, RemoveRequest, UseRequest, Config
<1>2. r.name \in Stored(cfg2) <=> r.name \in Stored(cfg)
    BY <1>1, FilledTwice DEF Stored
<1>3. HasKey(cfg2, r.name) <=> HasKey(cfg, r.name)
    BY <1>1, <1>2, FilledTwice DEF HasKey, Stored
<1> QED
    BY <1>2, <1>3 DEF Accepted, DestroysStoredKey

(* Two commands on different profiles do not get into each other's way:     *)
(* each is accepted after the other exactly if it was before, and the order *)
(* in which they get the lock makes no difference to any stored profile.    *)
(* (It may to the selection: the first of two new profiles is selected.)    *)
THEOREM OrderIrrelevant ==
    ASSUME NEW cfg \in Config, NEW r \in Request, NEW s \in Request,
           r.name # s.name, Accepted(s, cfg)
    PROVE  /\ Accepted(r, Applied(s, cfg)) <=> Accepted(r, cfg)
           /\ Accepted(r, cfg) =>
                 Applied(r, Applied(s, cfg)).profiles
                    = Applied(s, Applied(r, cfg)).profiles
<1>0. r.name \in Names /\ s.name \in Names
    BY DEF Request, AddRequest, RemoveRequest, UseRequest
<1>1. /\ Applied(s, cfg) \in Config
      /\ Applied(s, cfg).profiles[r.name] = Filled(cfg.profiles[r.name])
    BY <1>0, AppliedType, OthersKept, NormalizedEntry
<1>2. Accepted(r, Applied(s, cfg)) <=> Accepted(r, cfg)
    BY <1>1, AcceptedByEntry
<1>3. ASSUME Accepted(r, cfg)
      PROVE  Applied(r, Applied(s, cfg)).profiles = Applied(s, Applied(r, cfg)).profiles
    <2> DEFINE afterS == Applied(s, cfg)
               afterR == Applied(r, cfg)
               both   == Applied(r, afterS)
               both2  == Applied(s, afterR)
    <2>1. /\ afterR \in Config
          /\ afterR.profiles[s.name] = Filled(cfg.profiles[s.name])
        BY <1>0, <1>3, AppliedType, OthersKept, NormalizedEntry
    <2>2. Accepted(r, afterS) /\ Accepted(s, afterR)
        BY <1>2, <1>3, <2>1, AcceptedByEntry
    <2>3. both \in Config /\ both2 \in Config /\ afterS \in Config
        BY <1>1, <2>1, <2>2, AppliedType
    <2>4. ASSUME NEW m \in Names
          PROVE  both.profiles[m] = both2.profiles[m]
        <3>0. cfg.profiles[m] \in Profile \cup {NoProfile}
            BY DEF Config
        <3>1. CASE m = r.name
            <4>1. both.profiles[m] = Left(r, afterS.profiles[m])
                BY <1>1, <2>2, <3>1, NamedChanged
            <4>2. Left(r, afterS.profiles[m]) = Left(r, cfg.profiles[m])
                BY <1>1, <3>0, <3>1, LeftOfFilled
            <4>3. both2.profiles[m] = Filled(afterR.profiles[m])
                BY <2>1, <2>2, <3>1, OthersKept, NormalizedEntry
            <4>4. /\ afterR.profiles[m] = Left(r, cfg.profiles[m])
                  /\ both.profiles[m] = Left(r, cfg.profiles[m])
                BY <1>3, <3>1, <4>1, <4>2, NamedChanged
            <4>5. Filled(Left(r, cfg.profiles[m])) = Left(r, cfg.profiles[m])
                <5>1. afterR.profiles[m] = Filled(Mutated(r, cfg).profiles[m])
                      /\ Mutated(r, cfg).profiles[m] \in Profile \cup {NoProfile}
                    BY <1>3, AppliedType, NormalizedEntry DEF Applied, Config
                <5> QED
                    BY <4>4, <5>1, FilledTwice
            <4> QED
                BY <4>3, <4>4, <4>5
        <3>2. CASE m = s.name
            <4>1. both2.profiles[m] = Left(s, afterR.profiles[m])
                BY <2>1, <2>2, <3>2, NamedChanged
            <4>2. Left(s, afterR.profiles[m]) = Left(s, cfg.profiles[m])
                BY <2>1, <3>0, <3>2, LeftOfFilled
            <4>3. both.profiles[m] = Filled(afterS.profiles[m])
                BY <1>1, <2>2, <3>2, OthersKept, NormalizedEntry
            <4>4. /\ afterS.profiles[m] = Left(s, cfg.profiles[m])
                  /\ both2.profiles[m] = Left(s, cfg.profiles[m])
                BY <3>2, <4>1, <4>2, NamedChanged
            <4>5. Filled(Left(s, cfg.profiles[m])) = Left(s, cfg.profiles[m])
                <5>1. afterS.profiles[m] = Filled(Mutated(s, cfg).profiles[m])
                      /\ Mutated(s, cfg).profiles[m] \in Profile \cup {NoProfile}
                    BY AppliedType, NormalizedEntry DEF Applied, Config
                <5> QED
                    BY <4>4, <5>1, FilledTwice
            <4> QED
                BY <4>3, <4>4, <4>5
        <3>3. CASE m # r.name /\ m # s.name
            BY <1>1, <1>3, <2>1, <2>2, <3>0, <3>3, OthersKept, NormalizedEntry, FilledTwice
        <3> QED
            BY <3>1, <3>2, <3>3
    <2> HIDE DEF both, both2
    <2>5. both.profiles = both2.profiles
        BY <2>3, <2>4 DEF Config
    <2> QED
        BY <2>5 DEF both, both2
<1> QED
    BY <1>2, <1>3

(* Giving the same command again changes nothing: where it is accepted a    *)
(* second time (a removal is not), it writes what is already there.  A user *)
(* who does not know whether a command took effect may repeat it.           *)
THEOREM RepeatIsHarmless ==
    ASSUME NEW cfg \in Config, NEW r \in Request, Accepted(r, cfg),
           Accepted(r, Applied(r, cfg))
    PROVE  Applied(r, Applied(r, cfg)) = Applied(r, cfg)
<1> DEFINE once  == Applied(r, cfg)
           twice == Applied(r, once)
<1>1. /\ r.name \in Names
      /\ once \in Config /\ twice \in Config
      /\ Stored(once) = Stored(Mutated(r, cfg))
      /\ once.current = Mutated(r, cfg).current
      /\ Stored(twice) = Stored(Mutated(r, once))
      /\ twice.current = Mutated(r, once).current
    BY AppliedType DEF Request, AddRequest, RemoveRequest, UseRequest
<1>2. r \notin RemoveRequest
    BY <1>1, RemoveCase DEF Accepted, RemoveRequest
<1>3. \/ r.op = "use" /\ r \in UseRequest
      \/ r.op = "add" /\ r \in AddRequest
    BY <1>2 DEF Request, UseRequest, AddRequest
<1>4. cfg.profiles[r.name] \in Profile \cup {NoProfile}
      /\ once.profiles[r.name] \in Profile \cup {NoProfile}
    BY <1>1 DEF Config
<1>5. /\ once.profiles[r.name] = Left(r, cfg.profiles[r.name])
      /\ twice.profiles[r.name] = Left(r, once.profiles[r.name])
    BY <1>1, NamedChanged
<1>6. Left(r, Left(r, cfg.profiles[r.name])) = Left(r, cfg.profiles[r.name])
    <2> DEFINE entry == cfg.profiles[r.name]
    <2>1. CASE r.op = "use"
        BY <1>4, <2>1, FilledTwice DEF Left
    <2>2. CASE r.op = "add"
        <3>1. r.key \in Keys \cup {NoKey} /\ r.url \in URLs /\ DefaultURL \in URLs
              /\ NoURL \notin URLs
            BY <1>3, <2>2, ProfilesAssumption DEF AddRequest, UseRequest
        <3>2. CASE entry = NoProfile
            <4>1. Left(r, entry) = [url |-> r.url, key |-> r.key]
                BY <2>2, <3>1, <3>2 DEF Left, FillURL
            <4>2. [url |-> r.url, key |-> r.key] \in Profile
                BY <3>1 DEF Profile
            <4>3. Left(r, [url |-> r.url, key |-> r.key]) = [url |-> r.url, key |-> r.key]
                BY <2>2, <3>1, <4>2, ProfilesAssumption DEF Left, FillURL
            <4> QED
                BY <4>1, <4>3
        <3>3. CASE entry \in Profile
            <4> DEFINE new == [url |-> IF r.urlSet THEN r.url ELSE FillURL(entry).url,
                               key |-> IF r.key # NoKey THEN r.key ELSE FillURL(entry).key]
            <4>1. FillURL(entry) \in Profile /\ FillURL(entry).url # NoURL
                  /\ entry # NoProfile
                BY <3>1, <3>3, ProfilesAssumption DEF FillURL, Profile
            <4>2. new \in Profile /\ new.url # NoURL /\ new # NoProfile
                BY <3>1, <4>1, ProfilesAssumption DEF Profile
            <4>3. Left(r, entry) = new
                BY <2>2, <4>1, <4>2 DEF Left, FillURL
            <4>4. FillURL(new) = new
                BY <4>2 DEF FillURL
            <4>5. Left(r, new) = FillURL([url |-> IF r.urlSet THEN r.url ELSE new.url,
                                          key |-> IF r.key # NoKey THEN r.key ELSE new.key])
                BY <2>2, <4>2, <4>4 DEF Left
            <4>6. [url |-> IF r.urlSet THEN r.url ELSE new.url,
                   key |-> IF r.key # NoKey THEN r.key ELSE new.key] = new
                OBVIOUS
            <4> QED
                BY <4>3, <4>4, <4>5, <4>6
        <3> QED
            BY <1>4, <3>2, <3>3
    <2> QED
        BY <1>3, <2>1, <2>2
<1>7. \A m \in Names : twice.profiles[m] = once.profiles[m]
    <2> TAKE m \in Names
    <2>1. CASE m = r.name
        BY <1>5, <1>6, <2>1
    <2>2. CASE m # r.name
        <3>1. cfg.profiles[m] \in Profile \cup {NoProfile}
            BY DEF Config
        <3> QED
            BY <1>1, <2>2, <3>1, OthersKept, NormalizedEntry, FilledTwice
    <2> QED
        BY <2>1, <2>2
<1>8. twice.current = once.current
    <2>1. CASE r \in UseRequest
        BY <1>1, <2>1, UseCase
    <2>2. CASE r \in AddRequest
        <3>1. r.name \in Stored(once)
            <4>1. CASE r.name \in Stored(cfg)
                BY <1>1, <2>2, <4>1, UpdateCase
            <4>2. CASE r.name \notin Stored(cfg)
                BY <1>1, <2>2, <4>2, AddCase
            <4> QED
                BY <4>1, <4>2
        <3>2. HasCurrentProfile(once) => twice.current = once.current
            BY <1>1, <2>2, <3>1, UpdateCase
        <3>3. once.current = NoName => twice.current = once.current
            BY <1>1, <2>2, <3>1, ProfilesAssumption
               DEF Mutated, UpdateProfile, SetProfile, AddRequest
        <3>4. once.current = NoName \/ HasCurrentProfile(once)
            BY AppliedSelection
        <3> QED
            BY <3>2, <3>3, <3>4
    <2> QED
        BY <1>3, <2>1, <2>2
<1> HIDE DEF once, twice
<1>9. twice = once
    BY <1>1, <1>7, <1>8 DEF Config
<1> QED
    BY <1>9 DEF once, twice
=============================================================================
