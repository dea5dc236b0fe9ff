------------------------------ MODULE Profiles ------------------------------
(***************************************************************************)
(* The configuration file as a value, and what each `auth` command does to *)
(* it (internal/config/config.go, internal/cmd/auth/auth.go).  There are   *)
(* no variables here: ProfileStore and ConfigEdit give the value a home.   *)
(*                                                                         *)
(* Names, keys and URLs are opaque.  The empty string, which the code      *)
(* obtains by trimming what a user or a YAML file supplied, is NoName,     *)
(* NoKey or NoURL; an absent map entry is NoProfile.                       *)
(***************************************************************************)
CONSTANTS
    Names,        \* valid profile names
    Keys,         \* non-empty API keys
    URLs,         \* valid API base URLs
    DefaultURL,   \* the production endpoint
    NoName, NoKey, NoURL, NoProfile

Profile == [url : URLs \cup {NoURL}, key : Keys \cup {NoKey}]

Config == [current  : Names \cup {NoName},
           profiles : [Names -> Profile \cup {NoProfile}]]

ASSUME ProfilesAssumption ==
    /\ DefaultURL \in URLs
    /\ NoName \notin Names
    /\ NoKey \notin Keys
    /\ NoURL \notin URLs
    /\ NoProfile \notin Profile

EmptyConfig == [current |-> NoName, profiles |-> [n \in Names |-> NoProfile]]

-----------------------------------------------------------------------------
(* Reading a configuration *)

Stored(cfg) == {n \in Names : cfg.profiles[n] # NoProfile}

HasCurrentProfile(cfg) == cfg.current \in Stored(cfg)

HasKey(cfg, n) == n \in Stored(cfg) /\ cfg.profiles[n].key # NoKey

FillURL(p) == IF p.url = NoURL THEN [url |-> DefaultURL, key |-> p.key] ELSE p

(* Mutant: profiles without a key are tidied away. *)
NormalizedTidy(cfg) ==
    [current  |-> cfg.current,
     profiles |-> [n \in Names |-> IF n \in Stored(cfg) /\ HasKey(cfg, n)
                                   THEN FillURL(cfg.profiles[n])
                                   ELSE NoProfile]]

(* What reaches the disk: every stored profile names its endpoint. *)
Normalized(cfg) ==
    [current  |-> cfg.current,
     profiles |-> [n \in Names |-> IF n \in Stored(cfg)
                                   THEN FillURL(cfg.profiles[n])
                                   ELSE NoProfile]]

-----------------------------------------------------------------------------
(* The mutators of Config; their callers check the preconditions. *)

Select(cfg, n) == [current |-> n, profiles |-> cfg.profiles]

SetProfile(cfg, n, p) ==
    [current |-> cfg.current, profiles |-> [cfg.profiles EXCEPT ![n] = FillURL(p)]]

(* Mutant: a new profile always becomes the current one. *)
AddProfileSelects(cfg, n, p) == Select(SetProfile(cfg, n, p), n)

AddProfile(cfg, n, p) ==
    LET added == SetProfile(cfg, n, p)
    IN  IF HasCurrentProfile(added) THEN added ELSE Select(added, n)

UpdateProfile(cfg, n, p) ==
    LET updated == SetProfile(cfg, n, p)
    IN  IF updated.current = NoName \/ HasCurrentProfile(updated)
        THEN updated
        ELSE Select(updated, n)

(* Mutant: the selection is cleared only when it names the removed profile. *)
RemoveProfileKeepsDangling(cfg, n) ==
    LET removed == [current  |-> cfg.current,
                    profiles |-> [cfg.profiles EXCEPT ![n] = NoProfile]]
    IN  IF cfg.current # n THEN removed ELSE Select(removed, NoName)

RemoveProfile(cfg, n) ==
    LET removed == [current  |-> cfg.current,
                    profiles |-> [cfg.profiles EXCEPT ![n] = NoProfile]]
    IN  IF HasCurrentProfile(removed) THEN removed ELSE Select(removed, NoName)

UseProfile(cfg, n) == Select(cfg, n)

-----------------------------------------------------------------------------
(* A request is what a command carries into the lock: its arguments and the *)
(* answers its prompts were given.                                          *)

AddRequest == {r \in [op : {"add"}, name : Names, key : Keys \cup {NoKey},
                      url : URLs, urlSet : BOOLEAN, confirmed : BOOLEAN] :
                 r.key # NoKey \/ r.urlSet}
RemoveRequest == [op : {"remove"}, name : Names]
UseRequest    == [op : {"use"}, name : Names]
Request == AddRequest \cup RemoveRequest \cup UseRequest

(* `auth add` is about to replace a key that cannot be recovered. *)
DestroysStoredKey(r, cfg) == r.key # NoKey /\ HasKey(cfg, r.name)

(* The profile `auth add` writes, planned from the configuration it finds. *)
AuthAddProfile(r, cfg) ==
    IF r.name \in Stored(cfg)
    THEN LET old == FillURL(cfg.profiles[r.name])
         IN  [url |-> IF r.urlSet THEN r.url ELSE old.url,
              key |-> IF r.key # NoKey THEN r.key ELSE old.key]
    ELSE [url |-> r.url, key |-> r.key]

(* Mutants: a vanished profile is added without a key; a key is replaced     *)
(* without consent.                                                          *)
AcceptedKeyless(r, cfg) ==
    \/ /\ r.op = "add"
       /\ r.confirmed \/ ~DestroysStoredKey(r, cfg)
    \/ /\ r.op \in {"remove", "use"}
       /\ r.name \in Stored(cfg)

AcceptedUnconfirmed(r, cfg) ==
    \/ /\ r.op = "add"
       /\ r.name \in Stored(cfg) \/ r.key # NoKey
    \/ /\ r.op \in {"remove", "use"}
       /\ r.name \in Stored(cfg)

(* The mutation returns no error on cfg. *)
Accepted(r, cfg) ==
    \/ /\ r.op = "add"
       /\ r.name \in Stored(cfg) \/ r.key # NoKey
       /\ r.confirmed \/ ~DestroysStoredKey(r, cfg)
    \/ /\ r.op \in {"remove", "use"}
       /\ r.name \in Stored(cfg)

Mutated(r, cfg) ==
    IF r.op = "remove" THEN RemoveProfile(cfg, r.name)
    ELSE IF r.op = "use" THEN UseProfile(cfg, r.name)
    ELSE IF r.name \in Stored(cfg)
         THEN UpdateProfile(cfg, r.name, AuthAddProfile(r, cfg))
         ELSE AddProfile(cfg, r.name, AuthAddProfile(r, cfg))

(* What Edit writes for an accepted request. *)
Applied(r, cfg) == Normalized(Mutated(r, cfg))
=============================================================================
