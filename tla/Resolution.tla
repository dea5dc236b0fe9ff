----------------------------- MODULE Resolution -----------------------------
(***************************************************************************)
(* Whose key goes where: the endpoint and the key a command uses, from the *)
(* configuration file, --profile and the two environment variables         *)
(* (internal/config/config.go, Resolve; internal/cmdutil/client.go).       *)
(***************************************************************************)
EXTENDS Profiles

CONSTANTS
    InsecureURLs,   \* URLs that are plain http to a host other than this one
    Unreadable,     \* a configuration file that cannot be read or parsed
    NoClient        \* the command fails without a client

ASSUME ResolutionAssumption ==
    /\ InsecureURLs \subseteq URLs \ {DefaultURL}
    /\ Unreadable \notin Config
    /\ NoClient \notin Profile

Environment == Profile   \* NVFLEETINT_API_URL and NVFLEETINT_API_KEY

(* Mutant: the environment is laid over a profile that was named, too. *)
OverlaidAlways(cfg, named, env) ==
    LET n == IF named # NoName THEN named ELSE cfg.current
        base == IF n \in Stored(cfg) THEN FillURL(cfg.profiles[n])
                ELSE [url |-> DefaultURL, key |-> NoKey]
    IN  IF named # NoName /\ named \notin Stored(cfg) THEN NoClient
        ELSE [url |-> IF env.url # NoURL THEN env.url ELSE base.url,
              key |-> IF env.key # NoKey THEN env.key ELSE base.key]

(* A profile that is named is taken as it is stored, URL default and all;   *)
(* without a name the environment is laid over the current profile, or over *)
(* the defaults when no stored profile is selected.                         *)
ResolveIn(cfg, named, env) ==
    LET base == IF HasCurrentProfile(cfg) THEN FillURL(cfg.profiles[cfg.current])
                ELSE [url |-> DefaultURL, key |-> NoKey]
    IN  IF named # NoName
        THEN IF named \in Stored(cfg) THEN FillURL(cfg.profiles[named]) ELSE NoClient
        ELSE [url |-> IF env.url # NoURL THEN env.url ELSE base.url,
              key |-> IF env.key # NoKey THEN env.key ELSE base.key]

(* A file that cannot be read stops the command, unless no profile is named *)
(* and the environment has a key.                                           *)
Resolve(file, named, env) ==
    IF file # Unreadable THEN ResolveIn(file, named, env)
    ELSE IF named = NoName /\ env.key # NoKey THEN ResolveIn(EmptyConfig, NoName, env)
    ELSE NoClient

(* Mutant: an http URL is taken wherever it points. *)
NewClientAnywhere(resolved) ==
    IF resolved = NoClient THEN NoClient
    ELSE IF resolved.key = NoKey THEN NoClient
    ELSE resolved

(* A client needs a key and an endpoint it may send one to. *)
NewClient(resolved) ==
    IF resolved = NoClient THEN NoClient
    ELSE IF resolved.key = NoKey \/ resolved.url \in InsecureURLs THEN NoClient
    ELSE resolved
=============================================================================
