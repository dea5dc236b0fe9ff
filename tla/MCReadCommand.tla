--------------------------- MODULE MCReadCommand ---------------------------
(* ReadCommand over files with two tenants, and environments of a third.   *)
EXTENDS ReadCommand, TLC

CONSTANTS n1, n2, k1, k2, k3, u1, u2, u3, http, prod

Tenants(current, first, second) ==
    [current |-> current, profiles |-> (n1 :> first @@ n2 :> second)]

First == [url |-> u1, key |-> k1]

(* Nothing yet; the first tenant selected, the second without its URL, of   *)
(* plain http or keyless; a selection whose profile is gone; a torn file.   *)
MCFiles ==
    {EmptyConfig, Unreadable,
     Tenants(n1, First, [url |-> NoURL, key |-> k2]),
     Tenants(n2, First, [url |-> u2, key |-> k2]),
     Tenants(n2, First, [url |-> http, key |-> k2]),
     Tenants(n2, First, [url |-> u2, key |-> NoKey]),
     Tenants(n2, First, NoProfile)}

MCEnvironments == {[url |-> u, key |-> k] : u \in {NoURL, u3}, k \in {NoKey, k3}}
=============================================================================
