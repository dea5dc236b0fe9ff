---------------------------- MODULE MCConfigEdit ----------------------------
(* ConfigEdit on files with two profile names.                             *)
EXTENDS ConfigEdit, TLC

CONSTANTS p1, p2, p3, n1, n2, k1, k2

Stores(current, first, second) ==
    {[current |-> c, profiles |-> (n1 :> f @@ n2 :> s)] :
        c \in current, f \in first, s \in second}

WithKey(k) == [url |-> DefaultURL, key |-> k]

(* Two profiles, the first hand-edited to be keyless and without URL; a    *)
(* selection left behind without its profile.                              *)
MCInitialStores ==
    Stores({n2}, {[url |-> NoURL, key |-> NoKey]}, {WithKey(k1)})
    \cup Stores({n2}, {WithKey(k1)}, {NoProfile})

Empty == Stores({NoName}, {NoProfile}, {NoProfile})

(* One name, stored and selected; a file that is torn. *)
OneName == {[current |-> n1, profiles |-> (n1 :> WithKey(k1))], Torn}

WaiterSymmetry == Permutations({p2, p3})
=============================================================================
