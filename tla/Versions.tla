------------------------------ MODULE Versions ------------------------------
(***************************************************************************)
(* Release versions and their order (internal/updatecheck/updatecheck.go). *)
(*                                                                         *)
(* A version is what parseVersion makes of its text: three numbers, with 0 *)
(* for a missing minor or patch, and the prerelease identifiers.  Build    *)
(* metadata is dropped there, so texts that differ in it alone are one     *)
(* version here.  An identifier keeps its text apart from its value: 01    *)
(* and 1 are different texts of the same number.                           *)
(***************************************************************************)
EXTENDS Integers, Sequences

(* text: the rank of a text among those of equal value (0 for a number     *)
(* without leading zeros); value: the number, or the rank of a word in the *)
(* order of bytes.  Numbers beyond uint64 are words to parseNumeric.       *)
Identifier == [numeric: BOOLEAN, value: Nat, text: Nat]
Version    == [core: Nat \X Nat \X Nat, pre: Seq(Identifier)]

Sign(a, b) == IF a < b THEN -1 ELSE IF a > b THEN 1 ELSE 0

Shorter(l, r) == IF Len(l) <= Len(r) THEN Len(l) ELSE Len(r)

(* Where two sequences first differ, 0 when one continues the other. *)
FirstDifference(l, r) ==
    LET differing == {i \in 1..Shorter(l, r) : l[i] # r[i]}
    IN  IF differing = {} THEN 0
        ELSE CHOOSE i \in differing : \A j \in differing : i <= j

(* Mutant: words and numbers are compared alike. *)
CompareAsWords(a, b) == Sign(a.value, b.value)

CompareIdentifiers(a, b) ==
    IF a.numeric = b.numeric THEN Sign(a.value, b.value)
    ELSE IF a.numeric THEN -1 ELSE 1

(* Mutant: no identifiers rank below some. *)
ComparePrereleaseFlat(l, r) ==
    LET i == FirstDifference(l, r)
    IN  IF i = 0 THEN Sign(Len(l), Len(r)) ELSE CompareIdentifiers(l[i], r[i])

(* A version without a prerelease outranks one with; identifiers are       *)
(* compared where their texts first differ; a shorter run ranks lower.     *)
ComparePrerelease(l, r) ==
    LET i == FirstDifference(l, r)
    IN  IF l = <<>> \/ r = <<>> THEN Sign(Len(r), Len(l))
        ELSE IF i = 0 THEN Sign(Len(l), Len(r))
        ELSE CompareIdentifiers(l[i], r[i])

Compare(a, b) ==
    LET i == FirstDifference(a.core, b.core)
    IN  IF i # 0 THEN Sign(a.core[i], b.core[i])
        ELSE ComparePrerelease(a.pre, b.pre)

IsNewer(candidate, current) == Compare(candidate, current) > 0
IsSame(a, b) == Compare(a, b) = 0

-----------------------------------------------------------------------------
(* Precedence as Semantic Versioning 2.0.0 (item 11) has it, for reference. *)

IdentifierPrecedes(a, b) ==
    \/ a.numeric /\ ~b.numeric
    \/ a.numeric = b.numeric /\ a.value < b.value

SameIdentifier(a, b) == a.numeric = b.numeric /\ a.value = b.value

PrereleasePrecedes(l, r) ==
    \/ l # <<>> /\ r = <<>>
    \/ \E n \in 0..Len(l) :
          /\ n < Len(r)
          /\ \A j \in 1..n : SameIdentifier(l[j], r[j])
          /\ IF n < Len(l) THEN IdentifierPrecedes(l[n + 1], r[n + 1]) ELSE l # <<>>

Precedes(a, b) ==
    \/ \E i \in 1..3 : /\ a.core[i] < b.core[i]
                       /\ \A j \in 1..(i - 1) : a.core[j] = b.core[j]
    \/ a.core = b.core /\ PrereleasePrecedes(a.pre, b.pre)
=============================================================================
