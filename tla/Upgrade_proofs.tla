--------------------------- MODULE Upgrade_proofs ---------------------------
(* What holds of upgrades for any number of commands and any releases. *)
EXTENDS Upgrade, WellFoundedInduction, TLAPS

-----------------------------------------------------------------------------
(* The order of versions against Semantic Versioning *)

LEMMA LeastIndex ==
    ASSUME NEW S, S \subseteq Nat, S # {}
    PROVE  \E i \in S : \A j \in S : i <= j
<1>1. PICK i \in S : \A j \in S : ~(<<j, i>> \in OpToRel(<, Nat))
    BY WFMin, NatLessThanWellFounded, Zenon
<1>2. \A j \in S : ~(j < i)
    BY <1>1 DEF OpToRel
<1> QED
    BY <1>2

(* What FirstDifference returns, so that its CHOOSE is met here only. *)
LEMMA FirstDifferenceIs ==
    ASSUME NEW l, NEW r, Len(l) \in Nat, Len(r) \in Nat, NEW i, i = FirstDifference(l, r)
    PROVE  \/ i = 0 /\ \A j \in 1 .. Shorter(l, r) : l[j] = r[j]
           \/ i \in 1 .. Shorter(l, r) /\ l[i] # r[i] /\ \A j \in 1 .. (i - 1) : l[j] = r[j]
<1> DEFINE differing == {j \in 1 .. Shorter(l, r) : l[j] # r[j]}
<1>1. Shorter(l, r) \in Nat
    BY DEF Shorter
<1>2. CASE differing = {}
    BY <1>2 DEF FirstDifference
<1>3. CASE differing # {}
    <2>1. i \in differing /\ \A j \in differing : i <= j
        <3>1. \E k \in differing : \A j \in differing : k <= j
            <4>1. differing \subseteq Nat
                BY <1>1
            <4> HIDE DEF differing
            <4> QED
                BY <1>3, <4>1, LeastIndex
        <3>2. i = CHOOSE k \in differing : \A j \in differing : k <= j
            BY <1>3 DEF FirstDifference
        <3> HIDE DEF differing
        <3> QED
            BY <3>1, <3>2
    <2>2. \A j \in 1 .. (i - 1) : j \in 1 .. Shorter(l, r) /\ j \notin differing
        BY <1>1, <2>1
    <2> QED
        BY <2>1, <2>2
<1> QED
    BY <1>2, <1>3

LEMMA CoreIs ==
    ASSUME NEW a \in Version
    PROVE  /\ a.core \in Seq(Nat) /\ Len(a.core) = 3
           /\ a.pre \in Seq(Identifier)
           /\ \A j \in 1 .. 3 : a.core[j] \in Nat
           /\ a.core = <<a.core[1], a.core[2], a.core[3]>>
<1>1. a.core \in Nat \X Nat \X Nat /\ a.pre \in Seq(Identifier)
    BY DEF Version
<1>2. PICK x \in Nat, y \in Nat, z \in Nat : a.core = <<x, y, z>>
    BY <1>1
<1>3. /\ a.core \in Seq(Nat) /\ Len(a.core) = 3
      /\ a.core[1] = x /\ a.core[2] = y /\ a.core[3] = z
    BY <1>2
<1> QED
    BY <1>1, <1>2, <1>3

LEMMA CoresEqual ==
    ASSUME NEW a \in Version, NEW b \in Version
    PROVE  a.core = b.core <=> \A j \in 1 .. 3 : a.core[j] = b.core[j]
<1>1. a.core[1] = b.core[1] /\ a.core[2] = b.core[2] /\ a.core[3] = b.core[3] => a.core = b.core
    BY CoreIs
<1> QED
    BY <1>1

LEMMA NewerPrerelease ==
    ASSUME NEW l \in Seq(Identifier), NEW r \in Seq(Identifier), ComparePrerelease(l, r) > 0
    PROVE  PrereleasePrecedes(r, l)
<1>1. Len(l) \in Nat /\ Len(r) \in Nat
    OBVIOUS
<1>2. CASE l = <<>> \/ r = <<>>
    <2>1. Sign(Len(r), Len(l)) > 0
        BY <1>2 DEF ComparePrerelease
    <2>2. Len(l) < Len(r)
        BY <1>1, <2>1 DEF Sign
    <2> QED
        BY <1>2, <2>2 DEF PrereleasePrecedes
<1>3. PICK i : i = FirstDifference(l, r)
    OBVIOUS
<1>4. CASE l # <<>> /\ r # <<>> /\ i = 0
    <2>1. Sign(Len(l), Len(r)) > 0
        BY <1>3, <1>4 DEF ComparePrerelease
    <2>2. Len(r) < Len(l)
        BY <1>1, <2>1 DEF Sign
    <2>3. \A j \in 1 .. Shorter(l, r) : l[j] = r[j]
        <3>1. \/ i = 0 /\ \A j \in 1 .. Shorter(l, r) : l[j] = r[j]
              \/ i \in 1 .. Shorter(l, r)
            BY <1>1, <1>3, FirstDifferenceIs, Zenon
        <3>2. Shorter(l, r) \in Nat
            BY <1>1 DEF Shorter
        <3> QED
            BY <1>4, <3>1, <3>2
    <2>4. \A j \in 1 .. Len(r) : r[j] = l[j]
        BY <1>1, <2>2, <2>3 DEF Shorter
    <2>5. Len(r) \in 0 .. Len(r)
        BY <1>1
    <2> QED
        BY <1>4, <2>2, <2>4, <2>5 DEF PrereleasePrecedes, SameIdentifier
<1>5. CASE l # <<>> /\ r # <<>> /\ i # 0
    <2>1. CompareIdentifiers(l[i], r[i]) > 0
        BY <1>3, <1>5 DEF ComparePrerelease
    <2>2. /\ i \in 1 .. Shorter(l, r)
          /\ \A j \in 1 .. (i - 1) : l[j] = r[j]
        BY <1>1, <1>3, <1>5, FirstDifferenceIs, Zenon
    <2>3. i \in 1 .. Len(l) /\ i \in 1 .. Len(r)
        BY <1>1, <2>2 DEF Shorter
    <2>4. l[i] \in Identifier /\ r[i] \in Identifier
        BY <2>3
    <2>5. IdentifierPrecedes(r[i], l[i])
        BY <2>1, <2>4 DEF CompareIdentifiers, IdentifierPrecedes, Sign, Identifier
    <2>6. i - 1 \in 0 .. Len(r) /\ i - 1 < Len(r) /\ i - 1 < Len(l) /\ (i - 1) + 1 = i
        BY <1>1, <2>3
    <2>7. \A j \in 1 .. (i - 1) : SameIdentifier(r[j], l[j])
        BY <2>2 DEF SameIdentifier
    <2> QED
        BY <2>5, <2>6, <2>7 DEF PrereleasePrecedes
<1> QED
    BY <1>2, <1>4, <1>5

(* Where two cores first differ, if they do. *)
LEMMA CoreDifference ==
    ASSUME NEW a \in Version, NEW b \in Version, NEW c, c = FirstDifference(a.core, b.core)
    PROVE  \/ c = 0 /\ a.core = b.core
           \/ c \in 1 .. 3 /\ a.core[c] # b.core[c] /\ \A j \in 1 .. (c - 1) : a.core[j] = b.core[j]
<1>1. Len(a.core) = 3 /\ Len(b.core) = 3
    BY CoreIs
<1>2. Shorter(a.core, b.core) = 3
    BY <1>1 DEF Shorter
<1>3. \/ c = 0 /\ \A j \in 1 .. Shorter(a.core, b.core) : a.core[j] = b.core[j]
      \/ /\ c \in 1 .. Shorter(a.core, b.core) /\ a.core[c] # b.core[c]
         /\ \A j \in 1 .. (c - 1) : a.core[j] = b.core[j]
    <2>1. Len(a.core) \in Nat /\ Len(b.core) \in Nat
        BY <1>1
    <2> QED
        BY <2>1, FirstDifferenceIs
<1> QED
    BY <1>2, <1>3, CoresEqual

(* What the client calls newer comes later in Semantic Versioning. *)
LEMMA NewerPrecedes ==
    ASSUME NEW a \in Version, NEW b \in Version, IsNewer(a, b)
    PROVE  Precedes(b, a)
<1>1. PICK c : c = FirstDifference(a.core, b.core)
    OBVIOUS
<1>2. CASE c # 0
    <2>1. c \in 1 .. 3 /\ a.core[c] # b.core[c] /\ \A j \in 1 .. (c - 1) : a.core[j] = b.core[j]
        BY <1>1, <1>2, CoreDifference
    <2>2. Sign(a.core[c], b.core[c]) > 0
        BY <1>1, <1>2 DEF IsNewer, Compare
    <2>3. a.core[c] \in Nat /\ b.core[c] \in Nat
        BY <2>1, CoreIs
    <2>4. b.core[c] < a.core[c]
        BY <2>2, <2>3 DEF Sign
    <2> QED
        BY <2>1, <2>4 DEF Precedes
<1>3. CASE c = 0
    <2>1. a.core = b.core
        <3>1. c \in 1 .. 3 \/ a.core = b.core
            BY <1>1, CoreDifference
        <3> QED
            BY <1>3, <3>1
    <2>2. ComparePrerelease(a.pre, b.pre) > 0
        BY <1>1, <1>3 DEF IsNewer, Compare
    <2>3. PrereleasePrecedes(b.pre, a.pre)
        BY <2>2, CoreIs, NewerPrerelease
    <2> QED
        BY <2>1, <2>3 DEF Precedes
<1> QED
    BY <1>2, <1>3

LEMMA FirstDifferenceSymmetric ==
    ASSUME NEW l, NEW r, Len(l) \in Nat, Len(r) \in Nat
    PROVE  FirstDifference(l, r) = FirstDifference(r, l)
<1>1. Shorter(l, r) = Shorter(r, l) /\ Shorter(l, r) \in Nat
    BY DEF Shorter
<1>2. PICK i, k : i = FirstDifference(l, r) /\ k = FirstDifference(r, l)
    OBVIOUS
<1>3. \/ i = 0 /\ \A j \in 1 .. Shorter(l, r) : l[j] = r[j]
      \/ i \in 1 .. Shorter(l, r) /\ l[i] # r[i] /\ \A j \in 1 .. (i - 1) : l[j] = r[j]
    BY <1>2, FirstDifferenceIs
<1>4. \/ k = 0 /\ \A j \in 1 .. Shorter(r, l) : r[j] = l[j]
      \/ k \in 1 .. Shorter(r, l) /\ r[k] # l[k] /\ \A j \in 1 .. (k - 1) : r[j] = l[j]
    BY <1>2, FirstDifferenceIs
<1>5. i = k
    BY <1>1, <1>3, <1>4
<1> QED
    BY <1>2, <1>5

(* Identifiers that agree in number or word are the same identifier, where *)
(* no number has leading zeros.                                            *)
LEMMA SameIsEqual ==
    ASSUME NEW x \in Identifier, NEW y \in Identifier, x.text = 0, y.text = 0,
           SameIdentifier(x, y)
    PROVE  x = y
BY DEF Identifier, SameIdentifier

LEMMA PrecedingPrerelease ==
    ASSUME NEW l \in Seq(Identifier), NEW r \in Seq(Identifier), PrereleasePrecedes(r, l),
           \A j \in 1 .. Len(l) : l[j].text = 0, \A j \in 1 .. Len(r) : r[j].text = 0
    PROVE  ComparePrerelease(l, r) > 0 /\ ComparePrerelease(r, l) < 0
<1>1. Len(l) \in Nat /\ Len(r) \in Nat
    OBVIOUS
<1>2. CASE r # <<>> /\ l = <<>>
    <2>1. Len(l) = 0 /\ Len(r) > 0
        BY <1>2
    <2>2. Sign(Len(r), Len(l)) > 0 /\ Sign(Len(l), Len(r)) < 0
        BY <2>1 DEF Sign
    <2> QED
        BY <1>2, <2>2 DEF ComparePrerelease
<1>3. CASE ~(r # <<>> /\ l = <<>>)
    <2>1. PICK n \in 0 .. Len(r) :
              /\ n < Len(l)
              /\ \A j \in 1 .. n : SameIdentifier(r[j], l[j])
              /\ IF n < Len(r) THEN IdentifierPrecedes(r[n + 1], l[n + 1]) ELSE r # <<>>
        BY <1>3 DEF PrereleasePrecedes
    <2>2. \A j \in 1 .. n : l[j] = r[j]
        <3>1. \A j \in 1 .. n : j \in 1 .. Len(l) /\ j \in 1 .. Len(r)
            BY <1>1, <2>1
        <3>2. \A j \in 1 .. n : l[j] \in Identifier /\ r[j] \in Identifier
            BY <3>1
        <3> QED
            BY <2>1, <3>1, <3>2, SameIsEqual
    <2>3. l # <<>> /\ r # <<>>
        BY <1>1, <2>1
    <2>4. PICK i : i = FirstDifference(l, r)
        OBVIOUS
    <2>5. i = FirstDifference(r, l)
        BY <1>1, <2>4, FirstDifferenceSymmetric
    <2>6. \/ i = 0 /\ \A j \in 1 .. Shorter(l, r) : l[j] = r[j]
          \/ i \in 1 .. Shorter(l, r) /\ l[i] # r[i] /\ \A j \in 1 .. (i - 1) : l[j] = r[j]
        BY <1>1, <2>4, FirstDifferenceIs
    <2>7. CASE n < Len(r)
        <3>1. IdentifierPrecedes(r[n + 1], l[n + 1])
            BY <2>1, <2>7
        <3>2. l[n + 1] \in Identifier /\ r[n + 1] \in Identifier
            BY <1>1, <2>1, <2>7
        <3>3. n + 1 \in 1 .. Shorter(l, r)
            BY <1>1, <2>1, <2>7 DEF Shorter
        <3>4. l[n + 1] # r[n + 1]
            BY <3>1, <3>2 DEF IdentifierPrecedes, Identifier
        <3>5. i \in 1 .. Shorter(l, r) /\ l[i] # r[i] /\ \A j \in 1 .. (i - 1) : l[j] = r[j]
            BY <2>6, <3>3, <3>4
        <3>6. ~(i <= n)
            BY <2>1, <2>2, <3>5
        <3>7. ~(n + 1 <= i - 1)
            BY <2>1, <3>4, <3>5
        <3>8. i = n + 1
            BY <2>1, <3>3, <3>5, <3>6, <3>7
        <3>9. CompareIdentifiers(l[i], r[i]) > 0 /\ CompareIdentifiers(r[i], l[i]) < 0
            BY <3>1, <3>2, <3>8 DEF IdentifierPrecedes, CompareIdentifiers, Sign, Identifier
        <3>10. i # 0
            BY <2>1, <3>8
        <3> QED
            BY <2>3, <2>4, <2>5, <3>9, <3>10 DEF ComparePrerelease
    <2>8. CASE n = Len(r)
        <3>1. Shorter(l, r) = Len(r)
            BY <1>1, <2>1, <2>8 DEF Shorter
        <3>2. i = 0
            BY <2>2, <2>6, <2>8, <3>1
        <3>3. Sign(Len(l), Len(r)) > 0 /\ Sign(Len(r), Len(l)) < 0
            BY <1>1, <2>1, <2>8 DEF Sign
        <3> QED
            BY <2>3, <2>4, <2>5, <3>2, <3>3 DEF ComparePrerelease
    <2> QED
        BY <1>1, <2>1, <2>7, <2>8
<1> QED
    BY <1>2, <1>3

(* What comes earlier in Semantic Versioning is older to the client. *)
LEMMA PrecedingIsOlder ==
    ASSUME NEW a \in Version, NEW b \in Version, Canonical(a), Canonical(b), Precedes(b, a)
    PROVE  Compare(a, b) > 0 /\ Compare(b, a) < 0
<1>1. PICK c : c = FirstDifference(a.core, b.core)
    OBVIOUS
<1>2. c = FirstDifference(b.core, a.core)
    <2>1. Len(a.core) \in Nat /\ Len(b.core) \in Nat
        BY CoreIs
    <2> QED
        BY <1>1, <2>1, FirstDifferenceSymmetric
<1>3. \/ c = 0 /\ a.core = b.core
      \/ c \in 1 .. 3 /\ a.core[c] # b.core[c] /\ \A j \in 1 .. (c - 1) : a.core[j] = b.core[j]
    BY <1>1, CoreDifference
<1>4. \A j \in 1 .. 3 : a.core[j] \in Nat /\ b.core[j] \in Nat
    BY CoreIs
<1>5. ASSUME NEW i \in 1 .. 3, b.core[i] < a.core[i], \A j \in 1 .. (i - 1) : b.core[j] = a.core[j]
      PROVE  Compare(a, b) > 0 /\ Compare(b, a) < 0
    <2>1. c \in 1 .. 3 /\ a.core[c] # b.core[c] /\ \A j \in 1 .. (c - 1) : a.core[j] = b.core[j]
        BY <1>3, <1>4, <1>5
    <2>2. c = i
        BY <1>4, <1>5, <2>1
    <2>3. Sign(a.core[c], b.core[c]) > 0 /\ Sign(b.core[c], a.core[c]) < 0
        BY <1>4, <1>5, <2>2 DEF Sign
    <2>4. c # 0
        BY <2>1
    <2> QED
        BY <1>1, <1>2, <2>3, <2>4 DEF Compare
<1>6. CASE a.core = b.core /\ PrereleasePrecedes(b.pre, a.pre)
    <2>1. c = 0
        BY <1>3, <1>6
    <2>2. ComparePrerelease(a.pre, b.pre) > 0 /\ ComparePrerelease(b.pre, a.pre) < 0
        BY <1>6, CoreIs, PrecedingPrerelease DEF Canonical
    <2> QED
        BY <1>1, <1>2, <2>1, <2>2 DEF Compare
<1> QED
    BY <1>5, <1>6 DEF Precedes

(* The client's order is that of Semantic Versioning, for all versions that *)
(* have no number with leading zeros (updatecheck.go, compare).             *)
THEOREM OrderIsSemVer ==
    \A a, b \in Version :
        Canonical(a) /\ Canonical(b)
            => /\ IsNewer(a, b) <=> Precedes(b, a)
               /\ IsSame(a, b) => ~Precedes(a, b) /\ ~Precedes(b, a)
<1> SUFFICES ASSUME NEW a \in Version, NEW b \in Version, Canonical(a), Canonical(b)
             PROVE  /\ IsNewer(a, b) <=> Precedes(b, a)
                    /\ IsSame(a, b) => ~Precedes(a, b) /\ ~Precedes(b, a)
    OBVIOUS
<1>1. IsNewer(a, b) => Precedes(b, a)
    BY NewerPrecedes
<1>2. Precedes(b, a) => Compare(a, b) > 0
    BY PrecedingIsOlder
<1>3. Precedes(a, b) => Compare(a, b) < 0
    BY PrecedingIsOlder
<1> QED
    BY <1>1, <1>2, <1>3 DEF IsNewer, IsSame

(* Which of two versions is handed over first makes no difference, leading *)
(* zeros or not.                                                           *)
LEMMA SignFlips == \A x, y \in Int : Sign(x, y) = -Sign(y, x)
BY DEF Sign

LEMMA CompareType == \A v, w \in Version : Compare(v, w) \in Int
<1>1. \A x, y : Sign(x, y) \in Int
    BY DEF Sign
<1>2. \A x, y : CompareIdentifiers(x, y) \in Int
    BY <1>1 DEF CompareIdentifiers
<1> QED
    BY <1>1, <1>2 DEF Compare, ComparePrerelease

LEMMA CompareFlips ==
    ASSUME NEW a \in Version, NEW b \in Version
    PROVE  Compare(a, b) = -Compare(b, a)
<1>1. PICK c : c = FirstDifference(a.core, b.core)
    OBVIOUS
<1>2. c = FirstDifference(b.core, a.core)
    <2>1. Len(a.core) \in Nat /\ Len(b.core) \in Nat
        BY CoreIs
    <2> QED
        BY <1>1, <2>1, FirstDifferenceSymmetric
<1>3. CASE c # 0
    <2>1. a.core[c] \in Int /\ b.core[c] \in Int
        <3>1. c \in 1 .. 3 \/ c = 0
            BY <1>1, CoreDifference
        <3>2. \A j \in 1 .. 3 : a.core[j] \in Nat /\ b.core[j] \in Nat
            BY CoreIs
        <3> QED
            BY <1>3, <3>1, <3>2
    <2>2. Sign(a.core[c], b.core[c]) = -Sign(b.core[c], a.core[c])
        BY <2>1, SignFlips
    <2> QED
        BY <1>1, <1>2, <1>3, <2>2 DEF Compare
<1>4. CASE c = 0
    <2> DEFINE l == a.pre
               r == b.pre
    <2>1. l \in Seq(Identifier) /\ r \in Seq(Identifier)
        BY CoreIs
    <2>2. Len(l) \in Nat /\ Len(r) \in Nat
        BY <2>1
    <2>3. Sign(Len(l), Len(r)) = -Sign(Len(r), Len(l))
        BY <2>2, SignFlips
    <2>4. PICK i : i = FirstDifference(l, r)
        OBVIOUS
    <2>5. i = FirstDifference(r, l)
        BY <2>2, <2>4, FirstDifferenceSymmetric
    <2>6. i # 0 => CompareIdentifiers(l[i], r[i]) = -CompareIdentifiers(r[i], l[i])
        <3> SUFFICES ASSUME i # 0
                     PROVE  CompareIdentifiers(l[i], r[i]) = -CompareIdentifiers(r[i], l[i])
            OBVIOUS
        <3>1. i \in 1 .. Shorter(l, r)
            BY <2>2, <2>4, FirstDifferenceIs, Zenon
        <3>2. i \in 1 .. Len(l) /\ i \in 1 .. Len(r)
            BY <2>2, <3>1 DEF Shorter
        <3>3. l[i] \in Identifier /\ r[i] \in Identifier
            BY <2>1, <3>2
        <3>4. /\ l[i].value \in Int /\ r[i].value \in Int
              /\ l[i].numeric \in BOOLEAN /\ r[i].numeric \in BOOLEAN
            BY <3>3 DEF Identifier
        <3>5. Sign(l[i].value, r[i].value) = -Sign(r[i].value, l[i].value)
            BY <3>4, SignFlips
        <3>6. CASE l[i].numeric = r[i].numeric
            BY <3>5, <3>6 DEF CompareIdentifiers
        <3>7. CASE l[i].numeric # r[i].numeric
            BY <3>4, <3>7 DEF CompareIdentifiers
        <3> QED
            BY <3>6, <3>7
    <2>7. ComparePrerelease(l, r) = -ComparePrerelease(r, l)
        BY <2>3, <2>4, <2>5, <2>6, SignFlips, <2>2 DEF ComparePrerelease
    <2> QED
        BY <1>1, <1>2, <1>4, <2>7 DEF Compare
<1> QED
    BY <1>3, <1>4

(* No two versions without leading zeros are taken for the same. *)
LEMMA SameIsOne ==
    ASSUME NEW a \in Version, NEW b \in Version, Canonical(a), Canonical(b), IsSame(a, b)
    PROVE  a = b
<1>0. Compare(a, b) = 0
    BY DEF IsSame
<1>1. PICK c : c = FirstDifference(a.core, b.core)
    OBVIOUS
<1>2. c = 0 /\ a.core = b.core
    <2>1. CASE c # 0
        <3>1. a.core[c] \in Nat /\ b.core[c] \in Nat /\ a.core[c] # b.core[c]
            <4>1. c = 0 \/ (c \in 1 .. 3 /\ a.core[c] # b.core[c])
                BY <1>1, CoreDifference
            <4>2. \A j \in 1 .. 3 : a.core[j] \in Nat /\ b.core[j] \in Nat
                BY CoreIs
            <4> QED
                BY <2>1, <4>1, <4>2
        <3>2. Sign(a.core[c], b.core[c]) # 0
            BY <3>1 DEF Sign
        <3> QED
            BY <1>0, <1>1, <2>1, <3>2 DEF Compare
    <2> QED
        BY <1>1, <2>1, CoreDifference
<1> DEFINE l == a.pre
           r == b.pre
<1>3. ComparePrerelease(l, r) = 0
    BY <1>0, <1>1, <1>2 DEF Compare
<1>4. /\ l \in Seq(Identifier) /\ r \in Seq(Identifier)
      /\ \A j \in 1 .. Len(l) : l[j].text = 0
      /\ \A j \in 1 .. Len(r) : r[j].text = 0
    BY CoreIs DEF Canonical
<1>5. Len(l) \in Nat /\ Len(r) \in Nat
    BY <1>4
<1>6. PICK i : i = FirstDifference(l, r)
    OBVIOUS
<1> HIDE DEF l, r
<1>7. \/ i = 0 /\ \A j \in 1 .. Shorter(l, r) : l[j] = r[j]
      \/ i \in 1 .. Shorter(l, r) /\ l[i] # r[i] /\ \A j \in 1 .. (i - 1) : l[j] = r[j]
    BY <1>5, <1>6, FirstDifferenceIs
<1>8. l = r
    <2>1. CASE l = <<>> \/ r = <<>>
        <3>1. Sign(Len(r), Len(l)) = 0
            BY <1>3, <2>1 DEF ComparePrerelease
        <3>2. Len(r) = Len(l)
            BY <1>5, <3>1 DEF Sign
        <3> QED
            BY <1>4, <2>1, <3>2
    <2>2. CASE l # <<>> /\ r # <<>> /\ i = 0
        <3>1. Sign(Len(l), Len(r)) = 0
            BY <1>3, <1>6, <2>2 DEF ComparePrerelease
        <3>2. Len(l) = Len(r)
            BY <1>5, <3>1 DEF Sign
        <3>3. \A j \in 1 .. Len(l) : l[j] = r[j]
            <4>1. Shorter(l, r) = Len(l)
                BY <1>5, <3>2 DEF Shorter
            <4>2. i \notin 1 .. Shorter(l, r)
                BY <1>5, <2>2 DEF Shorter
            <4> QED
                BY <1>7, <4>1, <4>2
        <3> QED
            BY <1>4, <3>2, <3>3
    <2>3. CASE l # <<>> /\ r # <<>> /\ i # 0
        <3>1. CompareIdentifiers(l[i], r[i]) = 0
            BY <1>3, <1>6, <2>3 DEF ComparePrerelease
        <3>2. i \in 1 .. Len(l) /\ i \in 1 .. Len(r) /\ l[i] # r[i]
            BY <1>5, <1>7, <2>3 DEF Shorter
        <3>3. l[i] \in Identifier /\ r[i] \in Identifier /\ l[i].text = 0 /\ r[i].text = 0
            BY <1>4, <3>2
        <3>4. SameIdentifier(l[i], r[i])
            BY <3>1, <3>3 DEF CompareIdentifiers, SameIdentifier, Sign, Identifier
        <3> QED
            BY <3>2, <3>3, <3>4, SameIsEqual
    <2> QED
        BY <2>1, <2>2, <2>3
<1> QED
    BY <1>2, <1>8 DEF l, r, Version

LEMMA IdentifiersChain ==
    ASSUME NEW x \in Identifier, NEW y \in Identifier, NEW z \in Identifier
    PROVE  /\ IdentifierPrecedes(x, y) /\ IdentifierPrecedes(y, z) => IdentifierPrecedes(x, z)
           /\ IdentifierPrecedes(x, y) /\ SameIdentifier(y, z) => IdentifierPrecedes(x, z)
           /\ SameIdentifier(x, y) /\ IdentifierPrecedes(y, z) => IdentifierPrecedes(x, z)
           /\ SameIdentifier(x, y) /\ SameIdentifier(y, z) => SameIdentifier(x, z)
BY DEF Identifier, IdentifierPrecedes, SameIdentifier

(* Where the third version first differs from the first is where the       *)
(* earlier of the two differences was.                                      *)
LEMMA PrereleasesChain ==
    ASSUME NEW p \in Seq(Identifier), NEW q \in Seq(Identifier), NEW r \in Seq(Identifier),
           PrereleasePrecedes(p, q), PrereleasePrecedes(q, r)
    PROVE  PrereleasePrecedes(p, r)
<1>1. Len(p) \in Nat /\ Len(q) \in Nat /\ Len(r) \in Nat
    OBVIOUS
<1>2. /\ \A j \in 1 .. Len(p) : p[j] \in Identifier
      /\ \A j \in 1 .. Len(q) : q[j] \in Identifier
      /\ \A j \in 1 .. Len(r) : r[j] \in Identifier
    OBVIOUS
<1>3. p # <<>>
    BY <1>1 DEF PrereleasePrecedes
<1>4. CASE r = <<>>
    BY <1>3, <1>4 DEF PrereleasePrecedes
<1>5. CASE r # <<>>
    <2>1. PICK n \in 0 .. Len(q) :
              /\ n < Len(r)
              /\ \A j \in 1 .. n : SameIdentifier(q[j], r[j])
              /\ IF n < Len(q) THEN IdentifierPrecedes(q[n + 1], r[n + 1]) ELSE q # <<>>
        BY <1>5 DEF PrereleasePrecedes
    <2>2. q # <<>>
        BY <1>1, <2>1
    <2>3. PICK m \in 0 .. Len(p) :
              /\ m < Len(q)
              /\ \A j \in 1 .. m : SameIdentifier(p[j], q[j])
              /\ IF m < Len(p) THEN IdentifierPrecedes(p[m + 1], q[m + 1]) ELSE p # <<>>
        BY <2>2 DEF PrereleasePrecedes
    <2>4. \A k \in 0 .. Len(p) :
              (k <= m /\ k <= n) => \A j \in 1 .. k : SameIdentifier(p[j], r[j])
        <3> SUFFICES ASSUME NEW k \in 0 .. Len(p), k <= m, k <= n, NEW j \in 1 .. k
                     PROVE  SameIdentifier(p[j], r[j])
            OBVIOUS
        <3>1. j \in 1 .. m /\ j \in 1 .. n
            BY <1>1, <2>1, <2>3
        <3>2. j \in 1 .. Len(p) /\ j \in 1 .. Len(q) /\ j \in 1 .. Len(r)
            BY <1>1, <2>1, <2>3, <3>1
        <3> QED
            BY <1>2, <2>1, <2>3, <3>1, <3>2, IdentifiersChain
    <2>5. CASE m < n
        <3>1. m \in 0 .. Len(p) /\ m < Len(r) /\ \A j \in 1 .. m : SameIdentifier(p[j], r[j])
            BY <1>1, <2>1, <2>3, <2>4, <2>5
        <3>2. m < Len(p) => IdentifierPrecedes(p[m + 1], r[m + 1])
            <4> SUFFICES ASSUME m < Len(p) PROVE IdentifierPrecedes(p[m + 1], r[m + 1])
                OBVIOUS
            <4>1. /\ m + 1 \in 1 .. Len(p) /\ m + 1 \in 1 .. Len(q)
                  /\ m + 1 \in 1 .. Len(r) /\ m + 1 \in 1 .. n
                BY <1>1, <2>1, <2>3, <2>5
            <4> QED
                BY <1>2, <2>1, <2>3, <4>1, IdentifiersChain
        <3> QED
            BY <1>3, <3>1, <3>2 DEF PrereleasePrecedes
    <2>6. CASE n <= m
        <3>1. n \in 0 .. Len(p) /\ n < Len(r) /\ \A j \in 1 .. n : SameIdentifier(p[j], r[j])
            BY <1>1, <2>1, <2>3, <2>4, <2>6
        <3>2. n < Len(p) => IdentifierPrecedes(p[n + 1], r[n + 1])
            <4> SUFFICES ASSUME n < Len(p) PROVE IdentifierPrecedes(p[n + 1], r[n + 1])
                OBVIOUS
            <4>1. /\ n + 1 \in 1 .. Len(p) /\ n + 1 \in 1 .. Len(q) /\ n + 1 \in 1 .. Len(r)
                  /\ n < Len(q)
                BY <1>1, <2>1, <2>3, <2>6
            <4>2. IdentifierPrecedes(q[n + 1], r[n + 1])
                BY <2>1, <4>1
            <4>3. CASE n < m
                <5>1. SameIdentifier(p[n + 1], q[n + 1])
                    <6>1. n + 1 \in 1 .. m
                        BY <2>1, <2>3, <4>3
                    <6> QED
                        BY <2>3, <6>1
                <5> QED
                    BY <1>2, <4>1, <4>2, <5>1, IdentifiersChain
            <4>4. CASE n = m
                <5>1. IdentifierPrecedes(p[n + 1], q[n + 1])
                    BY <2>3, <4>4
                <5> QED
                    BY <1>2, <4>1, <4>2, <5>1, IdentifiersChain
            <4> QED
                BY <2>1, <2>3, <2>6, <4>3, <4>4
        <3> QED
            BY <1>3, <3>1, <3>2 DEF PrereleasePrecedes
    <2> QED
        BY <2>1, <2>3, <2>5, <2>6
<1> QED
    BY <1>4, <1>5

LEMMA PrecedesChain ==
    ASSUME NEW a \in Version, NEW b \in Version, NEW c \in Version,
           Precedes(a, b), Precedes(b, c)
    PROVE  Precedes(a, c)
<1>1. \A j \in 1 .. 3 : a.core[j] \in Nat /\ b.core[j] \in Nat /\ c.core[j] \in Nat
    BY CoreIs
<1>2. a.pre \in Seq(Identifier) /\ b.pre \in Seq(Identifier) /\ c.pre \in Seq(Identifier)
    BY CoreIs
<1>3. ASSUME NEW i \in 1 .. 3, a.core[i] < b.core[i], \A j \in 1 .. (i - 1) : a.core[j] = b.core[j]
      PROVE  Precedes(a, c)
    <2>1. ASSUME NEW k \in 1 .. 3, b.core[k] < c.core[k],
                 \A j \in 1 .. (k - 1) : b.core[j] = c.core[j]
          PROVE  Precedes(a, c)
        <3>1. CASE i < k
            <4>1. a.core[i] < c.core[i] /\ \A j \in 1 .. (i - 1) : a.core[j] = c.core[j]
                BY <1>1, <1>3, <2>1, <3>1
            <4> QED
                BY <4>1 DEF Precedes
        <3>2. CASE k <= i
            <4>1. a.core[k] < c.core[k] /\ \A j \in 1 .. (k - 1) : a.core[j] = c.core[j]
                BY <1>1, <1>3, <2>1, <3>2
            <4> QED
                BY <4>1 DEF Precedes
        <3> QED
            BY <3>1, <3>2
    <2>2. CASE b.core = c.core
        BY <1>3, <2>2 DEF Precedes
    <2> QED
        BY <2>1, <2>2 DEF Precedes
<1>4. CASE a.core = b.core /\ PrereleasePrecedes(a.pre, b.pre)
    <2>1. CASE b.core = c.core /\ PrereleasePrecedes(b.pre, c.pre)
        BY <1>2, <1>4, <2>1, PrereleasesChain DEF Precedes
    <2>2. ASSUME NEW k \in 1 .. 3, b.core[k] < c.core[k],
                 \A j \in 1 .. (k - 1) : b.core[j] = c.core[j]
          PROVE  Precedes(a, c)
        BY <1>4, <2>2 DEF Precedes
    <2> QED
        BY <2>1, <2>2 DEF Precedes
<1> QED
    BY <1>3, <1>4 DEF Precedes

(* The client's order is a total one on versions without leading zeros: two *)
(* of them are one or one is newer, and newer than newer is newer.  Whoever *)
(* follows the notices of `version` and `upgrade` never goes in a circle.   *)
THEOREM OrderIsTotal ==
    \A a, b, c \in Version :
        Canonical(a) /\ Canonical(b) /\ Canonical(c)
            => /\ IsNewer(a, b) \/ a = b \/ IsNewer(b, a)
               /\ IsNewer(a, b) => a # b /\ ~IsNewer(b, a)
               /\ IsSame(a, b) <=> a = b
               /\ IsNewer(a, b) /\ IsNewer(b, c) => IsNewer(a, c)
<1> SUFFICES ASSUME NEW a \in Version, NEW b \in Version, NEW c \in Version,
                    Canonical(a), Canonical(b), Canonical(c)
             PROVE  /\ IsNewer(a, b) \/ a = b \/ IsNewer(b, a)
                    /\ IsNewer(a, b) => a # b /\ ~IsNewer(b, a)
                    /\ IsSame(a, b) <=> a = b
                    /\ IsNewer(a, b) /\ IsNewer(b, c) => IsNewer(a, c)
    OBVIOUS
<1>1. Compare(a, b) \in Int /\ Compare(b, a) \in Int /\ Compare(a, a) \in Int
    BY CompareType
<1>2. Compare(a, b) = -Compare(b, a) /\ Compare(a, a) = 0
    <2>1. Compare(a, a) = -Compare(a, a)
        BY CompareFlips
    <2> QED
        BY <1>1, <2>1, CompareFlips
<1>3. IsSame(a, b) <=> a = b
    BY <1>2, SameIsOne DEF IsSame
<1>4. IsNewer(a, b) /\ IsNewer(b, c) => IsNewer(a, c)
    BY OrderIsSemVer, PrecedesChain
<1> QED
    BY <1>1, <1>2, <1>3, <1>4 DEF IsNewer, IsSame

-----------------------------------------------------------------------------
(* The invariant *)

Past   == {"verify", "copying", "copied", "finish", "restore"}
Chosen == {"check", "ask", "download", "aside"} \cup Past

(* A process keeps the file it was started from, under its name or aside,   *)
(* and on Windows the one that is being replaced is aside.                  *)
Running(u) ==
    /\ pc[u] \in {"idle", "over"} => image[u] = "gone"
    /\ windows /\ pc[u] \notin {"idle", "over"} => image[u] # "gone"
    /\ image[u] = "live" => files[exe[u]] = current[u]
    /\ image[u] = "aside" => windows /\ aside[exe[u]] = current[u]
    /\ windows /\ pc[u] \in Past => image[u] = "aside"

(* Two commands do not replace the same binary at a time. *)
Alone ==
    windows => \A u, w \in Upgraders :
                  pc[u] \in Past /\ pc[w] \in Past /\ exe[u] = exe[w] => u = w

(* A file that is open for writing is not whole. *)
Opened == writing # Nobody => files[Std] = Broken /\ pc[writing] = "copying"

(* From the lookup on the target is what was asked for. *)
Selected(u) ==
    /\ pc[u] = "over" <=> outcome[u] # "none"
    /\ pc[u] \in {"idle", "lookup"} => target[u] = NoVersion
    /\ pc[u] \in Chosen =>
          /\ current[u] \in Releases /\ target[u] \in Releases
          /\ IF named[u] = NoVersion THEN IsNewer(target[u], current[u])
                                     ELSE target[u] = named[u]

(* What another command may have made of the file since. *)
Superseded(u) ==
    \E w \in Upgraders \ {u} :
        target[w] # NoVersion /\ files[Std] \in {target[w], current[w], Broken, Absent}

Delivered(u) ==
    /\ pc[u] = "copying" => writing = u \/ Superseded(u)
    /\ pc[u] \in {"copied", "finish"} => files[Std] = target[u] \/ Superseded(u)

Control ==
    /\ Alone /\ Opened
    /\ \A u \in Upgraders : Running(u) /\ Selected(u) /\ Delivered(u)

Inv == TypeOK /\ Control /\ NoticesTrue

LEMMA Distinct ==
    /\ Absent # Broken /\ Absent \notin Binaries /\ Broken \notin Binaries /\ Link \notin Binaries
    /\ NoVersion \notin Releases /\ Malformed \notin Releases
    /\ Releases \subseteq Version
    /\ NoVersion # Malformed /\ Dev \notin Releases
    /\ Nobody \notin Upgraders
BY ReleasesAssumption, UpgradersAssumption DEF Binaries

LEMMA InvInit == Init => Inv
<1> SUFFICES ASSUME Init PROVE Inv
    OBVIOUS
<1> USE DEF Init
<1>1. TypeOK
    BY DEF TypeOK, Labels, Outcomes, Names, Binaries, Std
<1>2. Control
    BY DEF Control, Alone, Opened, Running, Selected, Delivered, Past, Chosen
<1>3. NoticesTrue
    BY DEF NoticesTrue
<1> QED
    BY <1>1, <1>2, <1>3 DEF Inv

(* The steps that leave the directory alone. *)
Quiet(u) ==
    \/ Lookup(u) \/ VersionCommand(u) \/ Check(u) \/ Confirm(u) \/ Download(u)
    \/ StayInPlace(u) \/ InstallerFails(u) \/ RunInstalled(u)

LEMMA Steps ==
    ASSUME NEW u \in Upgraders, Step(u)
    PROVE  \/ Quiet(u) \/ MoveAside(u) \/ BeginCopy(u) \/ CopyEnds(u) \/ Restore(u) \/ Finish(u)
BY DEF Step, Quiet

(* Whether a quiet step ends its command or not, it does little. *)
LEMMA QuietStep ==
    ASSUME NEW u \in Upgraders, Quiet(u)
    PROVE  /\ UNCHANGED <<windows, files, aside, writing, published, latest, named, exe, current>>
           /\ \/ /\ pc[u] \notin {"idle", "over"}
                 /\ \E how \in Outcomes \ {"none"} : Ends(u, how)
                 /\ target' = target \/ pc[u] = "lookup"
              \/ /\ \E label \in Labels : Proceeds(u, label)
                 /\ target' = target \/ pc[u] = "lookup"
BY DEF Quiet, Lookup, VersionCommand, Check, Confirm, Download, StayInPlace, InstallerFails,
       RunInstalled, dirVars, releaseVars, flagVars, Outcomes, Labels

LEMMA FoundType ==
    ASSUME TypeOK, NEW u \in Upgraders
    PROVE  Found(u) \in Releases \cup {NoVersion}
BY DEF TypeOK, Found

LEMMA TypeStep == ASSUME Inv, [Next]_vars PROVE TypeOK'
<1> USE DEF Inv, TypeOK
<1>1. ASSUME NEW u \in Upgraders, NEW n \in Names,
             NEW v \in Releases \cup {NoVersion, Malformed}, Start(u, n, v)
      PROVE  TypeOK'
    <2>1. exe' \in [Upgraders -> Names] /\ current' \in [Upgraders -> Binaries]
        BY <1>1 DEF Start, Works, Names
    <2> QED
        BY <1>1, <2>1 DEF Start, Goes, Labels, dirVars, releaseVars
<1>2. ASSUME NEW u \in Upgraders, Quiet(u)
      PROVE  TypeOK'
    <2>1. target' \in [Upgraders -> Releases \cup {NoVersion}]
        BY <1>2, FoundType DEF Quiet, Lookup, VersionCommand, Check, Confirm, Download,
                               StayInPlace, InstallerFails, RunInstalled
    <2>2. /\ pc' \in [Upgraders -> Labels] /\ outcome' \in [Upgraders -> Outcomes]
          /\ image' \in [Upgraders -> {"live", "aside", "gone"}]
        BY <1>2, QuietStep DEF Ends, Proceeds, Goes, Labels
    <2> QED
        BY <1>2, <2>1, <2>2, QuietStep
<1>3. ASSUME NEW u \in Upgraders, MoveAside(u)
      PROVE  TypeOK'
    <2>1. ~Held(exe[u], "aside") => files[exe[u]] \in Binaries
        BY <1>3 DEF MoveAside, Held, Control, Running
    <2> QED
        BY <1>3, <2>1 DEF MoveAside, ImagesMove, Ends, Goes, Labels, Outcomes, Content,
                          releaseVars, flagVars
<1>4. ASSUME NEW u \in Upgraders, BeginCopy(u)
      PROVE  TypeOK'
    BY <1>4 DEF BeginCopy, ImagesMove, Goes, Labels, Content, releaseVars, flagVars
<1>5. ASSUME NEW u \in Upgraders, CopyEnds(u)
      PROVE  TypeOK'
    <2>1. pc[u] = "copying" /\ target[u] \in Releases
        BY <1>5 DEF CopyEnds, CopyOf, Control, Selected, Chosen, Past
    <2> QED
        BY <1>5, <2>1 DEF CopyEnds, CopyOf, Proceeds, Goes, Labels, Content, Binaries,
                          releaseVars, flagVars
<1>6. ASSUME NEW u \in Upgraders, Restore(u)
      PROVE  TypeOK'
    <2>1. exe[u] \in Names
        OBVIOUS
    <2>2. files' \in [Names -> Content]
        BY <1>6, <2>1 DEF Restore, Content
    <2>3. aside' \in [Names -> Binaries \cup {Absent}]
        BY <1>6 DEF Restore
    <2>4. image' \in [Upgraders -> {"live", "aside", "gone"}]
        BY <1>6 DEF Restore, ImagesMove, Ends
    <2>5. pc' \in [Upgraders -> Labels] /\ outcome' \in [Upgraders -> Outcomes]
        BY <1>6 DEF Restore, Ends, Goes, Labels, Outcomes
    <2> QED
        BY <1>6, <2>2, <2>3, <2>4, <2>5 DEF Restore, releaseVars, flagVars
<1>7. ASSUME NEW u \in Upgraders, Finish(u) \/ Interrupt(u)
      PROVE  TypeOK'
    BY <1>7 DEF Finish, Interrupt, Ends, Goes, Labels, Outcomes, releaseVars, flagVars
<1>8. ASSUME NEW v \in Releases, Publish(v)
      PROVE  TypeOK'
    BY <1>8 DEF Publish, dirVars, flagVars
<1>9. CASE UNCHANGED vars
    BY <1>9 DEF vars, dirVars, releaseVars, flagVars
<1> QED
    BY <1>1, <1>2, <1>3, <1>4, <1>5, <1>6, <1>7, <1>8, <1>9, Steps DEF Next

(* A witness that a file was superseded stays one. *)
LEMMA SupersededStays ==
    ASSUME Inv, NEW w \in Upgraders, Superseded(w), files'[Std] = files[Std],
           \A v \in Upgraders : target[v] # NoVersion => target'[v] = target[v],
           \A v \in Upgraders : target[v] # NoVersion => current'[v] = current[v]
    PROVE  Superseded(w)'
<1>1. PICK v \in Upgraders \ {w} :
          target[v] # NoVersion /\ files[Std] \in {target[v], current[v], Broken, Absent}
    BY DEF Superseded
<1>2. target'[v] # NoVersion /\ files'[Std] \in {target'[v], current'[v], Broken, Absent}
    BY <1>1
<1> QED
    BY <1>1, <1>2 DEF Superseded

(* A command that ends releases its file and what its installer has open.   *)
LEMMA EndsStep ==
    ASSUME Inv, NEW u \in Upgraders, pc[u] \notin {"idle", "over"},
           NEW how \in Outcomes \ {"none"}, Ends(u, how),
           UNCHANGED <<windows, files, aside, named, exe, current>>,
           writing' = IF writing = u THEN Nobody ELSE writing,
           target' = target \/ (pc[u] = "lookup" /\ \E v : target' = [target EXCEPT ![u] = v])
    PROVE  Control'
<1> USE DEF Inv, TypeOK, Control, Ends, Goes
<1>1. Alone'
    BY DEF Alone, Past
<1>2. Opened'
    BY Distinct DEF Opened
<1>3. \A v \in Upgraders : target[v] # NoVersion => target'[v] = target[v]
    BY DEF Selected
<1>4. ASSUME NEW w \in Upgraders PROVE Running(w)' /\ Selected(w)'
    <2>1. CASE w = u
        BY <2>1 DEF Running, Selected, Chosen, Past
    <2>2. CASE w # u
        BY <2>2 DEF Running, Selected, Chosen, Past
    <2> QED
        BY <2>1, <2>2
<1>5. ASSUME NEW w \in Upgraders PROVE Delivered(w)'
    <2>1. CASE w = u
        BY <2>1 DEF Delivered
    <2>2. CASE w # u
        <3>1. Superseded(w) => Superseded(w)'
            BY <1>3, SupersededStays
        <3>2. target'[w] = target[w] /\ pc'[w] = pc[w]
            BY <2>2
        <3>3. writing = w => writing' = w
            BY <2>2
        <3> QED
            BY <3>1, <3>2, <3>3 DEF Delivered
    <2> QED
        BY <2>1, <2>2
<1> QED
    BY <1>1, <1>2, <1>4, <1>5

(* One that goes on within the rules keeps what it has. *)
LEMMA ProceedsStep ==
    ASSUME Inv, NEW u \in Upgraders, NEW label \in Labels \ {"idle", "over", "copying"},
           pc[u] \notin {"idle", "over", "copying"}, Proceeds(u, label),
           UNCHANGED <<windows, files, aside, writing, named, exe, current>>,
           windows /\ label \in Past => pc[u] \in Past,
           target' = target \/ (pc[u] = "lookup" /\ \E v : target' = [target EXCEPT ![u] = v]),
           label \in {"copied", "finish"} => pc[u] = "copied",
           Selected(u)'
    PROVE  Control'
<1> USE DEF Inv, TypeOK, Control, Proceeds, Goes
<1>1. Alone'
    BY DEF Alone
<1>2. Opened'
    BY DEF Opened
<1>3. \A v \in Upgraders : target[v] # NoVersion => target'[v] = target[v]
    BY DEF Selected
<1>4. ASSUME NEW w \in Upgraders PROVE Running(w)' /\ Selected(w)'
    <2>1. CASE w = u
        BY <2>1 DEF Running
    <2>2. CASE w # u
        BY <2>2 DEF Running, Selected
    <2> QED
        BY <2>1, <2>2
<1>5. ASSUME NEW w \in Upgraders PROVE Delivered(w)'
    <2>1. Superseded(w) => Superseded(w)'
        BY <1>3, SupersededStays
    <2>2. pc[w] # "lookup" => target'[w] = target[w]
        OBVIOUS
    <2>3. CASE w = u
        BY <2>1, <2>2, <2>3 DEF Delivered, Labels
    <2>4. CASE w # u
        BY <2>1, <2>2, <2>4 DEF Delivered
    <2> QED
        BY <2>3, <2>4
<1> QED
    BY <1>1, <1>2, <1>4, <1>5

LEMMA LookupStep ==
    ASSUME Inv, NEW u \in Upgraders, Lookup(u) \/ VersionCommand(u)
    PROVE  Control'
<1> USE DEF Inv, TypeOK
<1>1. /\ pc[u] = "lookup" /\ writing # u
      /\ UNCHANGED <<windows, files, aside, writing, named, exe, current>>
    BY Distinct DEF Lookup, VersionCommand, dirVars, flagVars, Control, Opened
<1>2. target' = target \/ \E v : target' = [target EXCEPT ![u] = v]
    BY DEF Lookup, VersionCommand
<1>3. CASE \E how \in Outcomes \ {"none"} : Ends(u, how)
    BY <1>1, <1>2, <1>3, EndsStep
<1>4. CASE ~(\E how \in Outcomes \ {"none"} : Ends(u, how))
    <2>1. /\ Found(u) # NoVersion /\ ~Installed(u, Found(u)) /\ current[u] # Dev
          /\ target' = [target EXCEPT ![u] = Found(u)] /\ Proceeds(u, "check")
        BY <1>4 DEF Lookup, VersionCommand, Outcomes
    <2>2. Found(u) \in Releases /\ current[u] \in Releases
        BY <2>1, FoundType DEF Binaries
    <2>3. IF named[u] = NoVersion THEN IsNewer(Found(u), current[u]) ELSE Found(u) = named[u]
        BY <2>1 DEF Installed, Found
    <2>4. Selected(u)'
        BY <1>1, <2>1, <2>2, <2>3 DEF Selected, Control, Proceeds, Goes, Chosen, Past
    <2> QED
        BY <1>1, <1>2, <2>1, <2>4, ProceedsStep DEF Labels, Past
<1> QED
    BY <1>3, <1>4

LEMMA QuietKeeps ==
    ASSUME Inv, NEW u \in Upgraders, Quiet(u)
    PROVE  Control'
<1> USE DEF Inv, TypeOK
<1>1. CASE Lookup(u) \/ VersionCommand(u)
    BY <1>1, LookupStep
<1>2. CASE Check(u) \/ Confirm(u) \/ Download(u) \/ StayInPlace(u) \/ InstallerFails(u)
           \/ RunInstalled(u)
    <2>1. /\ pc[u] \in Chosen \ {"copying"} /\ writing # u
          /\ UNCHANGED <<windows, files, aside, writing, named, exe, current, target>>
        BY <1>2, Distinct DEF Check, Confirm, Download, StayInPlace, InstallerFails, RunInstalled,
                              dirVars, flagVars, Control, Opened, Chosen, Past
    <2>2. CASE \E how \in Outcomes \ {"none"} : Ends(u, how)
        BY <2>1, <2>2, EndsStep DEF Chosen, Past
    <2>3. CASE ~(\E how \in Outcomes \ {"none"} : Ends(u, how))
        <3>1. PICK label \in Chosen \ {"copying"} :
                  /\ Proceeds(u, label)
                  /\ windows /\ label \in Past => pc[u] \in Past
                  /\ label \in {"copied", "finish"} => pc[u] = "copied"
            BY <1>2, <2>3 DEF Check, Confirm, Download, StayInPlace, InstallerFails, RunInstalled,
                              Outcomes, Chosen, Past
        <3>2. Selected(u)'
            BY <2>1, <3>1 DEF Selected, Control, Proceeds, Goes, Chosen, Past
        <3>3. label \in Labels \ {"idle", "over", "copying"}
            BY <3>1 DEF Labels, Chosen, Past
        <3>4. pc[u] \notin {"idle", "over", "copying"}
            BY <2>1 DEF Chosen, Past
        <3> QED
            BY <2>1, <3>1, <3>2, <3>3, <3>4, ProceedsStep
    <2> QED
        BY <2>2, <2>3
<1> QED
    BY <1>1, <1>2 DEF Quiet

LEMMA StartKeeps ==
    ASSUME Inv, NEW u \in Upgraders, NEW n \in Names,
           NEW v \in Releases \cup {NoVersion, Malformed}, Start(u, n, v)
    PROVE  Control'
<1> USE DEF Inv, TypeOK, Control, Goes
<1>1. PICK path \in Names :
          /\ pc[u] = "idle"
          /\ Works(files[path])
          /\ exe' = [exe EXCEPT ![u] = path]
          /\ current' = [current EXCEPT ![u] = files[path]]
          /\ named' = [named EXCEPT ![u] = v]
          /\ image' = [image EXCEPT ![u] = "live"]
          /\ pc' = [pc EXCEPT ![u] = "lookup"]
          /\ UNCHANGED <<windows, files, aside, writing, outcome, target>>
    BY DEF Start, Names, dirVars
<1>2. Alone'
    BY <1>1 DEF Alone, Past
<1>3. Opened'
    BY <1>1 DEF Opened
<1>4. \A w \in Upgraders : target[w] # NoVersion => current'[w] = current[w]
    BY <1>1 DEF Selected
<1>5. ASSUME NEW w \in Upgraders PROVE Running(w)' /\ Selected(w)'
    <2>1. CASE w = u
        BY <1>1, <2>1 DEF Running, Selected, Chosen, Past
    <2>2. CASE w # u
        BY <1>1, <2>2 DEF Running, Selected
    <2> QED
        BY <2>1, <2>2
<1>6. ASSUME NEW w \in Upgraders PROVE Delivered(w)'
    <2>1. Superseded(w) => Superseded(w)'
        BY <1>1, <1>4, SupersededStays
    <2>2. CASE w = u
        BY <1>1, <2>2 DEF Delivered
    <2>3. CASE w # u
        BY <1>1, <2>1, <2>3 DEF Delivered
    <2> QED
        BY <2>2, <2>3
<1> QED
    BY <1>2, <1>3, <1>5, <1>6

(* What one of them does to nvfleetint supersedes what the others did.      *)
LEMMA Supersedes ==
    ASSUME Inv, NEW u \in Upgraders, target[u] # NoVersion, UNCHANGED <<target, current>>,
           files'[Std] \in {files[Std], target[u], current[u], Broken, Absent},
           NEW w \in Upgraders \ {u}
    PROVE  /\ Superseded(w) => Superseded(w)'
           /\ files'[Std] = files[Std] \/ Superseded(w)'
<1>1. CASE files'[Std] = files[Std]
    BY <1>1, SupersededStays
<1>2. CASE files'[Std] # files[Std]
    BY <1>2 DEF Superseded
<1> QED
    BY <1>1, <1>2

LEMMA MoveAsideKeeps ==
    ASSUME Inv, NEW u \in Upgraders, MoveAside(u)
    PROVE  Control'
<1> USE DEF Inv, TypeOK, Control, Goes
<1>1. /\ pc[u] = "aside" /\ windows /\ image[u] # "gone" /\ target[u] \in Releases
      /\ UNCHANGED <<windows, writing, named, exe, current, target>>
    BY DEF MoveAside, releaseVars, flagVars, Running, Selected, Chosen
<1>2. CASE Held(exe[u], "aside")
    <2>1. Ends(u, "failed") /\ UNCHANGED <<files, aside>>
        BY <1>2 DEF MoveAside
    <2>2. writing # u
        BY <1>1, Distinct DEF Opened
    <2> QED
        BY <1>1, <2>1, <2>2, EndsStep DEF Outcomes
<1>3. CASE ~Held(exe[u], "aside")
    <2>1. /\ \A w \in Upgraders : exe[w] = exe[u] => image[w] # "aside"
          /\ image[u] = "live" /\ files[exe[u]] = current[u] /\ files[exe[u]] \in Binaries
        BY <1>1, <1>3 DEF Held, Running
    <2>2. \A w \in Upgraders : exe[w] = exe[u] => pc[w] \notin Past
        BY <1>1, <2>1 DEF Running
    <2>3. exe[u] = Std => writing = Nobody
        BY <2>1, Distinct DEF Opened
    <2>4. CASE Ends(u, "failed")
        <3>1. /\ pc' = [pc EXCEPT ![u] = "over"] /\ outcome' = [outcome EXCEPT ![u] = "failed"]
              /\ image' = [image EXCEPT ![u] = "gone"]
              /\ aside' = [aside EXCEPT ![exe[u]] = Absent] /\ files' = files
            BY <1>3, <2>1, <2>4, Distinct DEF MoveAside, Ends, Labels
        <3>2. Alone' /\ Opened'
            BY <1>1, <3>1, Distinct DEF Alone, Opened, Past
        <3>3. ASSUME NEW w \in Upgraders PROVE Running(w)' /\ Selected(w)'
            BY <1>1, <2>1, <3>1 DEF Running, Selected, Chosen, Past
        <3>4. ASSUME NEW w \in Upgraders PROVE Delivered(w)'
            <4>1. Superseded(w) => Superseded(w)'
                BY <1>1, <3>1, SupersededStays
            <4> QED
                BY <1>1, <3>1, <4>1 DEF Delivered
        <3> QED
            BY <3>2, <3>3, <3>4
    <2>5. CASE ~Ends(u, "failed")
        <3>1. /\ pc' = [pc EXCEPT ![u] = "verify"] /\ outcome' = outcome
              /\ image' = ImagesMove(exe[u], "live", "aside")
              /\ aside' = [aside EXCEPT ![exe[u]] = files[exe[u]]]
              /\ files' = [files EXCEPT ![exe[u]] = Absent]
            BY <2>5 DEF MoveAside
        <3>2. \A w \in Upgraders :
                  image'[w] = IF exe[w] = exe[u] /\ image[w] = "live" THEN "aside" ELSE image[w]
            BY <3>1 DEF ImagesMove
        <3>3. Alone'
            BY <1>1, <2>2, <3>1 DEF Alone, Past
        <3>4. Opened'
            BY <1>1, <2>3, <3>1, Distinct DEF Opened
        <3>5. ASSUME NEW w \in Upgraders PROVE Running(w)'
            <4>1. CASE exe[w] = exe[u]
                BY <1>1, <2>1, <3>1, <3>2, <4>1 DEF Running, Past
            <4>2. CASE exe[w] # exe[u]
                BY <1>1, <3>1, <3>2, <4>2 DEF Running
            <4> QED
                BY <4>1, <4>2
        <3>6. ASSUME NEW w \in Upgraders PROVE Selected(w)'
            BY <1>1, <3>1 DEF Selected, Chosen, Past
        <3>7. ASSUME NEW w \in Upgraders PROVE Delivered(w)'
            <4>1. CASE w = u
                BY <3>1, <4>1 DEF Delivered
            <4>2. CASE w # u
                <5>1. files'[Std] \in {files[Std], Absent}
                    BY <3>1 DEF Std, Names
                <5>2. /\ Superseded(w) => Superseded(w)'
                      /\ files'[Std] = files[Std] \/ Superseded(w)'
                    BY <1>1, <4>2, <5>1, Supersedes, Distinct
                <5> QED
                    BY <1>1, <3>1, <4>2, <5>2 DEF Delivered
            <4> QED
                BY <4>1, <4>2
        <3> QED
            BY <3>3, <3>4, <3>5, <3>6, <3>7
    <2> QED
        BY <2>4, <2>5
<1> QED
    BY <1>2, <1>3

LEMMA BeginCopyKeeps ==
    ASSUME Inv, NEW u \in Upgraders, BeginCopy(u)
    PROVE  Control'
<1> USE DEF Inv, TypeOK, Control, Goes
<1>1. /\ pc[u] = "verify" /\ ~Held(Std, "live") /\ target[u] \in Releases
      /\ files' = [files EXCEPT ![Std] = Broken] /\ writing' = u
      /\ image' = IF windows THEN image ELSE ImagesMove(Std, "live", "gone")
      /\ pc' = [pc EXCEPT ![u] = "copying"]
      /\ UNCHANGED <<windows, aside, named, exe, current, outcome, target>>
    BY DEF BeginCopy, releaseVars, flagVars, Selected, Chosen, Past
<1>2. Alone'
    BY <1>1 DEF Alone, Past
<1>3. Opened'
    BY <1>1 DEF Opened, Std, Names
<1>4. \A w \in Upgraders : image'[w] = "live" => image[w] = "live" /\ exe[w] # Std
    BY <1>1 DEF Held, ImagesMove
<1>5. \A w \in Upgraders : image'[w] = image[w] \/ (~windows /\ image[w] = "live" /\ image'[w] = "gone")
    <2>1. CASE windows
        <3>1. image' = image
            BY <1>1, <2>1, Zenon
        <3> QED
            BY <3>1
    <2>2. CASE ~windows
        <3>1. image' = ImagesMove(Std, "live", "gone")
            BY <1>1, <2>2, Zenon
        <3>2. \A w \in Upgraders :
                  image'[w] = IF exe[w] = Std /\ image[w] = "live" THEN "gone" ELSE image[w]
            BY <3>1 DEF ImagesMove
        <3> QED
            BY <2>2, <3>2
    <2> QED
        BY <2>1, <2>2
<1>6. ASSUME NEW w \in Upgraders PROVE Running(w)'
    <2>1. image'[w] = "live" => files'[exe'[w]] = current'[w]
        BY <1>1, <1>4 DEF Running
    <2>2. image'[w] = "aside" => windows' /\ aside'[exe'[w]] = current'[w]
        BY <1>1, <1>5 DEF Running
    <2>3. /\ pc'[w] \in {"idle", "over"} => image'[w] = "gone"
          /\ windows' /\ pc'[w] \notin {"idle", "over"} => image'[w] # "gone"
          /\ windows' /\ pc'[w] \in Past => image'[w] = "aside"
        <3>1. CASE w = u
            BY <1>1, <1>5, <3>1 DEF Running, Past
        <3>2. CASE w # u
            BY <1>1, <1>5, <3>2 DEF Running
        <3> QED
            BY <3>1, <3>2
    <2> QED
        BY <2>1, <2>2, <2>3 DEF Running
<1>7. ASSUME NEW w \in Upgraders PROVE Selected(w)'
    BY <1>1 DEF Selected, Chosen, Past
<1>8. ASSUME NEW w \in Upgraders PROVE Delivered(w)'
    <2>1. CASE w = u
        BY <1>1, <2>1 DEF Delivered
    <2>2. CASE w # u
        <3>1. files'[Std] = Broken
            BY <1>1 DEF Std, Names
        <3>2. Superseded(w)'
            BY <1>1, <2>2, <3>1, Distinct DEF Superseded
        <3> QED
            BY <3>2 DEF Delivered
    <2> QED
        BY <2>1, <2>2
<1> QED
    BY <1>2, <1>3, <1>6, <1>7, <1>8

LEMMA CopyEndsKeeps ==
    ASSUME Inv, NEW u \in Upgraders, CopyEnds(u)
    PROVE  Control'
<1> USE DEF Inv, TypeOK, Control, Proceeds, Goes
<1>1. PICK label \in {"copied", "restore"} :
          /\ pc[u] = "copying" /\ pc' = [pc EXCEPT ![u] = label]
          /\ files' = IF label = "copied" /\ writing = u
                      THEN [files EXCEPT ![Std] = target[u]] ELSE files
          /\ writing' = IF writing = u THEN Nobody ELSE writing
          /\ UNCHANGED <<windows, aside, named, exe, current, outcome, target, image>>
    BY DEF CopyEnds, CopyOf, releaseVars, flagVars
<1>2. target[u] \in Releases /\ target[u] # NoVersion
    BY <1>1, Distinct DEF Selected, Chosen, Past
<1>3. Alone'
    BY <1>1 DEF Alone, Past
<1>4. Opened'
    BY <1>1 DEF Opened
<1>5. \A w \in Upgraders : image[w] = "live" => files'[exe[w]] = files[exe[w]]
    <2>1. writing = u => \A w \in Upgraders : image[w] = "live" => exe[w] # Std
        BY Distinct DEF Opened, Running
    <2> QED
        BY <1>1, <2>1
<1>6. ASSUME NEW w \in Upgraders PROVE Running(w)'
    BY <1>1, <1>5 DEF Running, Past
<1>7. ASSUME NEW w \in Upgraders PROVE Selected(w)'
    BY <1>1 DEF Selected, Chosen, Past
<1>8. files'[Std] \in {files[Std], target[u]}
    BY <1>1 DEF Std, Names
<1>9. ASSUME NEW w \in Upgraders PROVE Delivered(w)'
    <2>1. CASE w = u
        <3>1. CASE writing = u
            BY <1>1, <2>1, <3>1 DEF Delivered, Std, Names
        <3>2. CASE writing # u
            <4>1. Superseded(u) /\ files' = files
                BY <1>1, <3>2 DEF Delivered
            <4>2. Superseded(u)'
                BY <1>1, <4>1, SupersededStays
            <4> QED
                BY <1>1, <2>1, <4>2 DEF Delivered
        <3> QED
            BY <3>1, <3>2
    <2>2. CASE w # u
        <3>1. /\ Superseded(w) => Superseded(w)'
              /\ files'[Std] = files[Std] \/ Superseded(w)'
            BY <1>1, <1>2, <1>8, <2>2, Supersedes
        <3> QED
            BY <1>1, <2>2, <3>1 DEF Delivered
    <2> QED
        BY <2>1, <2>2
<1> QED
    BY <1>3, <1>4, <1>6, <1>7, <1>9

LEMMA RestoreKeeps ==
    ASSUME Inv, NEW u \in Upgraders, Restore(u)
    PROVE  Control'
<1> USE DEF Inv, TypeOK, Control, Goes
<1> DEFINE n == exe[u]
<1>1. /\ pc[u] = "restore" /\ target[u] \in Releases /\ target[u] # NoVersion
      /\ UNCHANGED <<windows, writing, named, exe, current, target>>
      /\ writing # u /\ n \in Names
    BY Distinct DEF Restore, releaseVars, flagVars, Selected, Chosen, Past, Opened
<1>2. CASE files' = files /\ aside' = aside /\ \E how \in Outcomes \ {"none"} : Ends(u, how)
    BY <1>1, <1>2, EndsStep
<1>3. CASE /\ windows /\ ~Held(n, "live") /\ files[n] # Absent
           /\ Ends(u, "unrestored") /\ files' = [files EXCEPT ![n] = Absent] /\ aside' = aside
    <2>1. /\ pc' = [pc EXCEPT ![u] = "over"] /\ outcome' = [outcome EXCEPT ![u] = "unrestored"]
          /\ image' = [image EXCEPT ![u] = "gone"]
        BY <1>3 DEF Ends
    <2>2. /\ \A w \in Upgraders : exe[w] = n => image[w] # "live"
          /\ n = Std => writing = Nobody
        BY <1>3 DEF Held
    <2>3. Alone' /\ Opened'
        BY <1>1, <1>3, <2>1, <2>2, Distinct DEF Alone, Opened, Past
    <2>4. ASSUME NEW w \in Upgraders PROVE Running(w)' /\ Selected(w)'
        <3>1. CASE w = u
            BY <1>1, <2>1, <3>1 DEF Running, Selected, Past, Chosen
        <3>2. CASE w # u
            BY <1>1, <1>3, <2>1, <2>2, <3>2 DEF Running, Selected
        <3> QED
            BY <3>1, <3>2
    <2>5. ASSUME NEW w \in Upgraders PROVE Delivered(w)'
        <3>1. CASE w = u
            BY <2>1, <3>1 DEF Delivered
        <3>2. CASE w # u
            <4>1. files'[Std] \in {files[Std], Absent}
                BY <1>3 DEF Std, Names
            <4>2. /\ Superseded(w) => Superseded(w)'
                  /\ files'[Std] = files[Std] \/ Superseded(w)'
                BY <1>1, <3>2, <4>1, Supersedes
            <4> QED
                BY <1>1, <2>1, <3>2, <4>2 DEF Delivered
        <3> QED
            BY <3>1, <3>2
    <2> QED
        BY <2>3, <2>4, <2>5
<1>4. CASE /\ windows /\ ~(files[n] # Absent /\ Held(n, "live"))
           /\ files' = [files EXCEPT ![n] = aside[n]] /\ aside' = [aside EXCEPT ![n] = Absent]
           /\ outcome' = [outcome EXCEPT ![u] = "failed"] /\ pc' = [pc EXCEPT ![u] = "over"]
           /\ image' = [ImagesMove(n, "aside", "live") EXCEPT ![u] = "gone"]
    <2>1. image[u] = "aside" /\ aside[n] = current[u]
        BY <1>1, <1>4 DEF Running, Past
    <2>2. \A w \in Upgraders : exe[w] = n => image[w] # "live"
        BY <1>4, Distinct DEF Held, Running
    <2>3. n = Std => writing = Nobody
        BY <1>4, Distinct DEF Held, Opened
    <2>4. \A w \in Upgraders \ {u} :
              image'[w] = IF exe[w] = n /\ image[w] = "aside" THEN "live" ELSE image[w]
        BY <1>4 DEF ImagesMove
    <2>5. image'[u] = "gone"
        BY <1>4 DEF ImagesMove
    <2>6. \A w \in Upgraders \ {u} : exe[w] = n => pc[w] \notin Past
        BY <1>1, <1>4 DEF Alone, Past
    <2>7. Alone'
        BY <1>1, <1>4 DEF Alone, Past
    <2>8. Opened'
        BY <1>1, <1>4, <2>3, Distinct DEF Opened
    <2>9. ASSUME NEW w \in Upgraders PROVE Running(w)' /\ Selected(w)'
        <3>1. CASE w = u
            BY <1>1, <1>4, <2>5, <3>1 DEF Running, Selected, Past, Chosen
        <3>2. CASE w # u /\ exe[w] = n
            BY <1>1, <1>4, <2>2, <2>4, <2>6, <3>2 DEF Running, Selected
        <3>3. CASE w # u /\ exe[w] # n
            BY <1>1, <1>4, <2>4, <3>3 DEF Running, Selected
        <3> QED
            BY <3>1, <3>2, <3>3
    <2>10. ASSUME NEW w \in Upgraders PROVE Delivered(w)'
        <3>1. CASE w = u
            BY <1>4, <3>1 DEF Delivered
        <3>2. CASE w # u
            <4>1. files'[Std] \in {files[Std], current[u]}
                BY <1>4, <2>1 DEF Std, Names
            <4>2. /\ Superseded(w) => Superseded(w)'
                  /\ files'[Std] = files[Std] \/ Superseded(w)'
                BY <1>1, <3>2, <4>1, Supersedes
            <4> QED
                BY <1>1, <1>4, <3>2, <4>2 DEF Delivered
        <3> QED
            BY <3>1, <3>2
    <2> QED
        BY <2>7, <2>8, <2>9, <2>10
<1> QED
    BY <1>2, <1>3, <1>4 DEF Restore, Outcomes

LEMMA FinishKeeps ==
    ASSUME Inv, NEW u \in Upgraders, Finish(u)
    PROVE  Control' /\ files' = files /\ aside' = aside
<1>1. windows => Held(exe[u], "aside")
    BY DEF Finish, Inv, Control, Running, Held, Past
<1>2. /\ pc[u] = "finish" /\ aside' = aside /\ Ends(u, "upgraded") /\ writing # u
      /\ UNCHANGED <<windows, files, writing, named, exe, current, target>>
    BY <1>1, Distinct DEF Finish, releaseVars, flagVars, Inv, Control, Opened
<1>3. /\ "upgraded" \in Outcomes \ {"none"}
      /\ pc[u] \notin {"idle", "over"}
      /\ writing' = IF writing = u THEN Nobody ELSE writing
    BY <1>2 DEF Outcomes
<1> QED
    BY <1>2, <1>3, EndsStep

LEMMA InterruptKeeps ==
    ASSUME Inv, NEW u \in Upgraders, Interrupt(u)
    PROVE  Control'
<1>1. /\ pc[u] \notin {"idle", "over"} /\ Ends(u, "killed")
      /\ UNCHANGED <<windows, files, aside, named, exe, current, target>>
      /\ writing' = IF writing = u THEN Nobody ELSE writing
    BY DEF Interrupt, releaseVars, flagVars
<1>2. "killed" \in Outcomes \ {"none"}
    BY DEF Outcomes
<1> QED
    BY <1>1, <1>2, EndsStep

LEMMA ControlStep == ASSUME Inv, [Next]_vars PROVE Control'
<1>1. ASSUME NEW v \in Releases, Publish(v) PROVE Control'
    <2>1. UNCHANGED <<windows, files, aside, writing, named, exe, current, pc, outcome, target, image>>
        BY <1>1 DEF Publish, dirVars, flagVars
    <2> QED
        BY <2>1 DEF Inv, Control, Alone, Opened, Running, Selected, Delivered, Superseded
<1>2. CASE UNCHANGED vars
    BY <1>2 DEF vars, dirVars, releaseVars, flagVars, Inv, Control, Alone, Opened, Running,
                Selected, Delivered, Superseded
<1> QED
    BY <1>1, <1>2, Steps, StartKeeps, QuietKeeps, MoveAsideKeeps, BeginCopyKeeps, CopyEndsKeeps,
       RestoreKeeps, FinishKeeps, InterruptKeeps DEF Next

-----------------------------------------------------------------------------
(* What a lookup says of the version that is installed *)

NoticeTrue(u) ==
    (target[u] # NoVersion /\ current[u] # Dev
       /\ Canonical(target[u]) /\ Canonical(current[u])) =>
       /\ outcome[u] = "current" => ~Precedes(current[u], target[u])
       /\ outcome[u] = "current" /\ named[u] # NoVersion => ~Precedes(target[u], current[u])
       /\ outcome[u] = "behind" => Precedes(current[u], target[u])

LEMMA LookupNotice ==
    ASSUME Inv, NEW u \in Upgraders, Lookup(u) \/ VersionCommand(u)
    PROVE  NoticeTrue(u)'
<1> USE DEF Inv, TypeOK
<1>1. /\ pc[u] = "lookup" /\ outcome[u] = "none" /\ target[u] = NoVersion
      /\ UNCHANGED <<named, current>>
    BY DEF Lookup, VersionCommand, flagVars, Control, Selected
<1>2. CASE target' = target
    BY <1>1, <1>2 DEF NoticeTrue
<1>3. CASE target' # target
    <2>1. PICK t \in Releases :
              /\ target' = [target EXCEPT ![u] = t]
              /\ current[u] # Dev /\ t = Found(u)
              /\ outcome'[u] = "current"
                     => IF named[u] = NoVersion THEN ~IsNewer(t, current[u])
                                                ELSE IsSame(t, current[u])
              /\ outcome'[u] = "behind" => IsNewer(t, current[u])
        <3>1. CASE Lookup(u)
            <4>1. /\ Found(u) # NoVersion /\ current[u] # Dev
                  /\ target' = [target EXCEPT ![u] = Found(u)]
                  /\ IF Installed(u, Found(u)) THEN Ends(u, "current") ELSE Proceeds(u, "check")
                BY <1>3, <3>1 DEF Lookup
            <4>2. Found(u) \in Releases
                BY <4>1, FoundType
            <4> QED
                BY <1>1, <4>1, <4>2 DEF Installed, Ends, Proceeds
        <3>2. CASE VersionCommand(u)
            <4>1. /\ named[u] = NoVersion /\ latest # NoVersion /\ current[u] # Dev
                  /\ target' = [target EXCEPT ![u] = latest]
                  /\ Ends(u, IF IsNewer(latest, current[u]) THEN "behind" ELSE "current")
                BY <1>3, <3>2 DEF VersionCommand
            <4>2. latest = Found(u) /\ latest \in Releases
                BY <4>1 DEF Found
            <4> QED
                BY <4>1, <4>2 DEF Ends
        <3> QED
            BY <3>1, <3>2
    <2>2. t \in Version /\ current[u] \in Version
        BY <2>1, Distinct DEF Binaries
    <2>3. target'[u] = t /\ current'[u] = current[u] /\ named'[u] = named[u]
        BY <1>1, <2>1
    <2>4. CASE Canonical(t) /\ Canonical(current[u])
        BY <2>1, <2>2, <2>3, <2>4, OrderIsSemVer DEF NoticeTrue
    <2>5. CASE ~(Canonical(t) /\ Canonical(current[u]))
        BY <2>3, <2>5 DEF NoticeTrue
    <2> QED
        BY <2>4, <2>5
<1> QED
    BY <1>2, <1>3

LEMMA NoticesStep == ASSUME Inv, [Next]_vars PROVE NoticesTrue'
<1> USE DEF Inv, TypeOK
<1>1. \A w \in Upgraders : NoticeTrue(w)
    BY DEF NoticesTrue, NoticeTrue
<1> SUFFICES ASSUME NEW w \in Upgraders PROVE NoticeTrue(w)'
    BY DEF NoticesTrue, NoticeTrue
<1>2. CASE \/ outcome'[w] \notin {"current", "behind"}
           \/ /\ target'[w] = target[w] /\ current'[w] = current[w] /\ named'[w] = named[w]
              /\ outcome'[w] = outcome[w]
    BY <1>1, <1>2 DEF NoticeTrue
<1>3. ASSUME NEW u \in Upgraders, NEW n \in Names,
             NEW v \in Releases \cup {NoVersion, Malformed}, Start(u, n, v)
      PROVE  NoticeTrue(w)'
    <2>1. outcome' = outcome /\ target' = target /\ (w = u => outcome[w] = "none")
        BY <1>3 DEF Start, Control, Selected
    <2>2. w # u => current'[w] = current[w] /\ named'[w] = named[w]
        BY <1>3 DEF Start
    <2> QED
        BY <1>2, <2>1, <2>2
<1>4. ASSUME NEW u \in Upgraders, Lookup(u) \/ VersionCommand(u)
      PROVE  NoticeTrue(w)'
    <2>1. CASE w = u
        BY <1>4, <2>1, LookupNotice
    <2>2. CASE w # u
        BY <1>2, <1>4, <2>2 DEF Lookup, VersionCommand, Ends, Proceeds, flagVars
    <2> QED
        BY <2>1, <2>2
<1>5. ASSUME NEW u \in Upgraders,
             \/ Check(u) \/ Confirm(u) \/ Download(u) \/ StayInPlace(u) \/ InstallerFails(u)
             \/ RunInstalled(u) \/ MoveAside(u) \/ BeginCopy(u) \/ CopyEnds(u) \/ Restore(u)
             \/ Finish(u) \/ Interrupt(u)
      PROVE  NoticeTrue(w)'
    <2>1. UNCHANGED <<named, current, target>>
        BY <1>5 DEF Check, Confirm, Download, StayInPlace, InstallerFails, RunInstalled, MoveAside,
                    BeginCopy, CopyEnds, CopyOf, Restore, Finish, Interrupt, flagVars
    <2>2. \/ outcome' = outcome
          \/ \E how \in Outcomes \ {"current", "behind"} : outcome' = [outcome EXCEPT ![u] = how]
        BY <1>5 DEF Check, Confirm, Download, StayInPlace, InstallerFails, RunInstalled, MoveAside,
                    BeginCopy, CopyEnds, CopyOf, Restore, Finish, Interrupt, Ends, Proceeds, Outcomes
    <2>3. outcome'[w] = outcome[w] \/ outcome'[w] \notin {"current", "behind"}
        BY <2>2
    <2> QED
        BY <1>2, <2>1, <2>3
<1>6. ASSUME NEW v \in Releases, Publish(v) PROVE NoticeTrue(w)'
    BY <1>2, <1>6 DEF Publish, flagVars
<1>7. CASE UNCHANGED vars
    BY <1>2, <1>7 DEF vars, flagVars
<1> QED
    BY <1>3, <1>4, <1>5, <1>6, <1>7 DEF Next, Step

LEMMA InvHolds == Spec => []Inv
<1>1. Inv /\ [Next]_vars => Inv'
    BY TypeStep, ControlStep, NoticesStep DEF Inv
<1> QED
    BY InvInit, <1>1, PTL DEF Spec

-----------------------------------------------------------------------------
(* What changes the directory, by who does it *)

Moves(u)     == /\ windows /\ files[exe[u]] = current[u]
                /\ aside' = [aside EXCEPT ![exe[u]] = current[u]]
                /\ files' = [files EXCEPT ![exe[u]] = Absent]
Clears(u)    == /\ windows /\ files[exe[u]] = current[u]
                /\ aside' = [aside EXCEPT ![exe[u]] = Absent] /\ files' = files
Opens(u)     == /\ files' = [files EXCEPT ![Std] = Broken] /\ aside' = aside
                /\ writing' = u /\ writing # u
                /\ windows => aside[exe[u]] = current[u]
Fills(u)     == files' = [files EXCEPT ![Std] = target[u]] /\ aside' = aside
Removes(u)   == /\ windows /\ aside[exe[u]] = current[u]
                /\ files' = [files EXCEPT ![exe[u]] = Absent] /\ aside' = aside
TakesBack(u) == /\ windows /\ aside[exe[u]] = current[u]
                /\ files' = [files EXCEPT ![exe[u]] = current[u]]
                /\ aside' = [aside EXCEPT ![exe[u]] = Absent]
                /\ outcome[u] = "none" /\ outcome'[u] = "failed"

LEMMA Changes ==
    ASSUME Inv, Next
    PROVE  \/ files' = files /\ aside' = aside
           \/ \E u \in Upgraders :
                 \/ Moves(u) \/ Clears(u) \/ Opens(u) \/ Removes(u) \/ TakesBack(u)
                 \/ Fills(u) /\ pc[u] = "copying"
<1> USE DEF Inv, TypeOK, Control
<1>1. ASSUME NEW u \in Upgraders, MoveAside(u)
      PROVE  (files' = files /\ aside' = aside) \/ Moves(u) \/ Clears(u)
    <2>1. ~Held(exe[u], "aside") => files[exe[u]] = current[u] /\ windows
        BY <1>1 DEF MoveAside, Held, Running
    <2> QED
        BY <1>1, <2>1 DEF MoveAside, Moves, Clears
<1>2. ASSUME NEW u \in Upgraders, BeginCopy(u) PROVE Opens(u)
    BY <1>2, Distinct DEF BeginCopy, Opens, Running, Past, Opened
<1>3. ASSUME NEW u \in Upgraders, CopyEnds(u)
      PROVE  (files' = files /\ aside' = aside) \/ (Fills(u) /\ pc[u] = "copying")
    BY <1>3 DEF CopyEnds, CopyOf, Fills
<1>4. ASSUME NEW u \in Upgraders, Restore(u)
      PROVE  (files' = files /\ aside' = aside) \/ Removes(u) \/ TakesBack(u)
    <2>1. (windows => aside[exe[u]] = current[u]) /\ outcome[u] = "none"
        BY <1>4 DEF Restore, Running, Selected, Past
    <2> QED
        BY <1>4, <2>1 DEF Restore, Removes, TakesBack
<1>5. ASSUME NEW u \in Upgraders, Quiet(u) \/ Interrupt(u) \/ Finish(u)
      PROVE  files' = files /\ aside' = aside
    BY <1>5, QuietStep, FinishKeeps DEF Interrupt
<1>6. ASSUME NEW v \in Releases, Publish(v) PROVE files' = files /\ aside' = aside
    BY <1>6 DEF Publish, dirVars
<1>7. ASSUME NEW u \in Upgraders, NEW n \in Names,
             NEW v \in Releases \cup {NoVersion, Malformed}, Start(u, n, v)
      PROVE  files' = files /\ aside' = aside
    BY <1>7 DEF Start, dirVars
<1> QED
    BY <1>1, <1>2, <1>3, <1>4, <1>5, <1>6, <1>7, Steps DEF Next

-----------------------------------------------------------------------------
(* Every variable of an upgrade keeps its type: in particular what is set   *)
(* aside is a working binary or nothing (upgrade.go,                        *)
(* moveRunningBinaryAside).                                                 *)
THEOREM TypeCorrect == Spec => []TypeOK
<1>1. Inv => TypeOK
    BY DEF Inv
<1> QED
    BY InvHolds, <1>1, PTL

(* What upgrade and version say of the installed version agrees with        *)
(* Semantic Versioning, for any releases.                                   *)
THEOREM NoticesHold == Spec => []NoticesTrue
<1>1. Inv => NoticesTrue
    BY DEF Inv
<1> QED
    BY InvHolds, <1>1, PTL

(* Whatever number of upgrades run, fail or are interrupted, a directory    *)
(* that has a working binary keeps one, under its name or as .old; only the *)
(* copy of install.sh may take the last.                                    *)
THEOREM BinaryKept == Spec => KeepsABinary
<1>1. ASSUME Inv, [Next]_vars, HasBinary, ~HasBinary'
      PROVE  ~windows /\ \E u \in Upgraders : writing' = u /\ writing # u
    <2> USE DEF Inv, TypeOK
    <2>1. ~(files' = files /\ aside' = aside)
        BY <1>1 DEF HasBinary
    <2>2. PICK u \in Upgraders :
              \/ Moves(u) \/ Clears(u) \/ Opens(u) \/ Removes(u) \/ TakesBack(u)
              \/ Fills(u) /\ pc[u] = "copying"
        BY <1>1, <2>1, Changes DEF vars, dirVars
    <2>3. exe[u] \in Names /\ Std \in Names /\ Works(current[u])
        BY <1>1 DEF Works, Names, Std
    <2>4. CASE Moves(u)
        BY <1>1, <2>3, <2>4 DEF Moves, HasBinary
    <2>5. CASE Clears(u)
        BY <1>1, <2>3, <2>5 DEF Clears, HasBinary
    <2>6. CASE Removes(u)
        BY <1>1, <2>3, <2>6 DEF Removes, HasBinary
    <2>7. CASE TakesBack(u)
        BY <1>1, <2>3, <2>7 DEF TakesBack, HasBinary
    <2>8. CASE Fills(u) /\ pc[u] = "copying"
        <3>1. Works(target[u])
            BY <1>1, <2>8 DEF Control, Selected, Chosen, Past, Works, Binaries
        <3> QED
            BY <1>1, <2>3, <2>8, <3>1 DEF Fills, HasBinary
    <2>9. CASE Opens(u)
        BY <1>1, <2>3, <2>9 DEF Opens, HasBinary
    <2> QED
        BY <2>2, <2>4, <2>5, <2>6, <2>7, <2>8, <2>9
<1> QED
    BY InvHolds, <1>1, PTL DEF Spec, KeepsABinary

(* On Windows a failed installer, with nothing said of the restore, leaves  *)
(* the binary the command was started from, whatever other upgrades do.     *)
THEOREM FailuresUndone == Spec => FailureUndone
<1>1. ASSUME Inv, [Next]_vars, NEW u \in Upgraders, windows, pc[u] = "restore",
             outcome'[u] = "failed"
      PROVE  files'[exe[u]] = current[u]
    <2> USE DEF Inv, TypeOK, Control
    <2>1. outcome[u] = "none" /\ aside[exe[u]] = current[u] /\ exe[u] \in Names
        BY <1>1 DEF Selected, Running, Past
    <2>2. CASE Restore(u)
        <3>1. files' = [files EXCEPT ![exe[u]] = aside[exe[u]]]
            BY <1>1, <2>2 DEF Restore, Ends
        <3> QED
            BY <1>1, <2>1, <3>1
    <2>3. CASE ~Restore(u)
        <3>1. outcome'[u] # "failed"
            <4>1. ASSUME NEW w \in Upgraders, Step(w) PROVE outcome'[u] # "failed"
                <5>1. CASE w = u
                    BY <1>1, <2>3, <4>1, <5>1 DEF Step, Lookup, VersionCommand, Check, Confirm,
                        Download, StayInPlace, InstallerFails, RunInstalled, MoveAside, BeginCopy,
                        CopyEnds, CopyOf, Finish
                <5>2. CASE w # u
                    BY <1>1, <2>1, <4>1, <5>2 DEF Step, Lookup, VersionCommand, Check, Confirm,
                        Download, StayInPlace, InstallerFails, RunInstalled, MoveAside, BeginCopy,
                        CopyEnds, CopyOf, Restore, Finish, Ends, Proceeds
                <5> QED
                    BY <5>1, <5>2
            <4>2. ASSUME NEW w \in Upgraders, Interrupt(w) PROVE outcome'[u] # "failed"
                BY <2>1, <4>2 DEF Interrupt, Ends
            <4>3. ASSUME outcome' = outcome PROVE outcome'[u] # "failed"
                BY <2>1, <4>3
            <4> QED
                BY <1>1, <4>1, <4>2, <4>3 DEF Next, Start, Publish, vars
        <3> QED
            BY <1>1, <3>1
    <2> QED
        BY <2>2, <2>3
<1>2. Inv /\ [Next]_vars =>
          \A u \in Upgraders :
              (windows /\ pc[u] = "restore" /\ outcome'[u] = "failed") => files'[exe[u]] = current[u]
    BY <1>1
<1> QED
    BY InvHolds, <1>2, PTL DEF Spec, FailureUndone

(* Only what the user asked for comes into the directory: the release       *)
(* named, or one that comes later in Semantic Versioning than the binary    *)
(* that was run; or that binary, taken back.                                *)
THEOREM OnlyTheTargetInstalled == Spec => NothingElseInstalled
<1>1. ASSUME Inv, [Next]_vars, NEW n \in Names, files'[n] # files[n], Works(files'[n])
      PROVE  \E u \in Upgraders :
                \/ files'[n] = current[u] /\ outcome'[u] # outcome[u]
                \/ files'[n] = target[u] /\ target[u] = named[u]
                \/ /\ files'[n] = target[u] /\ named[u] = NoVersion
                   /\ Precedes(current[u], target[u])
    <2> USE DEF Inv, TypeOK
    <2>1. PICK u \in Upgraders :
              \/ Moves(u) \/ Clears(u) \/ Opens(u) \/ Removes(u) \/ TakesBack(u)
              \/ Fills(u) /\ pc[u] = "copying"
        BY <1>1, Changes DEF vars, dirVars
    <2>2. CASE Moves(u) \/ Clears(u) \/ Opens(u) \/ Removes(u)
        BY <1>1, <2>2, Distinct DEF Moves, Clears, Opens, Removes, Works
    <2>3. CASE TakesBack(u)
        BY <1>1, <2>3 DEF TakesBack
    <2>4. CASE Fills(u) /\ pc[u] = "copying"
        <3>1. files'[n] = target[u]
            BY <1>1, <2>4 DEF Fills
        <3>2. /\ current[u] \in Version /\ target[u] \in Version
              /\ IF named[u] = NoVersion THEN IsNewer(target[u], current[u])
                                         ELSE target[u] = named[u]
            BY <1>1, <2>4, Distinct DEF Control, Selected, Chosen, Past
        <3> QED
            BY <3>1, <3>2, NewerPrecedes
    <2> QED
        BY <2>1, <2>2, <2>3, <2>4
<1>2. Inv /\ [Next]_vars =>
          \A n \in Names :
              (files'[n] # files[n] /\ Works(files'[n])) =>
                 \E u \in Upgraders :
                    \/ files'[n] = current[u] /\ outcome'[u] # outcome[u]
                    \/ files'[n] = target[u] /\ target[u] = named[u]
                    \/ /\ files'[n] = target[u] /\ named[u] = NoVersion
                       /\ Precedes(current[u], target[u])
    BY <1>1
<1> QED
    BY InvHolds, <1>2, PTL DEF Spec, NothingElseInstalled

(* Only the last step of an upgrade says that it succeeded. *)
LEMMA SuccessIsReported ==
    ASSUME Inv, [Next]_vars, NEW u \in Upgraders, outcome'[u] = "upgraded", outcome[u] = "none"
    PROVE  Finish(u) /\ pc[u] = "finish"
<1> USE DEF Inv, TypeOK
<1>1. ASSUME NEW w \in Upgraders, Step(w) PROVE Finish(w) \/ outcome'[u] # "upgraded"
    BY <1>1 DEF Step, Lookup, VersionCommand, Check, Confirm, Download, StayInPlace,
        InstallerFails, RunInstalled, MoveAside, BeginCopy, CopyEnds, CopyOf, Restore,
        Ends, Proceeds
<1>2. ASSUME NEW w \in Upgraders, Finish(w) PROVE Finish(u) /\ pc[u] = "finish"
    BY <1>2 DEF Finish, Ends
<1>3. ASSUME NEW w \in Upgraders, Interrupt(w) PROVE FALSE
    BY <1>3 DEF Interrupt, Ends
<1>4. outcome' # outcome
    OBVIOUS
<1> QED
    BY <1>1, <1>2, <1>3, <1>4 DEF Next, Start, Publish, vars

(* "Upgraded" is true: the release is in place, unless another command has  *)
(* been at the file since.                                                  *)
THEOREM UpgradesDeliver == Spec => UpgradeDelivers
<1>1. ASSUME Inv, [Next]_vars, NEW u \in Upgraders, outcome'[u] = "upgraded", outcome[u] = "none"
      PROVE  files[Std] = target[u] \/ Superseded(u)
    BY <1>1, SuccessIsReported DEF Inv, Control, Delivered
<1>2. Inv /\ [Next]_vars =>
          \A u \in Upgraders :
              outcome'[u] = "upgraded" /\ outcome[u] = "none" =>
                 \/ files[Std] = target[u]
                 \/ \E w \in Upgraders \ {u} :
                       /\ target[w] # NoVersion
                       /\ files[Std] \in {target[w], current[w], Broken, Absent}
    BY <1>1 DEF Superseded
<1> QED
    BY InvHolds, <1>2, PTL DEF Spec, UpgradeDelivers

(* Where no other command is upgrading, the claim of UpgradePlan that the   *)
(* running binary is the one replaced fails for no reason but its name: run *)
(* as nvfleetint, it holds the target when "Upgraded" is said.              *)
THEOREM LoneUpgradeReplaces ==
    ASSUME NEW a, Upgraders = {a}
    PROVE  Spec => [][outcome'[a] = "upgraded" /\ outcome[a] = "none" /\ exe[a] = Std
                         => files'[exe[a]] = target[a]]_vars
<1>1. ASSUME Inv, [Next]_vars, outcome'[a] = "upgraded", outcome[a] = "none", exe[a] = Std
      PROVE  files'[exe[a]] = target[a]
    <2>1. a \in Upgraders
        OBVIOUS
    <2>2. Finish(a) /\ pc[a] = "finish"
        BY <1>1, <2>1, SuccessIsReported
    <2>3. ~Superseded(a)
        BY DEF Superseded
    <2>4. files[Std] = target[a]
        BY <1>1, <2>1, <2>2, <2>3 DEF Inv, Control, Delivered
    <2>5. files' = files
        BY <2>2 DEF Finish
    <2> QED
        BY <1>1, <2>4, <2>5
<1>2. Inv /\ [Next]_vars
        => [outcome'[a] = "upgraded" /\ outcome[a] = "none" /\ exe[a] = Std
               => files'[exe[a]] = target[a]]_vars
    BY <1>1
<1> QED
    BY InvHolds, <1>2, PTL DEF Spec
=============================================================================
