---------------------------- MODULE Masks_proofs ----------------------------
(***************************************************************************)
(* The lowest and the highest bit of a mask: what __builtin_ffs() and the   *)
(* table LEADING_ZEROS of the priority encoders find.  A mask is a finite    *)
(* set of integers, its bits; an empty mask has neither.                    *)
(***************************************************************************)
EXTENDS Integers, FiniteSetsExt, FiniteSetTheorems, WellFoundedInduction, TLAPS

(* A nonempty set of subsets of a finite set has a smallest member.          *)
LEMMA SmallestCut ==
  ASSUME NEW mask, NEW Cuts, IsFiniteSet(mask), Cuts \subseteq SUBSET mask, Cuts # {}
  PROVE  \E cut \in Cuts : \A c \in Cuts : c \subseteq cut => c = cut
<1>1. SUBSET mask = FiniteSubsetsOf(mask)
  BY FS_FiniteSubsetsOfFinite
<1>2. PICK cut \in Cuts : \A c \in Cuts : ~ (<<c, cut>> \in StrictSubsetOrdering(mask))
  BY <1>1, FS_StrictSubsetOrderingWellFounded, WFMin
<1>3. ASSUME NEW c \in Cuts, c \subseteq cut, c # cut PROVE FALSE
  BY <1>2, <1>3 DEF StrictSubsetOrdering
<1> QED
  BY <1>3

(* The lowest bit.                                                          *)
LEMMA LowestBit ==
  ASSUME NEW mask, IsFiniteSet(mask), mask # {}, \A y \in mask : y \in Int
  PROVE  Min(mask) \in mask /\ \A y \in mask : Min(mask) <= y
<1> DEFINE Below(x) == {y \in mask : y <= x}
           Cuts == {Below(x) : x \in mask}
<1>1. Cuts \subseteq SUBSET mask /\ Cuts # {}
  OBVIOUS
<1>2. PICK cut \in Cuts : \A c \in Cuts : c \subseteq cut => c = cut
  <2> HIDE DEF Cuts
  <2> QED
    BY <1>1, SmallestCut
<1>3. PICK m \in mask : cut = Below(m)
  OBVIOUS
<1>4. ASSUME NEW y \in mask, ~ (m <= y) PROVE FALSE
  <2>1. \A z \in mask : z <= y => z <= m
    BY <1>4
  <2>2. Below(y) \in Cuts /\ Below(y) \subseteq Below(m)
    BY <2>1
  <2>3. Below(y) = Below(m)
    BY <1>2, <1>3, <2>2
  <2>4. m \in Below(m) /\ m \notin Below(y)
    BY <1>4
  <2> QED
    BY <2>3, <2>4
<1> QED
  BY <1>4 DEF Min

(* The highest bit.                                                         *)
LEMMA HighestBit ==
  ASSUME NEW mask, IsFiniteSet(mask), mask # {}, \A y \in mask : y \in Int
  PROVE  Max(mask) \in mask /\ \A y \in mask : y <= Max(mask)
<1> DEFINE Above(x) == {y \in mask : y >= x}
           Cuts == {Above(x) : x \in mask}
<1>1. Cuts \subseteq SUBSET mask /\ Cuts # {}
  OBVIOUS
<1>2. PICK cut \in Cuts : \A c \in Cuts : c \subseteq cut => c = cut
  <2> HIDE DEF Cuts
  <2> QED
    BY <1>1, SmallestCut
<1>3. PICK m \in mask : cut = Above(m)
  OBVIOUS
<1>4. ASSUME NEW y \in mask, ~ (m >= y) PROVE FALSE
  <2>1. \A z \in mask : z >= y => z >= m
    BY <1>4
  <2>2. Above(y) \in Cuts /\ Above(y) \subseteq Above(m)
    BY <2>1
  <2>3. Above(y) = Above(m)
    BY <1>2, <1>3, <2>2
  <2>4. m \in Above(m) /\ m \notin Above(y)
    BY <1>4
  <2> QED
    BY <2>3, <2>4
<1> QED
  BY <1>4 DEF Max
=============================================================================
