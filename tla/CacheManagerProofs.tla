-------------------------- MODULE CacheManagerProofs --------------------------
(***************************************************************************)
(* What the operations of the radix tree preserve, for keys over any set   *)
(* of blocks and trees of any size; then facts about the operations of the *)
(* cache manager, for its clients: keys, and the locks when a request is   *)
(* cached (cache_req).                                                     *)
(***************************************************************************)
EXTENDS CacheManager, SequenceTheorems, FiniteSetTheorems, WellFoundedInduction, TLAPS

(* IsPrefix by positions; the facts about prefixes follow from it.         *)
LEMMA PrefixPointwise ==
  ASSUME NEW B, NEW a \in Seq(B), NEW b \in Seq(B)
  PROVE  IsPrefix(a, b) <=> Len(a) <= Len(b) /\ \A i \in 1..Len(a) : a[i] = b[i]
<1>1. SubSeq(a, 1, Len(a)) = a BY SubSeqFull
<1>2. ASSUME Len(a) <= Len(b)
      PROVE  /\ SubSeq(b, 1, Len(a)) \in Seq(B)
             /\ Len(SubSeq(b, 1, Len(a))) = Len(a)
             /\ \A i \in 1..Len(a) : SubSeq(b, 1, Len(a))[i] = b[i]
  BY <1>2
<1>3. ASSUME IsPrefix(a, b), NEW i \in 1..Len(a) PROVE a[i] = b[i]
  BY <1>1, <1>2, <1>3 DEF IsPrefix
<1>4. ASSUME Len(a) <= Len(b), \A i \in 1..Len(a) : a[i] = b[i]
      PROVE  IsPrefix(a, b)
  <2>1. a = SubSeq(b, 1, Len(a)) BY <1>2, <1>4, SeqEqual
  <2>2. QED BY <1>1, <1>4, <2>1 DEF IsPrefix
<1>5. QED BY <1>3, <1>4 DEF IsPrefix

LEMMA PrefixReflexive == ASSUME NEW B, NEW a \in Seq(B) PROVE IsPrefix(a, a)
BY PrefixPointwise

LEMMA PrefixTransitive ==
  ASSUME NEW B, NEW a \in Seq(B), NEW b \in Seq(B), NEW c \in Seq(B),
         IsPrefix(a, b), IsPrefix(b, c)
  PROVE  IsPrefix(a, c)
<1>1. Len(a) <= Len(b) /\ Len(b) <= Len(c) BY PrefixPointwise
<1>2. \A i \in 1..Len(a) : a[i] = b[i] /\ b[i] = c[i] BY PrefixPointwise
<1>3. QED BY <1>1, <1>2, PrefixPointwise

LEMMA PrefixAntisymmetric ==
  ASSUME NEW B, NEW a \in Seq(B), NEW b \in Seq(B), IsPrefix(a, b), IsPrefix(b, a)
  PROVE  a = b
BY PrefixPointwise, SeqEqual

(* Two prefixes of one key are comparable.                                 *)
LEMMA PrefixComparable ==
  ASSUME NEW B, NEW a \in Seq(B), NEW b \in Seq(B), NEW c \in Seq(B),
         IsPrefix(a, c), IsPrefix(b, c)
  PROVE  IsPrefix(a, b) \/ IsPrefix(b, a)
<1>1. \A i \in 1..Len(a) : a[i] = c[i] BY PrefixPointwise
<1>2. \A i \in 1..Len(b) : b[i] = c[i] BY PrefixPointwise
<1>3. CASE Len(a) <= Len(b) BY <1>1, <1>2, <1>3, PrefixPointwise
<1>4. CASE Len(b) <= Len(a) BY <1>1, <1>2, <1>4, PrefixPointwise
<1>5. QED BY <1>3, <1>4

(* The prefixes of a key are its first parts.                              *)
LEMMA FirstPart ==
  ASSUME NEW B, NEW s \in Seq(B), NEW i \in 0..Len(s)
  PROVE  /\ SubSeq(s, 1, i) \in Seq(B) /\ Len(SubSeq(s, 1, i)) = i
         /\ IsPrefix(SubSeq(s, 1, i), s)
<1>1. /\ SubSeq(s, 1, i) \in Seq(B) /\ Len(SubSeq(s, 1, i)) = i
      /\ \A j \in 1..i : SubSeq(s, 1, i)[j] = s[j]
  OBVIOUS
<1>2. Len(s) \in Nat /\ i \in Nat /\ i <= Len(s) OBVIOUS
<1> DEFINE f == SubSeq(s, 1, i)
<1>3. Len(f) <= Len(s) /\ \A j \in 1..Len(f) : f[j] = s[j] BY <1>1, <1>2
<1> HIDE DEF f
<1>4. f \in Seq(B) => IsPrefix(f, s) BY <1>3, PrefixPointwise
<1>5. QED BY <1>1, <1>4 DEF f

LEMMA PrefixIsFirstPart ==
  ASSUME NEW B, NEW a \in Seq(B), NEW s \in Seq(B), IsPrefix(a, s)
  PROVE  Len(a) \in 0..Len(s) /\ a = SubSeq(s, 1, Len(a))
BY SubSeqFull DEF IsPrefix

(* A set of natural numbers has a least element.                          *)
LEMMA LeastNatural ==
  ASSUME NEW T \in SUBSET Nat, T # {}
  PROVE  \E m \in T : \A k \in T : m <= k
<1> DEFINE R == OpToRel(<, Nat)
<1>1. IsWellFoundedOn(R, Nat) BY NatLessThanWellFounded
<1>2. \A x, y \in Nat : y < x => <<y, x>> \in R BY DEF OpToRel
<1> HIDE DEF R
<1>3. PICK m \in T : \A k \in T : ~ (<<k, m>> \in R) BY <1>1, WFMin
<1>4. \A k \in T : m <= k
  <2>1. TAKE k \in T
  <2>2. m \in Nat /\ k \in Nat OBVIOUS
  <2>3. ~(k < m) BY <1>2, <1>3, <2>2
  <2>4. QED BY <2>2, <2>3
<1>5. QED BY <1>4

(* Max of a set of numbers up to n is its largest element.                 *)
LEMMA MaxIsLargest ==
  ASSUME NEW n \in Nat, NEW S \in SUBSET (0..n), S # {}
  PROVE  Max(S) \in S /\ \A x \in S : x <= Max(S)
<1> DEFINE T == {k \in Nat : n - k \in S}
<1>1. T \in SUBSET Nat OBVIOUS
<1>2. T # {}
  <2>1. PICK x \in S : TRUE OBVIOUS
  <2>2. n - x \in Nat /\ n - (n - x) = x OBVIOUS
  <2>3. n - x \in T BY <2>2
  <2>4. QED BY <2>3
<1>3. PICK m \in T : \A k \in T : m <= k BY <1>1, <1>2, LeastNatural
<1>4. \A y \in S : n - m >= y
  <2>1. TAKE y \in S
  <2>2. n - y \in Nat /\ n - (n - y) = y OBVIOUS
  <2>3. m <= n - y BY <1>3, <2>2
  <2>4. QED BY <2>3
<1>5. n - m \in S OBVIOUS
<1>6. Max(S) \in S /\ \A y \in S : Max(S) >= y BY <1>4, <1>5 DEF Max
<1>7. QED BY <1>6

(* MatchLen and Matched: the longest cached prefix of a key.               *)
LEMMA MatchedIsLongest ==
  ASSUME NEW B, NEW t, NEW key \in Seq(B)
  PROVE  /\ MatchLen(t, key) \in 0..Len(key)
         /\ Matched(t, key) \in Seq(B) /\ IsPrefix(Matched(t, key), key)
         /\ Len(Matched(t, key)) = MatchLen(t, key)
         /\ Matched(t, key) \in Covered(t) \cup {<<>>}
         /\ \A i \in 1..Len(key) : SubSeq(key, 1, i) \in Covered(t) => i <= MatchLen(t, key)
<1> DEFINE S == {0} \cup {i \in 1..Len(key) : SubSeq(key, 1, i) \in Covered(t)}
<1>1. S \in SUBSET (0..Len(key)) /\ S # {} /\ Len(key) \in Nat OBVIOUS
<1>2. Max(S) \in S /\ \A i \in S : i <= Max(S) BY <1>1, MaxIsLargest
<1>3. MatchLen(t, key) = Max(S) BY DEF MatchLen
<1>4. /\ MatchLen(t, key) \in 0..Len(key)
      /\ \A i \in 1..Len(key) : SubSeq(key, 1, i) \in Covered(t) => i <= MatchLen(t, key)
      /\ MatchLen(t, key) = 0 \/ SubSeq(key, 1, MatchLen(t, key)) \in Covered(t)
  BY <1>2, <1>3
<1>5. SubSeq(key, 1, 0) = <<>> BY SubSeqEmpty
<1>6. QED BY <1>4, <1>5, FirstPart DEF Matched

----------------------------------------------------------------------------
(* A tree over the blocks B, and the shape of a radix tree.                *)
TreeRecord(t) ==
  t = [ref |-> t.ref, ts |-> t.ts, span |-> t.span, page |-> t.page,
       evictable |-> t.evictable, protected |-> t.protected]

Tree(t, B) ==
  /\ TreeRecord(t)
  /\ DOMAIN t.span = Covered(t)
  /\ Covered(t) \subseteq Seq(B) \ {<<>>}
  /\ Nodes(t) \subseteq Covered(t)
  /\ \A q \in Covered(t) : t.span[q] \in Nodes(t)

Shaped(t) ==
  /\ \A n \in Nodes(t) : t.span[n] = n
  /\ \A q \in Covered(t) : \A i \in 1..Len(q) : SubSeq(q, 1, i) \in Covered(t)
  /\ \A q \in Covered(t) : IsPrefix(q, t.span[q])
  /\ \A q \in Covered(t) : \A n \in Nodes(t) : IsPrefix(q, n) => IsPrefix(t.span[q], n)

WellShaped(t, B) == Tree(t, B) /\ Shaped(t)

(* A prefix of a cached key is cached.                                     *)
LEMMA CoveredPrefix ==
  ASSUME NEW B, NEW t, WellShaped(t, B), NEW q \in Covered(t),
         NEW a \in Seq(B), a # <<>>, IsPrefix(a, q)
  PROVE  a \in Covered(t)
<1>1. q \in Seq(B) BY DEF WellShaped, Tree
<1>2. Len(a) \in 0..Len(q) /\ a = SubSeq(q, 1, Len(a)) BY <1>1, PrefixIsFirstPart
<1>3. Len(a) # 0 BY EmptySeq
<1>4. Len(a) \in 1..Len(q) BY <1>2, <1>3
<1>5. QED BY <1>2, <1>4 DEF WellShaped, Shaped

(* A cached prefix of a key is a prefix of its longest cached prefix.      *)
LEMMA CoveredInMatched ==
  ASSUME NEW B, NEW t, NEW key \in Seq(B), NEW q \in Covered(t),
         q \in Seq(B), q # <<>>, IsPrefix(q, key)
  PROVE  IsPrefix(q, Matched(t, key))
<1>1. Len(q) \in 0..Len(key) /\ q = SubSeq(key, 1, Len(q)) BY PrefixIsFirstPart
<1>2. Len(q) \in 1..Len(key) BY <1>1, EmptySeq
<1>3. Len(q) <= MatchLen(t, key) BY <1>1, <1>2, MatchedIsLongest
<1>4. /\ Matched(t, key) \in Seq(B) /\ IsPrefix(Matched(t, key), key)
      /\ Len(Matched(t, key)) = MatchLen(t, key)
  BY MatchedIsLongest
<1>5. IsPrefix(q, Matched(t, key)) \/ IsPrefix(Matched(t, key), q)
  BY <1>4, PrefixComparable
<1>6. CASE IsPrefix(Matched(t, key), q)
  <2>1. Len(Matched(t, key)) <= Len(q) BY <1>6 DEF IsPrefix
  <2>2. Len(q) = Len(Matched(t, key)) BY <1>3, <1>4, <2>1
  <2>3. \A i \in 1..Len(q) : q[i] = Matched(t, key)[i] BY <1>4, <1>6, <2>2, PrefixPointwise
  <2>4. QED BY <1>4, <2>2, <2>3, PrefixPointwise
<1>7. QED BY <1>5, <1>6

(* Operations that leave keys, nodes and pages alone keep the shape:       *)
(* new timestamps, locking and unlocking.                                  *)
LEMMA SameKeysShape ==
  ASSUME NEW B, NEW t, WellShaped(t, B), NEW u, TreeRecord(u),
         Nodes(u) = Nodes(t), u.span = t.span, u.page = t.page
  PROVE  WellShaped(u, B)
BY DEF WellShaped, Tree, Shaped, Nodes, Covered

LEMMA TouchShape ==
  ASSUME NEW B, NEW t, WellShaped(t, B), NEW S
  PROVE  /\ WellShaped(Touch(t, S), B)
         /\ Touch(t, S).ref = t.ref /\ Touch(t, S).span = t.span /\ Touch(t, S).page = t.page
<1>1. /\ TreeRecord(Touch(t, S)) /\ Touch(t, S).ref = t.ref
      /\ Touch(t, S).span = t.span /\ Touch(t, S).page = t.page
  BY DEF Touch, WellShaped, Tree, TreeRecord
<1>2. QED BY <1>1, SameKeysShape DEF Nodes

LEMMA LockShape ==
  ASSUME NEW B, NEW t, WellShaped(t, B), NEW h
  PROVE  /\ WellShaped(LockHandle(t, h), B)
         /\ Nodes(LockHandle(t, h)) = Nodes(t)
         /\ LockHandle(t, h).span = t.span /\ LockHandle(t, h).page = t.page
         /\ \A n \in Nodes(t) : LockHandle(t, h).ref[n] =
               IF n \in PathTo(t, h) THEN t.ref[n] + 1 ELSE t.ref[n]
<1>1. TreeRecord(t) BY DEF WellShaped, Tree
<1> DEFINE r == [n \in Nodes(t) |-> IF n \in PathTo(t, h) THEN t.ref[n] + 1 ELSE t.ref[n]]
           moved == PagesIn(t, {n \in PathTo(t, h) : t.ref[n] = 0})
           e == t.evictable - moved
           p == t.protected + moved
<1>2. LockHandle(t, h) = [t EXCEPT !.ref = r, !.evictable = e, !.protected = p]
  BY DEF LockHandle
<1> HIDE DEF r, e, p
<1>3. /\ TreeRecord(LockHandle(t, h)) /\ LockHandle(t, h).ref = r
      /\ LockHandle(t, h).span = t.span /\ LockHandle(t, h).page = t.page
  BY <1>1, <1>2 DEF TreeRecord
<1>4. Nodes(LockHandle(t, h)) = Nodes(t) BY <1>3 DEF Nodes, r
<1>5. QED BY <1>3, <1>4, SameKeysShape DEF r

LEMMA UnlockShape ==
  ASSUME NEW B, NEW t, WellShaped(t, B), NEW h
  PROVE  /\ WellShaped(UnlockHandle(t, h), B)
         /\ Nodes(UnlockHandle(t, h)) = Nodes(t)
         /\ UnlockHandle(t, h).span = t.span /\ UnlockHandle(t, h).page = t.page
         /\ \A n \in Nodes(t) : UnlockHandle(t, h).ref[n] =
               IF n \in PathTo(t, h) THEN t.ref[n] - 1 ELSE t.ref[n]
<1>1. TreeRecord(t) BY DEF WellShaped, Tree
<1> DEFINE r == [n \in Nodes(t) |-> IF n \in PathTo(t, h) THEN t.ref[n] - 1 ELSE t.ref[n]]
           moved == PagesIn(t, {n \in PathTo(t, h) : t.ref[n] = 1})
           e == t.evictable + moved
           p == t.protected - moved
<1>2. UnlockHandle(t, h) = [t EXCEPT !.ref = r, !.evictable = e, !.protected = p]
  BY DEF UnlockHandle
<1> HIDE DEF r, e, p
<1>3. /\ TreeRecord(UnlockHandle(t, h)) /\ UnlockHandle(t, h).ref = r
      /\ UnlockHandle(t, h).span = t.span /\ UnlockHandle(t, h).page = t.page
  BY <1>1, <1>2 DEF TreeRecord
<1>4. Nodes(UnlockHandle(t, h)) = Nodes(t) BY <1>3 DEF Nodes, r
<1>5. QED BY <1>3, <1>4, SameKeysShape DEF r

(* split_at keeps the shape: the part of the split node up to p belongs to *)
(* the new node p, with the ref_count of the split node.                   *)
LEMMA SplitShape ==
  ASSUME NEW B, NEW t, WellShaped(t, B), NEW p \in Covered(t), p \notin Nodes(t)
  PROVE  /\ WellShaped(SplitAt(t, p), B)
         /\ Nodes(SplitAt(t, p)) = Nodes(t) \cup {p}
         /\ SplitAt(t, p).page = t.page
         /\ \A n \in Nodes(t) : SplitAt(t, p).ref[n] = t.ref[n]
         /\ SplitAt(t, p).ref[p] = t.ref[t.span[p]]
<1> DEFINE s == t.span[p]
           u == SplitAt(t, p)
           r == [n \in Nodes(t) \cup {p} |-> IF n = p THEN t.ref[s] ELSE t.ref[n]]
           stamps == [n \in Nodes(t) \cup {p} |-> IF n = p THEN t.ts[s] ELSE t.ts[n]]
           ends == [q \in DOMAIN t.span |->
                      IF t.span[q] = s /\ IsPrefix(q, p) THEN p ELSE t.span[q]]
<1>a. u = [t EXCEPT !.ref = r, !.ts = stamps, !.span = ends] BY DEF SplitAt
<1>b. TreeRecord(t) BY DEF WellShaped, Tree
<1> HIDE DEF u, r, stamps, ends
<1>1. TreeRecord(u) /\ u.page = t.page /\ u.ref = r /\ u.span = ends
  BY <1>a, <1>b DEF TreeRecord
<1>2. /\ DOMAIN t.span = Covered(t) /\ Covered(t) \subseteq Seq(B) \ {<<>>}
      /\ Nodes(t) \subseteq Covered(t)
      /\ \A q \in Covered(t) : t.span[q] \in Nodes(t) /\ IsPrefix(q, t.span[q])
      /\ \A n \in Nodes(t) : t.span[n] = n
      /\ \A q \in Covered(t) : \A n \in Nodes(t) : IsPrefix(q, n) => IsPrefix(t.span[q], n)
  BY DEF WellShaped, Tree, Shaped
<1>3. /\ s \in Nodes(t) /\ IsPrefix(p, s) /\ p # s
      /\ s \in Seq(B) /\ p \in Seq(B) /\ IsPrefix(p, p)
  BY <1>2, PrefixReflexive
<1>c. s = t.span[p] OBVIOUS
<1> HIDE DEF s
<1>4. Nodes(u) = Nodes(t) \cup {p} /\ Covered(u) = Covered(t) BY <1>1 DEF Nodes, Covered, r
<1>5. \A q \in Covered(t) :
        u.span[q] = IF t.span[q] = s /\ IsPrefix(q, p) THEN p ELSE t.span[q]
  BY <1>1, <1>2 DEF ends
<1>6. Tree(u, B)
  <2>1. DOMAIN u.span = Covered(u) BY <1>1, <1>2, <1>4 DEF ends
  <2>2. \A q \in Covered(u) : u.span[q] \in Nodes(u) BY <1>2, <1>4, <1>5
  <2>3. QED BY <1>1, <1>2, <1>4, <2>1, <2>2 DEF Tree
<1>7. ~IsPrefix(s, p) BY <1>3, PrefixAntisymmetric
<1>8. \A n \in Nodes(u) : u.span[n] = n
  <2>1. u.span[p] = p BY <1>3, <1>5, <1>c
  <2>2. \A n \in Nodes(t) : u.span[n] = n BY <1>2, <1>5, <1>7
  <2>3. QED BY <1>4, <2>1, <2>2
<1>9. \A q \in Covered(u) : IsPrefix(q, u.span[q]) BY <1>2, <1>4, <1>5
<1>10. ASSUME NEW q \in Covered(u), NEW n \in Nodes(u), IsPrefix(q, n)
       PROVE  IsPrefix(u.span[q], n)
  <2>0. q \in Covered(t) /\ q \in Seq(B) /\ t.span[q] \in Seq(B) BY <1>2, <1>4
  <2>1. CASE n = p
    <3>1. CASE t.span[q] = s BY <1>3, <1>5, <1>10, <2>0, <2>1, <3>1
    <3>2. CASE t.span[q] # s
      <4>1. IsPrefix(q, s) BY <1>3, <1>10, <2>0, <2>1, PrefixTransitive
      <4>2. IsPrefix(t.span[q], s) BY <1>2, <1>3, <2>0, <4>1
      <4>3. IsPrefix(p, t.span[q]) \/ IsPrefix(t.span[q], p)
        BY <1>3, <2>0, <4>2, PrefixComparable
      <4>4. ~IsPrefix(p, t.span[q])
        <5>1. SUFFICES ASSUME IsPrefix(p, t.span[q]) PROVE FALSE OBVIOUS
        <5>2. IsPrefix(s, t.span[q]) BY <1>2, <1>c, <2>0, <5>1
        <5>3. QED BY <1>3, <2>0, <3>2, <4>2, <5>2, PrefixAntisymmetric
      <4>5. QED BY <1>5, <2>0, <2>1, <3>2, <4>3, <4>4
    <3>3. QED BY <3>1, <3>2
  <2>2. CASE n \in Nodes(t)
    <3>1. IsPrefix(t.span[q], n) /\ n \in Seq(B) BY <1>2, <1>10, <2>0, <2>2
    <3>2. CASE t.span[q] = s /\ IsPrefix(q, p)
      <4>1. IsPrefix(p, n) BY <1>3, <2>0, <3>1, <3>2, PrefixTransitive
      <4>2. QED BY <1>5, <2>0, <3>2, <4>1
    <3>3. CASE ~(t.span[q] = s /\ IsPrefix(q, p)) BY <1>5, <2>0, <3>1, <3>3
    <3>4. QED BY <3>2, <3>3
  <2>3. QED BY <1>4, <2>1, <2>2
<1>11. \A q \in Covered(u) : \A i \in 1..Len(q) : SubSeq(q, 1, i) \in Covered(u)
  BY <1>4 DEF WellShaped, Shaped
<1>12. WellShaped(u, B) BY <1>6, <1>8, <1>9, <1>10, <1>11 DEF WellShaped, Shaped
<1>13. QED BY <1>1, <1>3, <1>4, <1>12 DEF u, r, s

(* _tree_walk keeps the shape, and afterwards the longest cached prefix of *)
(* the key ends a node.                                                    *)
LEMMA WalkShape ==
  ASSUME NEW B, NEW t, WellShaped(t, B), NEW key \in Seq(B)
  PROVE  /\ WellShaped(Walk(t, key), B)
         /\ Walk(t, key).page = t.page
         /\ Matched(t, key) \in Nodes(Walk(t, key)) \cup {<<>>}
         /\ Nodes(t) \subseteq Nodes(Walk(t, key))
         /\ \A n \in Nodes(t) : Walk(t, key).ref[n] = t.ref[n]
         /\ \A n \in Nodes(Walk(t, key)) \ Nodes(t) :
              n \in Covered(t) /\ Walk(t, key).ref[n] = t.ref[t.span[n]]
<1> DEFINE p == Matched(t, key)
           u == Touch(t, PathTo(t, p))
<1>1. /\ WellShaped(u, B) /\ u.ref = t.ref /\ u.span = t.span /\ u.page = t.page
  BY TouchShape
<1>2. p \in Covered(t) \cup {<<>>} BY MatchedIsLongest
<1>3. Nodes(u) = Nodes(t) /\ Covered(u) = Covered(t) BY <1>1 DEF Nodes, Covered
<1>4. Walk(t, key) = IF p = <<>> \/ p \in Nodes(t) THEN u ELSE SplitAt(u, p) BY DEF Walk
<1> HIDE DEF p, u
<1>5. CASE p = <<>> \/ p \in Nodes(t)
  <2>1. Walk(t, key) = u BY <1>4, <1>5
  <2>2. QED BY <1>1, <1>3, <1>5, <2>1 DEF p
<1>6. CASE ~(p = <<>> \/ p \in Nodes(t))
  <2>1. Walk(t, key) = SplitAt(u, p) BY <1>4, <1>6
  <2>2. p \in Covered(u) /\ p \notin Nodes(u) BY <1>2, <1>3, <1>6
  <2>3. /\ WellShaped(SplitAt(u, p), B)
        /\ Nodes(SplitAt(u, p)) = Nodes(u) \cup {p}
        /\ SplitAt(u, p).page = u.page
        /\ \A n \in Nodes(u) : SplitAt(u, p).ref[n] = u.ref[n]
        /\ SplitAt(u, p).ref[p] = u.ref[u.span[p]]
    BY <1>1, <2>2, SplitShape
  <2>4. QED BY <1>1, <1>3, <2>1, <2>2, <2>3 DEF p
<1>7. QED BY <1>5, <1>6

(* A new leaf keeps the shape when the longest cached prefix of its key    *)
(* ends a node.                                                            *)
LEMMA AddLeafShape ==
  ASSUME NEW B, NEW t, WellShaped(t, B), NEW key \in Seq(B), NEW row,
         key # <<>>, key \notin Covered(t), Matched(t, key) \in Nodes(t) \cup {<<>>}
  PROVE  /\ WellShaped(AddLeaf(t, key, row), B)
         /\ Nodes(AddLeaf(t, key, row)) = Nodes(t) \cup {key}
         /\ \A n \in Nodes(t) : AddLeaf(t, key, row).ref[n] = t.ref[n]
         /\ AddLeaf(t, key, row).ref[key] = 0
<1> DEFINE u == AddLeaf(t, key, row)
           new == {q \in Prefixes(key) : q # <<>> /\ q \notin Covered(t)}
           r == [n \in Nodes(t) \cup {key} |-> IF n = key THEN 0 ELSE t.ref[n]]
           stamps == Ranks([n \in Nodes(t) \cup {key} |->
                              IF n = key THEN Cardinality(Nodes(t)) ELSE t.ts[n]])
           ends == [q \in DOMAIN t.span \cup new |-> IF q \in new THEN key ELSE t.span[q]]
           pages == [q \in Covered(t) \cup new |-> IF q \in new THEN row[Len(q)] ELSE t.page[q]]
           e == t.evictable + Cardinality(new)
<1>1. u = [t EXCEPT !.ref = r, !.ts = stamps, !.span = ends, !.page = pages, !.evictable = e]
  BY DEF AddLeaf
<1>2. TreeRecord(t) BY DEF WellShaped, Tree
<1> HIDE DEF u, r, stamps, ends, pages, e
<1>3. TreeRecord(u) /\ u.ref = r /\ u.span = ends /\ u.page = pages
  BY <1>1, <1>2 DEF TreeRecord
<1>4. /\ DOMAIN t.span = Covered(t) /\ Covered(t) \subseteq Seq(B) \ {<<>>}
      /\ Nodes(t) \subseteq Covered(t)
      /\ \A q \in Covered(t) : t.span[q] \in Nodes(t) /\ IsPrefix(q, t.span[q])
      /\ \A n \in Nodes(t) : t.span[n] = n
      /\ \A q \in Covered(t) : \A n \in Nodes(t) : IsPrefix(q, n) => IsPrefix(t.span[q], n)
  BY DEF WellShaped, Tree, Shaped
<1>5. \A q \in new : /\ q \in Seq(B) \ {<<>>} /\ IsPrefix(q, key) /\ q \notin Covered(t)
  BY FirstPart DEF Prefixes
<1>6. \A q \in Seq(B) \ {<<>>} : IsPrefix(q, key) => q \in new \cup Covered(t)
  BY PrefixIsFirstPart DEF Prefixes
<1>7. key \in new BY <1>6, PrefixReflexive
<1> HIDE DEF new
<1>8. /\ Nodes(u) = Nodes(t) \cup {key} /\ Covered(u) = Covered(t) \cup new
      /\ DOMAIN u.span = Covered(u)
  BY <1>3, <1>4 DEF Nodes, Covered, r, ends, pages
<1>9. \A q \in Covered(u) : u.span[q] = IF q \in new THEN key ELSE t.span[q]
  BY <1>3, <1>8, <1>4 DEF ends
<1>10. Tree(u, B) BY <1>3, <1>4, <1>5, <1>7, <1>8, <1>9 DEF Tree
<1>11. \A n \in Nodes(u) : u.span[n] = n BY <1>4, <1>5, <1>7, <1>8, <1>9
<1>12. \A q \in Covered(u) : IsPrefix(q, u.span[q]) BY <1>4, <1>5, <1>8, <1>9
<1>13. ASSUME NEW q \in Covered(u), NEW i \in 1..Len(q)
       PROVE  SubSeq(q, 1, i) \in Covered(u)
  <2>1. CASE q \in Covered(t) BY <1>8, <2>1 DEF WellShaped, Shaped
  <2>2. CASE q \in new
    <3>1. q \in Seq(B) /\ IsPrefix(q, key) /\ i \in 0..Len(q) BY <1>5, <2>2
    <3>2. /\ SubSeq(q, 1, i) \in Seq(B) /\ Len(SubSeq(q, 1, i)) = i
          /\ IsPrefix(SubSeq(q, 1, i), q)
      BY <3>1, FirstPart
    <3>3. IsPrefix(SubSeq(q, 1, i), key) BY <3>1, <3>2, PrefixTransitive
    <3>4. SubSeq(q, 1, i) # <<>> BY <3>2
    <3>5. QED BY <1>6, <1>8, <3>2, <3>3, <3>4
  <2>3. QED BY <1>8, <2>1, <2>2
<1>14. ASSUME NEW q \in Covered(u), NEW n \in Nodes(u), IsPrefix(q, n)
       PROVE  IsPrefix(u.span[q], n)
  <2>1. q \in Seq(B) \ {<<>>} BY <1>4, <1>5, <1>8
  <2>2. CASE q \in new /\ n = key BY <1>9, <2>2, PrefixReflexive
  <2>3. CASE q \in new /\ n \in Nodes(t)
    <3>1. q \in Covered(t) BY <1>4, <1>14, <2>1, <2>3, CoveredPrefix
    <3>2. QED BY <1>5, <2>3, <3>1
  <2>4. CASE q \in Covered(t) /\ n = key
    <3>1. IsPrefix(q, Matched(t, key)) BY <1>14, <2>1, <2>4, CoveredInMatched
    <3>2. Matched(t, key) # <<>>
      BY <2>1, <3>1, EmptySeq DEF IsPrefix
    <3>3. Matched(t, key) \in Nodes(t) BY <3>2
    <3>4. IsPrefix(t.span[q], Matched(t, key)) BY <1>4, <2>4, <3>1, <3>3
    <3>5. /\ Matched(t, key) \in Seq(B) /\ IsPrefix(Matched(t, key), key)
          /\ t.span[q] \in Seq(B)
      BY <1>4, <2>4, MatchedIsLongest
    <3>6. IsPrefix(t.span[q], key) BY <3>4, <3>5, PrefixTransitive
    <3>7. QED BY <1>5, <1>9, <2>4, <3>6
  <2>5. CASE q \in Covered(t) /\ n \in Nodes(t) BY <1>4, <1>5, <1>9, <1>14, <2>5
  <2>6. QED BY <1>8, <2>2, <2>3, <2>4, <2>5
<1>15. WellShaped(u, B) BY <1>10, <1>11, <1>12, <1>13, <1>14 DEF WellShaped, Shaped
<1>16. QED BY <1>3, <1>4, <1>8, <1>15 DEF u, r

(* insert_prefix keeps the shape, and afterwards the key ends a node.      *)
LEMMA InsertShape ==
  ASSUME NEW B, NEW t, WellShaped(t, B), NEW key \in Seq(B), NEW row
  PROVE  /\ WellShaped(Insert(t, key, row), B)
         /\ key \in Nodes(Insert(t, key, row)) \cup {<<>>}
         /\ Nodes(t) \subseteq Nodes(Insert(t, key, row))
         /\ \A n \in Nodes(t) : Insert(t, key, row).ref[n] = t.ref[n]
         /\ \A n \in Nodes(Insert(t, key, row)) \ Nodes(t) :
              \/ n \in Covered(t) /\ Insert(t, key, row).ref[n] = t.ref[t.span[n]]
              \/ n \notin Covered(t) /\ Insert(t, key, row).ref[n] = 0
<1> DEFINE w == Walk(t, key)
           m == Matched(t, key)
<1>1. /\ WellShaped(w, B) /\ w.page = t.page
      /\ m \in Nodes(w) \cup {<<>>}
      /\ Nodes(t) \subseteq Nodes(w)
      /\ \A n \in Nodes(t) : w.ref[n] = t.ref[n]
      /\ \A n \in Nodes(w) \ Nodes(t) : n \in Covered(t) /\ w.ref[n] = t.ref[t.span[n]]
  BY WalkShape
<1>2. Insert(t, key, row) = IF m = key THEN w ELSE AddLeaf(w, key, row) BY DEF Insert
<1>3. Covered(w) = Covered(t) /\ Matched(w, key) = m
  BY <1>1 DEF Covered, Matched, MatchLen
<1>4. CASE m = key
  <2>1. Insert(t, key, row) = w BY <1>2, <1>4
  <2>2. QED BY <1>1, <1>4, <2>1
<1>5. CASE m # key
  <2> DEFINE u == AddLeaf(w, key, row)
  <2>1. Insert(t, key, row) = u BY <1>2, <1>5
  <2>2. key # <<>>
    <3>1. SUFFICES ASSUME key = <<>> PROVE m = key BY <1>5
    <3>2. m \in Seq(B) /\ IsPrefix(m, key) BY MatchedIsLongest
    <3>3. Len(m) <= 0 BY <3>1, <3>2 DEF IsPrefix
    <3>4. QED BY <3>1, <3>2, <3>3, EmptySeq
  <2>3. key \notin Covered(w)
    <3>1. SUFFICES ASSUME key \in Covered(t) PROVE m = key BY <1>3, <1>5
    <3>2. IsPrefix(key, m) BY <2>2, <3>1, PrefixReflexive, CoveredInMatched
    <3>3. m \in Seq(B) /\ IsPrefix(m, key) BY MatchedIsLongest
    <3>4. QED BY <3>2, <3>3, PrefixAntisymmetric
  <2>4. /\ WellShaped(u, B) /\ Nodes(u) = Nodes(w) \cup {key}
        /\ \A n \in Nodes(w) : u.ref[n] = w.ref[n]
        /\ u.ref[key] = 0
    BY <1>1, <1>3, <2>2, <2>3, AddLeafShape
  <2> HIDE DEF u
  <2>5. QED BY <1>1, <1>3, <2>1, <2>3, <2>4
<1>6. QED BY <1>4, <1>5

(* Evicting a leaf keeps the shape.                                        *)
LEMMA RemoveLeafShape ==
  ASSUME NEW B, NEW t, WellShaped(t, B), NEW n \in Nodes(t), IsLeaf(t, n)
  PROVE  /\ WellShaped(RemoveLeaf(t, n), B)
         /\ Nodes(RemoveLeaf(t, n)) = Nodes(t) \ {n}
         /\ \A m \in Nodes(t) \ {n} : RemoveLeaf(t, n).ref[m] = t.ref[m]
<1> DEFINE u == RemoveLeaf(t, n)
           kept == {q \in Covered(t) : t.span[q] # n}
           r == [m \in Nodes(t) \ {n} |-> t.ref[m]]
           stamps == Ranks([m \in Nodes(t) \ {n} |-> t.ts[m]])
           ends == [q \in kept |-> t.span[q]]
           pages == [q \in kept |-> t.page[q]]
           e == t.evictable - NodeLen(t, n)
<1>1. u = [t EXCEPT !.ref = r, !.ts = stamps, !.span = ends, !.page = pages, !.evictable = e]
  BY DEF RemoveLeaf
<1>2. TreeRecord(t) BY DEF WellShaped, Tree
<1> HIDE DEF u, r, stamps, ends, pages, e
<1>3. TreeRecord(u) /\ u.ref = r /\ u.span = ends /\ u.page = pages
  BY <1>1, <1>2 DEF TreeRecord
<1>4. /\ DOMAIN t.span = Covered(t) /\ Covered(t) \subseteq Seq(B) \ {<<>>}
      /\ Nodes(t) \subseteq Covered(t)
      /\ \A q \in Covered(t) : t.span[q] \in Nodes(t) /\ IsPrefix(q, t.span[q])
      /\ \A m \in Nodes(t) : t.span[m] = m
      /\ \A q \in Covered(t) : \A m \in Nodes(t) : IsPrefix(q, m) => IsPrefix(t.span[q], m)
  BY DEF WellShaped, Tree, Shaped
<1>5. /\ Nodes(u) = Nodes(t) \ {n} /\ Covered(u) = kept /\ DOMAIN u.span = kept
      /\ \A q \in kept : u.span[q] = t.span[q]
  BY <1>3 DEF Nodes, Covered, r, ends, pages
<1>6. Tree(u, B) BY <1>3, <1>4, <1>5 DEF Tree
<1>7. ASSUME NEW q \in kept, NEW i \in 1..Len(q) PROVE SubSeq(q, 1, i) \in kept
  <2> DEFINE a == SubSeq(q, 1, i)
  <2>1. a \in Covered(t) BY DEF WellShaped, Shaped
  <2>2. q \in Seq(B) /\ t.span[q] \in Nodes(t) /\ t.span[q] \in Seq(B)
        /\ IsPrefix(q, t.span[q]) /\ t.span[q] # n
    BY <1>4
  <2>3. a \in Seq(B) /\ IsPrefix(a, q) BY <2>2, FirstPart
  <2> HIDE DEF a
  <2>4. IsPrefix(a, t.span[q]) BY <2>2, <2>3, PrefixTransitive
  <2>5. IsPrefix(t.span[a], t.span[q]) BY <1>4, <2>1, <2>2, <2>4
  <2>6. t.span[a] # n BY <2>2, <2>5 DEF IsLeaf
  <2>7. QED BY <2>1, <2>6 DEF a
<1>8. Shaped(u) BY <1>4, <1>5, <1>7 DEF Shaped
<1>9. QED BY <1>3, <1>5, <1>6, <1>8 DEF WellShaped, u, r

----------------------------------------------------------------------------
(* The reference counts of a tree count the handles h[c] of the requests R *)
(* that go through a node, and all these handles are in the tree.          *)
Through(n, R, h) == {c \in R : IsPrefix(n, h[c])}

Counted(t, R, h) ==
  /\ IsFiniteSet(R)
  /\ \A c \in R : h[c] \in Nodes(t) \cup {<<>>}
  /\ \A n \in Nodes(t) : t.ref[n] = Cardinality(Through(n, R, h))

(* No node is a prefix of the empty key.                                   *)
LEMMA RootHasNoPrefix ==
  ASSUME NEW B, NEW n \in Seq(B), n # <<>>
  PROVE  ~IsPrefix(n, <<>>)
BY EmptySeq DEF IsPrefix

(* Walking and inserting keep the counts: a new node is the upper part of  *)
(* a split one and takes its count, or is a new leaf that nobody holds.    *)
LEMMA ExtendCounted ==
  ASSUME NEW B, NEW t, WellShaped(t, B), NEW R, NEW h, Counted(t, R, h),
         NEW u, WellShaped(u, B), Nodes(t) \subseteq Nodes(u),
         \A n \in Nodes(t) : u.ref[n] = t.ref[n],
         \A n \in Nodes(u) \ Nodes(t) :
           \/ n \in Covered(t) /\ u.ref[n] = t.ref[t.span[n]]
           \/ n \notin Covered(t) /\ u.ref[n] = 0
  PROVE  Counted(u, R, h)
<1>1. \A c \in R : h[c] \in Nodes(u) \cup {<<>>} BY DEF Counted
<1>2. /\ Covered(t) \subseteq Seq(B) \ {<<>>} /\ Nodes(t) \subseteq Covered(t)
      /\ Nodes(u) \subseteq Seq(B) \ {<<>>}
      /\ \A q \in Covered(t) : t.span[q] \in Nodes(t) /\ IsPrefix(q, t.span[q])
      /\ \A q \in Covered(t) : \A m \in Nodes(t) : IsPrefix(q, m) => IsPrefix(t.span[q], m)
  BY DEF WellShaped, Tree, Shaped
<1>3. ASSUME NEW n \in Nodes(u) PROVE u.ref[n] = Cardinality(Through(n, R, h))
  <2>0. n \in Seq(B) \ {<<>>} BY <1>2
  <2>1. CASE n \in Nodes(t) BY <2>1 DEF Counted
  <2>2. CASE n \notin Nodes(t) /\ n \in Covered(t)
    <3> DEFINE s == t.span[n]
    <3>1. s \in Nodes(t) /\ s \in Seq(B) \ {<<>>} /\ IsPrefix(n, s) BY <1>2, <2>2
    <3>2. u.ref[n] = t.ref[s] BY <2>2
    <3>3. ASSUME NEW c \in R PROVE IsPrefix(n, h[c]) <=> IsPrefix(s, h[c])
      <4>1. CASE h[c] = <<>> BY <2>0, <3>1, <4>1, RootHasNoPrefix
      <4>2. CASE h[c] \in Nodes(t)
        <5>1. h[c] \in Seq(B) BY <1>2, <4>2
        <5>2. IsPrefix(s, h[c]) => IsPrefix(n, h[c]) BY <2>0, <3>1, <5>1, PrefixTransitive
        <5>3. IsPrefix(n, h[c]) => IsPrefix(s, h[c]) BY <1>2, <2>2, <4>2
        <5>4. QED BY <5>2, <5>3
      <4>3. QED BY <4>1, <4>2 DEF Counted
    <3>4. Through(n, R, h) = Through(s, R, h) BY <3>3 DEF Through
    <3>5. QED BY <3>1, <3>2, <3>4 DEF Counted
  <2>3. CASE n \notin Covered(t)
    <3>1. u.ref[n] = 0 BY <1>2, <2>3
    <3>2. ASSUME NEW c \in R PROVE ~IsPrefix(n, h[c])
      <4>1. CASE h[c] = <<>> BY <2>0, <4>1, RootHasNoPrefix
      <4>2. CASE h[c] \in Nodes(t)
        <5>1. h[c] \in Covered(t) BY <1>2, <4>2
        <5>2. QED BY <2>0, <2>3, <5>1, CoveredPrefix
      <4>3. QED BY <4>1, <4>2 DEF Counted
    <3>3. Through(n, R, h) = {} BY <3>2 DEF Through
    <3>4. QED BY <3>1, <3>3, FS_EmptySet
  <2>4. QED BY <2>1, <2>2, <2>3
<1>4. QED BY <1>1, <1>3 DEF Counted

(* Locking a node counts one more request on the path to it.               *)
LEMMA LockCounted ==
  ASSUME NEW B, NEW t, WellShaped(t, B), NEW R, NEW h, Counted(t, R, h),
         NEW x, x \notin R, NEW k, k \in Nodes(t) \cup {<<>>},
         NEW g, g[x] = k, \A c \in R : g[c] = h[c]
  PROVE  Counted(LockHandle(t, k), R \cup {x}, g)
<1> DEFINE u == LockHandle(t, k)
<1>1. /\ Nodes(u) = Nodes(t)
      /\ \A n \in Nodes(t) : u.ref[n] = IF n \in PathTo(t, k) THEN t.ref[n] + 1 ELSE t.ref[n]
  BY LockShape
<1> HIDE DEF u
<1>2. IsFiniteSet(R) BY DEF Counted
<1>3. IsFiniteSet(R \cup {x}) BY <1>2, FS_AddElement
<1>4. \A c \in R \cup {x} : g[c] \in Nodes(u) \cup {<<>>} BY <1>1 DEF Counted
<1>5. ASSUME NEW n \in Nodes(t) PROVE u.ref[n] = Cardinality(Through(n, R \cup {x}, g))
  <2> DEFINE T == Through(n, R, h)
  <2>1. t.ref[n] = Cardinality(T) BY DEF Counted
  <2>2. IsFiniteSet(T) /\ x \notin T BY <1>2, FS_Subset DEF Through
  <2>3. CASE IsPrefix(n, k)
    <3>1. u.ref[n] = t.ref[n] + 1 BY <1>1, <2>3 DEF PathTo
    <3>2. Through(n, R \cup {x}, g) = T \cup {x} BY <2>3 DEF Through
    <3>3. Cardinality(T \cup {x}) = Cardinality(T) + 1 BY <2>2, FS_AddElement
    <3>4. QED BY <2>1, <3>1, <3>2, <3>3
  <2>4. CASE ~IsPrefix(n, k)
    <3>1. u.ref[n] = t.ref[n] BY <1>1, <2>4 DEF PathTo
    <3>2. Through(n, R \cup {x}, g) = T BY <2>4 DEF Through
    <3>3. QED BY <2>1, <3>1, <3>2
  <2>5. QED BY <2>3, <2>4
<1>6. QED BY <1>1, <1>3, <1>4, <1>5 DEF Counted, u

(* Unlocking what a request holds never meets a node with ref_count 0, and *)
(* counts the request no more.                                             *)
LEMMA UnlockCounted ==
  ASSUME NEW B, NEW t, WellShaped(t, B), NEW R, NEW h, Counted(t, R, h), NEW x \in R
  PROVE  /\ Counted(UnlockHandle(t, h[x]), R \ {x}, h)
         /\ UnlockAsserts(t, h[x])
<1> DEFINE u == UnlockHandle(t, h[x])
<1>1. /\ Nodes(u) = Nodes(t)
      /\ \A n \in Nodes(t) : u.ref[n] = IF n \in PathTo(t, h[x]) THEN t.ref[n] - 1 ELSE t.ref[n]
  BY UnlockShape
<1> HIDE DEF u
<1>2. IsFiniteSet(R) BY DEF Counted
<1>3. IsFiniteSet(R \ {x}) BY <1>2, FS_RemoveElement
<1>4. \A c \in R \ {x} : h[c] \in Nodes(u) \cup {<<>>} BY <1>1 DEF Counted
<1>5. ASSUME NEW n \in Nodes(t), IsPrefix(n, h[x])
      PROVE  /\ t.ref[n] > 0
             /\ Cardinality(Through(n, R \ {x}, h)) = t.ref[n] - 1
  <2> DEFINE T == Through(n, R, h)
  <2>1. t.ref[n] = Cardinality(T) BY DEF Counted
  <2>2. IsFiniteSet(T) BY <1>2, FS_Subset DEF Through
  <2>3. x \in T BY <1>5 DEF Through
  <2>4. Cardinality(T) \in Nat /\ Cardinality(T) # 0
    BY <2>2, <2>3, FS_CardinalityType, FS_EmptySet
  <2>5. Through(n, R \ {x}, h) = T \ {x} BY DEF Through
  <2>6. Cardinality(T \ {x}) = Cardinality(T) - 1 BY <2>2, <2>3, FS_RemoveElement
  <2> HIDE DEF T
  <2>7. t.ref[n] > 0 BY <2>1, <2>4
  <2>8. Cardinality(Through(n, R \ {x}, h)) = t.ref[n] - 1 BY <2>1, <2>5, <2>6
  <2>9. QED BY <2>7, <2>8
<1>6. ASSUME NEW n \in Nodes(t) PROVE u.ref[n] = Cardinality(Through(n, R \ {x}, h))
  <2>1. CASE IsPrefix(n, h[x]) BY <1>1, <1>5, <2>1 DEF PathTo
  <2>2. CASE ~IsPrefix(n, h[x])
    <3>1. u.ref[n] = t.ref[n] BY <1>1, <2>2 DEF PathTo
    <3>2. Through(n, R \ {x}, h) = Through(n, R, h) BY <2>2 DEF Through
    <3>3. QED BY <3>1, <3>2 DEF Counted
  <2>3. QED BY <2>1, <2>2
<1>7. UnlockAsserts(t, h[x]) BY <1>5 DEF UnlockAsserts, PathTo
<1>8. QED BY <1>1, <1>3, <1>4, <1>6, <1>7 DEF Counted, u

(* A leaf that is evicted is held by nobody.                               *)
LEMMA RemoveLeafCounted ==
  ASSUME NEW B, NEW t, WellShaped(t, B), NEW R, NEW h, Counted(t, R, h),
         NEW n \in FreeLeaves(t)
  PROVE  Counted(RemoveLeaf(t, n), R, h)
<1> DEFINE u == RemoveLeaf(t, n)
<1>1. n \in Nodes(t) /\ t.ref[n] = 0 /\ IsLeaf(t, n) BY DEF FreeLeaves
<1>2. /\ Nodes(u) = Nodes(t) \ {n}
      /\ \A m \in Nodes(t) \ {n} : u.ref[m] = t.ref[m]
  BY <1>1, RemoveLeafShape
<1> HIDE DEF u
<1>3. IsFiniteSet(R) /\ IsFiniteSet(Through(n, R, h))
  BY FS_Subset DEF Counted, Through
<1>4. Through(n, R, h) = {} BY <1>1, <1>3, FS_EmptySet DEF Counted
<1>5. n \in Seq(B) BY <1>1 DEF WellShaped, Tree
<1>6. \A c \in R : h[c] # n BY <1>4, <1>5, PrefixReflexive DEF Through
<1>7. QED BY <1>2, <1>3, <1>6 DEF Counted, u

----------------------------------------------------------------------------
(* The pages of the tree.                                                  *)

(* The matched part of a key is cached and nothing behind it is.           *)
LEMMA MatchedIsCached ==
  ASSUME NEW B, NEW t, WellShaped(t, B), NEW key \in Seq(B)
  PROVE  /\ MatchLen(t, key) \in 0..Len(key)
         /\ \A i \in 1..Len(key) : SubSeq(key, 1, i) \in Covered(t) <=> i <= MatchLen(t, key)
<1> DEFINE m == MatchLen(t, key)
           p == Matched(t, key)
<1>1. /\ m \in 0..Len(key) /\ p \in Seq(B) /\ Len(p) = m /\ p \in Covered(t) \cup {<<>>}
      /\ IsPrefix(p, key)
      /\ \A i \in 1..Len(key) : SubSeq(key, 1, i) \in Covered(t) => i <= m
  BY MatchedIsLongest
<1> HIDE DEF m, p
<1>2. ASSUME NEW i \in 1..Len(key), i <= m PROVE SubSeq(key, 1, i) \in Covered(t)
  <2> DEFINE a == SubSeq(key, 1, i)
  <2>1. i \in 0..Len(key) BY DEF m
  <2>2. a \in Seq(B) /\ Len(a) = i /\ IsPrefix(a, key) BY <2>1, FirstPart
  <2>3. \A j \in 1..i : a[j] = key[j] BY <2>2, PrefixPointwise
  <2>4. \A j \in 1..m : p[j] = key[j] BY <1>1, PrefixPointwise
  <2> HIDE DEF a
  <2>5. \A j \in 1..i : j \in 1..m BY <1>1, <1>2
  <2>6. \A j \in 1..i : a[j] = p[j] BY <2>3, <2>4, <2>5
  <2>7. IsPrefix(a, p) BY <1>1, <1>2, <2>2, <2>6, PrefixPointwise
  <2>8. p # <<>> /\ a # <<>> BY <1>1, <1>2, <2>2, EmptySeq
  <2>9. QED BY <1>1, <2>2, <2>7, <2>8, CoveredPrefix DEF a
<1>3. QED BY <1>1, <1>2 DEF m

(* insert_prefix keeps the pages of what was cached and gives those of the *)
(* row to the rest of the key.                                             *)
LEMMA InsertPages ==
  ASSUME NEW B, NEW t, WellShaped(t, B), NEW key \in Seq(B), NEW row
  PROVE  LET u == Insert(t, key, row)
             m == MatchLen(t, key)
         IN  /\ \A q \in Covered(t) : q \in Covered(u) /\ u.page[q] = t.page[q]
             /\ \A i \in (m + 1)..Len(key) : /\ SubSeq(key, 1, i) \in Covered(u) \ Covered(t)
                                             /\ u.page[SubSeq(key, 1, i)] = row[i]
             /\ \A q \in Covered(u) \ Covered(t) : /\ Len(q) \in (m + 1)..Len(key)
                                                   /\ q = SubSeq(key, 1, Len(q))
<1> DEFINE w == Walk(t, key)
           u == Insert(t, key, row)
           m == MatchLen(t, key)
           p == Matched(t, key)
<1>1. WellShaped(w, B) /\ w.page = t.page BY WalkShape
<1>2. Covered(w) = Covered(t) BY <1>1 DEF Covered
<1>3. u = IF p = key THEN w ELSE AddLeaf(w, key, row) BY DEF Insert
<1>4. /\ m \in 0..Len(key) /\ Len(key) \in Nat /\ p \in Seq(B) /\ Len(p) = m
      /\ IsPrefix(p, key)
      /\ \A i \in 1..Len(key) : SubSeq(key, 1, i) \in Covered(t) <=> i <= m
  BY MatchedIsLongest, MatchedIsCached
<1> HIDE DEF w, u, m, p
<1>5. CASE p = key
  <2>1. m = Len(key) BY <1>4, <1>5
  <2>2. (m + 1)..Len(key) = {} BY <1>4, <2>1
  <2>3. u = w BY <1>3, <1>5
  <2>4. QED BY <1>1, <1>2, <2>2, <2>3 DEF u, m
<1>6. CASE p # key
  <2> DEFINE new == {q \in Prefixes(key) : q # <<>> /\ q \notin Covered(w)}
             pages == [q \in Covered(w) \cup new |-> IF q \in new THEN row[Len(q)] ELSE w.page[q]]
  <2>1. u = AddLeaf(w, key, row) BY <1>3, <1>6
  <2>2. u.page = pages BY <1>1, <2>1 DEF AddLeaf, WellShaped, Tree, TreeRecord
  <2>3. Covered(u) = Covered(t) \cup new BY <1>2, <2>2 DEF Covered
  <2>4. \A q \in new : Len(q) \in (m + 1)..Len(key) /\ q = SubSeq(key, 1, Len(q))
    <3>1. TAKE q \in new
    <3>2. PICK i \in 0..Len(key) : q = SubSeq(key, 1, i) BY DEF Prefixes
    <3>3. Len(q) = i BY <3>2, FirstPart
    <3>4. i # 0
      <4>1. SubSeq(key, 1, 0) = <<>> BY SubSeqEmpty
      <4>2. QED BY <3>2, <4>1
    <3>5. i \in 1..Len(key) /\ q \notin Covered(t) BY <1>2, <1>4, <3>4
    <3>6. ~(i <= m) BY <1>4, <3>2, <3>5
    <3>7. QED BY <1>4, <3>2, <3>3, <3>5, <3>6
  <2>5. \A i \in (m + 1)..Len(key) : SubSeq(key, 1, i) \in new /\ Len(SubSeq(key, 1, i)) = i
    <3>1. TAKE i \in (m + 1)..Len(key)
    <3>2. i \in 1..Len(key) /\ i \in 0..Len(key) /\ ~(i <= m) BY <1>4
    <3>3. SubSeq(key, 1, i) \notin Covered(w) BY <1>2, <1>4, <3>2
    <3>4. Len(SubSeq(key, 1, i)) = i BY <3>2, FirstPart
    <3>5. SubSeq(key, 1, i) # <<>> BY <3>2, <3>4
    <3>6. SubSeq(key, 1, i) \in Prefixes(key) BY <3>2 DEF Prefixes
    <3>7. QED BY <3>3, <3>4, <3>5, <3>6
  <2>6. \A q \in new : q \notin Covered(t) BY <1>2
  <2> HIDE DEF new
  <2>7. \A q \in Covered(t) : u.page[q] = t.page[q] BY <1>1, <1>2, <2>2, <2>6
  <2>8. \A q \in new : u.page[q] = row[Len(q)] BY <2>2
  <2>9. QED BY <2>3, <2>4, <2>5, <2>6, <2>7, <2>8 DEF u, m
<1>7. QED BY <1>5, <1>6

(* The keys that end at a node are its longest prefixes.                   *)
LEMMA NodeKeys ==
  ASSUME NEW B, NEW t, WellShaped(t, B), NEW n \in Nodes(t)
  PROVE  LET k == NodeLen(t, n)
         IN  /\ k \in Nat /\ k <= Len(n) /\ Len(n) \in Nat
             /\ \A i \in 1..Len(n) : /\ SubSeq(n, 1, i) \in Covered(t)
                                     /\ t.span[SubSeq(n, 1, i)] = n <=> i > Len(n) - k
             /\ \A q \in Covered(t) : t.span[q] = n => Len(q) \in 1..Len(n) /\ q = SubSeq(n, 1, Len(q))
<1> DEFINE l == Len(n)
           a(i) == SubSeq(n, 1, i)
           J == {i \in 1..l : t.span[a(i)] = n}
           Q == {q \in Covered(t) : t.span[q] = n}
<1>1. /\ n \in Seq(B) /\ n # <<>> /\ n \in Covered(t) /\ t.span[n] = n
      /\ Covered(t) \subseteq Seq(B) \ {<<>>}
      /\ \A q \in Covered(t) : t.span[q] \in Nodes(t) /\ t.span[q] \in Seq(B) /\ IsPrefix(q, t.span[q])
      /\ \A q \in Covered(t) : IsPrefix(q, n) => IsPrefix(t.span[q], n)
  BY DEF WellShaped, Tree, Shaped
<1>2. l \in Nat /\ l # 0 BY <1>1, EmptySeq
<1>3. \A i \in 1..l : /\ a(i) \in Covered(t) /\ a(i) \in Seq(B) /\ Len(a(i)) = i
                      /\ IsPrefix(a(i), n)
  <2>1. TAKE i \in 1..l
  <2>2. i \in 0..Len(n) BY <1>2
  <2>3. a(i) \in Seq(B) /\ Len(a(i)) = i /\ IsPrefix(a(i), n) BY <1>1, <2>2, FirstPart
  <2>4. a(i) \in Covered(t) BY <1>1 DEF WellShaped, Shaped
  <2>5. QED BY <2>3, <2>4
<1>4. \A q \in Q : Len(q) \in 1..l /\ q = a(Len(q)) /\ Len(q) \in J
  <2>1. TAKE q \in Q
  <2>2. q \in Seq(B) /\ q # <<>> /\ IsPrefix(q, n) BY <1>1
  <2>3. Len(q) \in 0..l /\ q = a(Len(q)) BY <1>1, <2>2, PrefixIsFirstPart
  <2>4. Len(q) # 0 BY <2>2, EmptySeq
  <2>5. t.span[a(Len(q))] = n
    <3> HIDE DEF a
    <3>1. t.span[q] = n OBVIOUS
    <3>2. QED BY <2>3, <3>1
  <2>6. Len(q) \in 1..l BY <1>2, <2>3, <2>4
  <2>7. QED BY <2>3, <2>5, <2>6
<1>5. l \in J
  <2>1. a(l) = n BY <1>1, SubSeqFull
  <2>2. l \in 1..l BY <1>2
  <2>3. t.span[a(l)] = n
    <3> HIDE DEF a
    <3>1. QED BY <1>1, <2>1
  <2>4. QED BY <2>2, <2>3
<1>6. ASSUME NEW i \in J, NEW j \in 1..l, i <= j PROVE j \in J
  <2>1. /\ a(i) \in Covered(t) /\ a(j) \in Covered(t) /\ a(i) \in Seq(B) /\ a(j) \in Seq(B)
        /\ Len(a(i)) = i /\ Len(a(j)) = j /\ IsPrefix(a(i), n) /\ IsPrefix(a(j), n)
    BY <1>3
  <2> DEFINE s == t.span[a(j)]
  <2>2. /\ s \in Nodes(t) /\ s \in Seq(B) /\ IsPrefix(a(j), s) /\ IsPrefix(s, n) BY <1>1, <2>1
  <2>3. IsPrefix(a(i), a(j))
    <3>1. \A x \in 1..i : a(i)[x] = n[x] BY <1>1, <2>1, PrefixPointwise
    <3>2. \A x \in 1..j : a(j)[x] = n[x] BY <1>1, <2>1, PrefixPointwise
    <3>3. \A x \in 1..i : x \in 1..j BY <1>6
    <3> HIDE DEF a
    <3>4. QED BY <1>6, <2>1, <3>1, <3>2, <3>3, PrefixPointwise
  <2>4. IsPrefix(a(i), s)
    <3> HIDE DEF a, s
    <3>1. QED BY <2>1, <2>2, <2>3, PrefixTransitive
  <2>5. IsPrefix(t.span[a(i)], s)
    <3> HIDE DEF a, s
    <3>1. QED BY <2>1, <2>2, <2>4 DEF WellShaped, Shaped
  <2>6. IsPrefix(n, s) BY <2>5
  <2>7. s = n
    <3> HIDE DEF s
    <3>1. QED BY <1>1, <2>2, <2>6, PrefixAntisymmetric
  <2>8. QED BY <2>7
<1>7. PICK m \in J : \A i \in J : m <= i
  <2>1. J \in SUBSET Nat BY <1>2
  <2> HIDE DEF J
  <2>2. QED BY <1>5, <2>1, LeastNatural
<1>8. J = m..l
  <2>1. m \in 1..l BY <1>7
  <2>2. ASSUME NEW i \in m..l PROVE i \in J
    <3>1. i \in 1..l /\ m <= i BY <1>2, <2>1
    <3>2. QED BY <1>6, <3>1
  <2>3. ASSUME NEW i \in J PROVE i \in m..l BY <1>2, <1>7, <2>1
  <2>4. QED BY <2>2, <2>3
<1>9. Cardinality(Q) = l - m + 1
  <2> DEFINE f == [q \in Q |-> Len(q)]
  <2>1. f \in Bijection(Q, J)
    <3>1. f \in [Q -> J] BY <1>4
    <3>2. \A q, r \in Q : f[q] = f[r] => q = r BY <1>4
    <3>3. \A i \in J : \E q \in Q : f[q] = i
      <4>1. TAKE i \in J
      <4>2. a(i) \in Q /\ Len(a(i)) = i BY <1>3
      <4>3. QED BY <4>2
    <3> HIDE DEF f, Q, J
    <3>4. QED BY <3>1, <3>2, <3>3 DEF Bijection, Injection, Surjection, IsInjective
  <2>2. m \in Nat /\ l \in Nat /\ m <= l /\ m >= 1 BY <1>2, <1>7
  <2>3. IsFiniteSet(J) /\ Cardinality(J) = l - m + 1
    <3>1. m \in Int /\ l \in Int /\ ~(m > l) BY <2>2
    <3> HIDE DEF J, l
    <3>2. QED BY <1>8, <3>1, FS_Interval
  <2> HIDE DEF f, J, Q
  <2>4. Cardinality(Q) = Cardinality(J) BY <2>1, <2>3, FS_Injection DEF Bijection
  <2>5. QED BY <2>3, <2>4
<1>10. NodeLen(t, n) = l - m + 1 BY <1>9 DEF NodeLen
<1>11. m \in 1..l BY <1>7
<1>12. \A i \in 1..l : t.span[a(i)] = n <=> i >= m
  <2>1. TAKE i \in 1..l
  <2>2. t.span[a(i)] = n <=> i \in J OBVIOUS
  <2> HIDE DEF J
  <2>3. QED BY <1>2, <1>8, <1>11, <2>2
<1>13. \A i \in 1..l : i >= m <=> i > l - (l - m + 1) BY <1>2, <1>11
<1>14. l - m + 1 \in Nat /\ l - m + 1 <= l BY <1>2, <1>11
<1>15. QED BY <1>2, <1>3, <1>4, <1>10, <1>12, <1>13, <1>14

(* The pages of a node are those of the keys that end at it, each once.    *)
LEMMA PagesOfNode ==
  ASSUME NEW B, NEW t, WellShaped(t, B), NEW n \in Nodes(t), NEW P,
         t.page \in [Covered(t) -> P]
  PROVE  /\ NodePages(t, n) \in Seq(P)
         /\ ToSet(NodePages(t, n)) = {t.page[q] : q \in {x \in Covered(t) : t.span[x] = n}}
         /\ IsInjective(t.page) => IsInjective(NodePages(t, n))
<1> DEFINE k == NodeLen(t, n)
           l == Len(n)
           f == NodePages(t, n)
<1>1. /\ k \in Nat /\ k <= l /\ l \in Nat
      /\ \A i \in 1..l : SubSeq(n, 1, i) \in Covered(t) /\ (t.span[SubSeq(n, 1, i)] = n <=> i > l - k)
      /\ \A q \in Covered(t) : t.span[q] = n => Len(q) \in 1..l /\ q = SubSeq(n, 1, Len(q))
  BY NodeKeys
<1>2. n \in Seq(B) BY DEF WellShaped, Tree
<1>3. DOMAIN f = 1..k /\ \A i \in 1..k : f[i] = t.page[SubSeq(n, 1, l - k + i)]
  BY DEF NodePages
<1>4. \A i \in 1..l : Len(SubSeq(n, 1, i)) = i BY <1>2, FirstPart
<1> HIDE DEF k, l
<1>5. \A i \in 1..k : l - k + i \in 1..l /\ l - k + i > l - k BY <1>1
<1>6. \A i \in 1..k : f[i] \in P BY <1>1, <1>3, <1>5
<1>7. f \in Seq(P)
  <2>1. f = [i \in 1..k |-> t.page[SubSeq(n, 1, l - k + i)]] BY DEF NodePages, k, l
  <2> HIDE DEF f
  <2>2. f \in [1..k -> P] BY <1>3, <1>6, <2>1
  <2>3. QED BY <1>1, <2>2, SeqDef
<1> HIDE DEF f
<1>8. ToSet(f) = {t.page[q] : q \in {x \in Covered(t) : t.span[x] = n}}
  <2>1. ASSUME NEW i \in 1..k
        PROVE  f[i] \in {t.page[q] : q \in {x \in Covered(t) : t.span[x] = n}}
    <3>1. SubSeq(n, 1, l - k + i) \in Covered(t) /\ t.span[SubSeq(n, 1, l - k + i)] = n
      BY <1>1, <1>5
    <3>2. QED BY <1>3, <3>1
  <2>2. ASSUME NEW q \in Covered(t), t.span[q] = n PROVE t.page[q] \in ToSet(f)
    <3> DEFINE i == Len(q) - (l - k)
    <3>1. Len(q) \in 1..l /\ q = SubSeq(n, 1, Len(q)) BY <1>1, <2>2
    <3>2. Len(q) > l - k BY <1>1, <2>2, <3>1
    <3>3. i \in 1..k /\ l - k + i = Len(q) BY <1>1, <3>1, <3>2
    <3> HIDE DEF i
    <3>4. f[i] = t.page[q] BY <1>3, <3>1, <3>3
    <3>5. QED BY <1>3, <3>3, <3>4 DEF ToSet
  <2>3. QED BY <1>3, <2>1, <2>2 DEF ToSet
<1>9. ASSUME IsInjective(t.page) PROVE IsInjective(f)
  <2>1. ASSUME NEW i \in 1..k, NEW j \in 1..k, f[i] = f[j] PROVE i = j
    <3> DEFINE p == SubSeq(n, 1, l - k + i)
               q == SubSeq(n, 1, l - k + j)
    <3>1. p \in Covered(t) /\ q \in Covered(t) /\ t.page[p] = t.page[q] BY <1>1, <1>3, <1>5, <2>1
    <3>2. Len(p) = l - k + i /\ Len(q) = l - k + j BY <1>4, <1>5
    <3> HIDE DEF p, q
    <3>3. p = q BY <1>9, <3>1 DEF IsInjective, Covered
    <3>4. QED BY <1>1, <3>2, <3>3
  <2>2. QED BY <1>3, <2>1 DEF IsInjective
<1>10. QED BY <1>7, <1>8, <1>9 DEF f

(* The pages of a tree form a function on what it covers.                  *)
LEMMA InsertPageType ==
  ASSUME NEW B, NEW t, WellShaped(t, B), NEW key \in Seq(B), NEW row,
         t.page = [q \in Covered(t) |-> t.page[q]]
  PROVE  LET u == Insert(t, key, row) IN u.page = [q \in Covered(u) |-> u.page[q]]
<1> DEFINE w == Walk(t, key)
           u == Insert(t, key, row)
           new == {q \in Prefixes(key) : q # <<>> /\ q \notin Covered(w)}
           pages == [q \in Covered(w) \cup new |-> IF q \in new THEN row[Len(q)] ELSE w.page[q]]
<1>1. WellShaped(w, B) /\ w.page = t.page BY WalkShape
<1>2. u = IF Matched(t, key) = key THEN w ELSE AddLeaf(w, key, row) BY DEF Insert
<1>3. CASE Matched(t, key) = key BY <1>1, <1>2, <1>3 DEF Covered
<1>4. CASE Matched(t, key) # key
  <2>1. u.page = pages BY <1>1, <1>2, <1>4 DEF AddLeaf, WellShaped, Tree, TreeRecord
  <2> HIDE DEF u, w, new
  <2>2. u.page = [q \in DOMAIN u.page |-> u.page[q]] BY <2>1
  <2>3. QED BY <2>2 DEF Covered, u
<1>5. QED BY <1>3, <1>4

----------------------------------------------------------------------------
(* Sums over a set, as the community modules define them.                  *)

(* What a fold over the subsets of S computes.                             *)
ChosenFirst(h, v, S) ==
  h = [s \in SUBSET S |->
         IF s = {} THEN 0 ELSE v[CHOOSE x \in s : TRUE] + h[s \ {CHOOSE x \in s : TRUE}]]

(* g adds v up over the subsets of S, whichever element comes first.       *)
Summing(g, v, S) ==
  /\ g = [s \in SUBSET S |-> g[s]]
  /\ g[{}] = 0
  /\ \A s \in SUBSET S : \A x \in s : g[s] = v[x] + g[s \ {x}]

(* The fold is the sum: by the least number of elements of a set on which  *)
(* they would differ.                                                      *)
LEMMA FoldIsSum ==
  ASSUME NEW S, IsFiniteSet(S), NEW v, NEW g, Summing(g, v, S)
  PROVE  /\ ChosenFirst(g, v, S)
         /\ \A h : ChosenFirst(h, v, S) => h[S] = g[S]
<1> DEFINE first(s) == CHOOSE x \in s : TRUE
<1>1. \A s \in SUBSET S : s # {} => first(s) \in s OBVIOUS
<1> HIDE DEF first
<1>2. \A s \in SUBSET S : g[s] = IF s = {} THEN 0 ELSE v[first(s)] + g[s \ {first(s)}]
  BY <1>1 DEF Summing
<1>3. g = [s \in SUBSET S |-> IF s = {} THEN 0 ELSE v[first(s)] + g[s \ {first(s)}]]
  BY <1>2 DEF Summing
<1>4. ASSUME NEW h, ChosenFirst(h, v, S) PROVE h[S] = g[S]
  <2>1. h = [s \in SUBSET S |-> IF s = {} THEN 0 ELSE v[first(s)] + h[s \ {first(s)}]]
    BY <1>4 DEF ChosenFirst, first
  <2>2. \A s \in SUBSET S : h[s] = IF s = {} THEN 0 ELSE v[first(s)] + h[s \ {first(s)}]
    <3> DEFINE e == [s \in SUBSET S |-> IF s = {} THEN 0 ELSE v[first(s)] + h[s \ {first(s)}]]
    <3>1. TAKE s \in SUBSET S
    <3>2. h[s] = e[s] BY <2>1
    <3>3. QED BY <3>2
  <2> DEFINE Bad == {s \in SUBSET S : h[s] # g[s]}
             K == {Cardinality(s) : s \in Bad}
  <2> SUFFICES ASSUME Bad # {} PROVE FALSE OBVIOUS
  <2>3. \A s \in SUBSET S : IsFiniteSet(s) /\ Cardinality(s) \in Nat
    BY FS_Subset, FS_CardinalityType
  <2>4. K \in SUBSET Nat /\ K # {} BY <2>3
  <2>5. PICK m \in K : \A k \in K : m <= k
    <3> HIDE DEF K
    <3>1. QED BY <2>4, LeastNatural
  <2>6. PICK s \in Bad : m = Cardinality(s) OBVIOUS
  <2>7. s # {} BY <2>2, <2>6 DEF Summing
  <2>8. first(s) \in s /\ s \ {first(s)} \in SUBSET S BY <1>1, <2>7
  <2>9. Cardinality(s \ {first(s)}) = m - 1 BY <2>3, <2>6, <2>8, FS_RemoveElement
  <2>10. m \in Nat BY <2>4
  <2>11. s \ {first(s)} \notin Bad
    <3> HIDE DEF Bad, K
    <3>1. s \ {first(s)} \in Bad => m <= m - 1 BY <2>5, <2>9 DEF K
    <3>2. QED BY <2>10, <3>1
  <2>12. h[s \ {first(s)}] = g[s \ {first(s)}] BY <2>8, <2>11
  <2>13. QED BY <1>2, <2>2, <2>7, <2>12
<1>5. ChosenFirst(g, v, S) BY <1>3 DEF ChosenFirst, first
<1>6. QED BY <1>4, <1>5

----------------------------------------------------------------------------
(* The sizes of the tree.                                                  *)

(* The cached keys that end at the nodes of S.                             *)
KeysAt(t, S) == {q \in Covered(t) : t.span[q] \in S}

(* The lengths of some nodes add up to the number of keys that end there.  *)
LEMMA PagesInCount ==
  ASSUME NEW t, IsFiniteSet(Covered(t)), NEW S, IsFiniteSet(S)
  PROVE  PagesIn(t, S) = Cardinality(KeysAt(t, S))
<1> DEFINE v == [n \in S |-> NodeLen(t, n)]
           g == [s \in SUBSET S |-> Cardinality(KeysAt(t, s))]
           Is(h) == h = [s \in SUBSET S |->
                           IF s = {} THEN 0
                           ELSE NodeLen(t, CHOOSE x \in s : TRUE) + h[s \ {CHOOSE x \in s : TRUE}]]
           i == CHOOSE h : Is(h)
<1>1. \A s : KeysAt(t, s) \in SUBSET Covered(t) BY DEF KeysAt
<1>2. \A s : IsFiniteSet(KeysAt(t, s)) /\ Cardinality(KeysAt(t, s)) \in Nat
  BY <1>1, FS_Subset, FS_CardinalityType
<1>3. Summing(g, v, S)
  <2>1. g[{}] = 0
    <3>1. KeysAt(t, {}) = {} BY DEF KeysAt
    <3>2. QED BY <3>1, FS_EmptySet
  <2>2. ASSUME NEW s \in SUBSET S, NEW x \in s PROVE g[s] = v[x] + g[s \ {x}]
    <3> DEFINE a == KeysAt(t, {x})
               b == KeysAt(t, s \ {x})
    <3>1. NodeLen(t, x) = Cardinality(a)
      <4>1. {q \in Covered(t) : t.span[q] = x} = a BY DEF KeysAt
      <4>2. QED BY <4>1 DEF NodeLen
    <3>2. KeysAt(t, s) = a \cup b /\ a \cap b = {} BY DEF KeysAt
    <3>3. IsFiniteSet(a) /\ IsFiniteSet(b) /\ Cardinality(a) \in Nat /\ Cardinality(b) \in Nat
      BY <1>2
    <3> HIDE DEF a, b
    <3>4. Cardinality(a \cup b) = Cardinality(a) + Cardinality(b)
      <4>1. Cardinality(a \cup b) = Cardinality(a) + Cardinality(b) - Cardinality(a \cap b)
        BY <3>3, FS_Union
      <4>2. Cardinality(a \cap b) = 0 BY <3>2, FS_EmptySet
      <4>3. QED BY <3>3, <4>1, <4>2
    <3>5. v[x] = Cardinality(a) BY <3>1
    <3>6. g[s] = Cardinality(a \cup b) /\ g[s \ {x}] = Cardinality(b) BY <3>2 DEF b
    <3>7. QED BY <3>4, <3>5, <3>6
  <2> HIDE DEF v
  <2>3. QED BY <2>1, <2>2 DEF Summing
<1>4. ASSUME NEW h PROVE ChosenFirst(h, v, S) <=> Is(h)
  <2>1. \A s \in SUBSET S : s # {} =>
          v[CHOOSE x \in s : TRUE] = NodeLen(t, CHOOSE x \in s : TRUE)
    OBVIOUS
  <2> HIDE DEF v
  <2>2. [s \in SUBSET S |->
           IF s = {} THEN 0 ELSE v[CHOOSE x \in s : TRUE] + h[s \ {CHOOSE x \in s : TRUE}]]
        = [s \in SUBSET S |->
             IF s = {} THEN 0
             ELSE NodeLen(t, CHOOSE x \in s : TRUE) + h[s \ {CHOOSE x \in s : TRUE}]]
    BY <2>1
  <2>3. QED BY <2>2 DEF ChosenFirst
<1>5. PagesIn(t, S) = i[S] BY Zenon DEF PagesIn, MapThenSumSet, MapThenFoldSet
<1>6. Is(i)
  <2> HIDE DEF g, v
  <2>1. ChosenFirst(g, v, S) BY <1>3, FoldIsSum
  <2>2. \E h : Is(h)
    <3> HIDE DEF Is
    <3>1. Is(g) BY <1>4, <2>1
    <3>2. QED BY <3>1
  <2>3. QED BY <2>2, Zenon
<1>7. i[S] = g[S]
  <2> HIDE DEF i, g, v, Is
  <2>1. ChosenFirst(i, v, S) BY <1>4, <1>6
  <2>2. QED BY <1>3, <2>1, FoldIsSum
<1> HIDE DEF i
<1>8. QED BY <1>5, <1>7

(* The cached keys under nodes nobody holds, and those under held ones.    *)
FreeKeys(t) == {q \in Covered(t) : t.ref[t.span[q]] = 0}
HeldKeys(t) == {q \in Covered(t) : t.ref[t.span[q]] > 0}

(* The counters of a tree are what a walk over it would count.             *)
Sized(t) ==
  /\ IsFiniteSet(Covered(t))
  /\ \A n \in Nodes(t) : t.ref[n] \in Nat
  /\ t.evictable = Cardinality(FreeKeys(t))
  /\ t.protected = Cardinality(HeldKeys(t))

LEMMA SizedByWalk ==
  ASSUME NEW B, NEW t, WellShaped(t, B), Sized(t)
  PROVE  /\ t.evictable = PagesIn(t, {n \in Nodes(t) : t.ref[n] = 0})
         /\ t.protected = PagesIn(t, {n \in Nodes(t) : t.ref[n] > 0})
<1> DEFINE F == {n \in Nodes(t) : t.ref[n] = 0}
           H == {n \in Nodes(t) : t.ref[n] > 0}
<1>1. IsFiniteSet(Covered(t)) /\ Nodes(t) \subseteq Covered(t)
      /\ \A q \in Covered(t) : t.span[q] \in Nodes(t)
  BY DEF WellShaped, Tree, Sized
<1>2. F \in SUBSET Covered(t) /\ H \in SUBSET Covered(t) BY <1>1
<1>3. IsFiniteSet(F) /\ IsFiniteSet(H)
  <2> HIDE DEF F, H
  <2>1. QED BY <1>1, <1>2, FS_Subset
<1>4. KeysAt(t, F) = FreeKeys(t) /\ KeysAt(t, H) = HeldKeys(t)
  BY <1>1 DEF KeysAt, FreeKeys, HeldKeys
<1> HIDE DEF F, H
<1>5. PagesIn(t, F) = Cardinality(KeysAt(t, F)) /\ PagesIn(t, H) = Cardinality(KeysAt(t, H))
  BY <1>1, <1>3, PagesInCount
<1>6. QED BY <1>4, <1>5 DEF Sized, F, H

(* Operations under which every cached key stays as free or held as it is  *)
(* keep the sizes.                                                         *)
LEMMA SameSizes ==
  ASSUME NEW B, NEW t, WellShaped(t, B), Sized(t), NEW u, Covered(u) = Covered(t),
         u.evictable = t.evictable, u.protected = t.protected,
         \A n \in Nodes(u) : u.ref[n] \in Nat,
         \A q \in Covered(t) : u.ref[u.span[q]] = t.ref[t.span[q]]
  PROVE  Sized(u)
<1>1. FreeKeys(u) = FreeKeys(t) /\ HeldKeys(u) = HeldKeys(t) BY DEF FreeKeys, HeldKeys
<1>2. QED BY <1>1 DEF Sized

LEMMA TouchSized ==
  ASSUME NEW B, NEW t, WellShaped(t, B), Sized(t), NEW S
  PROVE  Sized(Touch(t, S)) /\ Touch(t, S).evictable = t.evictable
<1> DEFINE u == Touch(t, S)
<1>1. /\ u.ref = t.ref /\ u.span = t.span /\ u.page = t.page
      /\ u.evictable = t.evictable /\ u.protected = t.protected
  BY DEF Touch, WellShaped, Tree, TreeRecord
<1> HIDE DEF u
<1>2. QED BY <1>1, SameSizes DEF Sized, Nodes, Covered, u

LEMMA SplitSized ==
  ASSUME NEW B, NEW t, WellShaped(t, B), Sized(t), NEW p \in Covered(t), p \notin Nodes(t)
  PROVE  Sized(SplitAt(t, p)) /\ SplitAt(t, p).evictable = t.evictable
<1> DEFINE u == SplitAt(t, p)
           s == t.span[p]
           r == [n \in Nodes(t) \cup {p} |-> IF n = p THEN t.ref[s] ELSE t.ref[n]]
           stamps == [n \in Nodes(t) \cup {p} |-> IF n = p THEN t.ts[s] ELSE t.ts[n]]
           ends == [q \in DOMAIN t.span |->
                      IF t.span[q] = s /\ IsPrefix(q, p) THEN p ELSE t.span[q]]
<1>1. u = [t EXCEPT !.ref = r, !.ts = stamps, !.span = ends] BY DEF SplitAt
<1>2. TreeRecord(t) BY DEF WellShaped, Tree
<1> HIDE DEF u, r, stamps, ends
<1>3. /\ u.page = t.page /\ u.ref = r /\ u.span = ends
      /\ u.evictable = t.evictable /\ u.protected = t.protected
  BY <1>1, <1>2 DEF TreeRecord
<1>4. /\ DOMAIN t.span = Covered(t) /\ Nodes(t) \subseteq Covered(t)
      /\ \A q \in Covered(t) : t.span[q] \in Nodes(t)
  BY DEF WellShaped, Tree
<1>5. Nodes(u) = Nodes(t) \cup {p} /\ Covered(u) = Covered(t) BY <1>3 DEF Nodes, Covered, r
<1>6. \A n \in Nodes(u) : u.ref[n] \in Nat BY <1>3, <1>4, <1>5 DEF Sized, r
<1>7. \A q \in Covered(t) : u.ref[u.span[q]] = t.ref[t.span[q]]
  <2>1. TAKE q \in Covered(t)
  <2>2. u.span[q] = IF t.span[q] = s /\ IsPrefix(q, p) THEN p ELSE t.span[q]
    BY <1>3, <1>4 DEF ends
  <2>3. u.ref[p] = t.ref[s] /\ \A n \in Nodes(t) : u.ref[n] = t.ref[n]
    BY <1>3 DEF r
  <2>4. t.span[q] \in Nodes(t) BY <1>4
  <2> HIDE DEF s
  <2>5. QED BY <2>2, <2>3, <2>4
<1>8. Sized(u) BY <1>3, <1>5, <1>6, <1>7, SameSizes
<1>9. QED BY <1>3, <1>8 DEF u

(* A walk changes no size: the halves of a split node are as held as it.   *)
LEMMA WalkSized ==
  ASSUME NEW B, NEW t, WellShaped(t, B), Sized(t), NEW key \in Seq(B)
  PROVE  Sized(Walk(t, key)) /\ Walk(t, key).evictable = t.evictable
<1> DEFINE p == Matched(t, key)
           u == Touch(t, PathTo(t, p))
<1>1. /\ WellShaped(u, B) /\ Sized(u) /\ u.ref = t.ref /\ u.page = t.page
      /\ u.evictable = t.evictable
  BY TouchShape, TouchSized
<1>2. p \in Covered(t) \cup {<<>>} BY MatchedIsLongest
<1>3. Nodes(u) = Nodes(t) /\ Covered(u) = Covered(t) BY <1>1 DEF Nodes, Covered
<1>4. Walk(t, key) = IF p = <<>> \/ p \in Nodes(t) THEN u ELSE SplitAt(u, p) BY DEF Walk
<1> HIDE DEF p, u
<1>5. CASE p = <<>> \/ p \in Nodes(t) BY <1>1, <1>4, <1>5
<1>6. CASE ~(p = <<>> \/ p \in Nodes(t))
  <2>1. p \in Covered(u) /\ p \notin Nodes(u) BY <1>2, <1>3, <1>6
  <2>2. Sized(SplitAt(u, p)) /\ SplitAt(u, p).evictable = u.evictable BY <1>1, <2>1, SplitSized
  <2>3. QED BY <1>1, <1>4, <1>6, <2>2
<1>7. QED BY <1>5, <1>6

(* Locking moves the pages it makes held from one counter to the other.    *)
LEMMA LockSized ==
  ASSUME NEW B, NEW t, WellShaped(t, B), Sized(t), NEW h
  PROVE  Sized(LockHandle(t, h))
<1> DEFINE u == LockHandle(t, h)
           path == PathTo(t, h)
           Z == {n \in path : t.ref[n] = 0}
           M == KeysAt(t, Z)
           r == [n \in Nodes(t) |-> IF n \in path THEN t.ref[n] + 1 ELSE t.ref[n]]
           moved == PagesIn(t, Z)
           e == t.evictable - moved
           p == t.protected + moved
<1>1. u = [t EXCEPT !.ref = r, !.evictable = e, !.protected = p] BY DEF LockHandle
<1>2. TreeRecord(t) BY DEF WellShaped, Tree
<1>3. path \subseteq Nodes(t) BY DEF PathTo
<1> HIDE DEF u, r, e, p, path
<1>4. /\ u.ref = r /\ u.page = t.page /\ u.span = t.span /\ u.evictable = e /\ u.protected = p
  BY <1>1, <1>2 DEF TreeRecord
<1>5. /\ IsFiniteSet(Covered(t)) /\ Nodes(t) \subseteq Covered(t)
      /\ \A q \in Covered(t) : t.span[q] \in Nodes(t)
      /\ \A n \in Nodes(t) : t.ref[n] \in Nat
  BY DEF WellShaped, Tree, Sized
<1>6. moved = Cardinality(M)
  <2>1. Z \in SUBSET Covered(t) BY <1>3, <1>5
  <2> HIDE DEF Z
  <2>2. QED BY <1>5, <2>1, FS_Subset, PagesInCount
<1> HIDE DEF moved
<1>7. Covered(u) = Covered(t) /\ Nodes(u) = Nodes(t) BY <1>4 DEF Covered, Nodes, r
<1>8. \A n \in Nodes(t) : /\ u.ref[n] = IF n \in path THEN t.ref[n] + 1 ELSE t.ref[n]
                          /\ u.ref[n] \in Nat
  BY <1>4, <1>5 DEF r
<1>9. FreeKeys(u) = FreeKeys(t) \ M /\ M \subseteq FreeKeys(t)
  BY <1>4, <1>5, <1>7, <1>8 DEF FreeKeys, KeysAt
<1>10. HeldKeys(u) = HeldKeys(t) \cup M /\ HeldKeys(t) \cap M = {}
  BY <1>4, <1>5, <1>7, <1>8 DEF HeldKeys, KeysAt
<1>11. FreeKeys(t) \in SUBSET Covered(t) /\ HeldKeys(t) \in SUBSET Covered(t)
       /\ M \in SUBSET Covered(t)
  BY DEF FreeKeys, HeldKeys, KeysAt
<1> HIDE DEF M
<1>12. /\ IsFiniteSet(FreeKeys(t)) /\ IsFiniteSet(HeldKeys(t)) /\ IsFiniteSet(M)
       /\ Cardinality(HeldKeys(t)) \in Nat /\ Cardinality(M) \in Nat
  BY <1>5, <1>11, FS_Subset, FS_CardinalityType
<1>13. Cardinality(FreeKeys(u)) = Cardinality(FreeKeys(t)) - Cardinality(M)
  <2>1. FreeKeys(t) \cap M = M BY <1>9
  <2>2. QED BY <1>9, <1>12, <2>1, FS_Difference
<1>14. Cardinality(HeldKeys(u)) = Cardinality(HeldKeys(t)) + Cardinality(M)
  <2>1. Cardinality(HeldKeys(t) \cup M)
        = Cardinality(HeldKeys(t)) + Cardinality(M) - Cardinality(HeldKeys(t) \cap M)
    BY <1>12, FS_Union
  <2>2. Cardinality(HeldKeys(t) \cap M) = 0 BY <1>10, FS_EmptySet
  <2>3. QED BY <1>10, <1>12, <2>1, <2>2
<1>15. QED BY <1>4, <1>5, <1>6, <1>7, <1>8, <1>13, <1>14 DEF Sized, e, p, u

(* Unlocking moves them back; the assert keeps the counts from going       *)
(* below zero.                                                             *)
LEMMA UnlockSized ==
  ASSUME NEW B, NEW t, WellShaped(t, B), Sized(t), NEW h, UnlockAsserts(t, h)
  PROVE  Sized(UnlockHandle(t, h))
<1> DEFINE u == UnlockHandle(t, h)
           path == PathTo(t, h)
           Z == {n \in path : t.ref[n] = 1}
           M == KeysAt(t, Z)
           r == [n \in Nodes(t) |-> IF n \in path THEN t.ref[n] - 1 ELSE t.ref[n]]
           moved == PagesIn(t, Z)
           e == t.evictable + moved
           p == t.protected - moved
<1>1. u = [t EXCEPT !.ref = r, !.evictable = e, !.protected = p] BY DEF UnlockHandle
<1>2. TreeRecord(t) BY DEF WellShaped, Tree
<1>3. path \subseteq Nodes(t) /\ \A n \in path : t.ref[n] > 0 BY DEF PathTo, UnlockAsserts
<1> HIDE DEF u, r, e, p, path
<1>4. /\ u.ref = r /\ u.page = t.page /\ u.span = t.span /\ u.evictable = e /\ u.protected = p
  BY <1>1, <1>2 DEF TreeRecord
<1>5. /\ IsFiniteSet(Covered(t)) /\ Nodes(t) \subseteq Covered(t)
      /\ \A q \in Covered(t) : t.span[q] \in Nodes(t)
      /\ \A n \in Nodes(t) : t.ref[n] \in Nat
  BY DEF WellShaped, Tree, Sized
<1>6. moved = Cardinality(M)
  <2>1. Z \in SUBSET Covered(t) BY <1>3, <1>5
  <2> HIDE DEF Z
  <2>2. QED BY <1>5, <2>1, FS_Subset, PagesInCount
<1> HIDE DEF moved
<1>7. Covered(u) = Covered(t) /\ Nodes(u) = Nodes(t) BY <1>4 DEF Covered, Nodes, r
<1>8. \A n \in Nodes(t) : /\ u.ref[n] = IF n \in path THEN t.ref[n] - 1 ELSE t.ref[n]
                          /\ u.ref[n] \in Nat
  BY <1>3, <1>4, <1>5 DEF r
<1>9. FreeKeys(u) = FreeKeys(t) \cup M /\ FreeKeys(t) \cap M = {}
  BY <1>3, <1>4, <1>5, <1>7, <1>8 DEF FreeKeys, KeysAt
<1>10. HeldKeys(u) = HeldKeys(t) \ M /\ M \subseteq HeldKeys(t)
  BY <1>3, <1>4, <1>5, <1>7, <1>8 DEF HeldKeys, KeysAt
<1>11. FreeKeys(t) \in SUBSET Covered(t) /\ HeldKeys(t) \in SUBSET Covered(t)
       /\ M \in SUBSET Covered(t)
  BY DEF FreeKeys, HeldKeys, KeysAt
<1> HIDE DEF M
<1>12. /\ IsFiniteSet(FreeKeys(t)) /\ IsFiniteSet(HeldKeys(t)) /\ IsFiniteSet(M)
       /\ Cardinality(FreeKeys(t)) \in Nat /\ Cardinality(M) \in Nat
  BY <1>5, <1>11, FS_Subset, FS_CardinalityType
<1>13. Cardinality(HeldKeys(u)) = Cardinality(HeldKeys(t)) - Cardinality(M)
  <2>1. HeldKeys(t) \cap M = M BY <1>10
  <2>2. QED BY <1>10, <1>12, <2>1, FS_Difference
<1>14. Cardinality(FreeKeys(u)) = Cardinality(FreeKeys(t)) + Cardinality(M)
  <2>1. Cardinality(FreeKeys(t) \cup M)
        = Cardinality(FreeKeys(t)) + Cardinality(M) - Cardinality(FreeKeys(t) \cap M)
    BY <1>12, FS_Union
  <2>2. Cardinality(FreeKeys(t) \cap M) = 0 BY <1>9, FS_EmptySet
  <2>3. QED BY <1>9, <1>12, <2>1, <2>2
<1>15. QED BY <1>4, <1>5, <1>6, <1>7, <1>8, <1>13, <1>14 DEF Sized, e, p, u

(* The part of a key that is not cached: one prefix per length behind the  *)
(* match.                                                                  *)
LEMMA NewKeys ==
  ASSUME NEW B, NEW t, WellShaped(t, B), NEW key \in Seq(B)
  PROVE  LET new == {q \in Prefixes(key) : q # <<>> /\ q \notin Covered(t)}
         IN  IsFiniteSet(new) /\ Cardinality(new) = Len(key) - MatchLen(t, key)
<1> DEFINE new == {q \in Prefixes(key) : q # <<>> /\ q \notin Covered(t)}
           m == MatchLen(t, key)
           l == Len(key)
           f == [i \in (m + 1)..l |-> SubSeq(key, 1, i)]
<1>1. /\ m \in 0..l /\ l \in Nat
      /\ \A i \in 1..l : SubSeq(key, 1, i) \in Covered(t) <=> i <= m
  BY MatchedIsCached
<1>2. \A i \in 0..l : Len(SubSeq(key, 1, i)) = i BY FirstPart
<1> HIDE DEF m, l
<1>3. \A i \in (m + 1)..l : i \in 1..l /\ i \in 0..l /\ ~(i <= m) /\ i # 0 BY <1>1
<1>4. \A i \in (m + 1)..l : f[i] \in new
  <2>1. TAKE i \in (m + 1)..l
  <2>2. SubSeq(key, 1, i) \notin Covered(t) /\ Len(SubSeq(key, 1, i)) # 0 BY <1>1, <1>2, <1>3
  <2>3. SubSeq(key, 1, i) # <<>>
    <3> DEFINE a == SubSeq(key, 1, i)
    <3>1. Len(a) # 0 BY <2>2
    <3> HIDE DEF a
    <3>2. a # <<>> BY <3>1
    <3>3. QED BY <3>2 DEF a
  <2>4. SubSeq(key, 1, i) \in Prefixes(key) BY <1>3 DEF Prefixes, l
  <2>5. QED BY <2>2, <2>3, <2>4
<1>5. \A i, j \in (m + 1)..l : f[i] = f[j] => i = j BY <1>2, <1>3
<1>6. \A q \in new : \E i \in (m + 1)..l : f[i] = q
  <2>1. TAKE q \in new
  <2>2. PICK i \in 0..l : q = SubSeq(key, 1, i) BY DEF Prefixes, l
  <2>3. i # 0
    <3>1. SubSeq(key, 1, 0) = <<>> BY SubSeqEmpty
    <3>2. QED BY <2>2, <3>1
  <2>4. i \in 1..l /\ ~(i <= m) BY <1>1, <2>2, <2>3
  <2>5. i \in (m + 1)..l BY <1>1, <2>4
  <2>6. QED BY <2>2, <2>5
<1>7. f \in Bijection((m + 1)..l, new)
  <2> HIDE DEF new
  <2>1. f \in [(m + 1)..l -> new] BY <1>4
  <2> HIDE DEF f
  <2>2. QED BY <1>5, <1>6, <2>1 DEF Bijection, Injection, Surjection, IsInjective
<1>8. IsFiniteSet((m + 1)..l) /\ Cardinality((m + 1)..l) = l - m
  <2>1. m + 1 \in Int /\ l \in Int BY <1>1
  <2>2. /\ IsFiniteSet((m + 1)..l)
        /\ Cardinality((m + 1)..l) = IF m + 1 > l THEN 0 ELSE l - (m + 1) + 1
    BY <2>1, FS_Interval
  <2>3. QED BY <1>1, <2>2
<1> HIDE DEF new, f
<1>9. ExistsBijection((m + 1)..l, new) BY <1>7 DEF ExistsBijection
<1>10. IsFiniteSet(new) /\ Cardinality(new) = l - m BY <1>8, <1>9, FS_Bijection
<1>11. QED BY <1>10 DEF new, m, l

(* A new leaf is evictable at once.                                        *)
LEMMA AddLeafSized ==
  ASSUME NEW B, NEW t, WellShaped(t, B), Sized(t), NEW key \in Seq(B), NEW row,
         key # <<>>, key \notin Covered(t)
  PROVE  /\ Sized(AddLeaf(t, key, row))
         /\ AddLeaf(t, key, row).evictable = t.evictable + (Len(key) - MatchLen(t, key))
<1> DEFINE u == AddLeaf(t, key, row)
           new == {q \in Prefixes(key) : q # <<>> /\ q \notin Covered(t)}
           r == [n \in Nodes(t) \cup {key} |-> IF n = key THEN 0 ELSE t.ref[n]]
           stamps == Ranks([n \in Nodes(t) \cup {key} |->
                              IF n = key THEN Cardinality(Nodes(t)) ELSE t.ts[n]])
           ends == [q \in DOMAIN t.span \cup new |-> IF q \in new THEN key ELSE t.span[q]]
           pages == [q \in Covered(t) \cup new |-> IF q \in new THEN row[Len(q)] ELSE t.page[q]]
           e == t.evictable + Cardinality(new)
<1>1. u = [t EXCEPT !.ref = r, !.ts = stamps, !.span = ends, !.page = pages, !.evictable = e]
  BY DEF AddLeaf
<1>2. TreeRecord(t) BY DEF WellShaped, Tree
<1>3. IsFiniteSet(new) /\ Cardinality(new) = Len(key) - MatchLen(t, key) BY NewKeys
<1>4. \A q \in new : q \notin Covered(t) OBVIOUS
<1> HIDE DEF u, r, stamps, ends, pages, e, new
<1>5. /\ u.ref = r /\ u.span = ends /\ u.page = pages
      /\ u.evictable = e /\ u.protected = t.protected
  BY <1>1, <1>2 DEF TreeRecord
<1>6. /\ IsFiniteSet(Covered(t)) /\ Nodes(t) \subseteq Covered(t) /\ DOMAIN t.span = Covered(t)
      /\ \A q \in Covered(t) : t.span[q] \in Nodes(t)
      /\ \A n \in Nodes(t) : t.ref[n] \in Nat
  BY DEF WellShaped, Tree, Sized
<1>7. Covered(u) = Covered(t) \cup new /\ Nodes(u) = Nodes(t) \cup {key}
  BY <1>5 DEF Covered, Nodes, r, pages
<1>8. \A n \in Nodes(u) : u.ref[n] = (IF n = key THEN 0 ELSE t.ref[n]) /\ u.ref[n] \in Nat
  BY <1>5, <1>6, <1>7 DEF r
<1>9. \A q \in Covered(u) : u.span[q] = IF q \in new THEN key ELSE t.span[q]
  BY <1>5, <1>6, <1>7 DEF ends
<1>10. key \notin Nodes(t) BY <1>6
<1>11. \A q \in new : u.ref[u.span[q]] = 0 BY <1>7, <1>8, <1>9
<1>12. \A q \in Covered(t) : u.ref[u.span[q]] = t.ref[t.span[q]]
  BY <1>4, <1>6, <1>7, <1>8, <1>9, <1>10
<1>13. FreeKeys(u) = FreeKeys(t) \cup new /\ FreeKeys(t) \cap new = {}
  BY <1>4, <1>7, <1>11, <1>12 DEF FreeKeys
<1>14. HeldKeys(u) = HeldKeys(t) BY <1>7, <1>11, <1>12 DEF HeldKeys
<1>15. IsFiniteSet(FreeKeys(t)) /\ Cardinality(FreeKeys(t)) \in Nat /\ Cardinality(new) \in Nat
  BY <1>3, <1>6, FS_Subset, FS_CardinalityType DEF FreeKeys
<1>16. Cardinality(FreeKeys(u)) = Cardinality(FreeKeys(t)) + Cardinality(new)
  <2>1. Cardinality(FreeKeys(t) \cup new)
        = Cardinality(FreeKeys(t)) + Cardinality(new) - Cardinality(FreeKeys(t) \cap new)
    BY <1>3, <1>15, FS_Union
  <2>2. Cardinality(FreeKeys(t) \cap new) = 0 BY <1>13, FS_EmptySet
  <2>3. QED BY <1>13, <1>15, <2>1, <2>2
<1>17. IsFiniteSet(Covered(u)) BY <1>3, <1>6, <1>7, FS_Union
<1>18. Sized(u) BY <1>5, <1>8, <1>14, <1>16, <1>17 DEF Sized, e
<1>19. QED BY <1>3, <1>5, <1>18 DEF u, e

(* insert_prefix counts the part that was not cached as evictable.         *)
LEMMA InsertSized ==
  ASSUME NEW B, NEW t, WellShaped(t, B), Sized(t), NEW key \in Seq(B), NEW row
  PROVE  /\ Sized(Insert(t, key, row))
         /\ Insert(t, key, row).evictable = t.evictable + (Len(key) - MatchLen(t, key))
<1> DEFINE w == Walk(t, key)
           m == Matched(t, key)
<1>1. WellShaped(w, B) /\ w.page = t.page BY WalkShape
<1>2. Sized(w) /\ w.evictable = t.evictable BY WalkSized
<1>3. MatchLen(w, key) = MatchLen(t, key) BY <1>1 DEF MatchLen, Covered
<1>4. Insert(t, key, row) = IF m = key THEN w ELSE AddLeaf(w, key, row) BY DEF Insert
<1>5. /\ m \in Seq(B) /\ IsPrefix(m, key) /\ Len(m) = MatchLen(t, key)
      /\ MatchLen(t, key) \in 0..Len(key)
      /\ \A i \in 1..Len(key) : SubSeq(key, 1, i) \in Covered(t) => i <= MatchLen(t, key)
  BY MatchedIsLongest
<1>6. t.evictable \in Nat
  <2>1. IsFiniteSet(FreeKeys(t)) BY FS_Subset DEF Sized, FreeKeys
  <2>2. QED BY <2>1, FS_CardinalityType DEF Sized
<1> HIDE DEF w
<1>7. CASE m = key BY <1>2, <1>4, <1>5, <1>6, <1>7
<1>8. CASE m # key
  <2>1. key # <<>>
    <3>1. SUFFICES ASSUME key = <<>> PROVE FALSE OBVIOUS
    <3>2. Len(key) = 0 BY <3>1
    <3>3. Len(m) = 0 BY <1>5, <3>2
    <3> HIDE DEF m
    <3>4. m = <<>> BY <1>5, <3>3, EmptySeq
    <3>5. QED BY <1>8, <3>1, <3>4
  <2>2. key \notin Covered(w)
    <3>1. SUFFICES ASSUME key \in Covered(t) PROVE FALSE BY <1>1 DEF Covered
    <3>2. SubSeq(key, 1, Len(key)) = key /\ Len(key) \in 1..Len(key)
      BY <2>1, SubSeqFull, EmptySeq
    <3>3. Len(m) = Len(key)
      <4>1. SubSeq(key, 1, Len(key)) \in Covered(t) BY <3>1, <3>2
      <4>2. Len(key) <= MatchLen(t, key) BY <1>5, <3>2, <4>1
      <4> HIDE DEF m
      <4>3. QED BY <1>5, <4>2
    <3> HIDE DEF m
    <3>4. \A i \in 1..Len(key) : m[i] = key[i] BY <1>5, <3>3, PrefixPointwise
    <3>5. m = key BY <1>5, <3>3, <3>4, SeqEqual
    <3>6. QED BY <1>8, <3>5
  <2>3. /\ Sized(AddLeaf(w, key, row))
        /\ AddLeaf(w, key, row).evictable = w.evictable + (Len(key) - MatchLen(w, key))
    BY <1>1, <1>2, <2>1, <2>2, AddLeafSized
  <2>4. QED BY <1>2, <1>3, <1>4, <1>8, <2>3
<1>9. QED BY <1>7, <1>8

(* Evicting a leaf nobody holds takes its pages out of evictable_size.     *)
LEMMA RemoveLeafSized ==
  ASSUME NEW B, NEW t, WellShaped(t, B), Sized(t), NEW n \in FreeLeaves(t)
  PROVE  /\ Sized(RemoveLeaf(t, n))
         /\ NodeLen(t, n) \in Nat
         /\ RemoveLeaf(t, n).evictable = t.evictable - NodeLen(t, n)
<1> DEFINE u == RemoveLeaf(t, n)
           Q == {q \in Covered(t) : t.span[q] = n}
           kept == {q \in Covered(t) : t.span[q] # n}
           r == [m \in Nodes(t) \ {n} |-> t.ref[m]]
           stamps == Ranks([m \in Nodes(t) \ {n} |-> t.ts[m]])
           ends == [q \in kept |-> t.span[q]]
           pages == [q \in kept |-> t.page[q]]
           e == t.evictable - NodeLen(t, n)
<1>1. u = [t EXCEPT !.ref = r, !.ts = stamps, !.span = ends, !.page = pages, !.evictable = e]
  BY DEF RemoveLeaf
<1>2. TreeRecord(t) BY DEF WellShaped, Tree
<1> HIDE DEF u, r, stamps, ends, pages, e
<1>3. /\ u.ref = r /\ u.span = ends /\ u.page = pages
      /\ u.evictable = e /\ u.protected = t.protected
  BY <1>1, <1>2 DEF TreeRecord
<1>4. /\ IsFiniteSet(Covered(t)) /\ \A q \in Covered(t) : t.span[q] \in Nodes(t)
      /\ \A m \in Nodes(t) : t.ref[m] \in Nat
  BY DEF WellShaped, Tree, Sized
<1>5. n \in Nodes(t) /\ t.ref[n] = 0 BY DEF FreeLeaves
<1>6. /\ Nodes(u) = Nodes(t) \ {n} /\ Covered(u) = kept
      /\ \A q \in kept : u.span[q] = t.span[q]
      /\ \A m \in Nodes(t) \ {n} : u.ref[m] = t.ref[m]
  BY <1>3 DEF Nodes, Covered, r, ends, pages
<1>7. \A q \in kept : u.ref[u.span[q]] = t.ref[t.span[q]] BY <1>4, <1>6
<1>8. FreeKeys(u) = FreeKeys(t) \ Q /\ Q \subseteq FreeKeys(t)
  BY <1>5, <1>6, <1>7 DEF FreeKeys
<1>9. HeldKeys(u) = HeldKeys(t) BY <1>5, <1>6, <1>7 DEF HeldKeys
<1>10. NodeLen(t, n) = Cardinality(Q) BY DEF NodeLen
<1>11. FreeKeys(t) \in SUBSET Covered(t) /\ Q \in SUBSET Covered(t) /\ Covered(u) \in SUBSET Covered(t)
  BY <1>6 DEF FreeKeys
<1> HIDE DEF Q
<1>12. IsFiniteSet(FreeKeys(t)) /\ IsFiniteSet(Q) /\ IsFiniteSet(Covered(u)) /\ Cardinality(Q) \in Nat
  BY <1>4, <1>11, FS_Subset, FS_CardinalityType
<1>13. Cardinality(FreeKeys(u)) = Cardinality(FreeKeys(t)) - Cardinality(Q)
  <2>1. FreeKeys(t) \cap Q = Q BY <1>8
  <2>2. QED BY <1>8, <1>12, <2>1, FS_Difference
<1>14. \A m \in Nodes(u) : u.ref[m] \in Nat BY <1>4, <1>6
<1>15. Sized(u) BY <1>3, <1>9, <1>10, <1>12, <1>13, <1>14 DEF Sized, e
<1>16. QED BY <1>3, <1>10, <1>12, <1>15 DEF u, e

(* The free keys are those that no handle goes through.                    *)
LEMMA FreeByHandles ==
  ASSUME NEW B, NEW t, WellShaped(t, B), NEW R, NEW h, Counted(t, R, h), NEW q \in Covered(t)
  PROVE  /\ q \in FreeKeys(t) <=> \A c \in R : ~IsPrefix(q, h[c])
         /\ q \in HeldKeys(t) <=> \E c \in R : IsPrefix(q, h[c])
<1> DEFINE s == t.span[q]
           T == Through(s, R, h)
<1>1. /\ s \in Nodes(t) /\ s \in Seq(B) \ {<<>>} /\ IsPrefix(q, s) /\ q \in Seq(B) \ {<<>>}
      /\ Nodes(t) \subseteq Seq(B) \ {<<>>}
      /\ \A m \in Nodes(t) : IsPrefix(q, m) => IsPrefix(s, m)
  BY DEF WellShaped, Tree, Shaped
<1>2. ASSUME NEW c \in R PROVE IsPrefix(q, h[c]) <=> IsPrefix(s, h[c])
  <2> HIDE DEF s
  <2>1. CASE h[c] = <<>> BY <1>1, <2>1, RootHasNoPrefix
  <2>2. CASE h[c] \in Nodes(t)
    <3>1. h[c] \in Seq(B) BY <1>1, <2>2
    <3>2. IsPrefix(s, h[c]) => IsPrefix(q, h[c]) BY <1>1, <3>1, PrefixTransitive
    <3>3. QED BY <1>1, <2>2, <3>2
  <2>3. QED BY <2>1, <2>2 DEF Counted
<1>3. T = {c \in R : IsPrefix(q, h[c])} BY <1>2 DEF Through
<1>4. IsFiniteSet(T) BY FS_Subset DEF Counted, Through
<1>5. t.ref[s] = Cardinality(T) /\ Cardinality(T) \in Nat BY <1>1, <1>4, FS_CardinalityType DEF Counted
<1> HIDE DEF T
<1>6. t.ref[s] = 0 <=> T = {} BY <1>4, <1>5, FS_EmptySet
<1>7. t.ref[s] > 0 <=> T # {} BY <1>5, <1>6
<1>8. QED BY <1>3, <1>6, <1>7 DEF FreeKeys, HeldKeys

(* evict always finds a leaf nobody holds while evictable_size is not      *)
(* zero: the longest node below a free one.                                *)
LEMMA FreeLeafExists ==
  ASSUME NEW B, NEW t, WellShaped(t, B), Sized(t), NEW R, NEW h, Counted(t, R, h),
         t.evictable > 0
  PROVE  FreeLeaves(t) # {}
<1>1. IsFiniteSet(Covered(t)) /\ Cardinality(FreeKeys(t)) = t.evictable BY DEF Sized
<1>2. PICK q \in FreeKeys(t) : TRUE
  <2>1. FreeKeys(t) # {} BY <1>1, FS_EmptySet
  <2>2. QED BY <2>1
<1> DEFINE n == t.span[q]
           E == {m \in Nodes(t) : IsPrefix(n, m)}
           C == {k \in Nat : \E m \in E : k = Cardinality({o \in E : IsPrefix(m, o)})}
<1>3. /\ n \in Nodes(t) /\ t.ref[n] = 0 /\ Nodes(t) \subseteq Covered(t)
      /\ Nodes(t) \subseteq Seq(B)
  BY DEF FreeKeys, WellShaped, Tree
<1> HIDE DEF n
<1>4. IsFiniteSet(E)
  <2>1. E \in SUBSET Covered(t) BY <1>3
  <2> HIDE DEF E
  <2>2. QED BY <1>1, <2>1, FS_Subset
<1>5. n \in E BY <1>3, PrefixReflexive
<1> DEFINE below(m) == {o \in E : IsPrefix(m, o)}
<1>6. \A m : IsFiniteSet(below(m)) /\ Cardinality(below(m)) \in Nat
  <2>1. TAKE m
  <2>2. below(m) \in SUBSET E OBVIOUS
  <2> HIDE DEF below, E
  <2>3. QED BY <1>4, <2>2, FS_Subset, FS_CardinalityType
<1>7. PICK m \in E : \A o \in E : Cardinality(below(m)) <= Cardinality(below(o))
  <2>1. C \in SUBSET Nat /\ C # {} BY <1>5, <1>6
  <2>2. \A m \in E : Cardinality(below(m)) \in C BY <1>6
  <2>3. \A k \in C : \E m \in E : k = Cardinality(below(m)) OBVIOUS
  <2> HIDE DEF C, E, below
  <2>4. PICK k \in C : \A l \in C : k <= l BY <2>1, LeastNatural
  <2>5. QED BY <2>2, <2>3, <2>4
<1>8. m \in Nodes(t) /\ m \in Seq(B) /\ IsPrefix(n, m) BY <1>3
<1>9. IsLeaf(t, m)
  <2> SUFFICES ASSUME NEW o \in Nodes(t), IsPrefix(m, o), o # m PROVE FALSE BY DEF IsLeaf
  <2>1. o \in Seq(B) /\ n \in Seq(B) BY <1>3
  <2>2. o \in E BY <1>8, <2>1, PrefixTransitive
  <2>3. \A x \in E : x \in Seq(B) BY <1>3
  <2>4. below(o) \subseteq below(m) BY <1>8, <2>1, <2>3, PrefixTransitive
  <2>5. m \in below(m) BY <1>8, PrefixReflexive
  <2>6. m \notin below(o) BY <1>8, <2>1, PrefixAntisymmetric
  <2>7. Cardinality(below(m)) <= Cardinality(below(o)) BY <1>7, <2>2
  <2> HIDE DEF below
  <2>8. Cardinality(below(o)) <= Cardinality(below(m))
        /\ (Cardinality(below(m)) = Cardinality(below(o)) => below(m) = below(o))
    BY <1>6, <2>4, FS_Subset
  <2>9. below(m) = below(o) BY <1>6, <2>7, <2>8
  <2>10. QED BY <2>5, <2>6, <2>9
<1>10. t.ref[m] = 0
  <2>1. IsFiniteSet(Through(n, R, h)) BY FS_Subset DEF Counted, Through
  <2>2. Through(n, R, h) = {} BY <1>3, <2>1, FS_EmptySet DEF Counted
  <2>3. ASSUME NEW c \in R, IsPrefix(m, h[c]) PROVE FALSE
    <3>1. m # <<>> /\ h[c] \in Nodes(t) \cup {<<>>} BY <1>8 DEF Counted, WellShaped, Tree
    <3>2. h[c] # <<>> BY <1>8, <2>3, <3>1, RootHasNoPrefix
    <3>3. h[c] \in Seq(B) /\ n \in Seq(B) BY <1>3, <3>1, <3>2
    <3>4. IsPrefix(n, h[c]) BY <1>8, <2>3, <3>3, PrefixTransitive
    <3>5. QED BY <2>2, <3>4 DEF Through
  <2>4. Through(m, R, h) = {} BY <2>3 DEF Through
  <2>5. QED BY <1>8, <2>4, FS_EmptySet DEF Counted
<1>11. m \in FreeLeaves(t) BY <1>8, <1>9, <1>10 DEF FreeLeaves
<1>12. QED BY <1>11

----------------------------------------------------------------------------
(* The types of the fields of a tree.                                      *)
Typed(t) ==
  /\ IsFiniteSet(Covered(t))
  /\ t.ref \in [Nodes(t) -> Nat]
  /\ t.ts \in [Nodes(t) -> Nat]
  /\ t.span \in [Covered(t) -> Nodes(t)]

(* Ranks are natural numbers.                                              *)
LEMMA RanksType ==
  ASSUME NEW S, IsFiniteSet(S), NEW f, DOMAIN f = S
  PROVE  Ranks(f) \in [S -> Nat]
<1>1. ASSUME NEW n \in S
      PROVE  Cardinality({f[m] : m \in {k \in DOMAIN f : f[k] < f[n]}}) \in Nat
  <2> DEFINE D == {k \in S : f[k] < f[n]}
             V == {f[m] : m \in D}
             g == [m \in D |-> f[m]]
  <2>1. IsFiniteSet(D) BY FS_Subset
  <2>2. g \in Surjection(D, V)
    <3>1. g \in [D -> V] OBVIOUS
    <3>2. \A v \in V : \E m \in D : g[m] = v OBVIOUS
    <3> HIDE DEF g, D, V
    <3>3. QED BY <3>1, <3>2 DEF Surjection
  <2> HIDE DEF D, V, g
  <2>3. IsFiniteSet(V) BY <2>1, <2>2, FS_Surjection
  <2>4. Cardinality(V) \in Nat BY <2>3, FS_CardinalityType
  <2>5. QED BY <2>4 DEF V, D
<1>2. QED BY <1>1 DEF Ranks

LEMMA TouchTyped ==
  ASSUME NEW B, NEW t, WellShaped(t, B), Typed(t), NEW S
  PROVE  Typed(Touch(t, S))
<1> DEFINE u == Touch(t, S)
           f == [n \in Nodes(t) |-> IF n \in S THEN Cardinality(Nodes(t)) ELSE t.ts[n]]
<1>1. TreeRecord(t) /\ Nodes(t) \subseteq Covered(t) BY DEF WellShaped, Tree
<1>2. u = [t EXCEPT !.ts = Ranks(f)] BY DEF Touch
<1>3. DOMAIN f = Nodes(t) OBVIOUS
<1> HIDE DEF u, f
<1>4. u.ref = t.ref /\ u.span = t.span /\ u.page = t.page /\ u.ts = Ranks(f)
  BY <1>1, <1>2 DEF TreeRecord
<1>5. IsFiniteSet(Nodes(t)) BY <1>1, FS_Subset DEF Typed
<1>6. Ranks(f) \in [Nodes(t) -> Nat] BY <1>3, <1>5, RanksType
<1>7. QED BY <1>4, <1>6 DEF Typed, Nodes, Covered, u

LEMMA SplitTyped ==
  ASSUME NEW B, NEW t, WellShaped(t, B), Typed(t), NEW p \in Covered(t), p \notin Nodes(t)
  PROVE  Typed(SplitAt(t, p))
<1> DEFINE u == SplitAt(t, p)
           s == t.span[p]
           r == [n \in Nodes(t) \cup {p} |-> IF n = p THEN t.ref[s] ELSE t.ref[n]]
           stamps == [n \in Nodes(t) \cup {p} |-> IF n = p THEN t.ts[s] ELSE t.ts[n]]
           ends == [q \in DOMAIN t.span |->
                      IF t.span[q] = s /\ IsPrefix(q, p) THEN p ELSE t.span[q]]
<1>1. u = [t EXCEPT !.ref = r, !.ts = stamps, !.span = ends] BY DEF SplitAt
<1>2. TreeRecord(t) BY DEF WellShaped, Tree
<1> HIDE DEF u, r, stamps, ends
<1>3. u.page = t.page /\ u.ref = r /\ u.ts = stamps /\ u.span = ends
  BY <1>1, <1>2 DEF TreeRecord
<1>4. Nodes(u) = Nodes(t) \cup {p} /\ Covered(u) = Covered(t) BY <1>3 DEF Nodes, Covered, r
<1>5. s \in Nodes(t) BY DEF Typed
<1> HIDE DEF s
<1>6. r \in [Nodes(u) -> Nat] BY <1>4, <1>5 DEF r, Typed
<1>7. stamps \in [Nodes(u) -> Nat] BY <1>4, <1>5 DEF stamps, Typed
<1>8. ends \in [Covered(u) -> Nodes(u)] BY <1>4, <1>5 DEF ends, Typed
<1>9. QED BY <1>3, <1>4, <1>6, <1>7, <1>8 DEF Typed, u

LEMMA WalkTyped ==
  ASSUME NEW B, NEW t, WellShaped(t, B), Typed(t), NEW key \in Seq(B)
  PROVE  Typed(Walk(t, key))
<1> DEFINE p == Matched(t, key)
           u == Touch(t, PathTo(t, p))
<1>1. WellShaped(u, B) /\ Typed(u) /\ u.ref = t.ref /\ u.page = t.page
  BY TouchShape, TouchTyped
<1>2. p \in Covered(t) \cup {<<>>} BY MatchedIsLongest
<1>3. Nodes(u) = Nodes(t) /\ Covered(u) = Covered(t) BY <1>1 DEF Nodes, Covered
<1>4. Walk(t, key) = IF p = <<>> \/ p \in Nodes(t) THEN u ELSE SplitAt(u, p) BY DEF Walk
<1> HIDE DEF p, u
<1>5. CASE p = <<>> \/ p \in Nodes(t) BY <1>1, <1>4, <1>5
<1>6. CASE ~(p = <<>> \/ p \in Nodes(t)) BY <1>1, <1>2, <1>3, <1>4, <1>6, SplitTyped
<1>7. QED BY <1>5, <1>6

LEMMA LockTyped ==
  ASSUME NEW B, NEW t, WellShaped(t, B), Typed(t), NEW h
  PROVE  Typed(LockHandle(t, h))
<1> DEFINE u == LockHandle(t, h)
           r == [n \in Nodes(t) |-> IF n \in PathTo(t, h) THEN t.ref[n] + 1 ELSE t.ref[n]]
           moved == PagesIn(t, {n \in PathTo(t, h) : t.ref[n] = 0})
           e == t.evictable - moved
           p == t.protected + moved
<1>1. u = [t EXCEPT !.ref = r, !.evictable = e, !.protected = p] BY DEF LockHandle
<1>2. TreeRecord(t) BY DEF WellShaped, Tree
<1>3. r \in [Nodes(t) -> Nat] BY DEF Typed
<1> HIDE DEF u, r, e, p
<1>4. u.page = t.page /\ u.ref = r /\ u.ts = t.ts /\ u.span = t.span
  BY <1>1, <1>2 DEF TreeRecord
<1>5. Nodes(u) = Nodes(t) /\ Covered(u) = Covered(t) BY <1>3, <1>4 DEF Nodes, Covered
<1>6. QED BY <1>3, <1>4, <1>5 DEF Typed, u

LEMMA UnlockTyped ==
  ASSUME NEW B, NEW t, WellShaped(t, B), Typed(t), NEW h, UnlockAsserts(t, h)
  PROVE  Typed(UnlockHandle(t, h))
<1> DEFINE u == UnlockHandle(t, h)
           r == [n \in Nodes(t) |-> IF n \in PathTo(t, h) THEN t.ref[n] - 1 ELSE t.ref[n]]
           moved == PagesIn(t, {n \in PathTo(t, h) : t.ref[n] = 1})
           e == t.evictable + moved
           p == t.protected - moved
<1>1. u = [t EXCEPT !.ref = r, !.evictable = e, !.protected = p] BY DEF UnlockHandle
<1>2. TreeRecord(t) BY DEF WellShaped, Tree
<1>3. r \in [Nodes(t) -> Nat] BY DEF Typed, UnlockAsserts
<1> HIDE DEF u, r, e, p
<1>4. u.page = t.page /\ u.ref = r /\ u.ts = t.ts /\ u.span = t.span
  BY <1>1, <1>2 DEF TreeRecord
<1>5. Nodes(u) = Nodes(t) /\ Covered(u) = Covered(t) BY <1>3, <1>4 DEF Nodes, Covered
<1>6. QED BY <1>3, <1>4, <1>5 DEF Typed, u

LEMMA AddLeafTyped ==
  ASSUME NEW B, NEW t, WellShaped(t, B), Typed(t), NEW key \in Seq(B), NEW row,
         key # <<>>
  PROVE  Typed(AddLeaf(t, key, row))
<1> DEFINE u == AddLeaf(t, key, row)
           new == {q \in Prefixes(key) : q # <<>> /\ q \notin Covered(t)}
           r == [n \in Nodes(t) \cup {key} |-> IF n = key THEN 0 ELSE t.ref[n]]
           f == [n \in Nodes(t) \cup {key} |-> IF n = key THEN Cardinality(Nodes(t)) ELSE t.ts[n]]
           ends == [q \in DOMAIN t.span \cup new |-> IF q \in new THEN key ELSE t.span[q]]
           pages == [q \in Covered(t) \cup new |-> IF q \in new THEN row[Len(q)] ELSE t.page[q]]
           e == t.evictable + Cardinality(new)
<1>1. u = [t EXCEPT !.ref = r, !.ts = Ranks(f), !.span = ends, !.page = pages, !.evictable = e]
  BY DEF AddLeaf
<1>2. TreeRecord(t) /\ Nodes(t) \subseteq Covered(t) BY DEF WellShaped, Tree
<1>3. IsFiniteSet(new) BY NewKeys
<1>4. DOMAIN f = Nodes(t) \cup {key} OBVIOUS
<1> HIDE DEF u, r, f, ends, pages, e, new
<1>5. u.ref = r /\ u.ts = Ranks(f) /\ u.span = ends /\ u.page = pages
  BY <1>1, <1>2 DEF TreeRecord
<1>6. Covered(u) = Covered(t) \cup new /\ Nodes(u) = Nodes(t) \cup {key}
  BY <1>5 DEF Covered, Nodes, r, pages
<1>7. IsFiniteSet(Covered(u))
  <2>1. IsFiniteSet(Covered(t)) BY DEF Typed
  <2>2. QED BY <1>3, <1>6, <2>1, FS_Union
<1>8. IsFiniteSet(Nodes(t)) /\ IsFiniteSet(Nodes(t) \cup {key})
  BY <1>2, FS_Subset, FS_AddElement DEF Typed
<1>9. r \in [Nodes(u) -> Nat] BY <1>6 DEF r, Typed
<1>10. Ranks(f) \in [Nodes(u) -> Nat] BY <1>4, <1>6, <1>8, RanksType
<1>11. ends \in [Covered(u) -> Nodes(u)] BY <1>6 DEF ends, Typed
<1>12. QED BY <1>5, <1>6, <1>7, <1>9, <1>10, <1>11 DEF Typed, u

LEMMA InsertTyped ==
  ASSUME NEW B, NEW t, WellShaped(t, B), Typed(t), NEW key \in Seq(B), NEW row
  PROVE  Typed(Insert(t, key, row))
<1> DEFINE w == Walk(t, key)
           m == Matched(t, key)
<1>1. WellShaped(w, B) /\ Typed(w) BY WalkShape, WalkTyped
<1>2. Insert(t, key, row) = IF m = key THEN w ELSE AddLeaf(w, key, row) BY DEF Insert
<1>3. m \in Seq(B) /\ Len(m) <= Len(key)
  <2>1. m \in Seq(B) /\ IsPrefix(m, key) BY MatchedIsLongest
  <2>2. QED BY <2>1 DEF IsPrefix
<1> HIDE DEF w, m
<1>4. CASE m = key BY <1>1, <1>2, <1>4
<1>5. CASE m # key
  <2>1. key # <<>>
    <3>1. SUFFICES ASSUME key = <<>> PROVE FALSE OBVIOUS
    <3>2. Len(key) = 0 /\ Len(m) \in Nat BY <1>3, <3>1
    <3>3. Len(m) = 0 BY <1>3, <3>2
    <3>4. m = <<>> BY <1>3, <3>3, EmptySeq
    <3>5. QED BY <1>5, <3>1, <3>4
  <2>2. QED BY <1>1, <1>2, <1>5, <2>1, AddLeafTyped
<1>6. QED BY <1>4, <1>5

LEMMA RemoveLeafTyped ==
  ASSUME NEW B, NEW t, WellShaped(t, B), Typed(t), NEW n \in Nodes(t)
  PROVE  Typed(RemoveLeaf(t, n))
<1> DEFINE u == RemoveLeaf(t, n)
           kept == {q \in Covered(t) : t.span[q] # n}
           r == [m \in Nodes(t) \ {n} |-> t.ref[m]]
           f == [m \in Nodes(t) \ {n} |-> t.ts[m]]
           ends == [q \in kept |-> t.span[q]]
           pages == [q \in kept |-> t.page[q]]
           e == t.evictable - NodeLen(t, n)
<1>1. u = [t EXCEPT !.ref = r, !.ts = Ranks(f), !.span = ends, !.page = pages, !.evictable = e]
  BY DEF RemoveLeaf
<1>2. TreeRecord(t) /\ Nodes(t) \subseteq Covered(t) BY DEF WellShaped, Tree
<1>3. DOMAIN f = Nodes(t) \ {n} OBVIOUS
<1> HIDE DEF u, r, f, ends, pages, e
<1>4. u.ref = r /\ u.ts = Ranks(f) /\ u.span = ends /\ u.page = pages
  BY <1>1, <1>2 DEF TreeRecord
<1>5. Nodes(u) = Nodes(t) \ {n} /\ Covered(u) = kept BY <1>4 DEF Nodes, Covered, r, pages
<1>6. IsFiniteSet(Covered(u)) /\ IsFiniteSet(Nodes(u))
  <2>1. Covered(u) \in SUBSET Covered(t) /\ Nodes(u) \in SUBSET Covered(t) BY <1>2, <1>5
  <2>2. QED BY <2>1, FS_Subset DEF Typed
<1>7. r \in [Nodes(u) -> Nat] BY <1>5 DEF r, Typed
<1>8. Ranks(f) \in [Nodes(u) -> Nat] BY <1>3, <1>5, <1>6, RanksType
<1>9. ends \in [Covered(u) -> Nodes(u)] BY <1>5 DEF ends, Typed
<1>10. QED BY <1>4, <1>5, <1>6, <1>7, <1>8, <1>9 DEF Typed, u

----------------------------------------------------------------------------
(* The key of a sequence of tokens is a sequence of blocks, and covers no  *)
(* more than the tokens.                                                   *)
LEMMA KeyType ==
  ASSUME NEW A, NEW s \in Seq(A)
  PROVE  Key(s) \in Seq(Seq(A)) /\ Len(Key(s)) * PageSize <= Len(s)
<1> DEFINE n == Len(s) \div PageSize
<1>1. PageSize \in Nat /\ PageSize > 0 /\ Len(s) \in Nat BY PageSizeAssumption
<1>2. n \in Nat /\ n * PageSize <= Len(s) BY <1>1
<1>3. ASSUME NEW i \in 1..n
      PROVE  SubSeq(s, (i - 1) * PageSize + 1, i * PageSize) \in Seq(A)
  <2>1. i \in Nat /\ i >= 1 /\ i <= n BY <1>2
  <2>2. i * PageSize <= n * PageSize BY <1>1, <1>2, <2>1
  <2>3. (i - 1) * PageSize + 1 \in Nat /\ (i - 1) * PageSize + 1 >= 1 /\ i * PageSize \in Nat
    BY <1>1, <2>1
  <2>4. i * PageSize <= Len(s) BY <1>1, <1>2, <2>2, <2>3
  <2> DEFINE lo == (i - 1) * PageSize + 1
             hi == i * PageSize
  <2>5. lo \in Nat /\ lo >= 1 /\ hi \in Nat /\ hi <= Len(s) BY <2>3, <2>4
  <2> HIDE DEF lo, hi
  <2>6. \A j \in lo..hi : s[j] \in A
    <3>1. TAKE j \in lo..hi
    <3>2. j \in 1..Len(s) BY <1>1, <2>5
    <3>3. QED BY <3>2
  <2>7. SubSeq(s, lo, hi) \in Seq(A) BY <2>5, <2>6, SubSeqProperties
  <2>8. QED BY <2>7 DEF lo, hi
<1> HIDE DEF n
<1> DEFINE k == [i \in 1..n |-> SubSeq(s, (i - 1) * PageSize + 1, i * PageSize)]
<1>4. k \in Seq(Seq(A)) /\ Len(k) = n BY <1>2, <1>3
<1> HIDE DEF k
<1>5. CASE Radix
  <2>1. Key(s) = k BY <1>5 DEF Key, k, n
  <2>2. QED BY <1>2, <1>4, <2>1
<1>6. CASE ~Radix
  <2>1. Key(s) = <<>> BY <1>6 DEF Key
  <2>2. Key(s) \in Seq(Seq(A)) /\ Len(Key(s)) = 0 BY <2>1
  <2>3. QED BY <1>1, <2>2
<1>7. QED BY <1>5, <1>6

(* A part of a prompt or of what a request knows is a sequence of tokens.  *)
LEMMA FirstTokens ==
  ASSUME NEW A, NEW s \in Seq(A), NEW n \in Nat, n <= Len(s)
  PROVE  /\ SubSeq(s, 1, n) \in Seq(A) /\ Len(SubSeq(s, 1, n)) = n
         /\ Key(SubSeq(s, 1, n)) \in Seq(Seq(A)) /\ Len(Key(SubSeq(s, 1, n))) * PageSize <= n
<1>1. Len(s) \in Nat OBVIOUS
<1>2. n \in 0..Len(s) BY <1>1
<1> DEFINE f == SubSeq(s, 1, n)
<1>3. f \in Seq(A) /\ Len(f) = n BY <1>2, FirstPart
<1> HIDE DEF f
<1>4. Key(f) \in Seq(Seq(A)) /\ Len(Key(f)) * PageSize <= n BY <1>3, KeyType
<1>5. QED BY <1>3, <1>4 DEF f

----------------------------------------------------------------------------
(* cache_req of a request among those that hold locks: after the insertion *)
(* the unlock of its old handle succeeds and leaves the locks of the other *)
(* requests, and its new key is there to be locked.                        *)
LEMMA CacheReqLocks ==
  ASSUME NEW B, WellShaped(tree, B), NEW R, NEW h, Counted(tree, R, h),
         NEW c \in R, NEW r, r.handle = h[c], ReqKey(r) \in Seq(B)
  PROVE  LET u == UnlockHandle(Reinserted(r), r.handle)
         IN  /\ WellShaped(u, B) /\ Counted(u, R \ {c}, h)
             /\ ReqKey(r) \in Nodes(u) \cup {<<>>}
             /\ CacheReqAsserts(r)
<1> DEFINE key == ReqKey(r)
           i == Insert(tree, key, pageTable[r.slot])
           u == UnlockHandle(i, r.handle)
<1>1. key \in Seq(B) OBVIOUS
<1> HIDE DEF key
<1>2. /\ WellShaped(i, B) /\ Counted(i, R, h) /\ key \in Nodes(i) \cup {<<>>}
  BY <1>1, InsertShape, ExtendCounted
<1>3. i = Reinserted(r) BY DEF Reinserted, key
<1> HIDE DEF i
<1>4. Counted(u, R \ {c}, h) /\ UnlockAsserts(i, r.handle)
  BY <1>2, UnlockCounted
<1>5. WellShaped(u, B) /\ Nodes(u) = Nodes(i) BY <1>2, UnlockShape
<1>6. QED BY <1>2, <1>3, <1>4, <1>5 DEF CacheReqAsserts, key

----------------------------------------------------------------------------
(* Running totals: what the positions of a batch sum up to, one after the  *)
(* other.                                                                  *)

(* What a fold over the positions 1..n computes.                           *)
LastFirst(h, v, n) ==
  h = [s \in SUBSET (1..n) |-> IF s = {} THEN 0 ELSE h[s \ {Max(s)}] + v[Max(s)]]

(* There is one function that adds up the positions of every set of them,  *)
(* the last one first: by the least number of positions that had none.     *)
LEMMA FoldExists ==
  ASSUME NEW v, NEW n \in Nat
  PROVE  \E h : LastFirst(h, v, n)
<1> DEFINE Bad == {m \in Nat : ~ \E h : LastFirst(h, v, m)}
<1> SUFFICES ASSUME Bad # {} PROVE FALSE OBVIOUS
<1>1. PICK m \in Bad : \A k \in Bad : m <= k
  <2>1. Bad \in SUBSET Nat OBVIOUS
  <2> HIDE DEF Bad
  <2>2. QED BY <2>1, LeastNatural
<1>2. m # 0
  <2>1. LastFirst([s \in {{}} |-> 0], v, 0)
    <3>1. 1..0 = {} OBVIOUS
    <3>2. SUBSET (1..0) = {{}} BY <3>1
    <3>3. QED BY <3>2 DEF LastFirst
  <2>2. QED BY <2>1
<1>3. m - 1 \in Nat /\ m - 1 \notin Bad /\ m \in Nat BY <1>1, <1>2
<1>4. PICK g : LastFirst(g, v, m - 1) BY <1>3
<1> DEFINE h == [s \in SUBSET (1..m) |-> IF m \in s THEN g[s \ {m}] + v[m] ELSE g[s]]
<1>5. LastFirst(h, v, m)
  <2> SUFFICES ASSUME NEW s \in SUBSET (1..m)
               PROVE  h[s] = IF s = {} THEN 0 ELSE h[s \ {Max(s)}] + v[Max(s)]
    BY DEF LastFirst
  <2>1. \A u \in SUBSET (1..(m - 1)) :
           /\ g[u] = IF u = {} THEN 0 ELSE g[u \ {Max(u)}] + v[Max(u)]
           /\ u \in SUBSET (1..m) /\ m \notin u
    <3>1. TAKE u \in SUBSET (1..(m - 1))
    <3>2. u \in SUBSET (1..m) /\ m \notin u BY <1>3
    <3>3. g[u] = IF u = {} THEN 0 ELSE g[u \ {Max(u)}] + v[Max(u)]
      <4> DEFINE e == [w \in SUBSET (1..(m - 1)) |-> IF w = {} THEN 0 ELSE g[w \ {Max(w)}] + v[Max(w)]]
      <4>1. g = e BY <1>4 DEF LastFirst
      <4>2. g[u] = e[u] BY <4>1
      <4> HIDE DEF e
      <4>3. QED BY <4>2 DEF e
    <3>4. QED BY <3>2, <3>3
  <2>2. \A u \in SUBSET (1..(m - 1)) : h[u] = g[u] BY <2>1
  <2>3. ASSUME s # {} PROVE Max(s) \in s /\ \A x \in s : x <= Max(s)
    <3>1. s \in SUBSET (0..m) BY <1>3
    <3>2. QED BY <1>3, <2>3, <3>1, MaxIsLargest
  <2>4. CASE m \in s
    <3>1. Max(s) = m
      <4> DEFINE x == Max(s)
      <4>1. x \in s /\ m <= x BY <2>3, <2>4
      <4>2. x \in 1..m BY <4>1
      <4> HIDE DEF x
      <4>3. x = m BY <1>3, <4>1, <4>2
      <4>4. QED BY <4>3 DEF x
    <3>2. s \ {m} \in SUBSET (1..(m - 1)) BY <1>3
    <3>3. QED BY <2>2, <2>4, <3>1, <3>2
  <2>5. CASE m \notin s
    <3>1. s \in SUBSET (1..(m - 1)) BY <1>3, <2>5
    <3>2. s # {} => s \ {Max(s)} \in SUBSET (1..(m - 1)) BY <3>1
    <3>3. QED BY <2>1, <2>2, <3>1, <3>2
  <2>6. QED BY <2>4, <2>5
<1>6. QED BY <1>1, <1>5

(* On 1..k it is what it is on 1..k-1 plus the value at k.                 *)
LEMMA FoldOfPrefixes ==
  ASSUME NEW v, NEW n \in Nat, NEW h, LastFirst(h, v, n)
  PROVE  /\ h[1..0] = 0
         /\ \A i \in 1..n : h[1..i] = h[1..(i - 1)] + v[i]
<1>1. 1..0 = {} /\ 1..0 \in SUBSET (1..n) OBVIOUS
<1>2. h[1..0] = 0 BY <1>1 DEF LastFirst
<1>3. ASSUME NEW i \in 1..n PROVE h[1..i] = h[1..(i - 1)] + v[i]
  <2>1. 1..i \in SUBSET (1..n) /\ 1..i # {} /\ 1..i \in SUBSET (0..n) OBVIOUS
  <2>2. Max(1..i) \in 1..i /\ \A x \in 1..i : x <= Max(1..i) BY <2>1, MaxIsLargest
  <2>3. Max(1..i) = i BY <2>2
  <2>4. (1..i) \ {i} = 1..(i - 1) OBVIOUS
  <2>5. QED BY <2>1, <2>3, <2>4 DEF LastFirst
<1>4. QED BY <1>2, <1>3

(* The sum over a set of positions that the community modules define is    *)
(* that function.                                                          *)
LEMMA TotalIsFold ==
  ASSUME NEW B, NEW rs \in Seq(B)
  PROVE  \E h : /\ LastFirst(h, [i \in DOMAIN rs |-> PagesLacking(rs[i])], Len(rs))
                /\ TotalLacking(rs) = h[1..Len(rs)]
<1> DEFINE v == [i \in DOMAIN rs |-> PagesLacking(rs[i])]
           Is(h) == h = [s \in SUBSET DOMAIN rs |->
                           IF s = {} THEN 0 ELSE h[s \ {Max(s)}] + PagesLacking(rs[Max(s)])]
           i == CHOOSE h : Is(h)
<1>1. DOMAIN rs = 1..Len(rs) /\ Len(rs) \in Nat OBVIOUS
<1>2. ASSUME NEW h PROVE LastFirst(h, v, Len(rs)) <=> Is(h)
  <2>1. ASSUME NEW s \in SUBSET DOMAIN rs, s # {} PROVE Max(s) \in DOMAIN rs
    <3>1. s \in SUBSET (0..Len(rs)) BY <1>1
    <3>2. QED BY <1>1, <2>1, <3>1, MaxIsLargest
  <2>2. \A s \in SUBSET DOMAIN rs : s # {} => v[Max(s)] = PagesLacking(rs[Max(s)]) BY <2>1
  <2>3. [s \in SUBSET (1..Len(rs)) |-> IF s = {} THEN 0 ELSE h[s \ {Max(s)}] + v[Max(s)]]
        = [s \in SUBSET DOMAIN rs |->
             IF s = {} THEN 0 ELSE h[s \ {Max(s)}] + PagesLacking(rs[Max(s)])]
    <3> HIDE DEF v
    <3>1. QED BY <1>1, <2>2
  <2>4. QED BY <2>3 DEF LastFirst
<1>3. \E h : LastFirst(h, v, Len(rs)) BY <1>1, FoldExists
<1>4. \E h : Is(h) BY <1>2, <1>3
<1>5. Is(i) BY <1>4, Zenon
<1>6. TotalLacking(rs) = i[DOMAIN rs] BY Zenon DEF TotalLacking, FoldLeft, MapThenFoldSet
<1> HIDE DEF i, Is, v
<1>7. LastFirst(i, v, Len(rs)) BY <1>2, <1>5
<1>8. QED BY <1>1, <1>6, <1>7 DEF v

(* The pages the first requests of a batch lack, one request after the     *)
(* other.                                                                  *)
RunningTotal(S, rs) ==
  /\ S[0] = 0 /\ S \in [0..Len(rs) -> Nat]
  /\ \A i \in 1..Len(rs) : S[i] = S[i - 1] + PagesLacking(rs[i])
  /\ \A i \in 0..Len(rs) : TotalLacking(SubSeq(rs, 1, i)) = S[i]
  /\ \A i, j \in 0..Len(rs) : i <= j => S[i] <= S[j]

(* A running total starts at 0 and grows by what each request lacks.       *)
LEMMA TotalsOfPrefixes ==
  ASSUME NEW B, NEW rs \in Seq(B), \A i \in 1..Len(rs) : PagesLacking(rs[i]) \in Nat
  PROVE  \E S : RunningTotal(S, rs) /\ TotalLacking(rs) = S[Len(rs)]
<1> DEFINE n == Len(rs)
           v(q) == [i \in DOMAIN q |-> PagesLacking(q[i])]
<1>1. n \in Nat /\ DOMAIN rs = 1..n OBVIOUS
<1>2. PICK h : LastFirst(h, v(rs), n) BY TotalIsFold
<1>3. h[1..0] = 0 /\ \A i \in 1..n : h[1..i] = h[1..(i - 1)] + PagesLacking(rs[i])
  <2>1. \A i \in 1..n : v(rs)[i] = PagesLacking(rs[i]) BY <1>1
  <2> HIDE DEF v
  <2>2. h[1..0] = 0 /\ \A i \in 1..n : h[1..i] = h[1..(i - 1)] + v(rs)[i]
    BY <1>1, <1>2, FoldOfPrefixes
  <2>3. QED BY <2>1, <2>2
<1> DEFINE S == [i \in 0..n |-> h[1..i]]
<1>4. S[0] = 0 /\ \A i \in 1..n : S[i] = S[i - 1] + PagesLacking(rs[i])
  <2>1. \A i \in 1..n : i - 1 \in 0..n /\ i \in 0..n BY <1>1
  <2>2. QED BY <1>1, <1>3, <2>1
<1>5. ASSUME NEW i \in 0..n PROVE TotalLacking(SubSeq(rs, 1, i)) = S[i]
  <2> DEFINE q == SubSeq(rs, 1, i)
  <2>1. q \in Seq(B) /\ Len(q) = i /\ i \in Nat /\ \A j \in 1..i : q[j] = rs[j] OBVIOUS
  <2> HIDE DEF q
  <2>2. PICK g : LastFirst(g, v(q), i) /\ TotalLacking(q) = g[1..i] BY <2>1, TotalIsFold
  <2>3. g[1..0] = 0 /\ \A j \in 1..i : g[1..j] = g[1..(j - 1)] + PagesLacking(rs[j])
    <3>1. \A j \in 1..i : v(q)[j] = PagesLacking(rs[j]) BY <2>1
    <3> HIDE DEF v
    <3>2. QED BY <2>1, <2>2, <3>1, FoldOfPrefixes
  <2> DEFINE Bad == {j \in 0..i : g[1..j] # S[j]}
  <2>4. Bad = {}
    <3> SUFFICES ASSUME Bad # {} PROVE FALSE OBVIOUS
    <3>1. Bad \in SUBSET Nat OBVIOUS
    <3>2. PICK m \in Bad : \A k \in Bad : m <= k
      <4> HIDE DEF Bad
      <4>1. QED BY <3>1, LeastNatural
    <3> HIDE DEF S
    <3>3. m # 0 BY <1>4, <2>3, <3>2
    <3>4. m - 1 \in 0..i /\ m \in 1..i /\ m \in 1..n BY <1>1, <2>1, <3>2, <3>3
    <3>5. g[1..(m - 1)] = S[m - 1] BY <3>2, <3>4
    <3>6. QED BY <1>4, <2>3, <3>2, <3>4, <3>5
  <2>5. g[1..i] = S[i]
    <3> HIDE DEF S
    <3>1. \A j \in 0..i : g[1..j] = S[j] BY <2>4
    <3>2. i \in 0..i BY <2>1
    <3>3. QED BY <3>1, <3>2
  <2>6. QED BY <2>2, <2>5 DEF q
<1> HIDE DEF S
<1>6. \A i \in 0..n : S[i] \in Nat /\ \A j \in 0..i : S[j] <= S[i]
  <2> DEFINE Bad == {i \in 0..n : ~(S[i] \in Nat /\ \A j \in 0..i : S[j] <= S[i])}
  <2> SUFFICES ASSUME Bad # {} PROVE FALSE OBVIOUS
  <2>1. Bad \in SUBSET Nat OBVIOUS
  <2>2. PICK m \in Bad : \A k \in Bad : m <= k
    <3> HIDE DEF Bad
    <3>1. QED BY <2>1, LeastNatural
  <2>3. m # 0 BY <1>4, <2>2
  <2>4. m - 1 \in 0..n /\ m \in 1..n BY <1>1, <2>2, <2>3
  <2>5. S[m - 1] \in Nat /\ \A j \in 0..(m - 1) : S[j] <= S[m - 1] BY <2>2, <2>4
  <2>6. S[m] \in Nat /\ S[m - 1] <= S[m] BY <1>4, <2>4, <2>5
  <2>7. \A j \in 0..m : S[j] <= S[m]
    <3>1. TAKE j \in 0..m
    <3>2. CASE j = m BY <2>6, <3>2
    <3>3. CASE j # m
      <4>1. j \in 0..(m - 1) /\ j \in 0..n BY <2>4, <3>3
      <4>2. S[j] <= S[m - 1] BY <2>5, <4>1
      <4>3. S[j] \in Nat BY <2>2, <2>4, <4>1
      <4>4. QED BY <2>5, <2>6, <4>2, <4>3
    <3>4. QED BY <3>2, <3>3
  <2>8. QED BY <2>2, <2>6, <2>7
<1>7. S \in [0..n -> Nat] BY <1>6 DEF S
<1>8. \A i, j \in 0..n : i <= j => S[i] <= S[j]
  <2>1. \A i, j \in 0..n : i <= j => i \in 0..j BY <1>1
  <2>2. QED BY <1>6, <2>1
<1>9. SubSeq(rs, 1, n) = rs /\ n \in 0..n BY <1>1, SubSeqFull
<1>10. TotalLacking(rs) = S[n] BY <1>5, <1>9
<1>11. RunningTotal(S, rs) BY <1>4, <1>5, <1>7, <1>8 DEF RunningTotal
<1>12. QED BY <1>10, <1>11

----------------------------------------------------------------------------
(* Rows and lists of pages.                                                *)

(* The pages at some positions of a row.                                   *)
PagesAt(row, S) == {row[i] : i \in S}
Distinct(row, S) == \A i, j \in S : row[i] = row[j] => i = j

(* The part of a sequence behind position a up to position b.              *)
LEMMA PartOfRow ==
  ASSUME NEW P, NEW s \in Seq(P), NEW a \in Nat, NEW b \in Nat, a <= b, b <= Len(s)
  PROVE  /\ SubSeq(s, a + 1, b) \in Seq(P) /\ Len(SubSeq(s, a + 1, b)) = b - a
         /\ \A i \in 1..(b - a) : SubSeq(s, a + 1, b)[i] = s[a + i]
         /\ ToSet(SubSeq(s, a + 1, b)) = PagesAt(s, (a + 1)..b)
         /\ Distinct(s, (a + 1)..b) => IsInjective(SubSeq(s, a + 1, b))
<1> DEFINE q == SubSeq(s, a + 1, b)
<1>1. q \in Seq(P) /\ Len(q) = b - a /\ \A i \in 1..(b - a) : q[i] = s[a + i] OBVIOUS
<1> HIDE DEF q
<1>2. DOMAIN q = 1..(b - a) BY <1>1
<1>3. \A i \in 1..(b - a) : a + i \in (a + 1)..b OBVIOUS
<1>4. \A i \in (a + 1)..b : i - a \in 1..(b - a) /\ a + (i - a) = i OBVIOUS
<1>5. ToSet(q) = {s[i] : i \in (a + 1)..b}
  <2>1. \A x \in ToSet(q) : x \in {s[i] : i \in (a + 1)..b} BY <1>1, <1>2, <1>3 DEF ToSet
  <2>2. ASSUME NEW i \in (a + 1)..b PROVE s[i] \in ToSet(q)
    <3>1. q[i - a] = s[i] /\ i - a \in DOMAIN q BY <1>1, <1>2, <1>4
    <3>2. QED BY <3>1 DEF ToSet
  <2>3. QED BY <2>1, <2>2
<1>6. ASSUME Distinct(s, (a + 1)..b) PROVE IsInjective(q)
  <2>1. ASSUME NEW i \in 1..(b - a), NEW j \in 1..(b - a), q[i] = q[j] PROVE i = j
    <3>1. s[a + i] = s[a + j] BY <1>1, <2>1
    <3>2. a + i = a + j BY <1>3, <1>6, <3>1 DEF Distinct
    <3>3. QED BY <3>2
  <2>2. QED BY <1>2, <2>1 DEF IsInjective
<1>7. QED BY <1>1, <1>5, <1>6 DEF q, PagesAt

(* Two lists without repetition that share no page make one.               *)
LEMMA JoinedLists ==
  ASSUME NEW P, NEW s \in Seq(P), NEW u \in Seq(P)
  PROVE  /\ s \o u \in Seq(P)
         /\ ToSet(s \o u) = ToSet(s) \cup ToSet(u)
         /\ IsInjective(s) /\ IsInjective(u) /\ ToSet(s) \cap ToSet(u) = {} => IsInjective(s \o u)
<1> DEFINE q == s \o u
           m == Len(s)
           n == Len(u)
<1>1. /\ m \in Nat /\ n \in Nat /\ DOMAIN s = 1..m /\ DOMAIN u = 1..n
      /\ q \in Seq(P) /\ DOMAIN q = 1..(m + n)
      /\ \A i \in 1..(m + n) : q[i] = IF i <= m THEN s[i] ELSE u[i - m]
  OBVIOUS
<1> HIDE DEF q, m, n
<1>2. \A i \in 1..(m + n) : (i <= m => i \in 1..m) /\ (~(i <= m) => i - m \in 1..n) BY <1>1
<1>3. \A i \in 1..m : i \in 1..(m + n) /\ i <= m BY <1>1
<1>4. \A j \in 1..n : m + j \in 1..(m + n) /\ ~(m + j <= m) /\ (m + j) - m = j BY <1>1
<1>5. ToSet(q) = ToSet(s) \cup ToSet(u)
  <2>1. ASSUME NEW i \in DOMAIN q PROVE q[i] \in ToSet(s) \cup ToSet(u)
    BY <1>1, <1>2 DEF ToSet
  <2>2. ASSUME NEW i \in DOMAIN s PROVE s[i] \in ToSet(q)
    BY <1>1, <1>3 DEF ToSet
  <2>3. ASSUME NEW j \in DOMAIN u PROVE u[j] \in ToSet(q)
    <3>1. q[m + j] = u[j] /\ m + j \in DOMAIN q BY <1>1, <1>4
    <3>2. QED BY <3>1 DEF ToSet
  <2>4. QED BY <2>1, <2>2, <2>3 DEF ToSet
<1>6. ASSUME IsInjective(s), IsInjective(u), ToSet(s) \cap ToSet(u) = {} PROVE IsInjective(q)
  <2>1. ASSUME NEW i \in 1..(m + n), NEW j \in 1..(m + n), q[i] = q[j] PROVE i = j
    <3>1. CASE i <= m /\ j <= m BY <1>1, <1>2, <1>6, <2>1, <3>1 DEF IsInjective
    <3>2. CASE ~(i <= m) /\ ~(j <= m)
      <4>1. i - m = j - m BY <1>1, <1>2, <1>6, <2>1, <3>2 DEF IsInjective
      <4>2. QED BY <1>1, <4>1
    <3>3. CASE i <= m /\ ~(j <= m) BY <1>1, <1>2, <1>6, <2>1, <3>3 DEF ToSet
    <3>4. CASE ~(i <= m) /\ j <= m BY <1>1, <1>2, <1>6, <2>1, <3>4 DEF ToSet
    <3>5. QED BY <3>1, <3>2, <3>3, <3>4
  <2>2. QED BY <1>1, <2>1 DEF IsInjective
<1>7. QED BY <1>1, <1>5, <1>6 DEF q

(* The numbers of pages of numbers of tokens.                              *)
LEMMA PagesForTokens ==
  ASSUME NEW n \in Nat
  PROVE  /\ PagesFor(n) \in Nat
         /\ n <= PagesFor(n) * PageSize
         /\ \A k \in Nat : n <= k * PageSize => PagesFor(n) <= k
<1> DEFINE x == n + PageSize - 1
           p == x \div PageSize
<1>1. PageSize \in Nat /\ PageSize > 0 BY PageSizeAssumption
<1>2. x \in Nat /\ p \in Nat /\ p * PageSize <= x /\ x < p * PageSize + PageSize BY <1>1
<1>3. PagesFor(n) = p BY DEF PagesFor
<1> DEFINE m == p * PageSize
<1>4. m \in Nat BY <1>1, <1>2
<1>5. n <= m BY <1>1, <1>2, <1>4
<1>6. ASSUME NEW k \in Nat, n <= k * PageSize PROVE p <= k
  <2> HIDE DEF p
  <2>1. SUFFICES ASSUME k < p PROVE FALSE BY <1>2
  <2>2. k + 1 <= p BY <1>2, <2>1
  <2>3. (k + 1) * PageSize <= p * PageSize BY <1>1, <1>2, <2>2
  <2>4. (k + 1) * PageSize = k * PageSize + PageSize BY <1>1
  <2> DEFINE kp == k * PageSize
  <2>5. kp \in Nat BY <1>1
  <2>6. kp + PageSize <= m /\ m <= x /\ n <= kp BY <1>2, <1>6, <2>3, <2>4
  <2> HIDE DEF kp, m
  <2>7. QED BY <1>1, <1>4, <2>5, <2>6
<1>7. QED BY <1>2, <1>3, <1>5, <1>6

(* More tokens need no fewer pages.                                        *)
LEMMA PagesForOrder ==
  ASSUME NEW m \in Nat, NEW n \in Nat, m <= n
  PROVE  PagesFor(m) <= PagesFor(n)
<1>1. PagesFor(n) \in Nat /\ n <= PagesFor(n) * PageSize BY PagesForTokens
<1>2. PagesFor(n) * PageSize \in Nat BY <1>1, PageSizeAssumption
<1>3. m <= PagesFor(n) * PageSize BY <1>1, <1>2
<1>4. QED BY <1>1, <1>3, PagesForTokens

(* Whole pages of tokens need just those pages.                            *)
LEMMA PagesForWhole ==
  ASSUME NEW k \in Nat
  PROVE  /\ k * PageSize \in Nat /\ PagesFor(k * PageSize) = k
         /\ \A n \in Nat : k * PageSize <= n => k <= PagesFor(n)
<1> DEFINE n == k * PageSize
<1>1. PageSize \in Nat /\ PageSize > 0 /\ n \in Nat BY PageSizeAssumption
<1>2. PagesFor(n) \in Nat /\ n <= PagesFor(n) * PageSize /\ PagesFor(n) <= k
  BY <1>1, PagesForTokens
<1>3. k <= PagesFor(n)
  <2> DEFINE p == PagesFor(n)
  <2>1. p \in Nat /\ k * PageSize <= p * PageSize BY <1>2
  <2> HIDE DEF p, n
  <2>2. SUFFICES ASSUME p < k PROVE FALSE BY <2>1 DEF p
  <2>3. p + 1 <= k BY <2>1, <2>2
  <2>4. (p + 1) * PageSize <= k * PageSize BY <1>1, <2>1, <2>3
  <2>5. (p + 1) * PageSize = p * PageSize + PageSize BY <1>1, <2>1
  <2> DEFINE kp == k * PageSize
             pp == p * PageSize
  <2>6. kp \in Nat /\ pp \in Nat BY <1>1, <2>1
  <2>7. kp <= pp /\ pp + PageSize <= kp BY <2>1, <2>4, <2>5
  <2> HIDE DEF kp, pp
  <2>8. QED BY <1>1, <2>6, <2>7
<1>4. \A j \in Nat : n <= j => k <= PagesFor(j)
  <2>1. TAKE j \in Nat
  <2>2. HAVE n <= j
  <2>3. PagesFor(n) <= PagesFor(j) /\ PagesFor(j) \in Nat BY <1>1, <2>2, PagesForOrder, PagesForTokens
  <2>4. QED BY <1>2, <1>3, <2>3
<1>5. QED BY <1>1, <1>2, <1>3, <1>4

----------------------------------------------------------------------------
(* Keys of tokens.                                                         *)

(* The blocks of a key are the pages of its tokens.                        *)
LEMMA KeyBlocks ==
  ASSUME NEW A, NEW s \in Seq(A), Radix
  PROVE  /\ Len(Key(s)) = Len(s) \div PageSize
         /\ \A i \in 1..(Len(s) \div PageSize) :
              Key(s)[i] = SubSeq(s, (i - 1) * PageSize + 1, i * PageSize)
<1>1. PageSize \in Nat /\ PageSize > 0 /\ Len(s) \in Nat BY PageSizeAssumption
<1> DEFINE n == Len(s) \div PageSize
           k == [i \in 1..n |-> SubSeq(s, (i - 1) * PageSize + 1, i * PageSize)]
<1>2. n \in Nat BY <1>1
<1>3. Key(s) = k BY DEF Key
<1> HIDE DEF n
<1>4. Len(k) = n BY <1>2
<1>5. \A i \in 1..n : k[i] = SubSeq(s, (i - 1) * PageSize + 1, i * PageSize) OBVIOUS
<1> HIDE DEF k
<1>6. QED BY <1>3, <1>4, <1>5 DEF n

(* The key of a beginning is a beginning of the key.                       *)
LEMMA KeyExtends ==
  ASSUME NEW A, NEW s \in Seq(A), NEW u \in Seq(A), IsPrefix(s, u)
  PROVE  IsPrefix(Key(s), Key(u))
<1>1. Key(s) \in Seq(Seq(A)) /\ Key(u) \in Seq(Seq(A)) BY KeyType
<1>2. CASE ~Radix
  <2>1. Key(s) = <<>> /\ Key(u) = <<>> BY <1>2 DEF Key
  <2>2. QED BY <1>1, <2>1, PrefixReflexive
<1>3. CASE Radix
  <2> DEFINE m == Len(s) \div PageSize
             n == Len(u) \div PageSize
  <2>1. PageSize \in Nat /\ PageSize > 0 /\ Len(s) \in Nat /\ Len(u) \in Nat BY PageSizeAssumption
  <2>2. Len(s) <= Len(u) /\ \A i \in 1..Len(s) : s[i] = u[i] BY PrefixPointwise
  <2>3. m \in Nat /\ n \in Nat /\ m * PageSize <= Len(s) /\ m <= n
    <3>1. m \in Nat /\ n \in Nat /\ m * PageSize <= Len(s) /\ Len(u) < n * PageSize + PageSize BY <2>1
    <3>2. m <= n
      <4> HIDE DEF m, n
      <4>1. SUFFICES ASSUME n < m PROVE FALSE BY <3>1
      <4>2. n + 1 <= m BY <3>1, <4>1
      <4>3. (n + 1) * PageSize <= m * PageSize BY <2>1, <3>1, <4>2
      <4>4. (n + 1) * PageSize = n * PageSize + PageSize BY <2>1, <3>1
      <4> DEFINE mp == m * PageSize
                 np == n * PageSize
      <4>5. mp \in Nat /\ np \in Nat /\ np + PageSize <= mp /\ mp <= Len(s) /\ Len(u) < np + PageSize
        BY <2>1, <3>1, <4>3, <4>4
      <4> HIDE DEF mp, np
      <4>6. QED BY <2>1, <2>2, <4>5
    <3>3. QED BY <3>1, <3>2
  <2> HIDE DEF m, n
  <2>4. ASSUME NEW i \in 1..m
        PROVE  SubSeq(s, (i - 1) * PageSize + 1, i * PageSize)
                 = SubSeq(u, (i - 1) * PageSize + 1, i * PageSize)
    <3> DEFINE lo == (i - 1) * PageSize
               hi == i * PageSize
    <3>1. lo \in Nat /\ hi \in Nat /\ lo <= hi /\ hi <= m * PageSize /\ m * PageSize \in Nat
      <4>1. i \in Nat /\ i - 1 \in Nat /\ i <= m BY <2>3
      <4>2. QED BY <2>1, <2>3, <4>1
    <3>2. hi <= Len(s) /\ hi <= Len(u)
      <4> DEFINE mp == m * PageSize
      <4>1. mp \in Nat /\ hi <= mp /\ mp <= Len(s) BY <2>3, <3>1
      <4> HIDE DEF mp, hi
      <4>2. QED BY <2>1, <2>2, <3>1, <4>1
    <3> HIDE DEF lo, hi
    <3>3. /\ SubSeq(s, lo + 1, hi) \in Seq(A) /\ Len(SubSeq(s, lo + 1, hi)) = hi - lo
          /\ \A j \in 1..(hi - lo) : SubSeq(s, lo + 1, hi)[j] = s[lo + j]
      BY <3>1, <3>2, PartOfRow
    <3>4. /\ SubSeq(u, lo + 1, hi) \in Seq(A) /\ Len(SubSeq(u, lo + 1, hi)) = hi - lo
          /\ \A j \in 1..(hi - lo) : SubSeq(u, lo + 1, hi)[j] = u[lo + j]
      BY <3>1, <3>2, PartOfRow
    <3>5. \A j \in 1..(hi - lo) : lo + j \in 1..Len(s) BY <2>1, <3>1, <3>2
    <3>6. \A j \in 1..(hi - lo) : SubSeq(s, lo + 1, hi)[j] = SubSeq(u, lo + 1, hi)[j]
      BY <2>2, <3>3, <3>4, <3>5
    <3>7. SubSeq(s, lo + 1, hi) = SubSeq(u, lo + 1, hi)
      BY <3>3, <3>4, <3>6, SeqEqual
    <3>8. QED BY <3>7 DEF lo, hi
  <2>5. Len(Key(s)) = m /\ Len(Key(u)) = n BY <1>3, KeyBlocks DEF m, n
  <2>6. \A i \in 1..m : Key(s)[i] = Key(u)[i]
    <3>1. TAKE i \in 1..m
    <3>2. i \in 1..n BY <2>3
    <3>3. Key(s)[i] = SubSeq(s, (i - 1) * PageSize + 1, i * PageSize) BY <1>3, KeyBlocks DEF m
    <3>4. Key(u)[i] = SubSeq(u, (i - 1) * PageSize + 1, i * PageSize) BY <1>3, <3>2, KeyBlocks DEF n
    <3>5. QED BY <2>4, <3>3, <3>4
  <2>7. QED BY <1>1, <2>3, <2>5, <2>6, PrefixPointwise
<1>4. QED BY <1>2, <1>3

(* The tokens under a prefix of a key have that prefix as their key.       *)
LEMMA KeyOfPrefix ==
  ASSUME NEW A, NEW s \in Seq(A), NEW k \in Seq(Seq(A)), IsPrefix(k, Key(s)),
         Len(k) * PageSize <= Len(s)
  PROVE  IsPrefix(k, Key(SubSeq(s, 1, Len(k) * PageSize)))
<1> DEFINE n == Len(k) * PageSize
           u == SubSeq(s, 1, n)
<1>1. PageSize \in Nat /\ PageSize > 0 /\ Len(k) \in Nat /\ n \in Nat BY PageSizeAssumption
<1>2. u \in Seq(A) /\ Len(u) = n /\ IsPrefix(u, s)
  <2>1. n \in 0..Len(s) BY <1>1
  <2> HIDE DEF n
  <2>2. QED BY <2>1, FirstPart
<1>3. Key(u) \in Seq(Seq(A)) /\ Key(s) \in Seq(Seq(A)) BY <1>2, KeyType
<1>4. IsPrefix(Key(u), Key(s)) BY <1>2, KeyExtends
<1>5. CASE Radix
  <2>1. n \div PageSize = Len(k) BY <1>1
  <2>2. Len(Key(u)) = Len(k)
    <3> HIDE DEF u
    <3>1. QED BY <1>2, <1>5, <2>1, KeyBlocks
  <2>3. /\ \A i \in 1..Len(k) : k[i] = Key(s)[i]
        /\ \A i \in 1..Len(k) : Key(u)[i] = Key(s)[i]
    <3> HIDE DEF u
    <3>1. QED BY <1>3, <1>4, <2>2, PrefixPointwise
  <2>4. QED
    <3> HIDE DEF u
    <3>1. \A i \in 1..Len(k) : k[i] = Key(u)[i] BY <2>3
    <3>2. IsPrefix(k, Key(u)) BY <1>1, <1>3, <2>2, <3>1, PrefixPointwise
    <3>3. QED BY <3>2 DEF u, n
<1>6. CASE ~Radix
  <2>1. Key(s) = <<>> /\ Key(u) = <<>> BY <1>6 DEF Key
  <2> HIDE DEF u
  <2>2. QED BY <2>1 DEF u, n
<1>7. QED BY <1>5, <1>6

----------------------------------------------------------------------------
(* Rows, and evictions.                                                    *)

(* Writing to a row changes the written positions and keeps the others.    *)
LEMMA OverwriteRow ==
  ASSUME NEW P, NEW row \in Seq(P), NEW first \in Nat, first <= Len(row), NEW new \in Seq(P)
  PROVE  LET w == Overwrite(row, first, new)
         IN  /\ w \in Seq(P)
             /\ Len(w) = IF first + Len(new) <= Len(row) THEN Len(row) ELSE first + Len(new)
             /\ \A i \in 1..first : w[i] = row[i]
             /\ \A i \in 1..Len(new) : w[first + i] = new[i]
<1> DEFINE a == SubSeq(row, 1, first)
           z == SubSeq(row, first + Len(new) + 1, Len(row))
           l == Len(row)
           n == Len(new)
<1>1. l \in Nat /\ n \in Nat /\ first \in 0..l BY DEF l, n
<1>2. a \in Seq(P) /\ Len(a) = first /\ \A i \in 1..first : a[i] = row[i] BY <1>1
<1>3. z \in Seq(P) /\ Len(z) = IF first + n <= l THEN l - (first + n) ELSE 0 BY <1>1
<1>4. Overwrite(row, first, new) = (a \o new) \o z BY DEF Overwrite
<1>5. new \in Seq(P) /\ Len(new) = n OBVIOUS
<1> HIDE DEF a, z, l, n
<1> DEFINE b == a \o new
<1>6. /\ b \in Seq(P) /\ Len(b) = first + n
      /\ \A i \in 1..first : b[i] = a[i]
      /\ \A i \in 1..n : b[first + i] = new[i]
  BY <1>1, <1>2, <1>5
<1> HIDE DEF b
<1> DEFINE w == b \o z
<1>7. /\ w \in Seq(P) /\ Len(w) = (first + n) + Len(z)
      /\ \A i \in 1..(first + n) : w[i] = b[i]
  <2> DEFINE m == first + n
  <2>1. b \in Seq(P) /\ Len(b) = m /\ m \in Nat BY <1>1, <1>6
  <2>2. z \in Seq(P) BY <1>3
  <2> HIDE DEF m
  <2>3. /\ w \in Seq(P) /\ Len(w) = Len(b) + Len(z)
        /\ \A i \in 1..(Len(b) + Len(z)) : w[i] = IF i <= Len(b) THEN b[i] ELSE z[i - Len(b)]
    BY <2>1, <2>2, ConcatProperties
  <2> HIDE DEF w
  <2>5. Len(z) \in Nat BY <2>2
  <2>6. \A i \in 1..Len(b) : w[i] = b[i] BY <2>1, <2>3, <2>5
  <2>7. QED BY <2>1, <2>3, <2>6 DEF m
<1> HIDE DEF w
<1>8. Overwrite(row, first, new) = w BY <1>4 DEF w, b
<1>9. Len(w) = IF first + n <= l THEN l ELSE first + n BY <1>1, <1>3, <1>7
<1>10. \A i \in 1..first : w[i] = row[i] BY <1>1, <1>2, <1>6, <1>7
<1>11. \A i \in 1..n : w[first + i] = new[i]
  <2>1. \A i \in 1..n : first + i \in 1..(first + n) BY <1>1
  <2>2. QED BY <1>6, <1>7, <2>1
<1>12. QED BY <1>7, <1>8, <1>9, <1>10, <1>11 DEF l, n

(* evict moves the pages of the keys that end at a leaf, and nothing else, *)
(* to the end of the free list.                                            *)
LEMMA EvictPages ==
  ASSUME NEW B, WellShaped(tree, B), NEW P, freePages \in Seq(P),
         tree.page \in [Covered(tree) -> P], NEW rs, EvictOne(rs)
  PROVE  /\ Covered(tree)' \subseteq Covered(tree)
         /\ tree'.page = [q \in Covered(tree)' |-> tree.page[q]]
         /\ freePages' \in Seq(P)
         /\ ToSet(freePages') =
              ToSet(freePages) \cup {tree.page[q] : q \in Covered(tree) \ Covered(tree)'}
         /\ IsInjective(freePages) /\ IsInjective(tree.page)
              /\ (\A q \in Covered(tree) : tree.page[q] \notin ToSet(freePages))
            => IsInjective(freePages')
<1>1. PICK n \in OldestLeaves(tree) : /\ tree' = RemoveLeaf(tree, n)
                                      /\ freePages' = freePages \o NodePages(tree, n)
  BY DEF EvictOne
<1>2. n \in Nodes(tree) BY DEF OldestLeaves, FreeLeaves
<1> DEFINE gone == {x \in Covered(tree) : tree.span[x] = n}
           f == NodePages(tree, n)
<1>3. /\ f \in Seq(P) /\ ToSet(f) = {tree.page[q] : q \in gone}
      /\ IsInjective(tree.page) => IsInjective(f)
  BY <1>2, PagesOfNode
<1>4. tree'.page = [q \in Covered(tree) \ gone |-> tree.page[q]]
  <2>1. TreeRecord(tree) BY DEF WellShaped, Tree
  <2>2. Covered(tree) \ gone = {q \in Covered(tree) : tree.span[q] # n} OBVIOUS
  <2>3. QED BY <1>1, <2>1, <2>2 DEF RemoveLeaf, TreeRecord
<1>5. Covered(tree)' = Covered(tree) \ gone BY <1>4 DEF Covered
<1> HIDE DEF f
<1>6. gone = Covered(tree) \ Covered(tree)' BY <1>5
<1> HIDE DEF gone
<1>7. /\ freePages' \in Seq(P) /\ ToSet(freePages') = ToSet(freePages) \cup ToSet(f)
      /\ IsInjective(freePages) /\ IsInjective(f) /\ ToSet(freePages) \cap ToSet(f) = {}
           => IsInjective(freePages')
  BY <1>1, <1>3, JoinedLists DEF f
<1>8. (\A q \in Covered(tree) : tree.page[q] \notin ToSet(freePages))
        => ToSet(freePages) \cap ToSet(f) = {}
  BY <1>3, <1>6
<1>9. QED BY <1>3, <1>4, <1>5, <1>6, <1>7, <1>8

----------------------------------------------------------------------------
(* What a request has to itself, and what becomes of it in cache_req.      *)

(* The pages a request has to itself: those of its row behind its handle,  *)
(* up to what it has computed.                                             *)
Own(r) == (Len(r.handle) + 1)..PagesFor(r.cached)
Owned(table, r) == PagesAt(table[r.slot], Own(r))

(* The row of a request: long enough for what it has computed, and without *)
(* repetition in the part it has to itself.                                *)
RowOK(table, r) ==
  /\ r.slot \in Slot /\ r.cached \in Nat
  /\ Len(r.handle) <= PagesFor(r.cached)
  /\ PagesFor(r.cached) <= Len(table[r.slot])
  /\ Distinct(table[r.slot], Own(r))

(* The parts of a key from the front.                                      *)
KeysOf(key) == {q \in Prefixes(key) : q # <<>>}

(* The keys of a key are its parts from the front.                         *)
LEMMA KeysOfKey ==
  ASSUME NEW B, NEW key \in Seq(B)
  PROVE  /\ KeysOf(key) = {SubSeq(key, 1, i) : i \in 1..Len(key)}
         /\ \A i \in 1..Len(key) : Len(SubSeq(key, 1, i)) = i
<1>1. Len(key) \in Nat OBVIOUS
<1>2. \A i \in 0..Len(key) : Len(SubSeq(key, 1, i)) = i BY FirstPart
<1>3. \A i \in 0..Len(key) : SubSeq(key, 1, i) # <<>> <=> i # 0
  <2>1. TAKE i \in 0..Len(key)
  <2>2. SubSeq(key, 1, i) \in Seq(B) /\ Len(SubSeq(key, 1, i)) = i BY FirstPart
  <2> DEFINE q == SubSeq(key, 1, i)
  <2> HIDE DEF q
  <2>3. q # <<>> <=> i # 0 BY <2>2, EmptySeq DEF q
  <2>4. QED BY <2>3 DEF q
<1>4. KeysOf(key) = {SubSeq(key, 1, i) : i \in {j \in 0..Len(key) : j # 0}}
  BY <1>3 DEF KeysOf, Prefixes
<1>5. {j \in 0..Len(key) : j # 0} = 1..Len(key) BY <1>1
<1>6. QED BY <1>2, <1>4, <1>5

(* What leads to a cached key is cached.                                   *)
LEMMA CachedAbove ==
  ASSUME NEW B, NEW t, WellShaped(t, B), NEW k, k \in Covered(t) \cup {<<>>}
  PROVE  KeysOf(k) \subseteq Covered(t)
<1>1. k \in Seq(B) BY EmptySeq DEF WellShaped, Tree
<1>2. KeysOf(k) = {SubSeq(k, 1, i) : i \in 1..Len(k)} BY <1>1, KeysOfKey
<1>3. CASE k = <<>> BY <1>2, <1>3
<1>4. CASE k \in Covered(t) BY <1>2, <1>4 DEF WellShaped, Shaped
<1>5. QED BY <1>3, <1>4

(* The positions of a request's own pages are those of what is cached      *)
(* already, of what it adds to the tree and of what does not fill a page.  *)
LEMMA OwnParts ==
  ASSUME NEW r, NEW table, RowOK(table, r), Len(r.handle) \in Nat,
         NEW m \in Nat, NEW k \in Nat,
         Len(r.handle) <= m, m <= k, k <= PagesFor(r.cached)
  PROVE  /\ PagesFor(r.cached) \in Nat
         /\ Own(r) = ((Len(r.handle) + 1)..m) \cup ((m + 1)..k) \cup ((k + 1)..PagesFor(r.cached))
         /\ ((Len(r.handle) + 1)..m) \cap ((m + 1)..k) = {}
         /\ ((Len(r.handle) + 1)..m) \cap ((k + 1)..PagesFor(r.cached)) = {}
         /\ ((m + 1)..k) \cap ((k + 1)..PagesFor(r.cached)) = {}
<1>1. PagesFor(r.cached) \in Nat BY PagesForTokens DEF RowOK
<1>2. QED BY <1>1 DEF Own

(* A list of pages without repetition.                                     *)
ListOf(l, P, S) == l \in Seq(P) /\ ToSet(l) = S /\ IsInjective(l)

(* Two parts of a row without repetition, one behind the other.            *)
LEMMA TwoParts ==
  ASSUME NEW P, NEW row \in Seq(P), NEW h \in Nat, NEW m \in Nat, NEW k \in Nat, NEW f \in Nat,
         h <= m, m <= k, k <= f, f <= Len(row),
         Distinct(row, (h + 1)..f)
  PROVE  /\ ListOf(SubSeq(row, h + 1, m), P, PagesAt(row, (h + 1)..m))
         /\ ListOf(SubSeq(row, h + 1, m) \o SubSeq(row, k + 1, f), P,
                   PagesAt(row, ((h + 1)..m) \cup ((k + 1)..f)))
<1> DEFINE d == SubSeq(row, h + 1, m)
           t == SubSeq(row, k + 1, f)
<1>1. Len(row) \in Nat /\ m <= Len(row) OBVIOUS
<1>2. d \in Seq(P) /\ ToSet(d) = PagesAt(row, (h + 1)..m) /\ IsInjective(d)
  <2>1. Distinct(row, (h + 1)..m) BY DEF Distinct
  <2>2. QED BY <1>1, <2>1, PartOfRow
<1>3. t \in Seq(P) /\ ToSet(t) = PagesAt(row, (k + 1)..f) /\ IsInjective(t)
  <2>1. Distinct(row, (k + 1)..f) BY DEF Distinct
  <2>2. QED BY <1>1, <2>1, PartOfRow
<1> HIDE DEF d, t
<1>4. \A i \in (h + 1)..m : \A j \in (k + 1)..f :
        i \in (h + 1)..f /\ j \in (h + 1)..f /\ i # j
  OBVIOUS
<1>5. ToSet(d) \cap ToSet(t) = {} BY <1>2, <1>3, <1>4 DEF PagesAt, Distinct
<1>6. d \o t \in Seq(P) /\ ToSet(d \o t) = ToSet(d) \cup ToSet(t) /\ IsInjective(d \o t)
  BY <1>2, <1>3, <1>5, JoinedLists
<1>7. PagesAt(row, (h + 1)..m) \cup PagesAt(row, (k + 1)..f)
        = PagesAt(row, ((h + 1)..m) \cup ((k + 1)..f))
  BY DEF PagesAt
<1>8. QED BY <1>2, <1>3, <1>6, <1>7 DEF d, t, ListOf

(* The pages cache_req frees: the duplicates of what was cached already,   *)
(* and the tail of a request that ends.                                    *)
LEMMA FreedOfRequest ==
  ASSUME NEW P, pageTable \in [Slot -> Seq(P)], NEW r, RowOK(pageTable, r),
         Len(r.handle) \in Nat, Len(ReqKey(r)) \in Nat, MatchLen(tree, ReqKey(r)) \in Nat,
         Len(r.handle) <= MatchLen(tree, ReqKey(r)),
         MatchLen(tree, ReqKey(r)) <= Len(ReqKey(r)), Len(ReqKey(r)) <= PagesFor(r.cached),
         NEW finished \in BOOLEAN
  PROVE  LET row == pageTable[r.slot]
             dup == (Len(r.handle) + 1)..MatchLen(tree, ReqKey(r))
             tail == IF finished THEN (Len(ReqKey(r)) + 1)..PagesFor(r.cached) ELSE {}
         IN  ListOf(FreedPages(r, finished), P, PagesAt(row, dup \cup tail))
<1> DEFINE row == pageTable[r.slot]
           h == Len(r.handle)
           m == MatchLen(tree, ReqKey(r))
           k == Len(ReqKey(r))
           f == PagesFor(r.cached)
           d == SubSeq(row, h + 1, m)
           t == SubSeq(row, k + 1, f)
<1>1. row \in Seq(P) /\ r.cached \in Nat BY DEF RowOK
<1>2. f \in Nat BY <1>1, PagesForTokens
<1>3. f <= Len(row) /\ Distinct(row, (h + 1)..f) BY DEF RowOK, Own
<1>4. /\ FreedPages(r, TRUE) = d \o t /\ FreedPages(r, FALSE) = d BY DEF FreedPages
<1>5. /\ h \in Nat /\ m \in Nat /\ k \in Nat /\ h <= m /\ m <= k /\ k <= f OBVIOUS
<1> HIDE DEF row, h, m, k, f
<1>6. /\ ListOf(d, P, PagesAt(row, (h + 1)..m))
      /\ ListOf(d \o t, P, PagesAt(row, ((h + 1)..m) \cup ((k + 1)..f)))
  BY <1>1, <1>2, <1>3, <1>5, TwoParts
<1> HIDE DEF d, t
<1>7. CASE finished BY <1>4, <1>6, <1>7 DEF row, h, m, k, f
<1>8. CASE ~finished
  <2>1. ((h + 1)..m) \cup {} = (h + 1)..m OBVIOUS
  <2>2. QED BY <1>4, <1>6, <1>8, <2>1 DEF row, h, m, k, f
<1>9. QED BY <1>7, <1>8

(* The pages a request adds to the tree when it is cached, and those of    *)
(* its part that does not fill a page.                                     *)
Added(r) == PagesAt(pageTable[r.slot], (MatchLen(tree, ReqKey(r)) + 1)..Len(ReqKey(r)))
Remainder(r) == PagesAt(pageTable[r.slot], (Len(ReqKey(r)) + 1)..PagesFor(r.cached))

(* A request that can be cached: what it locked is the first part of what  *)
(* it has computed.                                                        *)
Cacheable(r, B) ==
  /\ RowOK(pageTable, r)
  /\ r.handle \in Seq(B) /\ r.handle \in Covered(tree) \cup {<<>>}
  /\ ReqKey(r) \in Seq(B) /\ IsPrefix(r.handle, ReqKey(r))
  /\ Len(ReqKey(r)) <= PagesFor(r.cached)

(* The handle is matched, so the positions split in three.                 *)
LEMMA CacheableLengths ==
  ASSUME NEW B, WellShaped(tree, B), NEW r, Cacheable(r, B)
  PROVE  /\ Len(r.handle) \in Nat /\ Len(ReqKey(r)) \in Nat /\ MatchLen(tree, ReqKey(r)) \in Nat
         /\ Len(r.handle) <= MatchLen(tree, ReqKey(r))
         /\ MatchLen(tree, ReqKey(r)) <= Len(ReqKey(r))
         /\ Len(ReqKey(r)) <= PagesFor(r.cached)
<1> DEFINE key == ReqKey(r)
           h == r.handle
<1>1. key \in Seq(B) /\ h \in Seq(B) /\ IsPrefix(h, key) /\ h \in Covered(tree) \cup {<<>>}
  BY DEF Cacheable
<1>2. Len(key) <= PagesFor(r.cached) BY DEF Cacheable
<1> HIDE DEF key, h
<1>3. /\ MatchLen(tree, key) \in 0..Len(key) /\ Len(key) \in Nat
      /\ \A i \in 1..Len(key) : SubSeq(key, 1, i) \in Covered(tree) <=> i <= MatchLen(tree, key)
  BY <1>1, MatchedIsCached
<1>4. Len(h) \in 0..Len(key) /\ h = SubSeq(key, 1, Len(h)) BY <1>1, PrefixIsFirstPart
<1>5. Len(h) <= MatchLen(tree, key)
  <2>1. CASE h = <<>> BY <1>3, <2>1
  <2>2. CASE h # <<>>
    <3>1. h \in Covered(tree) /\ Len(h) \in 1..Len(key) BY <1>1, <1>4, <2>2, EmptySeq
    <3>2. QED BY <1>3, <1>4, <3>1
  <2>3. QED BY <2>1, <2>2
<1>6. QED BY <1>2, <1>3, <1>4, <1>5 DEF key, h

(* A request has to itself the duplicates, what it adds, and the           *)
(* remainder.                                                              *)
LEMMA OwnSplit ==
  ASSUME NEW B, WellShaped(tree, B), NEW P, pageTable \in [Slot -> Seq(P)],
         NEW r, Cacheable(r, B)
  PROVE  LET dup == PagesAt(pageTable[r.slot], (Len(r.handle) + 1)..MatchLen(tree, ReqKey(r)))
         IN  /\ Owned(pageTable, r) = dup \cup Added(r) \cup Remainder(r)
             /\ dup \cap Added(r) = {} /\ dup \cap Remainder(r) = {} /\ Added(r) \cap Remainder(r) = {}
<1>1. RowOK(pageTable, r) BY DEF Cacheable
<1> DEFINE row == pageTable[r.slot]
           a == (Len(r.handle) + 1)..MatchLen(tree, ReqKey(r))
           b == (MatchLen(tree, ReqKey(r)) + 1)..Len(ReqKey(r))
           c == (Len(ReqKey(r)) + 1)..PagesFor(r.cached)
<1>2. Own(r) = a \cup b \cup c /\ a \cap b = {} /\ a \cap c = {} /\ b \cap c = {}
  BY <1>1, CacheableLengths, OwnParts
<1>3. Distinct(row, Own(r)) BY <1>1 DEF RowOK
<1>4. Added(r) = PagesAt(row, b) /\ Remainder(r) = PagesAt(row, c) /\ Owned(pageTable, r) = PagesAt(row, Own(r))
  BY DEF Added, Remainder, Owned
<1> HIDE DEF a, b, c, row
<1>5. /\ PagesAt(row, Own(r)) = PagesAt(row, a) \cup PagesAt(row, b) \cup PagesAt(row, c)
      /\ PagesAt(row, a) \cap PagesAt(row, b) = {}
      /\ PagesAt(row, a) \cap PagesAt(row, c) = {}
      /\ PagesAt(row, b) \cap PagesAt(row, c) = {}
  BY <1>2, <1>3 DEF PagesAt, Distinct
<1>6. QED BY <1>4, <1>5 DEF a, row

(* cache_req on the free pages.                                            *)
LEMMA CacheReqFrees ==
  ASSUME NEW B, WellShaped(tree, B), NEW P, freePages \in Seq(P), pageTable \in [Slot -> Seq(P)],
         NEW r, Cacheable(r, B), NEW finished \in BOOLEAN, CacheReq(r, finished)
  PROVE  LET kept == Added(r) \cup IF finished THEN {} ELSE Remainder(r)
         IN  /\ Added(r) \subseteq Owned(pageTable, r)
             /\ Remainder(r) \subseteq Owned(pageTable, r) \ Added(r)
             /\ freePages' \in Seq(P)
             /\ ToSet(freePages') = ToSet(freePages) \cup (Owned(pageTable, r) \ kept)
             /\ IsInjective(freePages) /\ ToSet(freePages) \cap Owned(pageTable, r) = {}
                  => IsInjective(freePages')
<1> DEFINE row == pageTable[r.slot]
           a == (Len(r.handle) + 1)..MatchLen(tree, ReqKey(r))
           c == IF finished THEN (Len(ReqKey(r)) + 1)..PagesFor(r.cached) ELSE {}
           f == FreedPages(r, finished)
           kept == Added(r) \cup IF finished THEN {} ELSE Remainder(r)
<1>1. ListOf(f, P, PagesAt(row, a \cup c))
  BY CacheableLengths, FreedOfRequest DEF Cacheable
<1>2. /\ Owned(pageTable, r) = PagesAt(row, a) \cup Added(r) \cup Remainder(r)
      /\ PagesAt(row, a) \cap Added(r) = {} /\ PagesAt(row, a) \cap Remainder(r) = {}
      /\ Added(r) \cap Remainder(r) = {}
  BY OwnSplit
<1>3. PagesAt(row, a \cup c) = PagesAt(row, a) \cup IF finished THEN Remainder(r) ELSE {}
  <2>1. PagesAt(row, a \cup c) = PagesAt(row, a) \cup PagesAt(row, c) BY DEF PagesAt
  <2>2. PagesAt(row, c) = IF finished THEN Remainder(r) ELSE {} BY DEF PagesAt, Remainder
  <2>3. QED BY <2>1, <2>2
<1>4. freePages' = freePages \o f BY DEF CacheReq
<1> HIDE DEF f, a, c, row
<1>5. ToSet(f) = Owned(pageTable, r) \ kept /\ ToSet(f) \subseteq Owned(pageTable, r)
  BY <1>1, <1>2, <1>3 DEF ListOf
<1>6. /\ freePages' \in Seq(P) /\ ToSet(freePages') = ToSet(freePages) \cup ToSet(f)
      /\ IsInjective(freePages) /\ ToSet(freePages) \cap ToSet(f) = {} => IsInjective(freePages')
  BY <1>1, <1>4, JoinedLists DEF ListOf
<1>7. QED BY <1>2, <1>5, <1>6

(* cache_req on the tree: the keys of the request are cached, those that   *)
(* were not with its own pages.                                            *)
Stores(r, P) ==
  /\ Covered(tree)' = Covered(tree) \cup KeysOf(ReqKey(r))
  /\ \A q \in Covered(tree) : tree'.page[q] = tree.page[q]
  /\ {tree'.page[q] : q \in KeysOf(ReqKey(r)) \ Covered(tree)} = Added(r)
  /\ \A q, s \in KeysOf(ReqKey(r)) \ Covered(tree) : tree'.page[q] = tree'.page[s] => q = s
  /\ tree'.page \in [Covered(tree)' -> P]

LEMMA CacheReqStores ==
  ASSUME NEW B, WellShaped(tree, B), NEW P, pageTable \in [Slot -> Seq(P)],
         tree.page \in [Covered(tree) -> P],
         NEW r, Cacheable(r, B), NEW finished \in BOOLEAN, CacheReq(r, finished)
  PROVE  Stores(r, P)
<1> DEFINE key == ReqKey(r)
           row == pageTable[r.slot]
           m == MatchLen(tree, key)
           u == Insert(tree, key, row)
           f == PagesFor(r.cached)
           new == KeysOf(key) \ Covered(tree)
<1>1. key \in Seq(B) /\ RowOK(pageTable, r) BY DEF Cacheable
<1>2. /\ Len(r.handle) \in Nat /\ Len(key) \in Nat /\ m \in Nat /\ f \in Nat
      /\ Len(r.handle) <= m /\ m <= Len(key) /\ Len(key) <= f
  <2>1. f \in Nat BY <1>1, PagesForTokens DEF RowOK
  <2>2. QED BY <2>1, CacheableLengths
<1>3. row \in Seq(P) /\ f <= Len(row) /\ Distinct(row, Own(r)) BY <1>1 DEF RowOK
<1>4. Own(r) = (Len(r.handle) + 1)..f BY DEF Own
<1>5. Added(r) = PagesAt(row, (m + 1)..Len(key)) BY DEF Added
<1>6. tree'.page = u.page
  <2>1. WellShaped(u, B) BY <1>1, InsertShape
  <2>2. u = Reinserted(r) BY DEF Reinserted
  <2> HIDE DEF u, key
  <2> DEFINE v == UnlockHandle(u, r.handle)
  <2>3. WellShaped(v, B) /\ v.page = u.page BY <2>1, UnlockShape
  <2> HIDE DEF v
  <2>4. tree' = IF finished THEN v ELSE LockHandle(v, key) BY <2>2 DEF CacheReq, CacheReqTree, v, key
  <2>5. LockHandle(v, key).page = v.page BY <2>3, LockShape
  <2>6. QED BY <2>3, <2>4, <2>5
<1>7. /\ \A q \in Covered(tree) : q \in Covered(u) /\ u.page[q] = tree.page[q]
      /\ \A i \in (m + 1)..Len(key) : /\ SubSeq(key, 1, i) \in Covered(u) \ Covered(tree)
                                      /\ u.page[SubSeq(key, 1, i)] = row[i]
      /\ \A q \in Covered(u) \ Covered(tree) : /\ Len(q) \in (m + 1)..Len(key)
                                               /\ q = SubSeq(key, 1, Len(q))
  BY <1>1, InsertPages
<1>8. u.page = [q \in Covered(u) |-> u.page[q]]
  <2>1. tree.page = [q \in Covered(tree) |-> tree.page[q]] OBVIOUS
  <2>2. QED BY <1>1, <2>1, InsertPageType
<1>9. /\ KeysOf(key) = {SubSeq(key, 1, i) : i \in 1..Len(key)}
      /\ \A i \in 1..Len(key) : Len(SubSeq(key, 1, i)) = i
      /\ \A i \in 1..Len(key) : SubSeq(key, 1, i) \in Covered(tree) <=> i <= m
  BY <1>1, KeysOfKey, MatchedIsCached
<1>10. Covered(tree)' = Covered(u) BY <1>6 DEF Covered
<1> HIDE DEF key, row, m, u, f
<1>11. \A q \in new : Len(q) \in (m + 1)..Len(key) /\ q = SubSeq(key, 1, Len(q))
  <2>1. TAKE q \in new
  <2>2. PICK i \in 1..Len(key) : q = SubSeq(key, 1, i) BY <1>9
  <2>3. ~(i <= m) /\ Len(q) = i BY <1>9, <2>2
  <2>4. QED BY <1>2, <2>2, <2>3
<1>12. \A i \in (m + 1)..Len(key) : SubSeq(key, 1, i) \in new
  BY <1>2, <1>7, <1>9
<1> HIDE DEF new
<1>13. Covered(tree)' = Covered(tree) \cup KeysOf(key)
  <2>1. \A q \in Covered(u) : q \in Covered(tree) \cup KeysOf(key)
    BY <1>2, <1>7, <1>9
  <2>2. \A q \in KeysOf(key) : q \in Covered(u)
    <3>1. TAKE q \in KeysOf(key)
    <3>2. PICK i \in 1..Len(key) : q = SubSeq(key, 1, i) BY <1>9
    <3>3. CASE i <= m BY <1>7, <1>9, <3>2, <3>3
    <3>4. CASE ~(i <= m)
      <4>1. i \in (m + 1)..Len(key) BY <1>2, <3>4
      <4>2. QED BY <1>7, <3>2, <4>1
    <3>5. QED BY <3>3, <3>4
  <2>3. \A q \in Covered(tree) : q \in Covered(u) BY <1>7
  <2>4. QED BY <1>10, <2>1, <2>2, <2>3
<1>14. \A q \in new : tree'.page[q] = row[Len(q)] BY <1>6, <1>7, <1>11
<1>15. {tree'.page[q] : q \in new} = Added(r)
  <2>1. \A q \in new : tree'.page[q] \in Added(r) BY <1>5, <1>11, <1>14 DEF PagesAt
  <2>2. ASSUME NEW i \in (m + 1)..Len(key) PROVE \E q \in new : tree'.page[q] = row[i]
    <3>1. SubSeq(key, 1, i) \in new /\ tree'.page[SubSeq(key, 1, i)] = row[i]
      BY <1>6, <1>7, <1>12
    <3>2. QED BY <3>1
  <2>3. QED BY <1>5, <2>1, <2>2 DEF PagesAt
<1>16. \A q, s \in new : tree'.page[q] = tree'.page[s] => q = s
  <2>1. TAKE q, s \in new
  <2>2. HAVE tree'.page[q] = tree'.page[s]
  <2>3. Len(q) \in Own(r) /\ Len(s) \in Own(r) BY <1>2, <1>4, <1>11
  <2>4. Len(q) = Len(s) BY <1>3, <1>14, <2>2, <2>3 DEF Distinct
  <2>5. QED BY <1>11, <2>4
<1>17. tree'.page \in [Covered(tree)' -> P]
  <2>1. \A q \in Covered(u) : u.page[q] \in P
    <3>1. TAKE q \in Covered(u)
    <3>2. CASE q \in Covered(tree) BY <1>7, <3>2
    <3>3. CASE q \notin Covered(tree)
      <4>1. Len(q) \in (m + 1)..Len(key) /\ u.page[q] = row[Len(q)] BY <1>7, <3>3
      <4>2. Len(q) \in 1..Len(row) BY <1>2, <1>3, <4>1
      <4>3. QED BY <1>3, <4>1, <4>2
    <3>4. QED BY <3>2, <3>3
  <2>2. QED BY <1>6, <1>8, <1>10, <2>1
<1>18. QED BY <1>6, <1>7, <1>13, <1>15, <1>16, <1>17 DEF Stores, key, new

----------------------------------------------------------------------------
(* allocate_paged for a batch.                                             *)

(* A batch: requests with rows of their own, that have computed no more    *)
(* than they will.                                                         *)
RowsApart(rs) ==
  /\ \A i \in 1..Len(rs) :
       /\ rs[i].slot \in Slot /\ rs[i].cached \in Nat /\ rs[i].device \in Nat
       /\ rs[i].cached <= rs[i].device
       /\ PagesFor(rs[i].cached) <= Len(pageTable[rs[i].slot])
  /\ \A i, j \in 1..Len(rs) : rs[i].slot = rs[j].slot => i = j

(* What a request of a batch lacks is a number of pages.                   *)
LEMMA LackingType ==
  ASSUME NEW B, NEW rs \in Seq(B), RowsApart(rs)
  PROVE  \A i \in 1..Len(rs) : /\ PagesFor(rs[i].cached) \in Nat /\ PagesFor(rs[i].device) \in Nat
                               /\ PagesLacking(rs[i]) \in Nat
                               /\ PagesFor(rs[i].cached) + PagesLacking(rs[i]) = PagesFor(rs[i].device)
<1> SUFFICES ASSUME NEW i \in 1..Len(rs)
             PROVE  /\ PagesFor(rs[i].cached) \in Nat /\ PagesFor(rs[i].device) \in Nat
                    /\ PagesLacking(rs[i]) \in Nat
                    /\ PagesFor(rs[i].cached) + PagesLacking(rs[i]) = PagesFor(rs[i].device)
  OBVIOUS
<1> DEFINE a == rs[i].cached
           b == rs[i].device
<1>1. a \in Nat /\ b \in Nat /\ a <= b BY DEF RowsApart
<1> HIDE DEF a, b
<1>2. PagesFor(a) \in Nat /\ PagesFor(b) \in Nat /\ PagesFor(a) <= PagesFor(b)
  BY <1>1, PagesForTokens, PagesForOrder
<1>3. PagesLacking(rs[i]) = PagesFor(b) - PagesFor(a) BY DEF PagesLacking, a, b
<1>4. QED BY <1>2, <1>3 DEF a, b

(* allocate_paged: the free list is cut into consecutive parts, one for    *)
(* each request of the batch, and each part is written to its row.         *)
Cut(S, rs) ==
  /\ RunningTotal(S, rs) /\ S[Len(rs)] <= Len(freePages)
  /\ freePages' = SubSeq(freePages, S[Len(rs)] + 1, Len(freePages))
  /\ \A i \in 1..Len(rs) :
       pageTable'[rs[i].slot] = Overwrite(pageTable[rs[i].slot], PagesFor(rs[i].cached),
                                          SubSeq(freePages, S[i - 1] + 1, S[i]))
  /\ \A s \in Slot : (\A i \in 1..Len(rs) : rs[i].slot # s) => pageTable'[s] = pageTable[s]
  /\ pageTable' = [s \in Slot |-> pageTable'[s]]
  /\ tree' = tree

LEMMA AllocateCuts ==
  ASSUME NEW B, NEW rs \in Seq(B), NEW P, freePages \in Seq(P), RowsApart(rs), AllocatePaged(rs)
  PROVE  \E S : Cut(S, rs)
<1> DEFINE n == Len(rs)
           from(i) == TotalLacking(SubSeq(rs, 1, i - 1))
           pagesOf(i) == SubSeq(freePages, from(i) + 1, from(i) + PagesLacking(rs[i]))
           rowOf(s) == {i \in 1..Len(rs) : rs[i].slot = s}
           row(s) == IF rowOf(s) = {} THEN pageTable[s]
                     ELSE LET i == Max(rowOf(s))
                          IN Overwrite(pageTable[s], PagesFor(rs[i].cached), pagesOf(i))
<1>1. /\ ~MustEvict(rs) /\ freePages' = SubSeq(freePages, TotalLacking(rs) + 1, Len(freePages))
      /\ pageTable' = [s \in Slot |-> row(s)] /\ tree' = tree
  BY DEF AllocatePaged
<1>2. n \in Nat /\ Len(freePages) \in Nat OBVIOUS
<1>3. PICK S : RunningTotal(S, rs) /\ TotalLacking(rs) = S[n]
  <2>1. \A i \in 1..Len(rs) : PagesLacking(rs[i]) \in Nat BY LackingType
  <2>2. QED BY <2>1, TotalsOfPrefixes
<1>4. S \in [0..n -> Nat] /\ \A i \in 1..n : S[i] = S[i - 1] + PagesLacking(rs[i])
  BY <1>3 DEF RunningTotal
<1>5. \A i \in 1..n : from(i) = S[i - 1]
  <2>1. \A i \in 1..n : i - 1 \in 0..n BY <1>2
  <2>2. QED BY <1>3, <2>1 DEF RunningTotal
<1>6. S[n] \in Nat /\ S[n] <= Len(freePages)
  <2>1. n \in 0..n BY <1>2
  <2>2. QED BY <1>1, <1>2, <1>3, <1>4, <2>1 DEF MustEvict
<1>7. \A i \in 1..n : pagesOf(i) = SubSeq(freePages, S[i - 1] + 1, S[i]) BY <1>4, <1>5
<1>8. \A i \in 1..n : rs[i].slot \in Slot /\ rowOf(rs[i].slot) = {i} BY DEF RowsApart
<1>9. ASSUME NEW i \in 1..n
      PROVE  row(rs[i].slot) = Overwrite(pageTable[rs[i].slot], PagesFor(rs[i].cached), pagesOf(i))
  <2>1. {i} \in SUBSET (0..n) /\ {i} # {} BY <1>2
  <2>2. Max({i}) \in {i} BY <1>2, <2>1, MaxIsLargest
  <2>3. Max(rowOf(rs[i].slot)) = i /\ rowOf(rs[i].slot) # {} BY <1>8, <2>2
  <2> HIDE DEF rowOf, pagesOf
  <2>4. QED BY <2>3
<1>10. \A s \in Slot : (\A i \in 1..n : rs[i].slot # s) => row(s) = pageTable[s] OBVIOUS
<1> HIDE DEF row, pagesOf
<1>11. QED BY <1>1, <1>3, <1>6, <1>7, <1>8, <1>9, <1>10 DEF Cut

(* What it means for the request: its row grew by pages that were free,    *)
(* and no other request of the batch got any of them.                      *)
Handed(S, i) == PagesAt(freePages, (S[i - 1] + 1)..S[i])
HandedAll(S, n) == UNION {Handed(S, i) : i \in 1..n}

(* The row of a request after its allocation.                              *)
Grown(r, pages, P) ==
  LET row == pageTable[r.slot]
      new == pageTable'[r.slot]
  IN  /\ new \in Seq(P) /\ PagesFor(r.device) <= Len(new)
      /\ \A j \in 1..PagesFor(r.cached) : new[j] = row[j]
      /\ PagesAt(new, (PagesFor(r.cached) + 1)..PagesFor(r.device)) = pages
      /\ IsInjective(freePages) => Distinct(new, (PagesFor(r.cached) + 1)..PagesFor(r.device))

LEMMA CutGrows ==
  ASSUME NEW B, NEW rs \in Seq(B), NEW P, freePages \in Seq(P), pageTable \in [Slot -> Seq(P)],
         RowsApart(rs), NEW S, Cut(S, rs), NEW i \in 1..Len(rs)
  PROVE  Grown(rs[i], Handed(S, i), P)
<1> DEFINE row == pageTable[rs[i].slot]
           a == PagesFor(rs[i].cached)
           b == PagesFor(rs[i].device)
           lo == S[i - 1]
           hi == S[i]
           g == SubSeq(freePages, lo + 1, hi)
           new == pageTable'[rs[i].slot]
<1>1. row \in Seq(P) /\ a <= Len(row) BY DEF RowsApart
<1>2. a \in Nat /\ b \in Nat /\ PagesLacking(rs[i]) \in Nat /\ a + PagesLacking(rs[i]) = b
  BY LackingType
<1>3. /\ lo \in Nat /\ hi \in Nat /\ hi = lo + PagesLacking(rs[i]) /\ hi <= Len(freePages)
  <2>1. Len(rs) \in Nat /\ i - 1 \in 0..Len(rs) /\ i \in 0..Len(rs) /\ Len(rs) \in 0..Len(rs) OBVIOUS
  <2>2. /\ S \in [0..Len(rs) -> Nat] /\ S[i] = S[i - 1] + PagesLacking(rs[i])
        /\ S[i] <= S[Len(rs)] /\ S[Len(rs)] <= Len(freePages)
    BY <2>1 DEF Cut, RunningTotal
  <2>3. /\ S[i - 1] \in Nat /\ S[i] \in Nat /\ S[Len(rs)] \in Nat /\ Len(freePages) \in Nat
    BY <2>1, <2>2
  <2>4. S[i] <= Len(freePages) BY <2>2, <2>3
  <2>5. QED BY <2>2, <2>3, <2>4
<1>4. new = Overwrite(row, a, g) BY DEF Cut
<1>5. Handed(S, i) = PagesAt(freePages, (lo + 1)..hi) BY DEF Handed
<1> HIDE DEF row, a, b, lo, hi, new
<1>6. /\ g \in Seq(P) /\ Len(g) = hi - lo
      /\ \A j \in 1..(hi - lo) : g[j] = freePages[lo + j]
  <2>1. lo <= hi BY <1>2, <1>3
  <2>2. QED BY <1>3, <2>1, PartOfRow
<1> HIDE DEF g
<1>7. hi - lo = b - a /\ hi - lo \in Nat BY <1>2, <1>3
<1>8. /\ new \in Seq(P) /\ Len(new) = (IF a + Len(g) <= Len(row) THEN Len(row) ELSE a + Len(g))
      /\ \A j \in 1..a : new[j] = row[j]
      /\ \A j \in 1..Len(g) : new[a + j] = g[j]
  BY <1>1, <1>2, <1>4, <1>6, OverwriteRow
<1>9. b <= Len(new)
  <2>1. Len(row) \in Nat /\ a + Len(g) = b BY <1>1, <1>2, <1>6, <1>7
  <2>2. QED BY <1>2, <1>8, <2>1
<1>10. \A j \in (a + 1)..b : /\ new[j] = freePages[lo + (j - a)]
                             /\ lo + (j - a) \in (lo + 1)..hi
  <2>1. TAKE j \in (a + 1)..b
  <2>2. j - a \in 1..(hi - lo) /\ a + (j - a) = j BY <1>2, <1>7
  <2>3. QED BY <1>3, <1>6, <1>8, <2>2
<1>11. \A x \in (lo + 1)..hi : \E j \in (a + 1)..b : x = lo + (j - a)
  <2>1. TAKE x \in (lo + 1)..hi
  <2>2. a + (x - lo) \in (a + 1)..b /\ x = lo + ((a + (x - lo)) - a) BY <1>2, <1>3, <1>7
  <2>3. QED BY <2>2
<1>12. PagesAt(new, (a + 1)..b) = PagesAt(freePages, (lo + 1)..hi)
  BY <1>10, <1>11 DEF PagesAt
<1>13. ASSUME IsInjective(freePages) PROVE Distinct(new, (a + 1)..b)
  <2>1. SUFFICES ASSUME NEW j \in (a + 1)..b, NEW k \in (a + 1)..b, new[j] = new[k]
                 PROVE  j = k
    BY DEF Distinct
  <2>2. freePages[lo + (j - a)] = freePages[lo + (k - a)] BY <1>10, <2>1
  <2>3. lo + (j - a) \in DOMAIN freePages /\ lo + (k - a) \in DOMAIN freePages
    BY <1>3, <1>10
  <2>4. lo + (j - a) = lo + (k - a) BY <1>13, <2>2, <2>3 DEF IsInjective
  <2>5. QED BY <1>2, <1>3, <2>4
<1>14. QED BY <1>5, <1>8, <1>9, <1>12, <1>13 DEF Grown, row, a, b, new

(* The parts are disjoint, and the free pages are what no part took.       *)
LEMMA CutParts ==
  ASSUME NEW B, NEW rs \in Seq(B), NEW P, freePages \in Seq(P), NEW S, Cut(S, rs)
  PROVE  /\ freePages' \in Seq(P)
         /\ \A i \in 1..Len(rs) : Handed(S, i) \subseteq ToSet(freePages)
         /\ IsInjective(freePages) =>
              /\ IsInjective(freePages')
              /\ \A i, j \in 1..Len(rs) : i # j => Handed(S, i) \cap Handed(S, j) = {}
              /\ ToSet(freePages') = ToSet(freePages) \ HandedAll(S, Len(rs))
<1> DEFINE n == Len(rs)
           l == Len(freePages)
<1>1. /\ S \in [0..n -> Nat] /\ S[0] = 0 /\ S[n] \in Nat /\ S[n] <= l /\ l \in Nat /\ n \in Nat
      /\ \A i, j \in 0..n : i <= j => S[i] <= S[j]
  <2>1. n \in 0..n /\ n \in Nat /\ l \in Nat OBVIOUS
  <2>2. QED BY <2>1 DEF Cut, RunningTotal
<1>2. freePages' = SubSeq(freePages, S[n] + 1, l) BY DEF Cut
<1>3. DOMAIN freePages = 1..l OBVIOUS
<1> HIDE DEF n, l
<1>4. /\ freePages' \in Seq(P) /\ ToSet(freePages') = PagesAt(freePages, (S[n] + 1)..l)
      /\ Distinct(freePages, (S[n] + 1)..l) => IsInjective(freePages')
  <2> DEFINE m == S[n]
  <2>1. m \in Nat /\ m <= l /\ l <= Len(freePages) BY <1>1 DEF l
  <2> HIDE DEF m
  <2>2. /\ SubSeq(freePages, m + 1, l) \in Seq(P)
        /\ ToSet(SubSeq(freePages, m + 1, l)) = PagesAt(freePages, (m + 1)..l)
        /\ Distinct(freePages, (m + 1)..l) => IsInjective(SubSeq(freePages, m + 1, l))
    BY <1>1, <2>1, PartOfRow
  <2>3. QED BY <1>2, <2>2 DEF m
<1>5. \A i \in 1..n : i - 1 \in 0..n /\ i \in 0..n /\ S[i - 1] \in Nat /\ S[i] \in Nat /\ S[i] <= S[n]
  <2>1. \A i \in 1..n : i - 1 \in 0..n /\ i \in 0..n /\ i <= n BY <1>1
  <2>2. n \in 0..n BY <1>1
  <2>3. QED BY <1>1, <2>1, <2>2
<1>6. \A i \in 1..n : \A x \in (S[i - 1] + 1)..S[i] : x \in 1..S[n] /\ x \in 1..l
  BY <1>1, <1>5
<1>7. \A i \in 1..n : Handed(S, i) \subseteq ToSet(freePages)
  BY <1>3, <1>6 DEF Handed, PagesAt, ToSet
<1>8. \A x \in 1..S[n] : \E i \in 1..n : x \in (S[i - 1] + 1)..S[i]
  <2> SUFFICES ASSUME NEW x \in 1..S[n]
               PROVE  \E i \in 1..n : x \in (S[i - 1] + 1)..S[i]
    OBVIOUS
  <2> DEFINE T == {i \in 0..n : x <= S[i]}
  <2>1. n \in T /\ T \in SUBSET Nat BY <1>1
  <2>2. PICK i \in T : \A k \in T : i <= k
    <3> HIDE DEF T
    <3>1. QED BY <2>1, LeastNatural
  <2>3. i # 0 BY <1>1, <2>2
  <2>4. i \in 1..n /\ i - 1 \in 0..n BY <1>1, <2>2, <2>3
  <2>5. ~(x <= S[i - 1]) BY <1>1, <2>2, <2>4
  <2>6. S[i - 1] \in Nat /\ S[i] \in Nat /\ x <= S[i] BY <1>5, <2>2, <2>4
  <2>7. QED BY <2>4, <2>5, <2>6
<1>9. \A i, j \in 1..n : i # j =>
        ((S[i - 1] + 1)..S[i]) \cap ((S[j - 1] + 1)..S[j]) = {}
  <2>1. ASSUME NEW i \in 1..n, NEW j \in 1..n, i < j
        PROVE  ((S[i - 1] + 1)..S[i]) \cap ((S[j - 1] + 1)..S[j]) = {}
    <3>1. i <= j - 1 /\ j - 1 \in 0..n /\ i \in 0..n BY <1>1, <2>1
    <3>2. S[i] <= S[j - 1] /\ S[i] \in Nat /\ S[j - 1] \in Nat /\ S[i - 1] \in Nat /\ S[j] \in Nat
      BY <1>1, <1>5, <3>1
    <3>3. QED BY <3>2
  <2>2. \A i, j \in 1..n : i # j => i < j \/ j < i BY <1>1
  <2>3. QED BY <2>1, <2>2
<1>10. ASSUME IsInjective(freePages)
       PROVE  /\ \A i, j \in 1..n : i # j => Handed(S, i) \cap Handed(S, j) = {}
              /\ ToSet(freePages') = ToSet(freePages) \ UNION {Handed(S, i) : i \in 1..n}
              /\ Distinct(freePages, (S[n] + 1)..l)
  <2>1. \A x, y \in 1..l : freePages[x] = freePages[y] => x = y
    BY <1>3, <1>10 DEF IsInjective
  <2>2. \A i, j \in 1..n : i # j => Handed(S, i) \cap Handed(S, j) = {}
    BY <1>6, <1>9, <2>1 DEF Handed, PagesAt
  <2>3. \A x \in (S[n] + 1)..l : x \in 1..l /\ x \notin 1..S[n] BY <1>1
  <2>4. Distinct(freePages, (S[n] + 1)..l) BY <2>1, <2>3 DEF Distinct
  <2>5. ASSUME NEW x \in (S[n] + 1)..l, NEW i \in 1..n PROVE freePages[x] \notin Handed(S, i)
    BY <1>6, <2>1, <2>3 DEF Handed, PagesAt
  <2>6. ASSUME NEW x \in 1..l, \A i \in 1..n : freePages[x] \notin Handed(S, i)
        PROVE  x \in (S[n] + 1)..l
    <3>1. x \notin 1..S[n] BY <1>8, <2>6 DEF Handed, PagesAt
    <3>2. QED BY <1>1, <3>1
  <2>7. ToSet(freePages') \subseteq ToSet(freePages) \ UNION {Handed(S, i) : i \in 1..n}
    BY <1>3, <1>4, <2>3, <2>5 DEF PagesAt, ToSet
  <2>8. ToSet(freePages) \ UNION {Handed(S, i) : i \in 1..n} \subseteq ToSet(freePages')
    <3>1. SUFFICES ASSUME NEW x \in 1..l, freePages[x] \notin UNION {Handed(S, i) : i \in 1..n}
                   PROVE  freePages[x] \in ToSet(freePages')
      BY <1>3 DEF ToSet
    <3>2. \A i \in 1..n : freePages[x] \notin Handed(S, i) BY <3>1
    <3>3. QED BY <1>4, <2>6, <3>2 DEF PagesAt
  <2>9. QED BY <2>2, <2>4, <2>7, <2>8
<1>11. QED BY <1>4, <1>7, <1>10 DEF n, HandedAll

(* A row of an admitted request starts with the pages of what it matched.  *)
LEMMA AdmittedRow ==
  ASSUME NEW B, WellShaped(tree, B), NEW P, tree.page \in [Covered(tree) -> P],
         NEW row \in Seq(P), NEW key \in Seq(B)
  PROVE  LET w == Overwrite(row, 0, PagesOf(Walk(tree, key), Matched(tree, key)))
         IN  w \in Seq(P) /\ Len(Matched(tree, key)) <= Len(w)
<1> DEFINE k == Matched(tree, key)
           w == Walk(tree, key)
           pages == PagesOf(w, k)
           new == Overwrite(row, 0, pages)
<1>1. /\ k \in Seq(B) /\ k \in Covered(tree) \cup {<<>>} /\ w.page = tree.page
  BY MatchedIsLongest, WalkShape
<1>2. pages = [i \in 1..Len(k) |-> w.page[SubSeq(k, 1, i)]] BY DEF PagesOf
<1> HIDE DEF k, w, pages
<1>3. \A i \in 1..Len(k) : SubSeq(k, 1, i) \in Covered(tree)
  BY <1>1 DEF WellShaped, Shaped
<1>4. Len(k) \in Nat BY <1>1
<1>5. pages \in [1..Len(k) -> P] BY <1>1, <1>2, <1>3
<1>6. pages \in Seq(P) /\ Len(pages) = Len(k) BY <1>4, <1>5
<1>7. /\ new \in Seq(P)
      /\ Len(new) = IF 0 + Len(pages) <= Len(row) THEN Len(row) ELSE 0 + Len(pages)
  <2>1. Len(row) \in Nat /\ 0 <= Len(row) OBVIOUS
  <2>2. QED BY <1>6, <2>1, OverwriteRow
<1> HIDE DEF new
<1>8. Len(k) <= Len(new)
  <2>1. Len(row) \in Nat OBVIOUS
  <2>2. QED BY <1>4, <1>6, <1>7, <2>1
<1>9. QED BY <1>7, <1>8 DEF k, w, pages, new

(* The row of a request after a forward pass.                              *)
LEMMA RowGrows ==
  ASSUME NEW P, NEW r, NEW new, NEW pages, RowOK(pageTable, r), Len(r.handle) \in Nat,
         r.device \in Nat, r.cached <= r.device,
         Grown(r, pages, P), IsInjective(freePages), pages \subseteq ToSet(freePages),
         Owned(pageTable, r) \cap ToSet(freePages) = {},
         new.slot = r.slot, new.handle = r.handle, new.cached = r.device
  PROVE  /\ RowOK(pageTable', new)
         /\ Owned(pageTable', new) = Owned(pageTable, r) \cup pages
<1> DEFINE a == PagesFor(r.cached)
           b == PagesFor(r.device)
           h == Len(r.handle)
           row == pageTable[r.slot]
           wow == pageTable'[r.slot]
<1>1. /\ a \in Nat /\ b \in Nat /\ h \in Nat /\ h <= a /\ a <= b /\ r.slot \in Slot
      /\ r.cached \in Nat
  BY PagesForTokens, PagesForOrder DEF RowOK
<1>2. Own(r) = (h + 1)..a /\ Own(new) = (h + 1)..b BY DEF Own
<1>3. /\ b <= Len(wow) /\ \A j \in 1..a : wow[j] = row[j]
      /\ PagesAt(wow, (a + 1)..b) = pages
      /\ Distinct(wow, (a + 1)..b)
  BY DEF Grown
<1>4. Distinct(row, (h + 1)..a) /\ PagesAt(row, (h + 1)..a) \cap ToSet(freePages) = {}
  BY <1>2 DEF RowOK, Owned
<1>5. Owned(pageTable, r) = PagesAt(row, (h + 1)..a) /\ Owned(pageTable', new) = PagesAt(wow, (h + 1)..b)
  BY <1>2 DEF Owned
<1>6. new.slot \in Slot /\ new.cached \in Nat /\ Len(new.handle) <= PagesFor(new.cached)
  BY <1>1
<1>7. pageTable'[new.slot] = wow /\ PagesFor(new.cached) = b OBVIOUS
<1> HIDE DEF a, b, h, row, wow
<1>8. \A j \in (h + 1)..a : wow[j] = row[j] BY <1>1, <1>3
<1>9. (h + 1)..b = ((h + 1)..a) \cup ((a + 1)..b) BY <1>1
<1>10. PagesAt(wow, (h + 1)..a) = PagesAt(row, (h + 1)..a) /\ Distinct(wow, (h + 1)..a)
  BY <1>4, <1>8 DEF PagesAt, Distinct
<1>11. PagesAt(wow, (h + 1)..b) = PagesAt(wow, (h + 1)..a) \cup PagesAt(wow, (a + 1)..b)
  BY <1>9 DEF PagesAt
<1>12. PagesAt(wow, (h + 1)..a) \cap PagesAt(wow, (a + 1)..b) = {} BY <1>3, <1>4, <1>10
<1>13. Distinct(wow, (h + 1)..b) BY <1>3, <1>9, <1>10, <1>12 DEF Distinct, PagesAt
<1>14. RowOK(pageTable', new) BY <1>2, <1>3, <1>6, <1>7, <1>13 DEF RowOK
<1>15. QED BY <1>3, <1>5, <1>10, <1>11, <1>14

(* The row of a request that was cached and goes on.                       *)
LEMMA RowSettles ==
  ASSUME NEW B, WellShaped(tree, B), NEW r, Cacheable(r, B), NEW new, pageTable' = pageTable,
         new.slot = r.slot, new.handle = ReqKey(r), new.cached = r.cached
  PROVE  RowOK(pageTable', new) /\ Owned(pageTable', new) = Remainder(r)
<1> DEFINE f == PagesFor(r.cached)
           k == Len(ReqKey(r))
           h == Len(r.handle)
           row == pageTable[r.slot]
<1>1. /\ h \in Nat /\ k \in Nat /\ h <= k /\ k <= f BY CacheableLengths
<1>2. RowOK(pageTable, r) /\ f \in Nat BY PagesForTokens DEF Cacheable, RowOK
<1>3. Own(r) = (h + 1)..f /\ Own(new) = (k + 1)..f BY DEF Own
<1>4. Distinct(row, (h + 1)..f) BY <1>2, <1>3 DEF RowOK
<1>5. Distinct(row, (k + 1)..f)
  <2> HIDE DEF f, k, h, row
  <2>1. \A i \in (k + 1)..f : i \in (h + 1)..f BY <1>1, <1>2
  <2>2. QED BY <1>4, <2>1 DEF Distinct
<1>6. RowOK(pageTable', new) BY <1>1, <1>2, <1>3, <1>5 DEF RowOK
<1>7. QED BY <1>3, <1>6 DEF Owned, Remainder

(* The key of what was computed fills no more pages than that.             *)
LEMMA KeyFits ==
  ASSUME NEW A, NEW s \in Seq(A), NEW n \in Nat, n <= Len(s)
  PROVE  Len(Key(SubSeq(s, 1, n))) <= PagesFor(n)
<1> DEFINE k == Len(Key(SubSeq(s, 1, n)))
<1>1. k \in Nat /\ k * PageSize <= n BY FirstTokens
<1> HIDE DEF k
<1>2. k <= PagesFor(n) BY <1>1, PagesForWhole
<1>3. QED BY <1>2 DEF k

(* What a request owns is a list in its row.                               *)
LEMMA OwnedList ==
  ASSUME NEW P, NEW table, NEW r, RowOK(table, r), Len(r.handle) \in Nat,
         table[r.slot] \in Seq(P)
  PROVE  ListOf(SubSeq(table[r.slot], Len(r.handle) + 1, PagesFor(r.cached)), P, Owned(table, r))
<1> DEFINE row == table[r.slot]
           h == Len(r.handle)
           f == PagesFor(r.cached)
<1>1. f \in Nat /\ h <= f /\ f <= Len(row) /\ Distinct(row, (h + 1)..f)
  BY PagesForTokens DEF RowOK, Own
<1>2. Owned(table, r) = PagesAt(row, (h + 1)..f) BY DEF Owned, Own
<1>3. row \in Seq(P) /\ h \in Nat OBVIOUS
<1> HIDE DEF row, h, f
<1>4. ListOf(SubSeq(row, h + 1, f), P, PagesAt(row, (h + 1)..f))
  BY <1>1, <1>3, PartOfRow DEF ListOf
<1>5. QED BY <1>2, <1>4 DEF row, h, f

----------------------------------------------------------------------------
(* cache_req keeps the sizes and the types of the tree.                    *)
LEMMA CacheReqSizes ==
  ASSUME NEW B, WellShaped(tree, B), Sized(tree), Typed(tree),
         NEW R, NEW h, Counted(tree, R, h), NEW c \in R, NEW r, r.handle = h[c],
         ReqKey(r) \in Seq(B), NEW finished \in BOOLEAN
  PROVE  Sized(CacheReqTree(r, finished)) /\ Typed(CacheReqTree(r, finished))
<1> DEFINE key == ReqKey(r)
           i == Reinserted(r)
           u == UnlockHandle(i, r.handle)
<1>1. i = Insert(tree, key, pageTable[r.slot]) /\ key \in Seq(B) BY DEF Reinserted
<1> HIDE DEF i, key
<1>2. WellShaped(i, B) /\ Sized(i) /\ Typed(i) BY <1>1, InsertShape, InsertSized, InsertTyped
<1>3. WellShaped(u, B) /\ UnlockAsserts(i, r.handle)
  BY CacheReqLocks DEF CacheReqAsserts, i
<1>4. Sized(u) /\ Typed(u) BY <1>2, <1>3, UnlockSized, UnlockTyped
<1>5. CacheReqTree(r, finished) = IF finished THEN u ELSE LockHandle(u, key)
  BY DEF CacheReqTree, i, key
<1> HIDE DEF u
<1>6. Sized(LockHandle(u, key)) /\ Typed(LockHandle(u, key)) BY <1>3, <1>4, LockSized, LockTyped
<1>7. QED BY <1>4, <1>5, <1>6

(* The prefixes of a key that are longer than one of them.                 *)
LEMMA LongerPrefixes ==
  ASSUME NEW B, NEW key \in Seq(B), NEW n \in 0..Len(key), NEW P,
         \A q \in P : q \in Seq(B) /\ IsPrefix(q, key) /\ Len(q) > n
  PROVE  IsFiniteSet(P) /\ Cardinality(P) \in Nat /\ Cardinality(P) <= Len(key) - n
<1> DEFINE l == Len(key)
           J == (n + 1)..l
           f == [q \in P |-> Len(q)]
<1>1. \A q \in P : Len(q) \in 0..l /\ q = SubSeq(key, 1, Len(q)) BY PrefixIsFirstPart
<1>2. l \in Nat /\ n \in Nat /\ n <= l OBVIOUS
<1> HIDE DEF l
<1>3. \A q \in P : Len(q) \in J BY <1>1, <1>2
<1>4. f \in Injection(P, J)
  <2>1. f \in [P -> J] BY <1>3
  <2>2. \A a, b \in P : f[a] = f[b] => a = b BY <1>1
  <2> HIDE DEF f, J
  <2>3. QED BY <2>1, <2>2 DEF Injection, IsInjective
<1>5. IsFiniteSet(J) /\ Cardinality(J) = l - n
  <2>1. n + 1 \in Int /\ l \in Int BY <1>2
  <2>2. IsFiniteSet(J) /\ Cardinality(J) = IF n + 1 > l THEN 0 ELSE l - (n + 1) + 1
    BY <2>1, FS_Interval
  <2>3. QED BY <1>2, <2>2
<1> HIDE DEF f, J
<1>6. IsFiniteSet(P) /\ Cardinality(P) <= Cardinality(J) BY <1>4, <1>5, FS_Injection
<1>7. Cardinality(P) \in Nat BY <1>6, FS_CardinalityType
<1>8. QED BY <1>5, <1>6, <1>7 DEF l

(* What cache_req makes evictable: the part of the key that it inserts,    *)
(* but for the part that the request then holds beyond its old handle.     *)
LEMMA CacheReqEvictable ==
  ASSUME NEW B, WellShaped(tree, B), Sized(tree), Typed(tree),
         NEW R, NEW h, Counted(tree, R, h), NEW c \in R, NEW r, r.handle = h[c],
         ReqKey(r) \in Seq(B), r.handle \in Seq(B), IsPrefix(r.handle, ReqKey(r)),
         NEW finished \in BOOLEAN
  PROVE  LET key == ReqKey(r)
             more == IF finished THEN 0 ELSE Len(key) - Len(r.handle)
         IN  CacheReqTree(r, finished).evictable + more
             >= tree.evictable + (Len(key) - MatchLen(tree, key))
<1> DEFINE key == ReqKey(r)
           i == Reinserted(r)
           u == UnlockHandle(i, r.handle)
           v == CacheReqTree(r, finished)
           P == {q \in Covered(i) : IsPrefix(q, key) /\ Len(q) > Len(r.handle)}
           K == IF finished THEN {} ELSE P
           more == IF finished THEN 0 ELSE Len(key) - Len(r.handle)
<1>1. i = Insert(tree, key, pageTable[r.slot]) /\ key \in Seq(B) BY DEF Reinserted
<1>2. v = IF finished THEN u ELSE LockHandle(u, key) BY DEF CacheReqTree
<1>3. Sized(v) BY CacheReqSizes
<1>4. /\ WellShaped(u, B) /\ Counted(u, R \ {c}, h) /\ key \in Nodes(u) \cup {<<>>}
      /\ UnlockAsserts(i, r.handle)
  BY CacheReqLocks DEF CacheReqAsserts
<1>a. IsPrefix(r.handle, key) OBVIOUS
<1> HIDE DEF i, key, u, v
<1>5. /\ WellShaped(i, B) /\ Sized(i) /\ Counted(i, R, h)
      /\ i.evictable = tree.evictable + (Len(key) - MatchLen(tree, key))
  BY <1>1, InsertShape, InsertSized, ExtendCounted
<1>6. Covered(u) = Covered(i) BY <1>5, UnlockShape DEF Covered, u
<1>7. \A q \in Covered(i) : q \in Seq(B) /\ q # <<>> BY <1>5 DEF WellShaped, Tree
<1>8. Covered(v) = Covered(i) /\ FreeKeys(i) \ K \subseteq FreeKeys(v)
  <2>1. ASSUME NEW q \in FreeKeys(i), NEW d \in R PROVE q \in Covered(i) /\ ~IsPrefix(q, h[d])
    <3>1. q \in Covered(i) BY DEF FreeKeys
    <3>2. QED BY <1>5, <2>1, <3>1, FreeByHandles
  <2>2. CASE finished
    <3>1. v = u BY <1>2, <2>2
    <3>2. ASSUME NEW q \in FreeKeys(i) PROVE q \in FreeKeys(u)
      <4>1. q \in Covered(u) /\ \A d \in R \ {c} : ~IsPrefix(q, h[d]) BY <1>6, <2>1
      <4>2. QED BY <1>4, <4>1, FreeByHandles
    <3>3. QED BY <1>6, <3>1, <3>2
  <2>3. CASE ~finished
    <3> DEFINE g == [d \in R |-> IF d = c THEN key ELSE h[d]]
    <3>1. v = LockHandle(u, key) BY <1>2, <2>3
    <3>2. WellShaped(v, B) /\ Covered(v) = Covered(u) BY <1>4, <3>1, LockShape DEF Covered
    <3>3. g[c] = key /\ (\A d \in R \ {c} : g[d] = h[d]) /\ c \notin R \ {c} OBVIOUS
    <3> HIDE DEF g
    <3>4. Counted(v, (R \ {c}) \cup {c}, g) BY <1>4, <3>1, <3>3, LockCounted
    <3>5. ASSUME NEW q \in FreeKeys(i), q \notin K PROVE q \in FreeKeys(v)
      <4>1. q \in Covered(v) /\ \A d \in R \ {c} : ~IsPrefix(q, g[d]) BY <1>6, <2>1, <3>2, <3>3
      <4>2. ~IsPrefix(q, key)
        <5> SUFFICES ASSUME IsPrefix(q, key) PROVE FALSE OBVIOUS
        <5>1. q \in Covered(i) /\ ~IsPrefix(q, r.handle) BY <2>1
        <5>2. q \in Seq(B) BY <1>7, <5>1
        <5>3. IsPrefix(r.handle, q) BY <1>1, <1>a, <5>1, <5>2, PrefixComparable
        <5>4. Len(r.handle) <= Len(q) BY <5>3 DEF IsPrefix
        <5>5. Len(q) # Len(r.handle)
          <6> SUFFICES ASSUME Len(q) = Len(r.handle) PROVE FALSE OBVIOUS
          <6>1. \A j \in 1..Len(q) : q[j] = r.handle[j] BY <5>2, <5>3, PrefixPointwise
          <6>2. q = r.handle BY <5>2, <6>1, SeqEqual
          <6>3. QED BY <5>1, <5>2, <6>2, PrefixReflexive
        <5>6. Len(q) > Len(r.handle) BY <5>2, <5>4, <5>5
        <5>7. QED BY <2>3, <3>5, <5>1, <5>6
      <4>3. \A d \in (R \ {c}) \cup {c} : ~IsPrefix(q, g[d]) BY <3>3, <4>1, <4>2
      <4>4. QED BY <3>2, <3>4, <4>1, <4>3, FreeByHandles
    <3>6. QED BY <1>6, <3>2, <3>5
  <2>4. QED BY <2>2, <2>3
<1>9. Len(r.handle) \in 0..Len(key) BY <1>1, <1>a, PrefixIsFirstPart
<1>10. IsFiniteSet(K) /\ Cardinality(K) \in Nat /\ Cardinality(K) <= more /\ more \in Nat
  <2>1. IsFiniteSet(P) /\ Cardinality(P) \in Nat /\ Cardinality(P) <= Len(key) - Len(r.handle)
    <3>1. \A q \in P : q \in Seq(B) /\ IsPrefix(q, key) /\ Len(q) > Len(r.handle) BY <1>7
    <3> HIDE DEF P
    <3>2. QED BY <1>1, <1>9, <3>1, LongerPrefixes
  <2>2. Len(key) - Len(r.handle) \in Nat BY <1>9
  <2> HIDE DEF P
  <2>3. QED BY <2>1, <2>2, FS_EmptySet
<1> HIDE DEF K, more
<1>11. IsFiniteSet(FreeKeys(i)) /\ IsFiniteSet(FreeKeys(v))
       /\ Cardinality(FreeKeys(i)) \in Nat /\ Cardinality(FreeKeys(v)) \in Nat
  <2>1. FreeKeys(i) \in SUBSET Covered(i) /\ FreeKeys(v) \in SUBSET Covered(v) BY DEF FreeKeys
  <2>2. IsFiniteSet(Covered(i)) /\ IsFiniteSet(Covered(v)) BY <1>3, <1>5 DEF Sized
  <2>3. QED BY <2>1, <2>2, FS_Subset, FS_CardinalityType
<1>12. Cardinality(FreeKeys(i)) <= Cardinality(FreeKeys(v)) + Cardinality(K)
  <2> DEFINE V == FreeKeys(v) \cup K
  <2>1. FreeKeys(i) \in SUBSET V BY <1>8
  <2>2. IsFiniteSet(V)
        /\ Cardinality(V) = Cardinality(FreeKeys(v)) + Cardinality(K) - Cardinality(FreeKeys(v) \cap K)
    BY <1>10, <1>11, FS_Union
  <2>3. Cardinality(FreeKeys(v) \cap K) \in Nat
    BY <1>10, FS_Intersection, FS_CardinalityType
  <2> HIDE DEF V
  <2>4. Cardinality(FreeKeys(i)) <= Cardinality(V) BY <2>1, <2>2, FS_Subset
  <2>5. Cardinality(V) <= Cardinality(FreeKeys(v)) + Cardinality(K) BY <1>10, <1>11, <2>2, <2>3
  <2>6. Cardinality(V) \in Nat BY <2>2, FS_CardinalityType
  <2>7. QED BY <1>10, <1>11, <2>4, <2>5, <2>6
<1>13. i.evictable = Cardinality(FreeKeys(i)) /\ v.evictable = Cardinality(FreeKeys(v))
  BY <1>3, <1>5 DEF Sized
<1>14. v.evictable + more >= i.evictable BY <1>10, <1>11, <1>12, <1>13
<1>15. QED BY <1>5, <1>14 DEF v, key, more

----------------------------------------------------------------------------
(* Sums over a set, as numbers of elements.                                *)

(* v[x] units for each x of S: a sum as a number of elements.              *)
Units(v, S) == {p \in S \X Nat : 1 <= p[2] /\ p[2] <= v[p[1]]}

(* These units can be counted.                                             *)
LEMMA UnitsFinite ==
  ASSUME NEW S, IsFiniteSet(S), NEW n \in Nat, NEW v \in [S -> 0..n], NEW T \in SUBSET S
  PROVE  IsFiniteSet(Units(v, T)) /\ Cardinality(Units(v, T)) \in Nat
<1>1. Units(v, T) \in SUBSET (S \X (1..n)) BY DEF Units
<1>2. IsFiniteSet(S \X (1..n))
  <2>1. IsFiniteSet(1..n) BY FS_Interval
  <2>2. QED BY <2>1, FS_Product
<1>3. QED BY <1>1, <1>2, FS_Subset, FS_CardinalityType

(* The size of an interval from 1.                                         *)
LEMMA IntervalSize == ASSUME NEW k \in Nat PROVE IsFiniteSet(1..k) /\ Cardinality(1..k) = k
BY FS_Interval

(* One element more makes as many units more as it is worth.               *)
LEMMA UnitsOfElement ==
  ASSUME NEW S, IsFiniteSet(S), NEW n \in Nat, NEW v \in [S -> 0..n], NEW T \in SUBSET S, NEW x \in T
  PROVE  Cardinality(Units(v, T)) = v[x] + Cardinality(Units(v, T \ {x}))
<1> DEFINE a == Units(v, {x})
           b == Units(v, T \ {x})
           f == [k \in 1..v[x] |-> <<x, k>>]
<1>1. v[x] \in Nat OBVIOUS
<1>2. f \in Bijection(1..v[x], a)
  <2>1. f \in [1..v[x] -> a] BY <1>1 DEF Units
  <2>2. \A k, l \in 1..v[x] : f[k] = f[l] => k = l OBVIOUS
  <2>3. \A p \in a : \E k \in 1..v[x] : f[k] = p
    <3>1. TAKE p \in a
    <3>2. p = <<x, p[2]>> /\ p[2] \in 1..v[x] BY <1>1 DEF Units
    <3>3. QED BY <3>2
  <2> HIDE DEF f, a
  <2>4. QED BY <2>1, <2>2, <2>3 DEF Bijection, Injection, Surjection, IsInjective
<1>3. IsFiniteSet(1..v[x]) /\ Cardinality(1..v[x]) = v[x]
  <2>1. PICK k \in Nat : k = v[x] BY <1>1
  <2>2. IsFiniteSet(1..k) /\ Cardinality(1..k) = k BY IntervalSize
  <2>3. QED BY <2>1, <2>2
<1>4. IsFiniteSet(a) /\ Cardinality(a) = v[x]
  <2>1. ExistsBijection(1..v[x], a) BY <1>2 DEF ExistsBijection
  <2> HIDE DEF a, f
  <2>2. QED BY <1>3, <2>1, FS_Bijection
<1>5. IsFiniteSet(b) /\ Cardinality(b) \in Nat
  <2>1. T \ {x} \in SUBSET S OBVIOUS
  <2>2. QED BY <2>1, UnitsFinite
<1>6. Units(v, T) = a \cup b /\ a \cap b = {} BY DEF Units
<1> HIDE DEF a, b
<1>7. Cardinality(a \cup b) = Cardinality(a) + Cardinality(b) - Cardinality(a \cap b)
  BY <1>4, <1>5, FS_Union
<1>8. Cardinality(a \cap b) = 0 BY <1>6, FS_EmptySet
<1>9. QED BY <1>1, <1>4, <1>5, <1>6, <1>7, <1>8 DEF b

(* Elements that are worth the same make the same units.                   *)
LEMMA UnitsAgree ==
  ASSUME NEW T, NEW v, NEW w, \A x \in T : v[x] = w[x]
  PROVE  Units(v, T) = Units(w, T)
BY DEF Units

(* Splitting what one element is worth off.                                *)
LEMMA UnitsSplit ==
  ASSUME NEW S, NEW n \in Nat, NEW v \in [S -> 0..n], NEW c, IsFiniteSet(S)
  PROVE  /\ Cardinality(Units(v, S \ {c})) \in Nat
         /\ c \in S => v[c] \in Nat /\ Cardinality(Units(v, S)) = Cardinality(Units(v, S \ {c})) + v[c]
         /\ c \notin S => Cardinality(Units(v, S)) = Cardinality(Units(v, S \ {c}))
<1>1. S \ {c} \in SUBSET S /\ S \in SUBSET S OBVIOUS
<1>2. Cardinality(Units(v, S \ {c})) \in Nat BY <1>1, UnitsFinite
<1>3. CASE c \in S
  <2>1. Cardinality(Units(v, S)) = v[c] + Cardinality(Units(v, S \ {c})) BY <1>1, <1>3, UnitsOfElement
  <2>2. v[c] \in Nat BY <1>3
  <2>3. QED BY <1>2, <1>3, <2>1, <2>2
<1>4. CASE c \notin S
  <2>1. S \ {c} = S BY <1>4
  <2>2. QED BY <1>2, <1>4, <2>1
<1>5. QED BY <1>3, <1>4

(* A part of a set makes no more units.                                    *)
LEMMA UnitsPart ==
  ASSUME NEW S, IsFiniteSet(S), NEW n \in Nat, NEW v \in [S -> 0..n], NEW T \in SUBSET S
  PROVE  /\ Cardinality(Units(v, T)) \in Nat /\ Cardinality(Units(v, S)) \in Nat
         /\ Cardinality(Units(v, T)) <= Cardinality(Units(v, S))
<1>1. S \in SUBSET S OBVIOUS
<1>2. /\ IsFiniteSet(Units(v, S)) /\ Cardinality(Units(v, S)) \in Nat
      /\ Cardinality(Units(v, T)) \in Nat
  BY <1>1, UnitsFinite
<1>3. Units(v, T) \in SUBSET Units(v, S) BY DEF Units
<1>4. QED BY <1>2, <1>3, FS_Subset

(* A change of what one element is worth.                                  *)
DifferAt(c, v, w, S, n) ==
  /\ c \in S /\ v \in [S -> 0..n] /\ w \in [S -> 0..n]
  /\ \A x \in S \ {c} : v[x] = w[x]

LEMMA UnitsChanged ==
  ASSUME NEW S, IsFiniteSet(S), NEW n \in Nat, NEW v, NEW w, NEW c, DifferAt(c, v, w, S, n)
  PROVE  /\ Cardinality(Units(v, S)) \in Nat /\ Cardinality(Units(w, S)) \in Nat
         /\ Cardinality(Units(w, S)) + v[c] = Cardinality(Units(v, S)) + w[c]
<1>0. c \in S /\ v \in [S -> 0..n] /\ w \in [S -> 0..n] /\ \A x \in S \ {c} : v[x] = w[x]
  BY DEF DifferAt
<1>1. Units(v, S \ {c}) = Units(w, S \ {c}) BY <1>0, UnitsAgree
<1>2. PICK k : k = Cardinality(Units(v, S \ {c})) OBVIOUS
<1>3. k \in Nat /\ v[c] \in Nat /\ Cardinality(Units(v, S)) = k + v[c] BY <1>0, <1>2, UnitsSplit
<1>4. w[c] \in Nat /\ Cardinality(Units(w, S)) = k + w[c] BY <1>0, <1>1, <1>2, UnitsSplit
<1>5. QED BY <1>3, <1>4

(* Elements that are worth at least p times as much make at least p times  *)
(* as many units: by the least part of the set that would not.             *)
LEMMA UnitsScaled ==
  ASSUME NEW S, IsFiniteSet(S), NEW n \in Nat, NEW v \in [S -> 0..n], NEW w \in [S -> 0..n],
         NEW p \in {1, 2}, \A x \in S : p * v[x] <= w[x]
  PROVE  p * Cardinality(Units(v, S)) <= Cardinality(Units(w, S))
<1> DEFINE a(T) == Cardinality(Units(v, T))
           b(T) == Cardinality(Units(w, T))
           Bad == {k \in Nat : \E T \in SUBSET S : Cardinality(T) = k /\ ~(p * a(T) <= b(T))}
<1>0. \A T \in SUBSET S : /\ IsFiniteSet(T) /\ Cardinality(T) \in Nat
                          /\ a(T) \in Nat /\ b(T) \in Nat
  BY UnitsFinite, FS_Subset, FS_CardinalityType
<1>1. Bad = {}
  <2> SUFFICES ASSUME Bad # {} PROVE FALSE OBVIOUS
  <2>1. PICK k \in Bad : \A j \in Bad : k <= j
    <3>1. Bad \in SUBSET Nat OBVIOUS
    <3> HIDE DEF Bad
    <3>2. QED BY <3>1, LeastNatural
  <2>2. PICK T \in SUBSET S : Cardinality(T) = k /\ ~(p * a(T) <= b(T)) BY <2>1
  <2>3. T # {}
    <3>1. Units(v, {}) = {} /\ Units(w, {}) = {} BY DEF Units
    <3>2. a({}) = 0 /\ b({}) = 0 BY <3>1, FS_EmptySet
    <3> HIDE DEF a, b
    <3>3. p * a({}) <= b({}) BY <3>2
    <3>4. QED BY <2>2, <3>3
  <2>4. PICK x \in T : TRUE BY <2>3
  <2>5. T \ {x} \in SUBSET S /\ x \in S /\ IsFiniteSet(T) BY <1>0
  <2>6. Cardinality(T \ {x}) = k - 1 /\ k \in Nat /\ Cardinality(T \ {x}) \in Nat
    <3>1. Cardinality(T \ {x}) = Cardinality(T) - 1 BY <2>4, <2>5, FS_RemoveElement
    <3>2. QED BY <1>0, <2>1, <2>2, <2>5, <3>1
  <2>7. p * a(T \ {x}) <= b(T \ {x})
    <3>1. k - 1 \notin Bad BY <2>1, <2>6
    <3>2. k - 1 \in Nat BY <2>6
    <3>3. QED BY <2>5, <2>6, <3>1, <3>2
  <2>8. a(T) = v[x] + a(T \ {x}) /\ b(T) = w[x] + b(T \ {x}) BY <2>4, UnitsOfElement
  <2>9. v[x] \in Nat /\ w[x] \in Nat /\ p * v[x] <= w[x] BY <2>5
  <2>10. a(T \ {x}) \in Nat /\ b(T \ {x}) \in Nat BY <1>0, <2>5
  <2> HIDE DEF a, b
  <2>11. CASE p = 1 BY <2>2, <2>7, <2>8, <2>9, <2>10, <2>11
  <2>12. CASE p = 2 BY <2>2, <2>7, <2>8, <2>9, <2>10, <2>12
  <2>13. QED BY <2>11, <2>12
<1>2. QED
  <2>1. S \in SUBSET S /\ Cardinality(S) \in Nat BY <1>0
  <2>2. p * a(S) <= b(S) BY <1>1, <2>1
  <2>3. QED BY <2>2

(* A batch whose i-th request needs no more of what it takes: the sum goes *)
(* down by the pages of the batch.                                         *)
Later(v, l, uid, k) == [x \in DOMAIN v |-> IF \E i \in 1..k : uid[i] = x THEN l[x] ELSE v[x]]

Draws(rs, uid, v, l, S, n) ==
  /\ v \in [S -> 0..n] /\ l \in [S -> 0..n] /\ uid \in [1..Len(rs) -> S]
  /\ \A i, j \in 1..Len(rs) : uid[i] = uid[j] => i = j
  /\ \A i \in 1..Len(rs) : /\ PagesLacking(rs[i]) \in Nat
                            /\ v[uid[i]] = l[uid[i]] + PagesLacking(rs[i])

LEMMA UnitsTaken ==
  ASSUME NEW S, IsFiniteSet(S), NEW n \in Nat, NEW v, NEW l, NEW B, NEW rs \in Seq(B), NEW uid,
         Draws(rs, uid, v, l, S, n)
  PROVE  /\ TotalLacking(rs) \in Nat
         /\ Cardinality(Units(Later(v, l, uid, Len(rs)), S)) \in Nat
         /\ Cardinality(Units(Later(v, l, uid, Len(rs)), S)) + TotalLacking(rs)
              = Cardinality(Units(v, S))
<1> DEFINE w(k) == Later(v, l, uid, k)
           size(k) == Cardinality(Units(w(k), S))
           N == Len(rs)
<1>0. /\ v \in [S -> 0..n] /\ l \in [S -> 0..n] /\ uid \in [1..Len(rs) -> S]
      /\ \A i, j \in 1..Len(rs) : uid[i] = uid[j] => i = j
      /\ \A i \in 1..Len(rs) : /\ PagesLacking(rs[i]) \in Nat
                                /\ v[uid[i]] = l[uid[i]] + PagesLacking(rs[i])
  BY DEF Draws
<1>1. PICK T : RunningTotal(T, rs) /\ TotalLacking(rs) = T[Len(rs)] BY <1>0, TotalsOfPrefixes
<1>2. /\ T[0] = 0 /\ N \in Nat
      /\ \A i \in 1..N : T[i] = T[i - 1] + PagesLacking(rs[i])
      /\ \A i \in 0..N : T[i] \in Nat
  <2>1. Len(rs) \in Nat OBVIOUS
  <2>2. /\ T[0] = 0 /\ T \in [0..Len(rs) -> Nat]
        /\ \A i \in 1..Len(rs) : T[i] = T[i - 1] + PagesLacking(rs[i])
    BY <1>1 DEF RunningTotal
  <2>3. QED BY <2>1, <2>2
<1>3. \A k \in 0..N : w(k) \in [S -> 0..n] BY <1>0 DEF Later
<1>4. \A k \in 0..N : size(k) \in Nat
  <2>1. S \in SUBSET S OBVIOUS
  <2> HIDE DEF w
  <2>2. QED BY <1>3, <2>1, UnitsFinite
<1>5. w(0) = v
  <2>1. 1..0 = {} OBVIOUS
  <2>2. QED BY <1>0, <2>1 DEF Later
<1>6. ASSUME NEW k \in 1..N PROVE size(k) + PagesLacking(rs[k]) = size(k - 1)
  <2>1. k - 1 \in 0..N /\ k \in 0..N /\ 1..k = 1..(k - 1) \cup {k} /\ k \notin 1..(k - 1)
    BY <1>2
  <2>2. PICK u \in S : u = uid[k] BY <1>0
  <2>3. \A x \in S \ {u} : w(k)[x] = w(k - 1)[x] BY <1>0, <2>1, <2>2 DEF Later
  <2>4. w(k)[u] = l[u] BY <1>0, <2>1, <2>2 DEF Later
  <2>5. w(k - 1)[u] = v[u]
    <3>1. \A i \in 1..(k - 1) : uid[i] # u BY <1>0, <2>1, <2>2
    <3>2. QED BY <1>0, <3>1 DEF Later
  <2>6. w(k) \in [S -> 0..n] /\ w(k - 1) \in [S -> 0..n] BY <1>3, <2>1
  <2>7. size(k - 1) + w(k)[u] = size(k) + w(k - 1)[u]
    <3>1. PICK f : f = w(k) OBVIOUS
    <3>2. PICK g : g = w(k - 1) OBVIOUS
    <3> HIDE DEF w
    <3>3. f \in [S -> 0..n] /\ g \in [S -> 0..n] /\ \A x \in S \ {u} : g[x] = f[x]
      BY <2>3, <2>6, <3>1, <3>2
    <3>4. Cardinality(Units(f, S)) + g[u] = Cardinality(Units(g, S)) + f[u]
      <4>1. IsFiniteSet(S) /\ n \in Nat /\ DifferAt(u, g, f, S, n) BY <3>3 DEF DifferAt
      <4>2. QED BY <4>1, UnitsChanged
    <3>5. QED BY <3>1, <3>2, <3>4
  <2>8. v[u] = l[u] + PagesLacking(rs[k]) /\ PagesLacking(rs[k]) \in Nat /\ l[u] \in Nat
    BY <1>0, <2>2
  <2>9. size(k) \in Nat /\ size(k - 1) \in Nat BY <1>4, <2>1
  <2> HIDE DEF size, w
  <2>10. PICK a \in Nat, b \in Nat : a = size(k) /\ b = size(k - 1) BY <2>9
  <2>11. PICK d \in Nat : d = PagesLacking(rs[k]) BY <2>8
  <2>12. b + l[u] = a + (l[u] + d) BY <2>4, <2>5, <2>7, <2>8, <2>10, <2>11
  <2>13. a + d = b BY <2>8, <2>12
  <2>14. QED BY <2>10, <2>11, <2>13
<1> DEFINE Bad == {k \in 0..N : size(k) + T[k] # size(0)}
<1>7. Bad = {}
  <2> SUFFICES ASSUME Bad # {} PROVE FALSE OBVIOUS
  <2>1. PICK k \in Bad : \A j \in Bad : k <= j
    <3>1. Bad \in SUBSET Nat BY <1>2
    <3> HIDE DEF Bad
    <3>2. QED BY <3>1, LeastNatural
  <2> HIDE DEF size
  <2>2. k # 0
    <3>1. 0 \in 0..N BY <1>2
    <3>2. size(0) + 0 = size(0) BY <1>4, <3>1
    <3>3. QED BY <1>2, <2>1, <3>2
  <2>3. k \in 1..N /\ k - 1 \in 0..N /\ k - 1 < k BY <1>2, <2>1, <2>2
  <2>4. size(k - 1) + T[k - 1] = size(0) BY <2>1, <2>3
  <2>5. size(k) + PagesLacking(rs[k]) = size(k - 1) BY <1>6, <2>3
  <2>6. T[k] = T[k - 1] + PagesLacking(rs[k]) /\ PagesLacking(rs[k]) \in Nat BY <1>0, <1>2, <2>3
  <2>7. size(k) \in Nat /\ size(k - 1) \in Nat /\ T[k - 1] \in Nat BY <1>2, <1>4, <2>3
  <2>8. size(k) + T[k] = size(0) BY <2>4, <2>5, <2>6, <2>7
  <2>9. QED BY <2>1, <2>8
<1>8. size(N) + T[N] = size(0) /\ size(N) \in Nat /\ T[N] \in Nat
  <2>1. N \in 0..N BY <1>2
  <2> HIDE DEF size
  <2>2. QED BY <1>2, <1>4, <1>7, <2>1
<1>9. size(0) = Cardinality(Units(v, S)) BY <1>5
<1> HIDE DEF size
<1>10. QED BY <1>1, <1>8, <1>9 DEF size

(* With pages of one or two tokens: the pages between two lengths hold at  *)
(* most the tokens between them and, of a last page, all but one.          *)
LEMMA PagesBetween ==
  ASSUME PageSize <= 2, NEW m \in Nat, NEW n \in Nat, m <= n
  PROVE  /\ PagesFor(n) - PagesFor(m) \in Nat
         /\ PageSize * (PagesFor(n) - PagesFor(m)) <= n - m + PageSize - 1
<1>1. PageSize \in {1, 2} BY PageSizeAssumption
<1>2. PICK a \in Nat : a = PagesFor(m) BY PagesForTokens
<1>3. PICK b \in Nat : b = PagesFor(n) BY PagesForTokens
<1>4. a <= b BY <1>2, <1>3, PagesForOrder
<1>5. CASE PageSize = 1
  <2>1. \A k \in Nat : PagesFor(k) = k BY <1>5, PagesForWhole
  <2>2. a = m /\ b = n BY <1>2, <1>3, <2>1
  <2>3. QED BY <1>2, <1>3, <1>4, <1>5, <2>2
<1>6. CASE PageSize = 2
  <2>1. m <= a * 2 BY <1>2, <1>6, PagesForTokens
  <2>2. b * 2 <= n + 1
    <3>1. PICK k \in Nat : n <= k * 2 /\ k * 2 <= n + 1
      <4>1. n \div 2 \in Nat /\ (n + 1) \div 2 \in Nat OBVIOUS
      <4>2. n <= ((n + 1) \div 2) * 2 /\ ((n + 1) \div 2) * 2 <= n + 1 OBVIOUS
      <4>3. QED BY <4>1, <4>2
    <3>2. b <= k BY <1>3, <1>6, <3>1, PagesForTokens
    <3>3. QED BY <3>1, <3>2
  <2>3. b - a \in Nat /\ 2 * (b - a) <= n - m + 1 BY <1>4, <2>1, <2>2
  <2>4. QED BY <1>2, <1>3, <1>6, <2>3
<1>7. QED BY <1>1, <1>5, <1>6

(* What cache_req does to the pool of free and evictable pages: the tree   *)
(* takes the new part of the key and the rest of the prefix comes back,    *)
(* the handle moves or is released.                                        *)
PoolMoves(r, finished) ==
  \E h \in Nat, m \in Nat, k \in Nat, p \in Nat :
    /\ h <= m /\ m <= k /\ k <= p /\ p = PagesFor(r.cached)
    /\ Len(freePages') = Len(freePages) + (m - h) + IF finished THEN p - k ELSE 0
    /\ tree'.evictable + (IF finished THEN 0 ELSE k - h) >= tree.evictable + (k - m)

LEMMA PoolOfRequest ==
  ASSUME NEW B, WellShaped(tree, B), Sized(tree), Typed(tree),
         NEW R, NEW g, Counted(tree, R, g), NEW c \in R, NEW r, r.handle = g[c],
         ReqKey(r) \in Seq(B), r.handle \in Seq(B), IsPrefix(r.handle, ReqKey(r)),
         Cacheable(r, B), NEW P, freePages \in Seq(P), pageTable \in [Slot -> Seq(P)],
         NEW finished \in BOOLEAN, CacheReq(r, finished)
  PROVE  PoolMoves(r, finished)
<1>1. PICK h : h = Len(r.handle) OBVIOUS
<1>2. PICK k : k = Len(ReqKey(r)) OBVIOUS
<1>3. PICK m : m = MatchLen(tree, ReqKey(r)) OBVIOUS
<1>4. PICK p : p = PagesFor(r.cached) OBVIOUS
<1>5. /\ h \in Nat /\ k \in Nat /\ m \in Nat /\ h <= m /\ m <= k /\ k <= p
  BY <1>1, <1>2, <1>3, <1>4, CacheableLengths
<1>6. RowOK(pageTable, r) BY DEF Cacheable
<1>7. p \in Nat BY <1>4, <1>6, PagesForTokens DEF RowOK
<1>8. PICK row \in Seq(P) : row = pageTable[r.slot] BY <1>6 DEF RowOK
<1>9. p <= Len(row) BY <1>4, <1>6, <1>8 DEF RowOK
<1>10. /\ SubSeq(row, h + 1, m) \in Seq(P) /\ Len(SubSeq(row, h + 1, m)) = m - h
  <2>1. m <= Len(row) BY <1>5, <1>7, <1>9
  <2>2. QED BY <1>5, <2>1, PartOfRow
<1>11. /\ SubSeq(row, k + 1, p) \in Seq(P) /\ Len(SubSeq(row, k + 1, p)) = p - k
  BY <1>5, <1>7, <1>9, PartOfRow
<1>12. /\ FreedPages(r, finished) \in Seq(P)
       /\ Len(FreedPages(r, finished)) = (m - h) + IF finished THEN p - k ELSE 0
  <2>1. PICK d \in Seq(P) : d = SubSeq(row, h + 1, m) BY <1>10
  <2>2. PICK e \in Seq(P) : e = SubSeq(row, k + 1, p) BY <1>11
  <2>3. FreedPages(r, finished) = IF finished THEN d \o e ELSE d
    BY <1>1, <1>2, <1>3, <1>4, <1>8, <2>1, <2>2 DEF FreedPages
  <2>4. Len(d) = m - h /\ Len(e) = p - k BY <1>10, <1>11, <2>1, <2>2
  <2>5. d \o e \in Seq(P) /\ Len(d \o e) = Len(d) + Len(e) OBVIOUS
  <2>6. (m - h) + 0 = m - h BY <1>5
  <2>7. QED BY <2>3, <2>4, <2>5, <2>6
<1>13. Len(freePages') = Len(freePages) + (m - h) + IF finished THEN p - k ELSE 0
  <2>1. PICK f \in Seq(P) : f = freePages OBVIOUS
  <2>2. PICK u \in Seq(P) : u = FreedPages(r, finished) BY <1>12
  <2>3. Len(f \o u) = Len(f) + Len(u) OBVIOUS
  <2>4. freePages' = f \o u BY <2>1, <2>2 DEF CacheReq
  <2>5. PICK x \in Nat : x = IF finished THEN p - k ELSE 0
    <3>1. p - k \in Nat BY <1>5, <1>7
    <3>2. QED BY <3>1
  <2>6. Len(u) = (m - h) + x BY <1>12, <2>2, <2>5
  <2>7. Len(f) \in Nat OBVIOUS
  <2>8. Len(f) + ((m - h) + x) = Len(f) + (m - h) + x BY <1>5, <2>7
  <2>9. QED BY <2>1, <2>3, <2>4, <2>5, <2>6, <2>8
<1>14. tree'.evictable + (IF finished THEN 0 ELSE k - h) >= tree.evictable + (k - m)
  <2>1. LET key == ReqKey(r)
            more == IF finished THEN 0 ELSE Len(key) - Len(r.handle)
        IN  CacheReqTree(r, finished).evictable + more
            >= tree.evictable + (Len(key) - MatchLen(tree, key))
    BY CacheReqEvictable
  <2>2. tree' = CacheReqTree(r, finished) BY DEF CacheReq
  <2>3. QED BY <1>1, <1>2, <1>3, <2>1, <2>2
<1>15. QED BY <1>4, <1>5, <1>7, <1>13, <1>14 DEF PoolMoves

(* An eviction turns evictable pages into free ones.                       *)
LEMMA EvictPool ==
  ASSUME NEW B, WellShaped(tree, B), Sized(tree), NEW P, freePages \in Seq(P),
         tree.page \in [Covered(tree) -> P], NEW rs, EvictOne(rs)
  PROVE  \E k \in Nat : /\ tree'.evictable = tree.evictable - k
                        /\ Len(freePages') = Len(freePages) + k
<1>1. PICK n \in FreeLeaves(tree) : /\ tree' = RemoveLeaf(tree, n)
                                    /\ freePages' = freePages \o NodePages(tree, n)
  BY DEF EvictOne, OldestLeaves
<1>2. n \in Nodes(tree) BY DEF FreeLeaves
<1>3. /\ NodeLen(tree, n) \in Nat
      /\ tree'.evictable = tree.evictable - NodeLen(tree, n)
  BY <1>1, <1>2, RemoveLeafSized
<1>4. Len(NodePages(tree, n)) = NodeLen(tree, n) BY <1>3 DEF NodePages
<1>5. NodePages(tree, n) \in Seq(P) BY <1>2, PagesOfNode
<1>6. Len(freePages') = Len(freePages) + NodeLen(tree, n)
  <2>1. PICK u \in Seq(P) : u = NodePages(tree, n) BY <1>5
  <2>2. PICK f \in Seq(P) : f = freePages OBVIOUS
  <2>3. Len(f \o u) = Len(f) + Len(u) OBVIOUS
  <2>4. QED BY <1>1, <1>4, <2>1, <2>2, <2>3
<1>7. QED BY <1>3, <1>6
=============================================================================
