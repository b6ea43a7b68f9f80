-------------------------- MODULE RustClientProofs --------------------------
(***************************************************************************)
(* Theorems about RustClient, for every tree of paths, every set of        *)
(* watched paths and every number of edits, remote changes, faults and     *)
(* sessions of Obsidian.                                                   *)
(***************************************************************************)
EXTENDS RustClient, FiniteSetTheorems, SequenceTheorems, WellFoundedInduction, TLAPS

-----------------------------------------------------------------------------
(* The store's operations, as functions from table to table.               *)

(* A finite set of numbers that is not empty has a greatest element.       *)
LEMMA Greatest ==
  ASSUME NEW S \in SUBSET Nat, IsFiniteSet(S), S # {}
  PROVE  Max(S) \in S /\ \A n \in S : n <= Max(S)
<1> DEFINE Topped(T) == \E m \in T : \A n \in T : n <= m
           Sizes == {Cardinality(T) : T \in {U \in SUBSET S : U # {} /\ ~Topped(U)}}
           R == {ss \in Nat \X Nat : ss[1] < ss[2]}
<1>1. Topped(S)
  <2> SUFFICES ASSUME ~Topped(S) PROVE FALSE
    OBVIOUS
  <2>1. Sizes \subseteq Nat /\ Sizes # {}
    <3>1. \A T \in SUBSET S : Cardinality(T) \in Nat
      BY FS_Subset, FS_CardinalityType
    <3>2. Cardinality(S) \in Sizes
      OBVIOUS
    <3> QED
      BY <3>1, <3>2
  <2>2. IsWellFoundedOn(R, Nat)
    BY NatLessThanWellFounded DEF OpToRel
  <2>3. PICK k \in Sizes : \A j \in Sizes : <<j, k>> \notin R
    <3> HIDE DEF Sizes, R
    <3> QED
      BY <2>1, <2>2, WFMin
  <2>4. PICK T \in SUBSET S : T # {} /\ ~Topped(T) /\ k = Cardinality(T)
    BY <2>3
  <2>5. IsFiniteSet(T)
    BY <2>4, FS_Subset
  <2>6. PICK x \in T : TRUE
    BY <2>4
  <2> DEFINE U == T \ {x}
  <2>7. IsFiniteSet(U) /\ Cardinality(U) = k - 1 /\ Cardinality(U) \in Nat /\ k \in Nat
    BY <2>4, <2>5, <2>6, FS_RemoveElement, FS_CardinalityType
  <2>8. U \in SUBSET S
    BY <2>4
  <2>9. U = {} \/ Topped(U)
    <3> SUFFICES ASSUME U # {}, ~Topped(U) PROVE FALSE
      OBVIOUS
    <3>1. Cardinality(U) \in Sizes
      BY <2>8
    <3>2. <<Cardinality(U), k>> \notin R
      BY <2>3, <3>1
    <3> HIDE DEF U
    <3>3. Cardinality(U) < k
      BY <2>7
    <3>4. <<Cardinality(U), k>> \in R
      BY <2>7, <3>3
    <3> QED
      BY <3>2, <3>4
  <2>10. CASE U = {}
    <3>1. T = {x} /\ x \in Nat
      BY <2>4, <2>6, <2>10
    <3> QED
      BY <2>4, <3>1
  <2>11. CASE Topped(U)
    <3>1. PICK m \in U : \A n \in U : n <= m
      BY <2>11
    <3>2. m \in T /\ m \in Nat /\ x \in Nat /\ \A n \in T : n \in Nat
      BY <2>4, <2>6, <3>1
    <3>3. (\A n \in T : n <= m) \/ (\A n \in T : n <= x)
      BY <3>1, <3>2
    <3> QED
      BY <2>4, <2>6, <3>2, <3>3
  <2> QED
    BY <2>9, <2>10, <2>11
<1>2. \E m \in S : \A n \in S : m >= n
  BY <1>1
<1> HIDE DEF Topped, Sizes, R
<1>3. Max(S) \in S /\ \A n \in S : Max(S) >= n
  BY <1>2 DEF Max
<1> QED
  BY <1>3

(* The tip is the greatest revision of a row.                              *)
LEMMA TipIsGreatest ==
  ASSUME NEW t \in Table
  PROVE  /\ Tip(t) \in Nat
         /\ \A p \in Paths : t[p].rev \in Nat /\ t[p].rev <= Tip(t)
         /\ Tip(t) = 0 \/ \E p \in Paths : t[p].rev = Tip(t)
<1> DEFINE revs == {t[p].rev : p \in Paths}
           f == [p \in Paths |-> t[p].rev]
           S == {0} \cup revs
<1>1. \A p \in Paths : t[p].rev \in Nat
  BY DEF Table, Row
<1>2. IsFiniteSet(revs)
  <2>1. f \in Surjection(Paths, revs)
    BY DEF Surjection
  <2> HIDE DEF f, revs
  <2> QED
    BY <2>1, PathsFinite, FS_Surjection
<1>3. S \in SUBSET Nat /\ S # {}
  BY <1>1
<1>4. IsFiniteSet(S)
  <2>1. S = revs \cup {0}
    OBVIOUS
  <2> HIDE DEF revs, S
  <2> QED
    BY <1>2, <2>1, FS_AddElement
<1>5. Max(S) \in S /\ \A n \in S : n <= Max(S)
  <2> HIDE DEF S
  <2> QED
    BY <1>3, <1>4, Greatest
<1>6. Tip(t) = Max(S)
  BY DEF Tip
<1> HIDE DEF S
<1>7. Tip(t) \in S /\ \A n \in S : n <= Tip(t)
  BY <1>5, <1>6
<1> QED
  BY <1>1, <1>3, <1>7 DEF S

(* A sequence of a set's elements, each at one place.                      *)
LEMMA Ordering ==
  ASSUME NEW s \in SUBSET Paths
  PROVE  /\ Cardinality(s) \in Nat
         /\ SetToSeq(s) \in [1 .. Cardinality(s) -> s]
         /\ Len(SetToSeq(s)) = Cardinality(s) /\ SetToSeq(s) \in Seq(s)
         /\ \A q \in s : LET i == SelectInSeq(SetToSeq(s), LAMBDA x : x = q)
                         IN  i \in 1 .. Cardinality(s) /\ SetToSeq(s)[i] = q
<1>1. IsFiniteSet(s) /\ Cardinality(s) \in Nat /\ ExistsBijection(1 .. Cardinality(s), s)
  BY PathsFinite, FS_Subset, FS_CardinalityType
<1> DEFINE n == Cardinality(s)
           o == SetToSeq(s)
<1>2. \E f \in [1 .. n -> s] : IsInjective(f)
  BY <1>1 DEF ExistsBijection, Bijection, Injection
<1>3. o \in [1 .. n -> s] /\ IsInjective(o)
  BY <1>2 DEF SetToSeq
<1> HIDE DEF o
<1>4. o \in Injection(1 .. n, s) /\ IsFiniteSet(1 .. n) /\ Cardinality(1 .. n) = n
  BY <1>1, <1>3, FS_Interval DEF Injection
<1>5. o \in Surjection(1 .. n, s)
  BY <1>1, <1>4, FS_Injection
<1>6. o \in Seq(s) /\ Len(o) = n
  BY <1>1, <1>3
<1>7. ASSUME NEW q \in s
      PROVE  LET i == SelectInSeq(o, LAMBDA x : x = q)
             IN  i \in 1 .. n /\ o[i] = q
  <2>1. PICK k \in 1 .. n : o[k] = q
    BY <1>5 DEF Surjection
  <2> DEFINE I == {i \in 1 .. Len(o) : o[i] = q}
  <2>2. k \in I /\ \A i, j \in I : i = j
    BY <1>3, <1>6, <2>1 DEF IsInjective
  <2>3. I = {k}
    BY <2>2
  <2> HIDE DEF I
  <2>4. Min(I) = k
    BY <1>1, <2>1, <2>3 DEF Min
  <2>5. SelectInSeq(o, LAMBDA x : x = q) = Min(I)
    BY <2>3 DEF SelectInSeq, I
  <2> QED
    BY <2>1, <2>4, <2>5
<1> QED
  BY <1>1, <1>3, <1>6, <1>7 DEF o

(* Rows that are buried take the revisions from r on, each its own.        *)
LEMMA Burying ==
  ASSUME NEW t \in Table, NEW s \in SUBSET Paths, NEW r \in Nat
  PROVE  LET b == Bury(t, s, r)
         IN  /\ b \in Table
             /\ \A q \in Paths \ s : b[q] = t[q]
             /\ \A q \in s : /\ b[q] = Tombstone(b[q].rev)
                             /\ b[q].rev >= r /\ b[q].rev < r + Cardinality(s)
             /\ \A q, u \in s : b[q].rev = b[u].rev => q = u
<1> DEFINE b == Bury(t, s, r)
           at(q) == SelectInSeq(SetToSeq(s), LAMBDA x : x = q)
<1>1. /\ Cardinality(s) \in Nat
      /\ \A q \in s : at(q) \in 1 .. Cardinality(s) /\ SetToSeq(s)[at(q)] = q
  BY Ordering
<1>2. \A q \in Paths : b[q] = IF q \in s THEN Tombstone(r + at(q) - 1) ELSE t[q]
  BY DEF Bury
<1>3. b \in [Paths -> {b[q] : q \in Paths}]
  BY DEF Bury
<1> HIDE DEF b, at
<1>4. ASSUME NEW q \in s
      PROVE  /\ b[q] = Tombstone(r + at(q) - 1) /\ b[q].rev = r + at(q) - 1
             /\ b[q].rev \in Nat /\ b[q].rev >= r /\ b[q].rev < r + Cardinality(s)
             /\ b[q] \in Row
  <2>1. b[q] = Tombstone(r + at(q) - 1)
    BY <1>2
  <2>2. b[q].rev = r + at(q) - 1
    BY <2>1 DEF Tombstone
  <2>3. at(q) \in Nat /\ at(q) >= 1 /\ at(q) <= Cardinality(s)
    BY <1>1
  <2>4. b[q].rev \in Nat /\ b[q].rev >= r /\ b[q].rev < r + Cardinality(s)
    BY <1>1, <2>2, <2>3
  <2> QED
    BY <2>1, <2>2, <2>4 DEF Tombstone, Row
<1>5. ASSUME NEW q \in s, NEW u \in s, b[q].rev = b[u].rev
      PROVE  q = u
  <2>1. at(q) = at(u)
    BY <1>1, <1>4, <1>5
  <2> QED
    BY <1>1, <2>1
<1>6. \A q \in Paths : b[q] \in Row
  BY <1>2, <1>4 DEF Table
<1>7. b \in Table
  BY <1>3, <1>6 DEF Table
<1> QED
  BY <1>2, <1>4, <1>5, <1>7 DEF b

(* An upload: what is in the way is buried, the file comes last.           *)
LEMMA Uploading ==
  ASSUME NEW t \in Table, NEW p \in Paths, NEW v \in Contents
  PROVE  LET u == Uploaded(t, p, v)
             hit == Conflicts(t, p)
         IN  /\ u \in Table /\ Tip(u) > Tip(t)
             /\ u[p] = FileRow(u[p].rev, v) /\ u[p].rev > Tip(t)
             /\ hit \subseteq Paths \ {p}
             /\ \A q \in Paths \ (hit \cup {p}) : u[q] = t[q]
             /\ \A q \in hit : /\ u[q] = Tombstone(u[q].rev)
                               /\ u[q].rev > Tip(t) /\ u[q].rev < u[p].rev
             /\ \A q, w \in hit : u[q].rev = u[w].rev => q = w
<1> DEFINE u == Uploaded(t, p, v)
           hit == Conflicts(t, p)
           b == Bury(t, hit, Tip(t) + 1)
           rev == Tip(t) + Cardinality(hit) + 1
<1>1. hit \in SUBSET Paths /\ p \notin hit
  BY UnderIsStrictOrder DEF Conflicts, Above, Below
<1>2. Tip(t) \in Nat /\ Tip(t) + 1 \in Nat
  BY TipIsGreatest
<1>3. /\ b \in Table
      /\ \A q \in Paths \ hit : b[q] = t[q]
      /\ \A q \in hit : /\ b[q] = Tombstone(b[q].rev)
                        /\ b[q].rev >= Tip(t) + 1 /\ b[q].rev < Tip(t) + 1 + Cardinality(hit)
      /\ \A q, w \in hit : b[q].rev = b[w].rev => q = w
  <2> HIDE DEF hit
  <2> QED
    BY <1>1, <1>2, Burying
<1>4. Cardinality(hit) \in Nat
  <2> HIDE DEF hit
  <2> QED
    BY <1>1, Ordering
<1>5. u = [b EXCEPT ![p] = FileRow(rev, v)]
  BY DEF Uploaded
<1> HIDE DEF u, hit, b
<1>6. rev \in Nat /\ rev > Tip(t)
  BY <1>2, <1>4
<1>7. FileRow(rev, v) \in Row /\ FileRow(rev, v).rev = rev
  BY <1>6 DEF FileRow, Row
<1>8. u \in Table /\ u[p] = FileRow(rev, v) /\ \A q \in Paths \ {p} : u[q] = b[q]
  BY <1>3, <1>5, <1>7 DEF Table
<1>9. \A q \in hit : u[q] = b[q] /\ b[q].rev \in Nat
  BY <1>1, <1>3, <1>8 DEF Table, Row
<1>10. u[p].rev = rev /\ Tip(u) \in Nat /\ u[p].rev <= Tip(u)
  BY <1>7, <1>8, TipIsGreatest
<1>11. \A q \in hit : /\ u[q] = Tombstone(u[q].rev)
                      /\ u[q].rev > Tip(t) /\ u[q].rev < u[p].rev
  BY <1>2, <1>3, <1>4, <1>9, <1>10
<1>12. Tip(u) > Tip(t)
  BY <1>2, <1>6, <1>10
<1>13. \A q, w \in hit : u[q].rev = u[w].rev => q = w
  BY <1>3, <1>9
<1>14. \A q \in Paths \ (hit \cup {p}) : u[q] = t[q]
  BY <1>3, <1>8
<1>15. u[p] = FileRow(u[p].rev, v) /\ u[p].rev > Tip(t)
  BY <1>6, <1>8, <1>10
<1> QED
  BY <1>1, <1>8, <1>11, <1>12, <1>13, <1>14, <1>15 DEF u, hit

(* A delete: what its base covers is buried, and the path unless something *)
(* newer survives below it.                                                *)
LEMMA Deleting ==
  ASSUME NEW t \in Table, NEW p \in Paths, NEW base
  PROVE  LET d == Deleted(t, p, base)
             seen == Seen(t, p, base)
             gone == IF Late(t, p, base) = {} THEN seen \cup {p} ELSE seen
         IN  /\ d \in Table /\ Tip(d) >= Tip(t)
             /\ seen \subseteq Paths \ {p}
             /\ \A q \in Paths \ gone : d[q] = t[q]
             /\ \A q \in gone : d[q] = Tombstone(d[q].rev) /\ d[q].rev > Tip(t)
             /\ p \in gone => \A q \in seen : d[q].rev < d[p].rev
             /\ \A q, w \in gone : d[q].rev = d[w].rev => q = w
<1> DEFINE d == Deleted(t, p, base)
           seen == Seen(t, p, base)
           late == Late(t, p, base)
           gone == IF late = {} THEN seen \cup {p} ELSE seen
           b == Bury(t, seen, Tip(t) + 1)
           rev == Tip(t) + Cardinality(seen) + 1
<1>1. seen \in SUBSET Paths /\ p \notin seen
  BY DEF Seen, Active, Below
<1>2. Tip(t) \in Nat /\ Tip(t) + 1 \in Nat
  BY TipIsGreatest
<1>3. /\ b \in Table
      /\ \A q \in Paths \ seen : b[q] = t[q]
      /\ \A q \in seen : /\ b[q] = Tombstone(b[q].rev)
                         /\ b[q].rev >= Tip(t) + 1 /\ b[q].rev < Tip(t) + 1 + Cardinality(seen)
      /\ \A q, w \in seen : b[q].rev = b[w].rev => q = w
  <2> HIDE DEF seen
  <2> QED
    BY <1>1, <1>2, Burying
<1>4. Cardinality(seen) \in Nat
  <2> HIDE DEF seen
  <2> QED
    BY <1>1, Ordering
<1>5. d = IF late # {} THEN b ELSE [b EXCEPT ![p] = Tombstone(rev)]
  BY DEF Deleted
<1>6. gone = IF late = {} THEN seen \cup {p} ELSE seen
  OBVIOUS
<1> HIDE DEF d, seen, b, late, gone
<1>7. rev \in Nat /\ rev > Tip(t)
  BY <1>2, <1>4
<1>8. Tombstone(rev) \in Row /\ Tombstone(rev).rev = rev
  BY <1>7 DEF Tombstone, Row
<1>9. /\ d \in Table /\ \A q \in Paths \ {p} : d[q] = b[q]
      /\ d[p] = IF late # {} THEN b[p] ELSE Tombstone(rev)
  BY <1>3, <1>5, <1>8 DEF Table
<1>10. \A q \in seen : d[q] = b[q] /\ b[q].rev \in Nat
  BY <1>1, <1>3, <1>9 DEF Table, Row
<1>11. \A q \in seen : /\ d[q] = Tombstone(d[q].rev)
                       /\ d[q].rev > Tip(t) /\ d[q].rev < rev
  BY <1>2, <1>3, <1>4, <1>10
<1>12. p \in gone => late = {} /\ d[p] = Tombstone(d[p].rev) /\ d[p].rev = rev
  BY <1>1, <1>6, <1>8, <1>9
<1>13. \A q \in gone : q \in seen \/ q = p
  BY <1>6
<1>14. \A q \in gone : d[q] = Tombstone(d[q].rev) /\ d[q].rev > Tip(t)
  BY <1>7, <1>11, <1>12, <1>13
<1>15. p \in gone => \A q \in seen : d[q].rev < d[p].rev
  BY <1>11, <1>12
<1>16. \A q \in seen : d[q].rev \in Nat
  BY <1>10
<1>17. ASSUME NEW q \in gone, NEW w \in gone, d[q].rev = d[w].rev PROVE q = w
  <2>1. CASE q \in seen /\ w \in seen
    BY <1>3, <1>10, <1>17, <2>1
  <2>2. CASE q = p /\ w \in seen
    BY <1>7, <1>11, <1>12, <1>16, <1>17, <2>2
  <2>3. CASE q \in seen /\ w = p
    BY <1>7, <1>11, <1>12, <1>16, <1>17, <2>3
  <2> QED
    BY <1>13, <1>17, <2>1, <2>2, <2>3
<1>18. \A q \in Paths \ gone : d[q] = t[q]
  BY <1>3, <1>6, <1>9
<1>19. Tip(d) >= Tip(t)
  <2>1. Tip(d) \in Nat /\ \A q \in Paths : d[q].rev \in Nat /\ d[q].rev <= Tip(d)
    BY <1>9, TipIsGreatest
  <2>2. CASE Tip(t) = 0
    BY <2>1, <2>2
  <2>3. CASE \E q \in Paths : t[q].rev = Tip(t)
    <3>1. PICK q \in Paths : t[q].rev = Tip(t)
      BY <2>3
    <3>2. CASE q \in gone
      BY <1>2, <1>14, <2>1, <3>1, <3>2
    <3>3. CASE q \notin gone
      BY <1>2, <1>18, <2>1, <3>1, <3>3
    <3> QED
      BY <3>2, <3>3
  <2> QED
    BY <2>2, <2>3, TipIsGreatest
<1> QED
  BY <1>1, <1>9, <1>14, <1>15, <1>17, <1>18, <1>19 DEF d, seen, gone, late

Consistent(t) ==
  /\ Antichain(t) /\ TombstonesFirst(t) /\ RevisionsUnique(t)
  /\ \A p \in Paths : t[p].live \/ t[p].content = NoContent

(* A file is live, a tombstone is not and has no bytes.                    *)
LEMMA RowsLive ==
  \A r, v : FileRow(r, v).live /\ ~Tombstone(r).live /\ Tombstone(r).content = NoContent
BY DEF FileRow, Tombstone

(* An upload keeps the table consistent.                                   *)
LEMMA UploadConsistent ==
  ASSUME NEW t \in Table, Consistent(t), NEW p \in Paths, NEW v \in Contents
  PROVE  Consistent(Uploaded(t, p, v))
<1> DEFINE u == Uploaded(t, p, v)
           hit == Conflicts(t, p)
<1>1. /\ u[p] = FileRow(u[p].rev, v) /\ u[p].rev > Tip(t)
      /\ hit \subseteq Paths \ {p}
      /\ \A q \in Paths \ (hit \cup {p}) : u[q] = t[q]
      /\ \A q \in hit : u[q] = Tombstone(u[q].rev) /\ u[q].rev > Tip(t) /\ u[q].rev < u[p].rev
      /\ \A q, w \in hit : u[q].rev = u[w].rev => q = w
  BY Uploading
<1>2. /\ Tip(t) \in Nat /\ \A q \in Paths : t[q].rev \in Nat /\ t[q].rev <= Tip(t)
      /\ \A q \in Paths : u[q].rev \in Nat
  <2>1. u \in Table
    BY Uploading
  <2> HIDE DEF u
  <2> QED
    BY <2>1, TipIsGreatest DEF Table, Row
<1>3. \A q \in Paths : q \in hit <=> t[q].live /\ (<<p, q>> \in Under \/ <<q, p>> \in Under)
  BY DEF Conflicts, Above, Below
<1> HIDE DEF u, hit
<1>4. u[p].live /\ \A q \in hit : ~u[q].live
  BY <1>1, RowsLive
<1>5. \A q \in Paths : q \notin hit /\ q # p => u[q] = t[q] /\ u[q].rev <= Tip(t)
  BY <1>1, <1>2
<1>6. Antichain(u)
  <2> SUFFICES ASSUME NEW q \in Paths, NEW w \in Paths, u[q].live, u[w].live
               PROVE  <<q, w>> \notin Under
    BY DEF Antichain
  <2>1. q \notin hit /\ w \notin hit
    BY <1>4
  <2>2. CASE q # p /\ w # p
    BY <1>5, <2>1, <2>2 DEF Consistent, Antichain
  <2>3. CASE q = p /\ w # p
    BY <1>3, <1>5, <2>1, <2>3
  <2>4. CASE q # p /\ w = p
    BY <1>3, <1>5, <2>1, <2>4
  <2>5. CASE q = p /\ w = p
    BY <2>5, UnderIsStrictOrder
  <2> QED
    BY <2>2, <2>3, <2>4, <2>5
<1>7. TombstonesFirst(u)
  <2> SUFFICES ASSUME NEW q \in Paths, NEW w \in Paths, u[q].live, ~u[w].live, <<q, w>> \in Under
               PROVE  u[w].rev < u[q].rev
    BY DEF TombstonesFirst
  <2>1. q \notin hit /\ w # p
    BY <1>4
  <2>2. CASE q # p /\ w \notin hit
    BY <1>5, <2>1, <2>2 DEF Consistent, TombstonesFirst
  <2>3. CASE q # p /\ w \in hit
    <3>1. t[q].live /\ t[w].live
      BY <1>3, <1>5, <2>1, <2>3
    <3> QED
      BY <3>1 DEF Consistent, Antichain
  <2>4. CASE q = p /\ w \notin hit
    BY <1>1, <1>2, <1>5, <2>1, <2>4
  <2>5. CASE q = p /\ w \in hit
    BY <1>1, <2>5
  <2> QED
    BY <2>2, <2>3, <2>4, <2>5
<1>8. RevisionsUnique(u)
  <2> SUFFICES ASSUME NEW q \in Paths, NEW w \in Paths, u[q].rev = u[w].rev, u[q].rev # 0 PROVE q = w
    BY DEF RevisionsUnique
  <2>1. CASE q \in hit \cup {p} /\ w \in hit \cup {p}
    BY <1>1, <1>2, <2>1
  <2>2. CASE q \notin hit \cup {p} /\ w \notin hit \cup {p}
    BY <1>5, <2>2 DEF Consistent, RevisionsUnique
  <2>3. CASE q \in hit \cup {p} /\ w \notin hit \cup {p}
    BY <1>1, <1>2, <1>5, <2>3
  <2>4. CASE q \notin hit \cup {p} /\ w \in hit \cup {p}
    BY <1>1, <1>2, <1>5, <2>4
  <2> QED
    BY <2>1, <2>2, <2>3, <2>4
<1>9. \A q \in Paths : u[q].live \/ u[q].content = NoContent
  BY <1>1, <1>5, RowsLive DEF Consistent
<1> QED
  BY <1>6, <1>7, <1>8, <1>9 DEF Consistent, u

(* So does a delete, whatever its base.                                    *)
LEMMA DeleteConsistent ==
  ASSUME NEW t \in Table, Consistent(t), NEW p \in Paths, NEW base
  PROVE  Consistent(Deleted(t, p, base))
<1> DEFINE d == Deleted(t, p, base)
           seen == Seen(t, p, base)
           late == Late(t, p, base)
           gone == IF late = {} THEN seen \cup {p} ELSE seen
<1>1. /\ \A q \in Paths \ gone : d[q] = t[q]
      /\ \A q \in gone : d[q] = Tombstone(d[q].rev) /\ d[q].rev > Tip(t)
      /\ \A q, w \in gone : d[q].rev = d[w].rev => q = w
  BY Deleting
<1>2. /\ Tip(t) \in Nat /\ \A q \in Paths : t[q].rev \in Nat /\ t[q].rev <= Tip(t)
      /\ \A q \in Paths : d[q].rev \in Nat
  <2>1. d \in Table
    BY Deleting
  <2> HIDE DEF d
  <2> QED
    BY <2>1, TipIsGreatest DEF Table, Row
<1>3. /\ gone \subseteq Paths
      /\ \A q \in gone : t[q].live \/ (q = p /\ late = {})
      /\ late = {} => \A q \in Paths : t[q].live /\ <<q, p>> \in Under => q \in gone
  BY DEF Seen, Active, Below
<1> HIDE DEF d, gone, seen, late
<1>4. \A q \in gone : ~d[q].live
  BY <1>1, RowsLive
<1>5. \A q \in Paths : q \notin gone => d[q] = t[q]
  BY <1>1
<1>6. Antichain(d)
  BY <1>4, <1>5 DEF Consistent, Antichain
<1>7. TombstonesFirst(d)
  <2> SUFFICES ASSUME NEW q \in Paths, NEW w \in Paths, d[q].live, ~d[w].live, <<q, w>> \in Under
               PROVE  d[w].rev < d[q].rev
    BY DEF TombstonesFirst
  <2>1. q \notin gone /\ t[q].live
    BY <1>4, <1>5
  <2>2. CASE w \notin gone
    BY <1>5, <2>1, <2>2 DEF Consistent, TombstonesFirst
  <2>3. CASE w \in gone
    BY <1>3, <2>1, <2>3 DEF Consistent, Antichain
  <2> QED
    BY <2>2, <2>3
<1>8. RevisionsUnique(d)
  <2> SUFFICES ASSUME NEW q \in Paths, NEW w \in Paths, d[q].rev = d[w].rev, d[q].rev # 0 PROVE q = w
    BY DEF RevisionsUnique
  <2>1. CASE q \in gone /\ w \in gone
    BY <1>1, <2>1
  <2>2. CASE q \notin gone /\ w \notin gone
    BY <1>5, <2>2 DEF Consistent, RevisionsUnique
  <2>3. CASE q \in gone /\ w \notin gone
    BY <1>1, <1>2, <1>5, <2>3
  <2>4. CASE q \notin gone /\ w \in gone
    BY <1>1, <1>2, <1>5, <2>4
  <2> QED
    BY <2>1, <2>2, <2>3, <2>4
<1>9. \A q \in Paths : d[q].live \/ d[q].content = NoContent
  BY <1>1, <1>5, RowsLive DEF Consistent
<1> QED
  BY <1>6, <1>7, <1>8, <1>9 DEF Consistent, d

-----------------------------------------------------------------------------
(* Lines of a journal.                                                     *)

(* ToSet by places.                                                        *)
LEMMA Places ==
  ASSUME NEW S, NEW s \in Seq(S)
  PROVE  ToSet(s) = {s[i] : i \in 1 .. Len(s)}
BY DEF ToSet

(* What the first, the last and the other elements of a sequence are.      *)
LEMMA Elements ==
  ASSUME NEW S, NEW s \in Seq(S)
  PROVE  /\ ToSet(s) \subseteq S
         /\ s # <<>> => /\ Head(s) \in S /\ Tail(s) \in Seq(S)
                        /\ ToSet(s) = {Head(s)} \cup ToSet(Tail(s))
         /\ \A x \in S : Append(s, x) \in Seq(S) /\ ToSet(Append(s, x)) = ToSet(s) \cup {x}
         /\ s # <<>> <=> ToSet(s) # {}
<1>1. ToSet(s) \subseteq S /\ ToSet(s) = {s[i] : i \in 1 .. Len(s)}
  BY DEF ToSet
<1>2. s # <<>> => Head(s) \in S /\ Tail(s) \in Seq(S)
  OBVIOUS
<1>3. s # <<>> => ToSet(s) = {Head(s)} \cup ToSet(Tail(s))
  <2> SUFFICES ASSUME s # <<>> PROVE ToSet(s) = {Head(s)} \cup ToSet(Tail(s))
    OBVIOUS
  <2>1. Len(s) \in Nat /\ Len(s) >= 1 /\ Len(Tail(s)) = Len(s) - 1 /\ Head(s) = s[1]
    OBVIOUS
  <2>2. \A i \in 1 .. Len(Tail(s)) : Tail(s)[i] = s[i + 1]
    OBVIOUS
  <2>3. \A i \in 1 .. Len(s) : s[i] = Head(s) \/ (i - 1 \in 1 .. Len(Tail(s)) /\ s[i] = Tail(s)[i - 1])
    BY <2>1, <2>2
  <2>4. ToSet(Tail(s)) = {Tail(s)[i] : i \in 1 .. Len(Tail(s))}
    BY <1>2, Places
  <2>5. \A i \in 1 .. Len(Tail(s)) : i + 1 \in 1 .. Len(s)
    BY <2>1
  <2>6. 1 \in 1 .. Len(s)
    BY <2>1
  <2>7. ASSUME NEW x \in ToSet(s) PROVE x \in {Head(s)} \cup ToSet(Tail(s))
    <3>1. PICK i \in 1 .. Len(s) : x = s[i]
      BY <1>1, <2>7
    <3> QED
      BY <2>3, <2>4, <3>1
  <2>8. Head(s) \in ToSet(s)
    BY <1>1, <2>1, <2>6
  <2>9. ASSUME NEW x \in ToSet(Tail(s)) PROVE x \in ToSet(s)
    <3>1. PICK i \in 1 .. Len(Tail(s)) : x = Tail(s)[i]
      BY <2>4, <2>9
    <3>2. x = s[i + 1] /\ i + 1 \in 1 .. Len(s)
      BY <2>2, <2>5, <3>1
    <3> QED
      BY <1>1, <3>2
  <2> QED
    BY <2>7, <2>8, <2>9
<1>4. ASSUME NEW x \in S PROVE Append(s, x) \in Seq(S) /\ ToSet(Append(s, x)) = ToSet(s) \cup {x}
  <2>1. /\ Append(s, x) \in Seq(S) /\ Len(Append(s, x)) = Len(s) + 1 /\ Len(s) \in Nat
        /\ Append(s, x)[Len(s) + 1] = x
        /\ \A i \in 1 .. Len(s) : Append(s, x)[i] = s[i]
    OBVIOUS
  <2> QED
    BY <2>1 DEF ToSet
<1>5. s # <<>> <=> ToSet(s) # {}
  <2>1. s = <<>> => ToSet(s) = {}
    BY DEF ToSet
  <2>2. s # <<>> => 1 \in 1 .. Len(s)
    OBVIOUS
  <2> QED
    BY <1>1, <2>1, <2>2
<1> QED
  BY <1>1, <1>2, <1>3, <1>4, <1>5

(* RemoveFirst takes away at most the element it is given. *)
LEMMA RemovesOne ==
  ASSUME NEW S, NEW s \in Seq(S), NEW e
  PROVE  /\ RemoveFirst(s, e) \in Seq(S)
         /\ ToSet(RemoveFirst(s, e)) \subseteq ToSet(s)
         /\ ToSet(s) \ {e} \subseteq ToSet(RemoveFirst(s, e))
<1>1. CASE ~\E i \in 1 .. Len(s) : s[i] = e
  BY <1>1 DEF RemoveFirst
<1>2. CASE \E i \in 1 .. Len(s) : s[i] = e
  <2> DEFINE I == {i \in 1 .. Len(s) : s[i] = e}
             k == SelectInSeq(s, LAMBDA v : v = e)
             a == SubSeq(s, 1, k - 1)
             b == SubSeq(s, k + 1, Len(s))
  <2>1. k = Min(I)
    BY <1>2 DEF SelectInSeq
  <2>2. k \in 1 .. Len(s) /\ s[k] = e
    <3>1. I \subseteq Nat /\ I # {}
      BY <1>2
    <3>2. \E m \in I : \A n \in I : m <= n
      <4> DEFINE R == {ss \in Nat \X Nat : ss[1] < ss[2]}
      <4>1. IsWellFoundedOn(R, Nat)
        BY NatLessThanWellFounded DEF OpToRel
      <4> HIDE DEF I, R
      <4>2. PICK m \in I : \A n \in I : <<n, m>> \notin R
        BY <3>1, <4>1, WFMin
      <4>3. \A n \in I : n \in Nat /\ m \in Nat
        BY <3>1
      <4>4. \A n \in I : ~(n < m)
        BY <4>2, <4>3 DEF R
      <4> QED
        BY <4>2, <4>3, <4>4
    <3>3. Min(I) \in I
      <4> HIDE DEF I
      <4> QED
        BY <3>2 DEF Min
    <3> QED
      BY <2>1, <3>3
  <2>3. RemoveFirst(s, e) = a \o b
    BY <1>2 DEF RemoveFirst, RemoveAt
  <2> HIDE DEF I, k
  <2>4. /\ a \in Seq(S) /\ Len(a) = k - 1 /\ \A i \in 1 .. k - 1 : a[i] = s[i]
        /\ b \in Seq(S) /\ Len(b) = Len(s) - k /\ \A i \in 1 .. Len(s) - k : b[i] = s[k + i]
    BY <2>2
  <2> HIDE DEF a, b
  <2>5. /\ a \o b \in Seq(S) /\ Len(a \o b) = Len(a) + Len(b)
        /\ \A i \in 1 .. Len(a) : (a \o b)[i] = a[i]
        /\ \A i \in 1 .. Len(b) : (a \o b)[Len(a) + i] = b[i]
    <3>1. /\ a \o b \in Seq(S) /\ Len(a \o b) = Len(a) + Len(b)
          /\ \A i \in 1 .. Len(a) + Len(b) : (a \o b)[i] = IF i <= Len(a) THEN a[i] ELSE b[i - Len(a)]
      BY <2>4, ConcatProperties
    <3>2. Len(a) \in Nat /\ Len(b) \in Nat
      BY <2>4
    <3>3. ASSUME NEW i \in 1 .. Len(b) PROVE (a \o b)[Len(a) + i] = b[i]
      <4>1. Len(a) + i \in 1 .. Len(a) + Len(b) /\ ~(Len(a) + i <= Len(a)) /\ Len(a) + i - Len(a) = i
        BY <3>2
      <4> QED
        BY <3>1, <4>1
    <3>4. \A i \in 1 .. Len(a) : (a \o b)[i] = a[i]
      BY <3>1, <3>2
    <3> QED
      BY <3>1, <3>3, <3>4
  <2>6. ASSUME NEW i \in 1 .. Len(a \o b)
        PROVE  \E j \in 1 .. Len(s) : (a \o b)[i] = s[j]
    <3>1. CASE i <= k - 1
      BY <2>2, <2>4, <2>5, <3>1
    <3>2. CASE i > k - 1
      <4>1. i - (k - 1) \in 1 .. Len(b) /\ i = Len(a) + (i - (k - 1))
        BY <2>2, <2>4, <2>5, <3>2
      <4>2. (a \o b)[i] = s[k + (i - (k - 1))]
        BY <2>4, <2>5, <4>1
      <4> QED
        BY <2>2, <2>4, <4>1, <4>2
    <3> QED
      BY <2>2, <3>1, <3>2
  <2>7. ASSUME NEW j \in 1 .. Len(s), j # k
        PROVE  \E i \in 1 .. Len(a \o b) : (a \o b)[i] = s[j]
    <3>1. CASE j < k
      <4>1. j \in 1 .. Len(a) /\ j \in 1 .. Len(a \o b) /\ a[j] = s[j]
        BY <2>2, <2>4, <2>5, <3>1
      <4> QED
        BY <2>5, <4>1
    <3>2. CASE j > k
      <4>1. j - k \in 1 .. Len(b) /\ b[j - k] = s[k + (j - k)] /\ k + (j - k) = j
        BY <2>2, <2>4, <3>2
      <4>2. (a \o b)[Len(a) + (j - k)] = s[j] /\ Len(a) + (j - k) \in 1 .. Len(a \o b)
        BY <2>2, <2>4, <2>5, <4>1
      <4> QED
        BY <4>2
    <3> QED
      BY <2>2, <2>7, <3>1, <3>2
  <2>8. ToSet(a \o b) = {(a \o b)[i] : i \in 1 .. Len(a \o b)} /\ ToSet(s) = {s[j] : j \in 1 .. Len(s)}
    BY <2>5, Places
  <2>9. ToSet(a \o b) \subseteq ToSet(s)
    BY <2>6, <2>8
  <2>10. ToSet(s) \ {e} \subseteq ToSet(a \o b)
    BY <2>2, <2>7, <2>8
  <2> QED
    BY <2>3, <2>5, <2>9, <2>10
<1> QED
  BY <1>1, <1>2

(* A finite set listed as a sequence.                                      *)
LEMMA Listed ==
  ASSUME NEW T, IsFiniteSet(T)
  PROVE  SetToSeq(T) \in Seq(T) /\ ToSet(SetToSeq(T)) = T
<1> DEFINE n == Cardinality(T)
           o == SetToSeq(T)
<1>1. n \in Nat /\ ExistsBijection(1 .. n, T)
  BY FS_CardinalityType
<1>2. \E f \in [1 .. n -> T] : IsInjective(f)
  BY <1>1 DEF ExistsBijection, Bijection, Injection
<1>3. o \in [1 .. n -> T] /\ IsInjective(o)
  BY <1>2 DEF SetToSeq
<1> HIDE DEF o
<1>4. o \in Injection(1 .. n, T) /\ IsFiniteSet(1 .. n) /\ Cardinality(1 .. n) = n
  BY <1>1, <1>3, FS_Interval DEF Injection
<1>5. o \in Surjection(1 .. n, T)
  BY <1>1, <1>4, FS_Injection
<1>6. o \in Seq(T) /\ Len(o) = n
  BY <1>1, <1>3
<1>7. ToSet(o) = {o[i] : i \in 1 .. n}
  BY <1>6, Places
<1> QED
  BY <1>3, <1>5, <1>6, <1>7 DEF o, Surjection

(* What two sequences hold together.                                       *)
LEMMA Joined ==
  ASSUME NEW S, NEW a \in Seq(S), NEW b \in Seq(S)
  PROVE  a \o b \in Seq(S) /\ ToSet(a \o b) = ToSet(a) \cup ToSet(b)
<1>1. /\ a \o b \in Seq(S) /\ Len(a \o b) = Len(a) + Len(b)
      /\ \A i \in 1 .. Len(a) + Len(b) : (a \o b)[i] = IF i <= Len(a) THEN a[i] ELSE b[i - Len(a)]
  BY ConcatProperties
<1>2. Len(a) \in Nat /\ Len(b) \in Nat
  OBVIOUS
<1>3. /\ ToSet(a) = {a[i] : i \in 1 .. Len(a)} /\ ToSet(b) = {b[i] : i \in 1 .. Len(b)}
      /\ ToSet(a \o b) = {(a \o b)[i] : i \in 1 .. Len(a) + Len(b)}
  BY <1>1, Places
<1>4. \A i \in 1 .. Len(a) + Len(b) :
        (i \in 1 .. Len(a) /\ (a \o b)[i] = a[i]) \/ (i - Len(a) \in 1 .. Len(b) /\ (a \o b)[i] = b[i - Len(a)])
  BY <1>1, <1>2
<1>5. \A i \in 1 .. Len(a) : i \in 1 .. Len(a) + Len(b) /\ (a \o b)[i] = a[i]
  BY <1>1, <1>2
<1>6. ASSUME NEW i \in 1 .. Len(b)
      PROVE  Len(a) + i \in 1 .. Len(a) + Len(b) /\ (a \o b)[Len(a) + i] = b[i]
  <2>1. Len(a) + i \in 1 .. Len(a) + Len(b) /\ ~(Len(a) + i <= Len(a)) /\ Len(a) + i - Len(a) = i
    BY <1>2
  <2> QED
    BY <1>1, <2>1
<1>7. ToSet(a \o b) \subseteq ToSet(a) \cup ToSet(b)
  BY <1>3, <1>4
<1>8. ToSet(a) \subseteq ToSet(a \o b)
  BY <1>3, <1>5
<1>9. ToSet(b) \subseteq ToSet(a \o b)
  BY <1>3, <1>6
<1> QED
  BY <1>1, <1>7, <1>8, <1>9

-----------------------------------------------------------------------------
(* Types.                                                                  *)

Counted == edits \in 0 .. MaxEdits /\ remotes \in 0 .. MaxRemote

(* What the tick works on.                                                 *)
Applied == {"take", "write", "record", "advance", "rewrite"}
InHand == (pc = "ack" => job \in OutboxOp) /\ (pc \in Applied => job \in Line)

IInv == TypeOK /\ Counted /\ InHand

(* What other devices write are contents.                                  *)
LEMMA ForeignContents ==
  ASSUME NEW n \in 0 .. MaxRemote
  PROVE  -n .. -1 \subseteq Contents
<1>1. n \in Nat /\ MaxRemote \in Nat /\ n <= MaxRemote
  BY Bounds
<1>2. ASSUME NEW v \in -n .. -1 PROVE v \in Contents
  <2>1. -v \in 1 .. MaxRemote /\ v = -(-v)
    BY <1>1
  <2> QED
    BY <2>1, Numbered
<1> QED
  BY <1>2

(* The images of sets of paths are finite.                                 *)
LEMMA OpsFinite ==
  ASSUME NEW s \in SUBSET Paths, NEW rev \in Nat
  PROVE  /\ IsFiniteSet({DeleteOp(p, rev) : p \in s}) /\ {DeleteOp(p, rev) : p \in s} \subseteq OutboxOp
         /\ IsFiniteSet({PutOp(p) : p \in s}) /\ {PutOp(p) : p \in s} \subseteq OutboxOp
<1>1. IsFiniteSet(s)
  BY PathsFinite, FS_Subset
<1>2. [p \in s |-> DeleteOp(p, rev)] \in Surjection(s, {DeleteOp(p, rev) : p \in s})
  BY DEF Surjection
<1>3. [p \in s |-> PutOp(p)] \in Surjection(s, {PutOp(p) : p \in s})
  BY DEF Surjection
<1>4. IsFiniteSet({DeleteOp(p, rev) : p \in s})
  BY <1>1, <1>2, FS_Surjection
<1>5. IsFiniteSet({PutOp(p) : p \in s})
  BY <1>1, <1>3, FS_Surjection
<1>6. \A p \in s : DeleteOp(p, rev) \in OutboxOp /\ PutOp(p) \in OutboxOp
  BY DEF DeleteOp, PutOp, OutboxOp
<1> QED
  BY <1>4, <1>5, <1>6

(* What enqueue_durable leaves in the outbox and in memory.                *)
Queued(gone, fresh, bad, rev) ==
  /\ \A op \in ToSet(outbox') \cup failed' :
       \/ op \in ToSet(outbox) \cup failed
       \/ \E p \in gone : op = DeleteOp(p, rev)
       \/ \E p \in fresh : op = PutOp(p)
  /\ \A op \in ToSet(outbox') :
       \/ op \in ToSet(outbox)
       \/ \E p \in gone \ bad : op = DeleteOp(p, rev)
       \/ \E p \in fresh \ bad : op = PutOp(p)
  /\ ToSet(outbox) \subseteq ToSet(outbox')
  /\ \A p \in fresh \ bad : PutOp(p) \in ToSet(outbox')
  /\ \A p \in gone \ bad : DeleteOp(p, rev) \in ToSet(outbox')
  /\ \A f \in failed : f \in failed' \/ f.path \in gone \cup fresh
  /\ \A f \in failed' : f.path \in bad \/ (f \in failed /\ f.path \notin gone \cup fresh)

(* A batch of enqueues leaves the types, and queues what it should.        *)
LEMMA Enqueues ==
  ASSUME outbox \in Seq(OutboxOp), failed \subseteq OutboxOp, excused \subseteq {"adopted", "torn", "unqueued"} \X Paths,
         NEW gone \in SUBSET Paths, NEW fresh \in SUBSET Paths, NEW bad \in SUBSET Paths,
         NEW rev \in Nat, EnqueueDurable(gone, fresh, bad, rev)
  PROVE  /\ outbox' \in Seq(OutboxOp) /\ failed' \subseteq OutboxOp
         /\ excused' \subseteq {"adopted", "torn", "unqueued"} \X Paths
         /\ Queued(gone, fresh, bad, rev)
<1> DEFINE D == {DeleteOp(p, rev) : p \in gone \ bad}
           P == {PutOp(p) : p \in fresh \ bad}
<1>1. /\ IsFiniteSet(D) /\ D \subseteq OutboxOp
      /\ IsFiniteSet(P) /\ P \subseteq OutboxOp
  BY OpsFinite
<1>2. /\ outbox' = outbox \o SetToSeq(D) \o SetToSeq(P)
      /\ failed' = {f \in failed : f.path \notin gone \cup fresh}
                   \cup {DeleteOp(p, rev) : p \in gone \cap bad} \cup {PutOp(p) : p \in fresh \cap bad}
      /\ excused' = excused \cup {"unqueued"} \X bad
  BY DEF EnqueueDurable
<1> HIDE DEF D, P
<1>3. /\ SetToSeq(D) \in Seq(OutboxOp) /\ ToSet(SetToSeq(D)) = D
      /\ SetToSeq(P) \in Seq(OutboxOp) /\ ToSet(SetToSeq(P)) = P
  BY <1>1, Listed
<1>4. outbox \o SetToSeq(D) \in Seq(OutboxOp) /\ ToSet(outbox \o SetToSeq(D)) = ToSet(outbox) \cup D
  BY <1>3, Joined
<1>5. outbox' \in Seq(OutboxOp) /\ ToSet(outbox') = ToSet(outbox) \cup D \cup P
  <2> DEFINE a == outbox \o SetToSeq(D)
             b == SetToSeq(P)
  <2>1. outbox' = a \o b
    BY <1>2
  <2>2. a \in Seq(OutboxOp) /\ ToSet(a) = ToSet(outbox) \cup D /\ b \in Seq(OutboxOp) /\ ToSet(b) = P
    BY <1>3, <1>4
  <2> HIDE DEF a, b
  <2>3. a \o b \in Seq(OutboxOp) /\ ToSet(a \o b) = ToSet(a) \cup ToSet(b)
    BY <2>2, Joined
  <2> QED
    BY <2>1, <2>2, <2>3
<1>6. failed' \subseteq OutboxOp
  <2>1. \A p \in Paths : DeleteOp(p, rev) \in OutboxOp /\ PutOp(p) \in OutboxOp
    BY DEF DeleteOp, PutOp, OutboxOp
  <2> QED
    BY <1>2, <2>1
<1>7. excused' \subseteq {"adopted", "torn", "unqueued"} \X Paths
  BY <1>2
<1>8. /\ \A x : x \in D <=> \E p \in gone \ bad : x = DeleteOp(p, rev)
      /\ \A x : x \in P <=> \E p \in fresh \ bad : x = PutOp(p)
  BY DEF D, P
<1>9. /\ \A f \in failed' : \/ f \in failed /\ f.path \notin gone \cup fresh
                            \/ \E p \in gone \cap bad : f = DeleteOp(p, rev)
                            \/ \E p \in fresh \cap bad : f = PutOp(p)
      /\ \A f \in failed : f \in failed' \/ f.path \in gone \cup fresh
  BY <1>2
<1>10. \A p : DeleteOp(p, rev).path = p /\ PutOp(p).path = p
  BY DEF DeleteOp, PutOp
<1>11. Queued(gone, fresh, bad, rev)
  BY <1>5, <1>8, <1>9, <1>10 DEF Queued
<1> QED
  BY <1>5, <1>6, <1>7, <1>11

(* Manifests of all kinds.                                                 *)
LEMMA Manifests ==
  ASSUME NEW m \in [Paths -> Entry], NEW d \in [Paths -> Known]
  PROVE  /\ \A s : Forget(m, s) \in [Paths -> Entry]
         /\ Touched(m, d) \in [Paths -> Entry] /\ Rebaselined(m, d) \in [Paths -> Entry]
         /\ NoEntries \in [Paths -> Entry]
         /\ \A p \in Paths : EntryOf(d[p]) \in Entry
<1>1. NoEntry \in Entry /\ \A v \in Known : EntryOf(v) \in Entry
  BY DEF NoEntry, EntryOf, Entry, Known
<1>2. \A p \in Paths : m[p] \in Entry /\ d[p] \in Known /\ EntryOf(d[p]) \in Entry
  BY <1>1
<1>3. NoEntries \in [Paths -> Entry]
  BY <1>1 DEF NoEntries
<1>4. \A s : Forget(m, s) \in [Paths -> Entry]
  BY <1>1, <1>2 DEF Forget
<1>5. Touched(m, d) \in [Paths -> Entry]
  BY <1>2 DEF Touched
<1>6. Rebaselined(m, d) \in [Paths -> Entry]
  BY <1>1, <1>2 DEF Rebaselined
<1> QED
  BY <1>2, <1>3, <1>4, <1>5, <1>6

(* The paths a look finds.                                                 *)
LEMMA FoundPaths ==
  \A m, dirty : /\ Gone(m, dirty) \subseteq Paths /\ Present(dirty) \subseteq Watched
                /\ Fresh(m, dirty) \subseteq Present(dirty) /\ Watched \subseteq Paths
                /\ Found(m, dirty) = Gone(m, dirty) \cup Fresh(m, dirty)
BY WatchedPaths DEF Gone, Tracked, Present, Fresh, Found

(* A look at any paths keeps the types.                                    *)
LEMMA LookTypes ==
  ASSUME TypeOK, NEW m \in [Paths -> Entry], NEW dirty, NEW bad, NEW rev \in Nat,
         ReconcilePaths(m, dirty, bad, rev)
  PROVE  /\ outbox' \in Seq(OutboxOp) /\ failed' \subseteq OutboxOp
         /\ excused' \subseteq {"adopted", "torn", "unqueued"} \X Paths
         /\ tracker' \in [Paths -> Entry]
<1>1. Gone(m, dirty) \in SUBSET Paths /\ Fresh(m, dirty) \in SUBSET Paths /\ bad \in SUBSET Paths
  BY FoundPaths DEF ReconcilePaths
<1>2. EnqueueDurable(Gone(m, dirty), Fresh(m, dirty), bad, rev) /\ tracker' = Reconciled(m, dirty, bad)
  BY DEF ReconcilePaths
<1>3. /\ outbox \in Seq(OutboxOp) /\ failed \subseteq OutboxOp
      /\ excused \subseteq {"adopted", "torn", "unqueued"} \X Paths /\ disk \in [Paths -> Known]
  BY DEF TypeOK
<1>4. /\ outbox' \in Seq(OutboxOp) /\ failed' \subseteq OutboxOp
      /\ excused' \subseteq {"adopted", "torn", "unqueued"} \X Paths
  BY <1>1, <1>2, <1>3, Enqueues
<1>5. \A p \in Paths : EntryOf(disk[p]) \in Entry
  BY <1>3, Manifests
<1>6. Forget(m, Gone(m, dirty) \ bad) \in [Paths -> Entry]
  BY <1>3, Manifests
<1>7. tracker' \in [Paths -> Entry]
  BY <1>2, <1>5, <1>6 DEF Reconciled
<1> QED
  BY <1>4, <1>7

(* What a look at any paths adds to the outbox.                            *)
LEMMA LookQueues ==
  ASSUME TypeOK, NEW m, NEW dirty, NEW bad, NEW rev \in Nat, ReconcilePaths(m, dirty, bad, rev)
  PROVE  Queued(Gone(m, dirty), Fresh(m, dirty), bad, rev)
<1>1. Gone(m, dirty) \in SUBSET Paths /\ Fresh(m, dirty) \in SUBSET Paths /\ bad \in SUBSET Paths
  BY FoundPaths DEF ReconcilePaths
<1>2. EnqueueDurable(Gone(m, dirty), Fresh(m, dirty), bad, rev)
  BY DEF ReconcilePaths
<1> QED
  BY <1>1, <1>2, Enqueues DEF TypeOK

(* An operation is sent to the server, which answers or does not.          *)
Sends(op) == \E answered \in BOOLEAN : Requested(op, answered)

(* What an operation does to the server's table and the histories.         *)
LEMMA RequestTypes ==
  ASSUME TypeOK, NEW op \in OutboxOp, Sends(op), op.op = "put" => IsFile(disk, op.path)
  PROVE  files' \in Table /\ dead' \subseteq Paths /\ sent' \subseteq Contents
<1>1. op.path \in Paths /\ files \in Table /\ dead \subseteq Paths /\ sent \subseteq Contents
  BY DEF OutboxOp, TypeOK
<1>2. op.op = "put" => disk[op.path] \in Contents
  BY <1>1 DEF IsFile, TypeOK, Known
<1>3. op.op = "put" => Uploaded(files, op.path, disk[op.path]) \in Table
  BY <1>1, <1>2, Uploading
<1>4. Deleted(files, op.path, op.base) \in Table
  BY <1>1, Deleting
<1>5. files' \in Table
  BY <1>1, <1>3, <1>4 DEF Sends, Requested, Refused
<1> QED
  BY <1>1, <1>2, <1>5 DEF Sends, Requested, Refused

(* The lines of the inbox query.                                           *)
LEMMA LinesTyped ==
  ASSUME NEW t \in Table, NEW r
  PROVE  InboxLines(t, r) \subseteq Line
<1>1. \A p \in Paths : t[p].rev \in Nat
  BY DEF Table, Row
<1> QED
  BY <1>1 DEF InboxLines, InboxLine, Inbox, Line

(* The initial state.                                                      *)
LEMMA IInvInitially == Init => IInv
<1> SUFFICES ASSUME Init PROVE IInv
  OBVIOUS
<1>1. PICK s \in {{}} \cup {{p} : p \in Paths} :
        /\ files = [p \in Paths |-> IF p \in s THEN FileRow(1, -1) ELSE NoRow]
        /\ disk = [p \in Paths |-> IF p \in s THEN -1 ELSE NoContent]
        /\ saved = Cardinality(s) /\ remotes = Cardinality(s)
        /\ had = IF s = {} THEN {} ELSE {-1}
  BY DEF Init
<1>2. Cardinality(s) \in {0, 1}
  BY FS_EmptySet, FS_Singleton
<1>3. -1 \in Contents
  <2>1. 1 \in 0 .. MaxRemote /\ -1 \in -1 .. -1
    BY Bounds
  <2> QED
    BY <2>1, ForeignContents
<1>4. files \in Table
  <2>1. NoRow \in Row /\ FileRow(1, -1) \in Row
    BY <1>3 DEF NoRow, FileRow, Row
  <2> QED
    BY <1>1, <2>1 DEF Table
<1>5. disk \in [Paths -> Known] /\ had \subseteq Contents
  BY <1>1, <1>3 DEF Known
<1>6. saved \in Nat /\ remotes \in 0 .. MaxRemote
  BY <1>1, <1>2, Bounds
<1>7. edits \in 0 .. MaxEdits
  BY Bounds DEF Init
<1>8. tracker \in [Paths -> Entry]
  BY DEF Init, NoEntry, Entry, Known
<1>9. outbox \in Seq(OutboxOp) /\ failed \subseteq OutboxOp /\ inbox \subseteq Line
  BY DEF Init
<1>10. /\ cursor \in Nat /\ manifest = NoManifest /\ dead = {} /\ events = {} /\ excused = {}
       /\ pc = "down" /\ job = NoJob /\ body = NoContent /\ obsidian = "closed" /\ sent = {}
  BY DEF Init
<1>11. TypeOK
  BY <1>4, <1>5, <1>6, <1>8, <1>9, <1>10 DEF TypeOK, Known
<1> QED
  BY <1>6, <1>7, <1>10, <1>11 DEF IInv, Counted, InHand, Applied

(* The steps of a behaviour, one by one.                                   *)
LEMMA Steps ==
  ASSUME Next
  PROVE  \/ \E p \in Paths : Edit(p) \/ Erase(p) \/ SaveInObsidian(p)
         \/ \E bad : ReconcileEvents(bad) \/ Rescan(bad) \/ \E line \in inbox : Inspect(line, bad)
         \/ Seed \/ FirstRun \/ StartRebaselined \/ Resumed \/ Started
         \/ LoseEvents \/ StartTick \/ Drain \/ SkipPut \/ Acknowledge \/ Fetch \/ EndTick
         \/ \E op \in failed : RetryFailed(op)
         \/ \E line \in inbox : DropLine(line)
         \/ \E ok \in BOOLEAN : Push(ok) \/ SaveManifest(ok)
         \/ Download \/ Write \/ Record \/ ApplyRemoteDelete \/ Advance \/ RewriteInbox
         \/ Suspend \/ TickFails \/ Crash \/ RemoteChange
         \/ ObsidianStarts \/ ObsidianExits \/ PluginPushes \/ PluginPulls \/ Pause \/ Resume
         \/ HalfWay
<1>1. CASE Start
  BY <1>1 DEF Start
<1>2. CASE Ticking
  BY <1>2 DEF Ticking
<1>3. CASE Session
  BY <1>3 DEF Session
<1>4. CASE Looking
  BY <1>4 DEF Looking
<1> QED
  BY <1>1, <1>2, <1>3, <1>4 DEF Next

(* What a step that fails half-way leaves alone.                           *)
LEMMA HalfWaySteps ==
  ASSUME HalfWay
  PROVE  /\ UNCHANGED <<files, remotes, inbox, dead, manifest, cursor, tracker, obsidian, sent, edits, sessions>>
         /\ excused \subseteq excused'
         /\ \/ SkipUnseen /\ pc = "drain" /\ pc' = "ack" /\ job' = Head(outbox)
               /\ UNCHANGED <<disk, outbox, saved, failed, had, body>>
            \/ /\ pc' = "save" /\ job' = NoJob /\ body' = NoContent
               /\ \/ (\E op \in failed : RetryHalfWay(op)) /\ pc = "retry" /\ UNCHANGED <<disk, saved, had, excused>>
                  \/ /\ (\E renamed \in BOOLEAN : WriteHalfWay(renamed)) /\ pc = "write"
                     /\ had \subseteq had' /\ UNCHANGED <<outbox, saved, failed>>
                  \/ RecordFails /\ pc = "record" /\ UNCHANGED <<disk, outbox, saved, failed, had>>
                  \/ /\ (\E gone \in SUBSET Paths : DeleteHalfWay(gone)) /\ pc = "take"
                     /\ UNCHANGED <<outbox, saved, failed, had, excused>>
                  \/ AdvanceHalfWay /\ pc = "advance" /\ UNCHANGED <<disk, outbox, failed, had, excused>>
<1> USE DEF serverVars, journals, memory, history, Goto, FailsHalfWay
<1>1. CASE SkipUnseen
  BY <1>1 DEF SkipUnseen
<1>2. CASE \E op \in failed : RetryHalfWay(op)
  BY <1>2 DEF RetryHalfWay
<1>3. CASE \E renamed \in BOOLEAN : WriteHalfWay(renamed)
  BY <1>3 DEF WriteHalfWay
<1>4. CASE RecordFails
  BY <1>4 DEF RecordFails
<1>5. CASE \E gone \in SUBSET Paths : DeleteHalfWay(gone)
  BY <1>5 DEF DeleteHalfWay
<1>6. CASE AdvanceHalfWay
  BY <1>6 DEF AdvanceHalfWay
<1> QED
  BY <1>1, <1>2, <1>3, <1>4, <1>5, <1>6 DEF HalfWay

(* The user, in Obsidian or outside it.                                    *)
LEMMA UserTypes ==
  ASSUME IInv, NEW p \in Paths, Edit(p) \/ Erase(p) \/ SaveInObsidian(p)
  PROVE  IInv'
<1>1. /\ edits < MaxEdits /\ edits' = edits + 1 /\ edits \in 0 .. MaxEdits /\ MaxEdits \in Nat
  BY Bounds DEF IInv, Counted, Edit, Erase, SaveInObsidian
<1>2. edits' \in 0 .. MaxEdits /\ edits + 1 \in 1 .. MaxEdits
  BY <1>1
<1>3. edits + 1 \in Known /\ NoContent \in Known
  BY <1>2, Numbered DEF Known
<1>4. disk' \in [Paths -> Known]
  BY <1>3 DEF IInv, TypeOK, Edit, Erase, SaveInObsidian
<1>5. events' \subseteq Paths
  BY DEF IInv, TypeOK, Edit, Erase, SaveInObsidian, Notice, Above
<1>6. outbox' \in Seq(OutboxOp)
  <2>1. PutOp(p) \in OutboxOp
    BY DEF PutOp, OutboxOp
  <2>2. outbox' \in {outbox, Append(outbox, PutOp(p))}
    BY DEF Edit, Erase, SaveInObsidian, journals
  <2>3. outbox \in Seq(OutboxOp)
    BY DEF IInv, TypeOK
  <2> QED
    BY <2>1, <2>2, <2>3, Elements
<1>7. UNCHANGED <<files, remotes, inbox, dead, saved, manifest, cursor, tracker, failed, pc, job, body,
                  obsidian, sent, had, excused>>
  BY DEF Edit, Erase, SaveInObsidian, serverVars, journals, tickVars, history
<1> QED
  BY <1>2, <1>4, <1>5, <1>6, <1>7 DEF IInv, TypeOK, Counted, InHand

(* The looks of the main loop and of the tick.                             *)
LEMMA LookingTypes ==
  ASSUME IInv, NEW bad, ReconcileEvents(bad) \/ Rescan(bad) \/ \E line \in inbox : Inspect(line, bad)
  PROVE  IInv'
<1>1. PICK m, dirty : m \in {tracker, Touched(tracker, disk)} /\ ReconcilePaths(m, dirty, bad, cursor)
  BY DEF ReconcileEvents, Rescan, Inspect
<1>2. m \in [Paths -> Entry] /\ cursor \in Nat
  <2>1. tracker \in [Paths -> Entry] /\ disk \in [Paths -> Known] /\ cursor \in Nat
    BY DEF IInv, TypeOK
  <2> QED
    BY <1>1, <2>1, Manifests
<1>3. /\ outbox' \in Seq(OutboxOp) /\ failed' \subseteq OutboxOp
      /\ excused' \subseteq {"adopted", "torn", "unqueued"} \X Paths
      /\ tracker' \in [Paths -> Entry]
  BY <1>1, <1>2, LookTypes DEF IInv
<1>4. UNCHANGED <<files, remotes, disk, inbox, dead, saved, manifest, cursor, obsidian, sent, had, edits>>
  BY DEF ReconcileEvents, Rescan, Inspect, serverVars
<1>5. events' \subseteq Paths
  BY DEF ReconcileEvents, Rescan, Inspect, IInv, TypeOK
<1>6. CASE UNCHANGED <<pc, job, body>>
  BY <1>3, <1>4, <1>5, <1>6 DEF IInv, TypeOK, Counted, InHand
<1>7. CASE Goto("save")
  BY <1>3, <1>4, <1>5, <1>7 DEF IInv, TypeOK, Counted, InHand, Goto, Known, Applied
<1>8. CASE pc' = "take" /\ job' \in inbox /\ UNCHANGED body
  <2>1. job' \in Line
    BY <1>8 DEF IInv, TypeOK
  <2> QED
    BY <1>3, <1>4, <1>5, <1>8, <2>1 DEF IInv, TypeOK, Counted, InHand
<1> QED
  BY <1>6, <1>7, <1>8 DEF ReconcileEvents, Rescan, Inspect, tickVars

(* What Resumed compares its look with.                                    *)
LEMMA CheckedManifest ==
  ASSUME NEW known \in [Paths -> Entry], disk \in [Paths -> Known], NEW same, NEW forgotten
  PROVE  [p \in Paths |-> IF p \in same THEN EntryOf(disk[p]) ELSE Forget(known, forgotten)[p]]
           \in [Paths -> Entry]
<1>1. \A p \in Paths : EntryOf(disk[p]) \in Entry
  BY Manifests
<1>2. Forget(known, forgotten) \in [Paths -> Entry]
  BY Manifests
<1> QED
  BY <1>1, <1>2

(* The ways to start.                                                      *)
LEMMA StartTypes ==
  ASSUME IInv, Seed \/ FirstRun \/ StartRebaselined \/ Resumed \/ Started
  PROVE  IInv'
<1>1. /\ disk \in [Paths -> Known] /\ saved \in Nat /\ cursor \in Nat
      /\ tracker \in [Paths -> Entry] /\ NoEntries \in [Paths -> Entry]
      /\ manifest # NoManifest => manifest.files \in [Paths -> Entry] /\ manifest.rev \in Nat
  BY Manifests DEF IInv, TypeOK
<1>2. CASE Seed
  <2>1. PICK dirty : ReconcilePaths(NoEntries, dirty, {}, saved)
    BY <1>2 DEF Seed
  <2>2. /\ outbox' \in Seq(OutboxOp) /\ failed' \subseteq OutboxOp
        /\ excused' \subseteq {"adopted", "torn", "unqueued"} \X Paths
        /\ tracker' \in [Paths -> Entry]
    BY <1>1, <2>1, LookTypes DEF IInv
  <2>3. /\ UNCHANGED <<files, remotes, disk, inbox, dead, saved, manifest, events, job, body, obsidian,
                       sent, had, edits>>
        /\ cursor' = saved /\ pc' = "started"
    BY <1>2 DEF Seed, Starting, serverVars
  <2> QED
    BY <1>1, <2>2, <2>3 DEF IInv, TypeOK, Counted, InHand, Applied
<1>3. CASE FirstRun \/ StartRebaselined
  <2>1. PICK known \in [Paths -> Entry] : Rebaseline(known) /\ AdoptFrom(known)
    BY <1>1, <1>3 DEF FirstRun, StartRebaselined
  <2>2. /\ tracker' \in [Paths -> Entry]
        /\ manifest' = [rev |-> saved, files |-> tracker'] /\ UNCHANGED <<outbox, failed>>
    BY <1>1, <2>1, Manifests DEF Rebaseline
  <2>3. excused' \subseteq {"adopted", "torn", "unqueued"} \X Paths
    BY <2>1 DEF AdoptFrom, IInv, TypeOK
  <2>4. manifest' \in [rev : Nat, files : [Paths -> Entry]]
    BY <1>1, <2>2
  <2>5. /\ UNCHANGED <<files, remotes, disk, inbox, dead, saved, events, job, body, obsidian,
                       sent, had, edits>>
        /\ cursor' = saved /\ pc' = "idle"
    BY <1>3 DEF FirstRun, StartRebaselined, Starting, serverVars
  <2> QED
    BY <1>1, <2>2, <2>3, <2>4, <2>5 DEF IInv, TypeOK, Counted, InHand, Applied
<1>4. CASE Resumed
  <2>1. Touched(manifest.files, disk) \in [Paths -> Entry] /\ manifest # NoManifest
    BY <1>1, <1>4, Manifests DEF Resumed
  <2>2. PICK m, dirty : m \in [Paths -> Entry] /\ ReconcilePaths(m, dirty, {}, saved)
    <3> DEFINE known == Touched(manifest.files, disk)
               changed == Changed(manifest.files, disk)
               missing == Missing(manifest.files, disk)
               same == {p \in changed : disk[p] = files[p].content}
               forgotten == {p \in missing : ~files[p].live}
               checked == [p \in Paths |-> IF p \in same THEN EntryOf(disk[p])
                                           ELSE Forget(known, forgotten)[p]]
    <3>1. ReconcilePaths(checked, (changed \ same) \cup (missing \ forgotten), {}, saved)
      BY <1>4 DEF Resumed
    <3>2. checked \in [Paths -> Entry]
      <4> HIDE DEF known, same, forgotten
      <4> QED
        BY <1>1, <2>1, CheckedManifest DEF known
    <3> QED
      BY <3>1, <3>2
  <2>3. /\ outbox' \in Seq(OutboxOp) /\ failed' \subseteq OutboxOp
        /\ excused' \subseteq {"adopted", "torn", "unqueued"} \X Paths
        /\ tracker' \in [Paths -> Entry]
    BY <1>1, <2>2, LookTypes DEF IInv
  <2>4. had' \subseteq had \cup {v \in Contents : TRUE}
    <3>1. \A v : Foreign(v) => v \in Contents
      BY ForeignContents DEF Foreign, IInv, Counted
    <3> QED
      BY <1>4, <3>1 DEF Resumed
  <2>5. /\ UNCHANGED <<files, remotes, disk, inbox, dead, saved, manifest, events, job, body, obsidian,
                       sent, edits>>
        /\ cursor' = saved /\ pc' = "started"
    BY <1>4 DEF Resumed, Starting, serverVars
  <2> QED
    BY <1>1, <2>3, <2>4, <2>5 DEF IInv, TypeOK, Counted, InHand, Applied
<1>5. CASE Started
  <2>1. manifest' \in [rev : Nat, files : [Paths -> Entry]]
    BY <1>1, <1>5 DEF Started
  <2>2. /\ UNCHANGED <<files, remotes, disk, outbox, inbox, dead, saved, cursor, tracker, failed, events,
                       job, body, obsidian, sent, had, excused, edits>>
        /\ pc' = "idle"
    BY <1>5 DEF Started, serverVars, memory, history, counters
  <2> QED
    BY <2>1, <2>2 DEF IInv, TypeOK, Counted, InHand, Applied
<1> QED
  BY <1>2, <1>3, <1>4, <1>5

(* The outbox in a tick.                                                   *)
LEMMA OutboxTypes ==
  ASSUME IInv, \/ StartTick \/ Drain \/ SkipPut \/ Acknowledge \/ EndTick \/ Suspend \/ TickFails
               \/ \E op \in failed : RetryFailed(op)
               \/ \E ok \in BOOLEAN : Push(ok) \/ SaveManifest(ok)
  PROVE  IInv'
<1> USE DEF serverVars, journals, memory, tickVars, history, counters, Goto
<1>1. /\ outbox \in Seq(OutboxOp) /\ tracker \in [Paths -> Entry] /\ disk \in [Paths -> Known]
      /\ cursor \in Nat /\ (manifest = NoManifest \/ manifest \in [rev : Nat, files : [Paths -> Entry]])
  BY DEF IInv, TypeOK
<1>2. outbox # <<>> => Head(outbox) \in OutboxOp
  BY <1>1
<1>3. CASE StartTick \/ Drain \/ EndTick \/ Suspend \/ TickFails
  <2>1. /\ UNCHANGED <<files, remotes, disk, outbox, inbox, dead, saved, manifest, cursor, tracker, failed,
                       events, obsidian, sent, had, excused, edits>>
        /\ pc' \in {"retry", "drain", "save"}
        /\ UNCHANGED <<job, body>> \/ (job' = NoJob /\ body' = NoContent)
    BY <1>3 DEF StartTick, Drain, EndTick, Suspend, TickFails
  <2> QED
    BY <2>1 DEF IInv, TypeOK, Counted, InHand, Applied, Known
<1>4. CASE SkipPut
  <2>1. /\ UNCHANGED <<files, remotes, disk, outbox, inbox, dead, saved, manifest, cursor, tracker, failed,
                       events, obsidian, sent, had, excused, edits, body>>
        /\ pc' = "ack" /\ job' \in OutboxOp
    BY <1>2, <1>4 DEF SkipPut
  <2> QED
    BY <2>1 DEF IInv, TypeOK, Counted, InHand, Applied
<1>5. CASE Acknowledge
  <2>1. outbox' \in Seq(OutboxOp)
    BY <1>1, <1>5, RemovesOne DEF Acknowledge
  <2>2. /\ UNCHANGED <<files, remotes, disk, inbox, dead, saved, manifest, cursor, tracker, failed,
                       events, obsidian, sent, had, excused, edits>>
        /\ pc' = "drain" /\ job' = NoJob /\ body' = NoContent
    BY <1>5 DEF Acknowledge
  <2> QED
    BY <2>1, <2>2 DEF IInv, TypeOK, Counted, InHand, Applied, Known
<1>6. CASE \E op \in failed : RetryFailed(op)
  <2>1. PICK op \in failed : RetryFailed(op)
    BY <1>6
  <2>2. op \in OutboxOp /\ op.path \in Paths
    BY <2>1 DEF IInv, TypeOK, OutboxOp
  <2>3. outbox' \in Seq(OutboxOp)
    BY <1>1, <2>1, <2>2 DEF RetryFailed
  <2>4. tracker' \in [Paths -> Entry]
    <3>1. EntryOf(disk[op.path]) \in Entry
      BY <1>1, <2>2, Manifests
    <3> QED
      BY <1>1, <2>1, <3>1 DEF RetryFailed
  <2>5. /\ UNCHANGED <<files, remotes, disk, inbox, dead, saved, manifest, cursor, pc, job, body,
                       events, obsidian, sent, had, excused, edits>>
        /\ failed' \subseteq failed
    BY <2>1 DEF RetryFailed
  <2> QED
    BY <2>3, <2>4, <2>5 DEF IInv, TypeOK, Counted, InHand
<1>7. CASE \E ok \in BOOLEAN : Push(ok)
  <2>1. PICK ok \in BOOLEAN : Push(ok)
    BY <1>7
  <2>2. /\ Head(outbox) \in OutboxOp /\ Sends(Head(outbox))
        /\ Head(outbox).op = "put" => IsFile(disk, Head(outbox).path)
    BY <1>2, <2>1 DEF Push, Sends
  <2>3. files' \in Table /\ dead' \subseteq Paths /\ sent' \subseteq Contents
    BY <2>2, RequestTypes DEF IInv
  <2>4. /\ UNCHANGED <<remotes, disk, outbox, inbox, saved, manifest, cursor, tracker, failed,
                       events, obsidian, had, excused, edits>>
        /\ \/ pc' = "ack" /\ job' = Head(outbox) /\ body' = body
           \/ pc' = "save" /\ job' = NoJob /\ body' = NoContent
    BY <2>1 DEF Push
  <2> QED
    BY <2>2, <2>3, <2>4 DEF IInv, TypeOK, Counted, InHand, Applied, Known
<1>8. CASE \E ok \in BOOLEAN : SaveManifest(ok)
  <2>1. manifest' = NoManifest \/ manifest' \in [rev : Nat, files : [Paths -> Entry]]
    <3>1. manifest' = manifest \/ manifest' = [rev |-> cursor, files |-> tracker]
      BY <1>8 DEF SaveManifest
    <3> QED
      BY <1>1, <3>1
  <2>2. /\ UNCHANGED <<files, remotes, disk, outbox, inbox, dead, saved, cursor, tracker, failed,
                       events, obsidian, sent, had, excused, edits>>
        /\ pc' = "idle" /\ job' = NoJob /\ body' = NoContent
    BY <1>8 DEF SaveManifest
  <2> QED
    BY <2>1, <2>2 DEF IInv, TypeOK, Counted, InHand, Applied, Known
<1> QED
  BY <1>3, <1>4, <1>5, <1>6, <1>7, <1>8

(* The inbox in a tick.                                                    *)
LEMMA InboxTypes ==
  ASSUME IInv, \/ Fetch \/ Download \/ Write \/ Record \/ ApplyRemoteDelete \/ Advance \/ RewriteInbox
               \/ \E line \in inbox : DropLine(line)
  PROVE  IInv'
<1> USE DEF serverVars, journals, memory, tickVars, history, counters, Goto
<1>1. /\ files \in Table /\ tracker \in [Paths -> Entry] /\ disk \in [Paths -> Known] /\ body \in Known
      /\ \A s : Forget(tracker, s) \in [Paths -> Entry]
  <2>1. /\ files \in Table /\ tracker \in [Paths -> Entry] /\ disk \in [Paths -> Known] /\ body \in Known
    BY DEF IInv, TypeOK
  <2> QED
    BY <2>1, Manifests
<1>2. pc \in Applied => job \in Line /\ job.path \in Paths /\ job.rev \in Nat
  BY DEF IInv, InHand, Line
<1>3. CASE Fetch
  <2>1. inbox' \subseteq Line
    BY <1>1, <1>3, LinesTyped DEF Fetch, IInv, TypeOK
  <2>2. /\ UNCHANGED <<files, remotes, disk, outbox, dead, saved, manifest, cursor, tracker, failed,
                       events, obsidian, sent, had, excused, edits, job, body>>
        /\ pc' = "apply"
    BY <1>3 DEF Fetch
  <2> QED
    BY <2>1, <2>2 DEF IInv, TypeOK, Counted, InHand, Applied
<1>4. CASE \E line \in inbox : DropLine(line)
  <2>1. /\ UNCHANGED <<files, remotes, disk, outbox, dead, saved, manifest, cursor, tracker, failed,
                       events, obsidian, sent, had, excused, edits, pc, job, body>>
        /\ inbox' \subseteq inbox
    BY <1>4 DEF DropLine
  <2> QED
    BY <2>1 DEF IInv, TypeOK, Counted, InHand
<1>5. CASE Download
  <2>1. body' \in Known
    <3>1. job.path \in Paths /\ body' = files[job.path].content
      BY <1>2, <1>5 DEF Download, Applied
    <3> QED
      BY <1>1, <3>1 DEF Table, Row, Known
  <2>2. /\ UNCHANGED <<files, remotes, disk, outbox, inbox, dead, saved, manifest, cursor, tracker, failed,
                       events, obsidian, sent, had, excused, edits, job>>
        /\ pc = "take" /\ pc' \in {"write", "advance"}
    BY <1>5 DEF Download
  <2> QED
    BY <2>1, <2>2 DEF IInv, TypeOK, Counted, InHand, Applied
<1>6. CASE Write
  <2>1. UNCHANGED <<files, remotes, outbox, inbox, dead, saved, manifest, cursor, failed,
                    obsidian, sent, excused, edits>>
    BY <1>6 DEF Write
  <2>2. CASE FilesUnder(disk, job.path) # {}
    <3>1. /\ UNCHANGED <<disk, tracker, events, had>>
          /\ pc' = "save" /\ job' = NoJob /\ body' = NoContent
      BY <1>6, <2>2 DEF Write
    <3> QED
      BY <2>1, <3>1 DEF IInv, TypeOK, Counted, InHand, Applied, Known
  <2>3. CASE FilesUnder(disk, job.path) = {}
    <3>1. /\ pc' = "record" /\ pc = "write" /\ UNCHANGED <<job, body>>
          /\ disk' = [q \in Paths |-> IF q = job.path THEN body
                                      ELSE IF q \in Above(job.path) THEN NoContent ELSE disk[q]]
          /\ tracker' = tracker \/ tracker' = Forget(tracker, Above(job.path))
          /\ events' \subseteq events \cup {job.path}
          /\ had' = had \cup {v \in {body} : Foreign(v)}
      BY <1>6, <2>3 DEF Write
    <3>2. disk' \in [Paths -> Known] /\ tracker' \in [Paths -> Entry]
      BY <1>1, <3>1 DEF Known
    <3>3. events' \subseteq Paths
      BY <1>2, <3>1 DEF IInv, TypeOK, Applied
    <3>4. had' \subseteq Contents
      <4>1. \A v : Foreign(v) => v \in Contents
        BY ForeignContents DEF Foreign, IInv, Counted
      <4> QED
        BY <3>1, <4>1 DEF IInv, TypeOK
    <3> QED
      BY <2>1, <3>1, <3>2, <3>3, <3>4 DEF IInv, TypeOK, Counted, InHand, Applied
  <2> QED
    BY <2>2, <2>3
<1>7. CASE Record
  <2>1. tracker' \in [Paths -> Entry]
    BY <1>1, <1>2, <1>7 DEF Record, Applied, Entry
  <2>2. /\ UNCHANGED <<files, remotes, disk, outbox, inbox, dead, saved, manifest, cursor, failed,
                       events, obsidian, sent, had, excused, edits, job>>
        /\ pc = "record" /\ pc' = "advance" /\ body' = NoContent
    BY <1>7 DEF Record
  <2> QED
    BY <2>1, <2>2 DEF IInv, TypeOK, Counted, InHand, Applied, Known
<1>8. CASE ApplyRemoteDelete
  <2>1. disk' \in [Paths -> Known] /\ tracker' \in [Paths -> Entry] /\ events' \subseteq Paths
    BY <1>1, <1>2, <1>8 DEF ApplyRemoteDelete, Applied, Known, IInv, TypeOK
  <2>2. /\ UNCHANGED <<files, remotes, outbox, inbox, dead, saved, manifest, cursor, failed,
                       obsidian, sent, had, excused, edits, job, body>>
        /\ pc = "take" /\ pc' = "advance"
    BY <1>8 DEF ApplyRemoteDelete
  <2> QED
    BY <2>1, <2>2 DEF IInv, TypeOK, Counted, InHand, Applied
<1>9. CASE Advance
  <2>1. /\ UNCHANGED <<files, remotes, disk, outbox, inbox, dead, manifest, tracker, failed, events,
                       obsidian, sent, had, excused, edits, job, body>>
        /\ pc = "advance" /\ pc' = "rewrite" /\ saved' \in Nat /\ cursor' \in Nat
    BY <1>2, <1>9 DEF Advance, Applied
  <2> QED
    BY <2>1 DEF IInv, TypeOK, Counted, InHand, Applied
<1>10. CASE RewriteInbox
  <2>1. /\ UNCHANGED <<files, remotes, disk, outbox, dead, saved, manifest, cursor, tracker, failed, events,
                       obsidian, sent, had, excused, edits>>
        /\ inbox' \subseteq inbox /\ pc' = "apply" /\ job' = NoJob /\ body' = NoContent
    BY <1>10 DEF RewriteInbox
  <2> QED
    BY <2>1 DEF IInv, TypeOK, Counted, InHand, Applied, Known
<1> QED
  BY <1>3, <1>4, <1>5, <1>6, <1>7, <1>8, <1>9, <1>10

(* Faults, other devices and Obsidian.                                     *)
LEMMA OutsideTypes ==
  ASSUME IInv, \/ LoseEvents \/ Crash \/ RemoteChange
               \/ ObsidianStarts \/ ObsidianExits \/ PluginPushes \/ PluginPulls \/ Pause \/ Resume
  PROVE  IInv'
<1> USE DEF serverVars, journals, memory, tickVars, history, counters, Goto
<1>1. /\ files \in Table /\ tracker \in [Paths -> Entry] /\ disk \in [Paths -> Known]
      /\ outbox \in Seq(OutboxOp) /\ saved \in Nat /\ NoEntries \in [Paths -> Entry]
      /\ Rebaselined(tracker, disk) \in [Paths -> Entry]
  <2>1. /\ files \in Table /\ tracker \in [Paths -> Entry] /\ disk \in [Paths -> Known]
        /\ outbox \in Seq(OutboxOp) /\ saved \in Nat
    BY DEF IInv, TypeOK
  <2> QED
    BY <2>1, Manifests
<1>2. \A v : Foreign(v) => v \in Contents
  BY ForeignContents DEF Foreign, IInv, Counted
<1>3. CASE LoseEvents \/ ObsidianStarts \/ ObsidianExits \/ Pause
  <2>1. /\ UNCHANGED <<files, remotes, disk, outbox, inbox, dead, saved, manifest, cursor, tracker, failed,
                       sent, had, excused, edits, job, body>>
        /\ events' \subseteq events /\ obsidian' \in {"open", "closed"}
        /\ UNCHANGED pc \/ pc' = "paused"
    BY <1>3 DEF LoseEvents, ObsidianStarts, ObsidianExits, Pause, IInv, TypeOK
  <2> QED
    BY <2>1 DEF IInv, TypeOK, Counted, InHand, Applied
<1>4. CASE Crash
  <2>1. /\ UNCHANGED <<files, remotes, disk, outbox, inbox, dead, saved, manifest, obsidian,
                       sent, had, edits>>
        /\ pc' = "down" /\ job' = NoJob /\ body' = NoContent
        /\ tracker' = NoEntries /\ failed' = {} /\ events' = {} /\ cursor' = 0
    BY <1>4 DEF Crash
  <2>2. excused' \subseteq {"adopted", "torn", "unqueued"} \X Paths
    BY <1>4 DEF Crash, IInv, TypeOK
  <2> QED
    BY <1>1, <2>1, <2>2 DEF IInv, TypeOK, Counted, InHand, Applied, Known
<1>5. CASE RemoteChange
  <2>1. /\ UNCHANGED <<disk, outbox, inbox, dead, saved, manifest, cursor, tracker, failed, events,
                       pc, job, body, obsidian, sent, had, excused, edits>>
        /\ remotes' = remotes + 1 /\ remotes < MaxRemote /\ remotes \in 0 .. MaxRemote
    BY <1>5 DEF RemoteChange, IInv, Counted
  <2>2. remotes' \in 0 .. MaxRemote /\ -(remotes + 1) \in Contents
    <3>1. remotes + 1 \in 0 .. MaxRemote /\ -(remotes + 1) \in -(remotes + 1) .. -1
      BY <2>1, Bounds
    <3> QED
      BY <2>1, <3>1, ForeignContents
  <2>3. files' \in Table
    <3>1. PICK p \in Paths : \/ files' = Uploaded(files, p, -(remotes + 1))
                             \/ \E base \in Reached(files) \cup {NoBase} : files' = Deleted(files, p, base)
      BY <1>5 DEF RemoteChange
    <3>2. Uploaded(files, p, -(remotes + 1)) \in Table
      BY <1>1, <2>2, Uploading
    <3>3. \A base : Deleted(files, p, base) \in Table
      BY <1>1, Deleting
    <3> QED
      BY <3>1, <3>2, <3>3
  <2> QED
    BY <2>1, <2>2, <2>3 DEF IInv, TypeOK, Counted, InHand
<1>6. CASE PluginPushes
  <2>1. Head(outbox) \in OutboxOp /\ Tail(outbox) \in Seq(OutboxOp)
    BY <1>1, <1>6 DEF PluginPushes
  <2>2. files' \in Table /\ dead' \subseteq Paths /\ sent' \subseteq Contents
    <3>1. CASE Head(outbox).op = "put" /\ ~IsFile(disk, Head(outbox).path)
      BY <1>6, <3>1 DEF PluginPushes, IInv, TypeOK
    <3>2. CASE ~(Head(outbox).op = "put" /\ ~IsFile(disk, Head(outbox).path))
      <4>1. Sends(Head(outbox))
        BY <1>6, <3>2 DEF PluginPushes, Sends
      <4> QED
        BY <2>1, <3>2, <4>1, RequestTypes DEF IInv
    <3> QED
      BY <3>1, <3>2
  <2>3. /\ UNCHANGED <<remotes, disk, inbox, saved, manifest, cursor, tracker, failed, events,
                       pc, job, body, obsidian, had, excused, edits>>
        /\ outbox' = Tail(outbox)
    BY <1>6 DEF PluginPushes
  <2> QED
    BY <2>1, <2>2, <2>3 DEF IInv, TypeOK, Counted, InHand
<1>7. CASE PluginPulls
  <2>1. /\ UNCHANGED <<files, remotes, outbox, dead, manifest, cursor, tracker, failed,
                       pc, job, body, obsidian, sent, excused, edits>>
        /\ inbox' = {} /\ saved' = Tip(files)
    BY <1>7 DEF PluginPulls
  <2>2. saved' \in Nat
    BY <1>1, <2>1, TipIsGreatest
  <2>3. PICK new \in SUBSET Paths :
          /\ disk' = [p \in Paths |-> IF p \in new THEN files[p].content
                                      ELSE IF \E q \in new : Related(p, q) THEN NoContent
                                      ELSE disk[p]]
          /\ had' = had \cup {v \in {files[p].content : p \in new} : Foreign(v)}
          /\ events' \subseteq events \cup new
    BY <1>7 DEF PluginPulls
  <2>4. disk' \in [Paths -> Known]
    <3>1. \A p \in Paths : files[p].content \in Known /\ disk[p] \in Known /\ NoContent \in Known
      BY <1>1 DEF Table, Row, Known
    <3> QED
      BY <2>3, <3>1
  <2>5. had' \subseteq Contents /\ events' \subseteq Paths
    BY <1>2, <2>3 DEF IInv, TypeOK
  <2> QED
    BY <2>1, <2>2, <2>4, <2>5 DEF IInv, TypeOK, Counted, InHand
<1>8. CASE Resume
  <2>1. /\ UNCHANGED <<files, remotes, disk, inbox, dead, saved, events, obsidian, sent, had, edits,
                       outbox, failed>>
        /\ pc' = "idle" /\ job' = NoJob /\ body' = NoContent /\ cursor' = saved
        /\ tracker' = Rebaselined(tracker, disk) /\ manifest' = [rev |-> saved, files |-> tracker']
    BY <1>8 DEF Resume, Rebaseline
  <2>2. excused' \subseteq {"adopted", "torn", "unqueued"} \X Paths
    BY <1>8 DEF Resume, AdoptFrom, IInv, TypeOK
  <2>3. manifest' \in [rev : Nat, files : [Paths -> Entry]]
    BY <1>1, <2>1
  <2> QED
    BY <1>1, <2>1, <2>2, <2>3 DEF IInv, TypeOK, Counted, InHand, Applied, Known
<1> QED
  BY <1>3, <1>4, <1>5, <1>6, <1>7, <1>8

(* What fails half-way.                                                    *)
LEMMA HalfWayTypes ==
  ASSUME IInv, HalfWay
  PROVE  IInv'
<1> USE DEF serverVars, journals, memory, tickVars, history, counters, Goto, FailsHalfWay
<1>1. /\ outbox \in Seq(OutboxOp) /\ disk \in [Paths -> Known] /\ body \in Known
      /\ excused \subseteq {"adopted", "torn", "unqueued"} \X Paths
  BY DEF IInv, TypeOK
<1>2. outbox # <<>> => Head(outbox) \in OutboxOp /\ Head(outbox).path \in Paths
  <2>1. outbox # <<>> => Head(outbox) \in OutboxOp
    BY <1>1
  <2> QED
    BY <2>1 DEF OutboxOp
<1>3. pc \in Applied => job \in Line /\ job.path \in Paths /\ job.rev \in Nat
  BY DEF IInv, InHand, Line
<1>4. CASE SkipUnseen
  <2>1. excused' \subseteq {"adopted", "torn", "unqueued"} \X Paths
    BY <1>1, <1>2, <1>4 DEF SkipUnseen
  <2>2. /\ UNCHANGED <<files, remotes, disk, outbox, inbox, dead, saved, manifest, cursor, tracker, failed,
                       events, obsidian, sent, had, edits, body>>
        /\ pc' = "ack" /\ job' \in OutboxOp
    BY <1>2, <1>4 DEF SkipUnseen
  <2> QED
    BY <2>1, <2>2 DEF IInv, TypeOK, Counted, InHand, Applied
<1>5. CASE RecordFails
  <2>1. excused' \subseteq {"adopted", "torn", "unqueued"} \X Paths
    <3>1. excused' = excused \cup {"torn"} \X Torn(job.path) /\ Torn(job.path) \subseteq Paths
      BY <1>3, <1>5 DEF RecordFails, Applied, Torn
    <3> QED
      BY <1>1, <3>1
  <2>2. /\ UNCHANGED <<files, remotes, disk, outbox, inbox, dead, saved, manifest, cursor, tracker, failed,
                       events, obsidian, sent, had, edits>>
        /\ pc' = "save" /\ job' = NoJob /\ body' = NoContent
    BY <1>5 DEF RecordFails
  <2> QED
    BY <2>1, <2>2 DEF IInv, TypeOK, Counted, InHand, Applied, Known
<1>6. CASE AdvanceHalfWay
  <2>1. /\ UNCHANGED <<files, remotes, disk, outbox, inbox, dead, manifest, cursor, tracker, failed,
                       events, obsidian, sent, had, excused, edits>>
        /\ pc' = "save" /\ job' = NoJob /\ body' = NoContent /\ saved' \in Nat
    BY <1>3, <1>6 DEF AdvanceHalfWay, Applied
  <2> QED
    BY <2>1 DEF IInv, TypeOK, Counted, InHand, Applied, Known
<1>7. CASE \E op \in failed : RetryHalfWay(op)
  <2>1. PICK op \in failed : RetryHalfWay(op)
    BY <1>7
  <2>2. op \in OutboxOp
    BY <2>1 DEF IInv, TypeOK
  <2>3. outbox' \in Seq(OutboxOp)
    BY <1>1, <2>1, <2>2 DEF RetryHalfWay
  <2>4. /\ UNCHANGED <<files, remotes, disk, inbox, dead, saved, manifest, cursor, tracker,
                       events, obsidian, sent, had, excused, edits>>
        /\ pc' = "save" /\ job' = NoJob /\ body' = NoContent /\ failed' \subseteq failed
    BY <2>1 DEF RetryHalfWay
  <2> QED
    BY <2>3, <2>4 DEF IInv, TypeOK, Counted, InHand, Applied, Known
<1>8. CASE \E renamed \in BOOLEAN : WriteHalfWay(renamed)
  <2>1. PICK renamed \in BOOLEAN : WriteHalfWay(renamed)
    BY <1>8
  <2>2. job.path \in Paths
    BY <1>3, <2>1 DEF WriteHalfWay, Applied
  <2>3. disk' \in [Paths -> Known]
    <3>1. disk' = [q \in Paths |-> IF q = job.path /\ renamed THEN body
                                   ELSE IF q \in Above(job.path) THEN NoContent ELSE disk[q]]
      BY <2>1 DEF WriteHalfWay
    <3> QED
      BY <1>1, <3>1 DEF Known
  <2>4. events' \subseteq Paths
    <3>1. events' \subseteq events \cup {job.path} \cup Above(job.path)
      BY <2>1 DEF WriteHalfWay
    <3>2. Above(job.path) \subseteq Paths /\ events \subseteq Paths
      BY DEF Above, IInv, TypeOK
    <3> QED
      BY <2>2, <3>1, <3>2
  <2>5. had' \subseteq Contents
    <3>1. \A v : Foreign(v) => v \in Contents
      BY ForeignContents DEF Foreign, IInv, Counted
    <3>2. had' \subseteq had \cup {v \in {body} : Foreign(v)}
      BY <2>1 DEF WriteHalfWay
    <3> QED
      BY <3>1, <3>2 DEF IInv, TypeOK
  <2>6. excused' \subseteq {"adopted", "torn", "unqueued"} \X Paths
    <3>1. excused' \subseteq excused \cup {"torn"} \X {job.path}
      BY <2>1 DEF WriteHalfWay
    <3> QED
      BY <1>1, <2>2, <3>1
  <2>7. /\ UNCHANGED <<files, remotes, outbox, inbox, dead, saved, manifest, cursor, tracker, failed,
                       obsidian, sent, edits>>
        /\ pc' = "save" /\ job' = NoJob /\ body' = NoContent
    BY <2>1 DEF WriteHalfWay
  <2> QED
    BY <2>3, <2>4, <2>5, <2>6, <2>7 DEF IInv, TypeOK, Counted, InHand, Applied, Known
<1>9. CASE \E gone \in SUBSET Paths : DeleteHalfWay(gone)
  <2>1. PICK gone \in SUBSET Paths : DeleteHalfWay(gone)
    BY <1>9
  <2>2. disk' \in [Paths -> Known] /\ events' \subseteq Paths
    BY <1>1, <2>1 DEF DeleteHalfWay, Known, IInv, TypeOK
  <2>3. /\ UNCHANGED <<files, remotes, outbox, inbox, dead, saved, manifest, cursor, tracker, failed,
                       obsidian, sent, had, excused, edits>>
        /\ pc' = "save" /\ job' = NoJob /\ body' = NoContent
    BY <2>1 DEF DeleteHalfWay
  <2> QED
    BY <2>2, <2>3 DEF IInv, TypeOK, Counted, InHand, Applied, Known
<1> QED
  BY <1>4, <1>5, <1>6, <1>7, <1>8, <1>9 DEF HalfWay

(* The invariant of the types is inductive.                                *)
LEMMA IInvKept == IInv /\ [Next]_vars => IInv'
<1> SUFFICES ASSUME IInv, [Next]_vars PROVE IInv'
  OBVIOUS
<1>1. CASE UNCHANGED vars
  BY <1>1 DEF vars, serverVars, journals, memory, tickVars, history, counters,
              IInv, TypeOK, Counted, InHand
<1>2. CASE Next
  BY <1>2, Steps, UserTypes, LookingTypes, StartTypes, OutboxTypes, InboxTypes, OutsideTypes, HalfWayTypes
<1> QED
  BY <1>1, <1>2

(* Every variable keeps its type, the tick works on what it should, and    *)
(* the bounds are kept.                                                    *)
THEOREM IInvHolds == Spec => []IInv
BY IInvInitially, IInvKept, PTL DEF Spec

(* Every variable keeps its type, through crashes and sessions of Obsidian *)
(* too.                                                                    *)
THEOREM TypeCorrect == Spec => []TypeOK
<1>1. IInv => TypeOK
  BY DEF IInv
<1> QED
  BY <1>1, IInvHolds, PTL

-----------------------------------------------------------------------------
(* Deletes reach the server only for what this device has had: the inbox   *)
(* covers the rows behind the cursor, and every delete names a revision    *)
(* that the cursor had reached.                                            *)

(* What anybody has written so far. *)
Written == {NoContent} \cup 1 .. edits \cup -remotes .. -1
Origins == body \in Written /\ \A p \in Paths : disk[p] \in Written /\ files[p].content \in Written

(* A cursor that was saved half-way is one row ahead of that in memory.    *)
NoneBetween ==
  /\ \A line \in inbox : line.rev > cursor => line.rev >= saved
  /\ \A p \in Paths : files[p].rev > cursor => files[p].rev >= saved

Cursors ==
  /\ cursor <= saved /\ saved <= Tip(files)
  /\ Live => NoneBetween /\ ("cursor" \notin Faults => cursor = saved)
Bases == \A op \in ToSet(outbox) \cup failed : op.op = "delete" => op.base \in Nat /\ op.base <= saved

Inward == pc \in {"apply"} \cup Applied

Lines ==
  /\ \A line \in inbox : /\ line.rev > 0 /\ line.rev <= files[line.path].rev
                         /\ \A p \in Paths : files[p].rev = line.rev => line = InboxLine(files, p)
  /\ \A line, other \in inbox : line.rev = other.rev => line = other

Whole ==
  Inward => \A line \in inbox, p \in Paths :
              cursor < files[p].rev /\ files[p].rev <= line.rev => InboxLine(files, p) \in inbox

Taken ==
  pc \in Applied => IsNext(job) /\ IF pc = "rewrite" THEN job.rev <= cursor ELSE job.rev > cursor

(* What was downloaded for a line is what its row holds, if the row is     *)
(* still the one the line is about.                                        *)
Downloaded ==
  pc \in {"write", "record", "advance"} /\ files[job.path].rev = job.rev =>
    LET v == files[job.path].content
    IN  IF pc = "write" THEN body = v ELSE Foreign(v) => v \in had

SeenBelow == \A p \in Paths : files[p].rev <= saved /\ Foreign(files[p].content) => files[p].content \in had

RInv ==
  /\ IInv /\ Consistent(files) /\ Origins /\ Cursors /\ Bases
  /\ Lines /\ Whole /\ Taken /\ Downloaded /\ SeenBelow

(* What a store operation leaves in a row.                                 *)
LEMMA RowContents ==
  ASSUME NEW t \in Table, NEW p \in Paths, NEW q \in Paths
  PROVE  /\ \A v \in Contents : Uploaded(t, p, v)[q].content \in {t[q].content, NoContent, v}
         /\ \A base : Deleted(t, p, base)[q].content \in {t[q].content, NoContent}
<1>1. ASSUME NEW v \in Contents PROVE Uploaded(t, p, v)[q].content \in {t[q].content, NoContent, v}
  <2> DEFINE u == Uploaded(t, p, v)
  <2>1. u[q] = t[q] \/ u[q] = Tombstone(u[q].rev) \/ u[q] = FileRow(u[q].rev, v)
    BY Uploading
  <2> HIDE DEF u
  <2>2. u[q].content \in {t[q].content, NoContent, v}
    BY <2>1 DEF Tombstone, FileRow
  <2> QED
    BY <2>2 DEF u
<1>2. ASSUME NEW base PROVE Deleted(t, p, base)[q].content \in {t[q].content, NoContent}
  <2> DEFINE d == Deleted(t, p, base)
             gone == IF Late(t, p, base) = {} THEN Seen(t, p, base) \cup {p} ELSE Seen(t, p, base)
  <2>1. q \in gone => d[q] = Tombstone(d[q].rev)
    BY Deleting
  <2>2. q \notin gone => d[q] = t[q]
    BY Deleting
  <2> HIDE DEF d, gone
  <2>3. d[q].content \in {t[q].content, NoContent}
    BY <2>1, <2>2 DEF Tombstone
  <2> QED
    BY <2>3 DEF d
<1> QED
  BY <1>1, <1>2

(* A delete names a base that its device has read or put in its outbox.    *)
Named(base) ==
  \/ base \in {NoBase} \cup Reached(files)
  \/ \E op \in ToSet(outbox) : op.op = "delete" /\ op.base = base

(* How the server's table changes.                                         *)
LEMMA ServerRequests ==
  ASSUME IInv, Next
  PROVE  \/ UNCHANGED <<files, remotes>>
         \/ \E p \in Paths, v \in Contents :
              /\ files' = Uploaded(files, p, v)
              /\ \/ v = disk[p] /\ v \in sent' /\ remotes' = remotes
                 \/ v = -(remotes + 1) /\ remotes' = remotes + 1
         \/ \E p \in Paths : \E base : /\ files' = Deleted(files, p, base) /\ Named(base)
                                      /\ remotes' \in {remotes, remotes + 1}
<1>1. ASSUME Sends(Head(outbox)), outbox # <<>>,
             Head(outbox).op = "put" => IsFile(disk, Head(outbox).path),
             remotes' = remotes
      PROVE  \/ UNCHANGED <<files, remotes>>
             \/ \E p \in Paths, v \in Contents :
                  files' = Uploaded(files, p, v) /\ v = disk[p] /\ v \in sent' /\ remotes' = remotes
             \/ \E p \in Paths : \E base : files' = Deleted(files, p, base) /\ Named(base) /\ remotes' = remotes
  <2> DEFINE op == Head(outbox)
  <2>1. op \in OutboxOp /\ op \in ToSet(outbox)
    BY <1>1, Elements DEF IInv, TypeOK
  <2> HIDE DEF op
  <2>2. op.path \in Paths /\ op.op \in {"put", "delete"}
    BY <2>1 DEF OutboxOp
  <2>3. op.op = "put" => disk[op.path] \in Contents
    BY <1>1, <2>2 DEF IsFile, IInv, TypeOK, Known, op
  <2>4. \/ files' = files
        \/ op.op = "put" /\ files' = Uploaded(files, op.path, disk[op.path]) /\ disk[op.path] \in sent'
        \/ op.op # "put" /\ files' = Deleted(files, op.path, op.base)
    BY <1>1 DEF Sends, Requested, Refused, op
  <2>5. CASE op.op = "put" /\ files' = Uploaded(files, op.path, disk[op.path]) /\ disk[op.path] \in sent'
    BY <1>1, <2>2, <2>3, <2>5
  <2>6. CASE op.op # "put" /\ files' = Deleted(files, op.path, op.base)
    <3>1. Named(op.base)
      BY <2>1, <2>2, <2>6 DEF Named
    <3> QED
      BY <1>1, <2>2, <2>6, <3>1
  <2> QED
    BY <1>1, <2>4, <2>5, <2>6
<1>2. ASSUME NEW ok \in BOOLEAN, Push(ok)
      PROVE  /\ Sends(Head(outbox)) /\ outbox # <<>> /\ remotes' = remotes
             /\ Head(outbox).op = "put" => IsFile(disk, Head(outbox).path)
  BY <1>2 DEF Push, Sends
<1>3. ASSUME PluginPushes
      PROVE  \/ UNCHANGED <<files, remotes>>
             \/ /\ Sends(Head(outbox)) /\ outbox # <<>> /\ remotes' = remotes
                /\ Head(outbox).op = "put" => IsFile(disk, Head(outbox).path)
  BY <1>3 DEF PluginPushes, Sends
<1>4. ASSUME RemoteChange
      PROVE  \/ \E p \in Paths, v \in Contents :
                  files' = Uploaded(files, p, v) /\ v = -(remotes + 1) /\ remotes' = remotes + 1
             \/ \E p \in Paths : \E base : files' = Deleted(files, p, base) /\ Named(base) /\ remotes' = remotes + 1
  <2>1. remotes < MaxRemote /\ remotes' = remotes + 1 /\ remotes \in 0 .. MaxRemote
    BY <1>4 DEF RemoteChange, IInv, Counted
  <2>2. -(remotes + 1) \in Contents
    <3>1. remotes + 1 \in 0 .. MaxRemote /\ -(remotes + 1) \in -(remotes + 1) .. -1
      BY <2>1, Bounds
    <3> QED
      BY <2>1, <3>1, ForeignContents
  <2> QED
    BY <1>4, <2>1, <2>2 DEF RemoteChange, Named
<1> USE DEF serverVars
<1>5. ASSUME NEW p \in Paths, Edit(p) \/ Erase(p) \/ SaveInObsidian(p) PROVE UNCHANGED serverVars
  BY <1>5 DEF Edit, Erase, SaveInObsidian
<1>6. ASSUME NEW bad, ReconcileEvents(bad) \/ Rescan(bad) \/ \E line \in inbox : Inspect(line, bad)
      PROVE  UNCHANGED serverVars
  BY <1>6 DEF ReconcileEvents, Rescan, Inspect
<1>7. Seed \/ FirstRun \/ StartRebaselined \/ Resumed \/ Started => UNCHANGED serverVars
  BY DEF Seed, FirstRun, StartRebaselined, Resumed, Started, Starting
<1>8. \/ LoseEvents \/ StartTick \/ Drain \/ SkipPut \/ Acknowledge \/ Fetch \/ EndTick
      \/ Download \/ Write \/ Record \/ ApplyRemoteDelete \/ Advance \/ RewriteInbox
      \/ Suspend \/ TickFails \/ Crash \/ ObsidianStarts \/ ObsidianExits \/ PluginPulls \/ Pause \/ Resume
      => UNCHANGED serverVars
  BY DEF LoseEvents, StartTick, Drain, SkipPut, Acknowledge, Fetch, EndTick, Download, Write, Record,
         ApplyRemoteDelete, Advance, RewriteInbox, Suspend, TickFails, Crash, ObsidianStarts, ObsidianExits,
         PluginPulls, Pause, Resume
<1>9. (\E op \in failed : RetryFailed(op)) \/ (\E line \in inbox : DropLine(line))
      \/ (\E ok \in BOOLEAN : SaveManifest(ok)) => UNCHANGED serverVars
  BY DEF RetryFailed, DropLine, SaveManifest
<1>10. UNCHANGED serverVars => UNCHANGED <<files, remotes>>
  OBVIOUS
<1> HIDE DEF serverVars
<1> QED
  BY <1>1, <1>2, <1>3, <1>4, <1>5, <1>6, <1>7, <1>8, <1>9, <1>10, Steps, HalfWaySteps

(* What a change of the server does to its rows.                           *)
LEMMA RowsRise ==
  ASSUME IInv, Next, Consistent(files)
  PROVE  /\ Consistent(files') /\ files' \in Table /\ Tip(files') >= Tip(files)
         /\ Tip(files) \in Nat /\ Tip(files') \in Nat
         /\ \A q \in Paths : /\ files'[q] = files[q] \/ files'[q].rev > Tip(files)
                             /\ files[q].rev \in Nat /\ files'[q].rev \in Nat
                             /\ files[q].rev <= Tip(files)
<1>1. files \in Table
  BY DEF IInv, TypeOK
<1>2. ASSUME NEW p \in Paths, NEW v \in Contents, files' = Uploaded(files, p, v)
      PROVE  /\ Consistent(files') /\ files' \in Table /\ Tip(files') >= Tip(files)
             /\ \A q \in Paths : files'[q] = files[q] \/ files'[q].rev > Tip(files)
  <2> DEFINE u == Uploaded(files, p, v)
  <2>1. Consistent(u) /\ u \in Table
    BY <1>1, UploadConsistent, Uploading
  <2>2. Tip(u) > Tip(files) /\ \A q \in Paths : u[q] = files[q] \/ u[q].rev > Tip(files)
    BY <1>1, Uploading
  <2>3. Tip(u) \in Nat /\ Tip(files) \in Nat
    <3> HIDE DEF u
    <3> QED
      BY <1>1, <2>1, TipIsGreatest
  <2> HIDE DEF u
  <2>4. Tip(u) >= Tip(files)
    BY <2>2, <2>3
  <2> QED
    BY <1>2, <2>1, <2>2, <2>4 DEF u
<1>3. ASSUME NEW p \in Paths, NEW base, files' = Deleted(files, p, base)
      PROVE  /\ Consistent(files') /\ files' \in Table /\ Tip(files') >= Tip(files)
             /\ \A q \in Paths : files'[q] = files[q] \/ files'[q].rev > Tip(files)
  <2> DEFINE d == Deleted(files, p, base)
  <2>1. Consistent(d) /\ d \in Table
    BY <1>1, DeleteConsistent, Deleting
  <2>2. Tip(d) >= Tip(files) /\ \A q \in Paths : d[q] = files[q] \/ d[q].rev > Tip(files)
    BY <1>1, Deleting
  <2> HIDE DEF d
  <2> QED
    BY <1>3, <2>1, <2>2 DEF d
<1>4. /\ Consistent(files') /\ files' \in Table /\ (Tip(files') >= Tip(files) \/ files' = files)
      /\ \A q \in Paths : files'[q] = files[q] \/ files'[q].rev > Tip(files)
  BY <1>1, <1>2, <1>3, ServerRequests
<1>5. /\ Tip(files) \in Nat /\ Tip(files') \in Nat
      /\ \A q \in Paths : files[q].rev \in Nat /\ files'[q].rev \in Nat /\ files[q].rev <= Tip(files)
  BY <1>1, <1>4, TipIsGreatest
<1>6. Tip(files') >= Tip(files)
  BY <1>4, <1>5
<1> QED
  BY <1>4, <1>5, <1>6

(* What the vault, the bytes in hand and the counters become.              *)
LEMMA VaultSteps ==
  ASSUME IInv, Next
  PROVE  /\ \/ UNCHANGED <<disk, edits>>
            \/ \E p \in Paths : /\ disk' = [disk EXCEPT ![p] = edits + 1] /\ edits' = edits + 1
                                /\ edits < MaxEdits
                                /\ Edit(p) \/ SaveInObsidian(p)
            \/ /\ edits' \in {edits, edits + 1} /\ \A q \in Paths : disk'[q] \in {disk[q], NoContent}
               /\ \/ \E p \in Paths : Erase(p)
                  \/ ApplyRemoteDelete /\ edits' = edits
                  \/ (\E gone \in SUBSET Paths : DeleteHalfWay(gone)) /\ edits' = edits
            \/ /\ edits' = edits /\ \A q \in Paths : disk'[q] \in {disk[q], NoContent, body}
               /\ Write \/ \E renamed \in BOOLEAN : WriteHalfWay(renamed)
            \/ /\ edits' = edits
               /\ \A q \in Paths : disk'[q] \in {disk[q], NoContent, files[q].content}
               /\ PluginPulls
         /\ \/ body' \in {body, NoContent}
            \/ Download
         /\ had \subseteq had' /\ sent \subseteq sent'
<1> USE DEF tickVars, history, counters, Goto
<1>1. /\ disk \in [Paths -> Known]
      /\ pc \in Applied => job.path \in Paths
  BY DEF IInv, InHand, TypeOK, Line
<1>2. ASSUME NEW p \in Paths, Edit(p) \/ SaveInObsidian(p)
      PROVE  /\ disk' = [disk EXCEPT ![p] = edits + 1] /\ edits' = edits + 1 /\ edits < MaxEdits
             /\ UNCHANGED <<body, had, sent>>
  BY <1>2 DEF Edit, SaveInObsidian
<1>3. ASSUME NEW p \in Paths, Erase(p)
      PROVE  /\ edits' = edits + 1 /\ UNCHANGED <<body, had, sent>>
             /\ \A q \in Paths : disk'[q] \in {disk[q], NoContent}
  BY <1>3 DEF Erase
<1>4. ASSUME NEW bad, ReconcileEvents(bad) \/ Rescan(bad) \/ \E line \in inbox : Inspect(line, bad)
      PROVE  UNCHANGED <<disk, edits, had, sent>> /\ body' \in {body, NoContent}
  BY <1>4 DEF ReconcileEvents, Rescan, Inspect
<1>5. Seed \/ FirstRun \/ StartRebaselined \/ Resumed \/ Started
      => UNCHANGED <<disk, edits, sent, body>> /\ had \subseteq had'
  BY DEF Seed, FirstRun, StartRebaselined, Resumed, Started, Starting
<1>6. \/ LoseEvents \/ StartTick \/ Drain \/ SkipPut \/ Acknowledge \/ Fetch \/ EndTick \/ Record \/ Advance
      \/ RewriteInbox \/ Suspend \/ TickFails \/ Crash \/ RemoteChange \/ ObsidianStarts \/ ObsidianExits
      \/ Pause \/ Resume
      => UNCHANGED <<disk, edits, had, sent>> /\ body' \in {body, NoContent}
  BY DEF LoseEvents, StartTick, Drain, SkipPut, Acknowledge, Fetch, EndTick, Record, Advance, RewriteInbox,
         Suspend, TickFails, Crash, RemoteChange, ObsidianStarts, ObsidianExits, Pause, Resume
<1>7. (\E op \in failed : RetryFailed(op)) \/ (\E line \in inbox : DropLine(line))
      \/ (\E ok \in BOOLEAN : SaveManifest(ok))
      => UNCHANGED <<disk, edits, had, sent>> /\ body' \in {body, NoContent}
  BY DEF RetryFailed, DropLine, SaveManifest
<1>8. (\E ok \in BOOLEAN : Push(ok)) \/ PluginPushes
      => UNCHANGED <<disk, edits, had>> /\ sent \subseteq sent' /\ body' \in {body, NoContent}
  BY DEF Push, PluginPushes, Sends, Requested, Refused
<1>9. Download => UNCHANGED <<disk, edits, had, sent>>
  BY DEF Download
<1>10. ASSUME Write
       PROVE  /\ edits' = edits /\ sent' = sent /\ had \subseteq had' /\ body' \in {body, NoContent}
              /\ \A q \in Paths : disk'[q] \in {disk[q], NoContent, body}
  <2>1. \/ disk' = disk
        \/ disk' = [q \in Paths |-> IF q = job.path THEN body
                                    ELSE IF q \in Above(job.path) THEN NoContent ELSE disk[q]]
    BY <1>10 DEF Write
  <2>2. \A q \in Paths : disk'[q] \in {disk[q], NoContent, body}
    BY <2>1
  <2> QED
    BY <1>10, <2>2 DEF Write
<1>11. ASSUME ApplyRemoteDelete
       PROVE  /\ edits' = edits /\ UNCHANGED <<sent, had, body>>
              /\ \A q \in Paths : disk'[q] \in {disk[q], NoContent}
  BY <1>11 DEF ApplyRemoteDelete
<1>12. ASSUME PluginPulls
       PROVE  /\ edits' = edits /\ sent' = sent /\ had \subseteq had' /\ body' = body
              /\ \A q \in Paths : disk'[q] \in {disk[q], NoContent, files[q].content}
  BY <1>12 DEF PluginPulls
<1>13. ASSUME NEW renamed \in BOOLEAN, WriteHalfWay(renamed)
       PROVE  \A q \in Paths : disk'[q] \in {disk[q], NoContent, body}
  BY <1>13 DEF WriteHalfWay
<1>14. ASSUME NEW gone \in SUBSET Paths, DeleteHalfWay(gone)
       PROVE  \A q \in Paths : disk'[q] \in {disk[q], NoContent}
  BY <1>14 DEF DeleteHalfWay
<1> HIDE DEF tickVars, history, counters, Goto
<1>15. CASE HalfWay
  <2>1. edits' = edits /\ sent' = sent /\ body' \in {body, NoContent} /\ had \subseteq had'
    BY <1>15, HalfWaySteps
  <2> QED
    BY <1>13, <1>14, <1>15, <2>1, HalfWaySteps
<1> QED
  BY <1>2, <1>3, <1>4, <1>5, <1>6, <1>7, <1>8, <1>9, <1>10, <1>11, <1>12, <1>15, Steps

(* What was written stays written.                                         *)
LEMMA WrittenGrows ==
  ASSUME IInv, Next
  PROVE  Written \subseteq Written' /\ edits' \in {edits, edits + 1} /\ remotes' \in {remotes, remotes + 1}
<1>1. edits \in Nat /\ remotes \in Nat
  BY Bounds DEF IInv, Counted
<1>2. edits' \in {edits, edits + 1}
  BY VaultSteps
<1>3. remotes' \in {remotes, remotes + 1}
  BY ServerRequests
<1>4. 1 .. edits \subseteq 1 .. edits' /\ -remotes .. -1 \subseteq -remotes' .. -1
  <2>1. PICK e \in Nat, e2 \in Nat, r \in Nat, r2 \in Nat :
           e = edits /\ e2 = edits' /\ r = remotes /\ r2 = remotes' /\ e <= e2 /\ r <= r2
    BY <1>1, <1>2, <1>3
  <2>2. e <= e2 /\ r <= r2
    BY <2>1
  <2>3. 1 .. e \subseteq 1 .. e2 /\ -r .. -1 \subseteq -r2 .. -1
    BY <2>2
  <2> QED
    BY <2>1, <2>3
<1> QED
  BY <1>2, <1>3, <1>4 DEF Written

(* Everything anywhere was written by the user or another device.          *)
LEMMA OriginsKept ==
  ASSUME IInv, Origins, Next
  PROVE  Origins'
<1>1. Written \subseteq Written' /\ NoContent \in Written'
  BY WrittenGrows DEF Written
<1>2. edits \in Nat /\ remotes \in Nat /\ files \in Table /\ disk \in [Paths -> Known]
      /\ (pc \in Applied => job.path \in Paths)
  BY Bounds DEF IInv, Counted, TypeOK, InHand, Line
<1>3. ASSUME NEW q \in Paths PROVE disk'[q] \in Written'
  <2>1. CASE \E p \in Paths : disk' = [disk EXCEPT ![p] = edits + 1] /\ edits' = edits + 1
    <3>1. edits + 1 \in 1 .. edits'
      BY <1>2, <2>1
    <3>2. disk'[q] \in {disk[q], edits + 1}
      BY <1>2, <2>1
    <3> QED
      BY <1>1, <3>1, <3>2 DEF Origins, Written
  <2>2. CASE disk'[q] \in {disk[q], NoContent, body, files[q].content}
    BY <1>1, <2>2 DEF Origins
  <2> QED
    BY <2>1, <2>2, VaultSteps
<1>4. body' \in Written'
  <2>1. CASE Download
    BY <1>1, <1>2, <2>1 DEF Download, Origins, Applied
  <2>2. CASE body' \in {body, NoContent}
    BY <1>1, <2>2 DEF Origins
  <2> QED
    BY <2>1, <2>2, VaultSteps
<1>5. ASSUME NEW q \in Paths PROVE files'[q].content \in Written'
  <2>1. CASE files' = files
    BY <1>1, <2>1 DEF Origins
  <2>2. ASSUME NEW p \in Paths, NEW v \in Contents, files' = Uploaded(files, p, v),
               \/ v = disk[p] /\ remotes' = remotes
               \/ v = -(remotes + 1) /\ remotes' = remotes + 1
        PROVE  files'[q].content \in Written'
    <3>1. files'[q].content \in {files[q].content, NoContent, v}
      BY <1>2, <2>2, RowContents
    <3>2. v = -(remotes + 1) /\ remotes' = remotes + 1 => v \in -remotes' .. -1
      BY <1>2
    <3>3. v \in Written'
      BY <1>1, <2>2, <3>2 DEF Origins, Written
    <3> QED
      BY <1>1, <3>1, <3>3 DEF Origins
  <2>3. ASSUME NEW p \in Paths, NEW base, files' = Deleted(files, p, base) PROVE files'[q].content \in Written'
    <3>1. files'[q].content \in {files[q].content, NoContent}
      BY <1>2, <2>3, RowContents
    <3> QED
      BY <1>1, <3>1 DEF Origins
  <2> QED
    BY <2>1, <2>2, <2>3, ServerRequests
<1> QED
  BY <1>3, <1>4, <1>5 DEF Origins

(* How the inbox changes.                                                  *)
LEMMA InboxSteps ==
  ASSUME IInv, Next
  PROVE  \/ Fetch
         \/ inbox' \subseteq inbox
<1> USE DEF journals
<1>1. ASSUME NEW p \in Paths, Edit(p) \/ Erase(p) \/ SaveInObsidian(p) PROVE inbox' = inbox
  BY <1>1 DEF Edit, Erase, SaveInObsidian
<1>2. ASSUME NEW bad, ReconcileEvents(bad) \/ Rescan(bad) \/ \E line \in inbox : Inspect(line, bad)
      PROVE  inbox' = inbox
  BY <1>2 DEF ReconcileEvents, Rescan, Inspect
<1>3. Seed \/ FirstRun \/ StartRebaselined \/ Resumed \/ Started => inbox' = inbox
  BY DEF Seed, FirstRun, StartRebaselined, Resumed, Started, Starting
<1>4. \/ LoseEvents \/ StartTick \/ Drain \/ SkipPut \/ Acknowledge \/ EndTick
      \/ Download \/ Write \/ Record \/ ApplyRemoteDelete \/ Advance \/ RewriteInbox \/ Suspend \/ TickFails
      \/ Crash \/ RemoteChange \/ ObsidianStarts \/ ObsidianExits \/ PluginPushes \/ PluginPulls \/ Pause \/ Resume
      => inbox' \subseteq inbox
  BY DEF LoseEvents, StartTick, Drain, SkipPut, Acknowledge, EndTick, Download, Write, Record,
         ApplyRemoteDelete, Advance, RewriteInbox, Suspend, TickFails, Crash, RemoteChange, ObsidianStarts,
         ObsidianExits, PluginPushes, PluginPulls, Pause, Resume
<1>5. (\E op \in failed : RetryFailed(op)) \/ (\E line \in inbox : DropLine(line))
      \/ (\E ok \in BOOLEAN : Push(ok) \/ SaveManifest(ok)) => inbox' \subseteq inbox
  BY DEF RetryFailed, DropLine, Push, SaveManifest
<1>6. HalfWay => inbox' = inbox
  BY HalfWaySteps
<1> HIDE DEF journals
<1> QED
  BY <1>1, <1>2, <1>3, <1>4, <1>5, <1>6, Steps

(* How the cursor moves, in memory and in data.json.                       *)
LEMMA CursorSteps ==
  ASSUME IInv, Next
  PROVE  \/ UNCHANGED <<cursor, saved>> /\ (Live' => Live)
         \/ Advance /\ saved' = job.rev /\ cursor' = job.rev
         \/ AdvanceHalfWay /\ saved' = job.rev /\ cursor' = cursor
         \/ PluginPulls /\ saved' = Tip(files) /\ UNCHANGED <<files, cursor, pc>> /\ ~Live
         \/ cursor' = saved /\ saved' = saved /\ pc' \in {"started", "idle"}
         \/ cursor' = 0 /\ saved' = saved /\ pc' = "down"
<1> USE DEF journals, memory, tickVars, Goto, Live
<1>1. ASSUME NEW p \in Paths, Edit(p) \/ Erase(p) \/ SaveInObsidian(p)
      PROVE  UNCHANGED <<cursor, saved>> /\ (Live' => Live)
  BY <1>1 DEF Edit, Erase, SaveInObsidian
<1>2. ASSUME NEW bad, ReconcileEvents(bad) \/ Rescan(bad) \/ \E line \in inbox : Inspect(line, bad)
      PROVE  UNCHANGED <<cursor, saved>> /\ (Live' => Live)
  BY <1>2 DEF ReconcileEvents, Rescan, Inspect
<1>3. Seed \/ FirstRun \/ StartRebaselined \/ Resumed
      => cursor' = saved /\ saved' = saved /\ pc' \in {"started", "idle"}
  BY DEF Seed, FirstRun, StartRebaselined, Resumed, Starting
<1>4. \/ Started \/ LoseEvents \/ StartTick \/ Drain \/ SkipPut \/ Acknowledge \/ Fetch \/ EndTick
      \/ Download \/ Write \/ Record \/ ApplyRemoteDelete \/ RewriteInbox \/ Suspend \/ TickFails
      \/ RemoteChange \/ ObsidianStarts \/ ObsidianExits \/ PluginPushes \/ Pause
      => UNCHANGED <<cursor, saved>> /\ (Live' => Live)
  BY DEF Started, LoseEvents, StartTick, Drain, SkipPut, Acknowledge, Fetch, EndTick, Download, Write, Record,
         ApplyRemoteDelete, RewriteInbox, Suspend, TickFails, RemoteChange, ObsidianStarts, ObsidianExits,
         PluginPushes, Pause
<1>5. (\E op \in failed : RetryFailed(op)) \/ (\E line \in inbox : DropLine(line))
      \/ (\E ok \in BOOLEAN : Push(ok) \/ SaveManifest(ok))
      => UNCHANGED <<cursor, saved>> /\ (Live' => Live)
  BY DEF RetryFailed, DropLine, Push, SaveManifest
<1>6. Advance => saved' = job.rev /\ cursor' = job.rev
  BY DEF Advance
<1>7. Crash => cursor' = 0 /\ saved' = saved /\ pc' = "down"
  BY DEF Crash
<1>8. Resume => cursor' = saved /\ saved' = saved /\ pc' = "idle"
  BY DEF Resume
<1>9. PluginPulls => saved' = Tip(files) /\ UNCHANGED <<files, cursor, pc>> /\ ~Live
  BY DEF PluginPulls, PluginAwake, serverVars
<1>10. AdvanceHalfWay => saved' = job.rev /\ cursor' = cursor
  BY DEF AdvanceHalfWay
<1>11. HalfWay => /\ UNCHANGED <<cursor, saved>> /\ (Live' => Live)
                  \/ AdvanceHalfWay
  <2>1. HalfWay => pc \in {"drain", "retry", "write", "record", "take", "advance"} /\ UNCHANGED cursor
                   /\ (UNCHANGED saved \/ AdvanceHalfWay)
    BY HalfWaySteps
  <2> QED
    BY <2>1
<1> HIDE DEF journals, memory, tickVars, Goto, Live
<1> QED
  BY <1>1, <1>2, <1>3, <1>4, <1>5, <1>6, <1>7, <1>8, <1>9, <1>10, <1>11, Steps

(* The cursor in data.json never goes back, and never past the server.     *)
LEMMA CursorsKept ==
  ASSUME IInv, Consistent(files), Cursors, Lines, Whole, Taken, Next
  PROVE  Cursors' /\ saved' \in Nat /\ saved <= saved'
<1>1. /\ cursor \in Nat /\ saved \in Nat /\ Tip(files) \in Nat /\ Tip(files') \in Nat
      /\ Tip(files') >= Tip(files) /\ saved <= Tip(files) /\ cursor <= saved
      /\ \A p \in Paths : /\ files'[p] = files[p] \/ files'[p].rev > Tip(files)
                          /\ files[p].rev \in Nat /\ files'[p].rev \in Nat /\ files[p].rev <= Tip(files)
      /\ \A line \in inbox : line.rev \in Nat
      /\ \A line \in inbox' : line.rev \in Nat
  BY RowsRise, IInvKept DEF IInv, TypeOK, Line, Cursors
<1>2. CASE UNCHANGED <<cursor, saved>> /\ (Live' => Live)
  <2>1. ASSUME Live' PROVE NoneBetween'
    <3>1. NoneBetween
      BY <1>2, <2>1 DEF Cursors
    <3>2. \A p \in Paths : files'[p].rev > cursor' => files'[p].rev >= saved'
      BY <1>1, <1>2, <3>1 DEF NoneBetween
    <3>3. ASSUME NEW line \in inbox', line.rev > cursor' PROVE line.rev >= saved'
      <4>1. CASE inbox' \subseteq inbox
        BY <1>1, <1>2, <3>1, <3>3, <4>1 DEF NoneBetween
      <4>2. CASE Fetch
        <5>1. inbox' = inbox \cup InboxLines(files, cursor)
          BY <4>2 DEF Fetch
        <5>2. line \in inbox \/ \E q \in Paths : line = InboxLine(files, q)
          BY <5>1 DEF InboxLines, Inbox
        <5>3. \A q \in Paths : InboxLine(files, q).rev = files[q].rev
          BY DEF InboxLine
        <5> QED
          BY <1>1, <1>2, <3>1, <3>3, <5>2, <5>3 DEF NoneBetween
      <4> QED
        BY <4>1, <4>2, InboxSteps
    <3> QED
      BY <3>2, <3>3 DEF NoneBetween
  <2> QED
    BY <1>1, <1>2, <2>1 DEF Cursors
<1>3. ASSUME Advance \/ AdvanceHalfWay
      PROVE  /\ pc = "advance" /\ job \in inbox /\ job.rev > cursor /\ job.path \in Paths /\ job.rev \in Nat
             /\ job.rev <= Tip(files) /\ job.rev >= saved
             /\ IsNext(job) /\ Inward /\ Live
  <2>1. /\ pc = "advance" /\ job \in inbox /\ job.rev > cursor /\ job.path \in Paths /\ job.rev \in Nat
        /\ IsNext(job) /\ Inward /\ Live
    BY <1>3 DEF Advance, AdvanceHalfWay, Taken, Applied, IsNext, IInv, InHand, Line, Live, Inward
  <2>2. job.rev <= files[job.path].rev /\ files[job.path].rev <= Tip(files) /\ files[job.path].rev \in Nat
    BY <1>1, <2>1 DEF Lines
  <2>3. job.rev >= saved
    BY <2>1 DEF Cursors, NoneBetween
  <2> QED
    BY <1>1, <2>1, <2>2, <2>3
<1>4. CASE Advance /\ saved' = job.rev /\ cursor' = job.rev
  <2>1. NoneBetween'
    BY <1>1, <1>3, <1>4 DEF NoneBetween
  <2> QED
    BY <1>1, <1>3, <1>4, <2>1 DEF Cursors
<1>5. CASE AdvanceHalfWay /\ saved' = job.rev /\ cursor' = cursor
  <2>1. UNCHANGED <<files, inbox>> /\ "cursor" \in Faults
    BY <1>5 DEF AdvanceHalfWay, Blame, serverVars
  <2>2. ASSUME NEW p \in Paths, files[p].rev > cursor PROVE files[p].rev >= job.rev
    <3>1. CASE files[p].rev <= job.rev
      <4>1. InboxLine(files, p) \in inbox
        BY <1>3, <1>5, <2>2, <3>1 DEF Whole
      <4>2. job.rev <= InboxLine(files, p).rev
        BY <1>3, <1>5, <4>1 DEF IsNext
      <4> QED
        BY <4>2 DEF InboxLine
    <3> QED
      BY <1>1, <1>3, <1>5, <3>1
  <2>3. NoneBetween'
    BY <1>3, <1>5, <2>1, <2>2 DEF NoneBetween, IsNext
  <2> QED
    BY <1>1, <1>3, <1>5, <2>1, <2>3 DEF Cursors
<1>6. CASE saved' = Tip(files) /\ UNCHANGED <<files, cursor, pc>> /\ ~Live
  BY <1>1, <1>6 DEF Cursors, Live
<1>7. CASE cursor' = saved /\ saved' = saved /\ pc' \in {"started", "idle"}
  <2>1. NoneBetween'
    BY <1>1, <1>7 DEF NoneBetween
  <2> QED
    BY <1>1, <1>7, <2>1 DEF Cursors
<1>8. CASE cursor' = 0 /\ saved' = saved /\ pc' = "down"
  BY <1>1, <1>8 DEF Cursors, Live
<1> QED
  BY <1>2, <1>4, <1>5, <1>6, <1>7, <1>8, CursorSteps

(* Operations that a step adds to the outbox, or fails to add.             *)
LEMMA QueueSteps ==
  ASSUME IInv, Next, NEW op \in ToSet(outbox') \cup failed'
  PROVE  \/ op \in ToSet(outbox) \cup failed
         \/ \E p \in Paths : op = PutOp(p) \/ op = DeleteOp(p, cursor) \/ op = DeleteOp(p, saved)
<1> USE DEF journals, memory
<1>1. outbox \in Seq(OutboxOp) /\ failed \subseteq OutboxOp /\ cursor \in Nat /\ saved \in Nat
      /\ excused \subseteq {"adopted", "torn", "unqueued"} \X Paths
  BY DEF IInv, TypeOK
<1>2. ASSUME NEW m, NEW dirty, NEW bad, NEW rev \in Nat, ReconcilePaths(m, dirty, bad, rev)
      PROVE  \/ op \in ToSet(outbox) \cup failed
             \/ \E p \in Paths : op = PutOp(p) \/ op = DeleteOp(p, rev)
  <2>1. Queued(Gone(m, dirty), Fresh(m, dirty), bad, rev) /\ Gone(m, dirty) \cup Fresh(m, dirty) \subseteq Paths
    BY <1>2, LookQueues, FoundPaths DEF IInv
  <2> QED
    BY <2>1 DEF Queued
<1>3. ASSUME NEW bad, ReconcileEvents(bad) \/ Rescan(bad) \/ \E line \in inbox : Inspect(line, bad)
      PROVE  \E m, dirty : ReconcilePaths(m, dirty, bad, cursor)
  BY <1>3 DEF ReconcileEvents, Rescan, Inspect
<1>4. Seed \/ Resumed => \E m, dirty : ReconcilePaths(m, dirty, {}, saved)
  BY DEF Seed, Resumed
<1>5. FirstRun \/ StartRebaselined \/ Resume => UNCHANGED <<outbox, failed>>
  BY DEF FirstRun, StartRebaselined, Resume, Rebaseline
<1>6. ASSUME NEW p \in Paths, Edit(p) \/ Erase(p) PROVE UNCHANGED <<outbox, failed>>
  BY <1>6 DEF Edit, Erase
<1>7. ASSUME NEW p \in Paths, SaveInObsidian(p) PROVE failed' = failed /\ ToSet(outbox') = ToSet(outbox) \cup {PutOp(p)}
  <2>1. PutOp(p) \in OutboxOp
    BY DEF PutOp, OutboxOp
  <2> QED
    BY <1>1, <1>7, <2>1, Elements DEF SaveInObsidian
<1>8. \/ Started \/ LoseEvents \/ StartTick \/ Drain \/ SkipPut \/ Fetch \/ EndTick
      \/ Download \/ Write \/ Record \/ ApplyRemoteDelete \/ Advance \/ RewriteInbox \/ Suspend \/ TickFails
      \/ RemoteChange \/ ObsidianStarts \/ ObsidianExits \/ PluginPulls \/ Pause
      => UNCHANGED <<outbox, failed>>
  BY DEF Started, LoseEvents, StartTick, Drain, SkipPut, Fetch, EndTick, Download, Write, Record,
         ApplyRemoteDelete, Advance, RewriteInbox, Suspend, TickFails, RemoteChange, ObsidianStarts,
         ObsidianExits, PluginPulls, Pause
<1>9. (\E line \in inbox : DropLine(line)) \/ (\E ok \in BOOLEAN : Push(ok) \/ SaveManifest(ok))
      => UNCHANGED <<outbox, failed>>
  BY DEF DropLine, Push, SaveManifest
<1>10. Crash => outbox' = outbox /\ failed' = {}
  BY DEF Crash
<1>11. Acknowledge => failed' = failed /\ ToSet(outbox') \subseteq ToSet(outbox)
  BY <1>1, RemovesOne DEF Acknowledge
<1>12. PluginPushes => failed' = failed /\ ToSet(outbox') \subseteq ToSet(outbox)
  BY <1>1, Elements DEF PluginPushes
<1>13. ASSUME NEW o \in failed, RetryFailed(o) \/ RetryHalfWay(o)
       PROVE ToSet(outbox') = ToSet(outbox) \cup {o} /\ failed' \subseteq failed
  <2>1. outbox' = Append(outbox, o) /\ failed' \subseteq failed /\ o \in OutboxOp
    BY <1>1, <1>13 DEF RetryFailed, RetryHalfWay
  <2> QED
    BY <1>1, <2>1, Elements
<1> HIDE DEF journals, memory
<1>14. HalfWay => UNCHANGED <<outbox, failed>> \/ \E o \in failed : RetryHalfWay(o)
  BY HalfWaySteps
<1> QED
  BY <1>1, <1>2, <1>3, <1>4, <1>5, <1>6, <1>7, <1>8, <1>9, <1>10, <1>11, <1>12, <1>13, <1>14, Steps

(* No delete names a revision that data.json has not reached.              *)
LEMMA BasesKept ==
  ASSUME IInv, Consistent(files), Cursors, Lines, Whole, Taken, Bases, Next
  PROVE  Bases'
<1>1. cursor \in Nat /\ saved \in Nat /\ cursor <= saved
  BY DEF IInv, TypeOK, Cursors
<1>2. saved' \in Nat /\ saved <= saved'
  BY CursorsKept
<1> SUFFICES ASSUME NEW op \in ToSet(outbox') \cup failed', op.op = "delete"
             PROVE  op.base \in Nat /\ op.base <= saved'
  BY DEF Bases
<1>3. CASE op \in ToSet(outbox) \cup failed
  BY <1>1, <1>2, <1>3 DEF Bases
<1>4. ASSUME NEW p \in Paths, op = PutOp(p) \/ op = DeleteOp(p, cursor) \/ op = DeleteOp(p, saved)
      PROVE  op.base \in Nat /\ op.base <= saved'
  <2>1. op.base \in {cursor, saved}
    BY <1>4 DEF PutOp, DeleteOp
  <2> QED
    BY <1>1, <1>2, <2>1
<1> QED
  BY <1>3, <1>4, QueueSteps

(* The steps of the tick on the inbox.                                     *)
Reading ==
  \/ \E line \in inbox : DropLine(line)
  \/ Download \/ Write \/ Record \/ ApplyRemoteDelete \/ Advance \/ RewriteInbox

Takes(line) ==
  /\ pc = "apply" /\ IsNext(line) /\ line.rev > cursor
  /\ pc' = "take" /\ job' = line /\ UNCHANGED <<body, inbox, cursor, saved, files, had>>

(* The tick works on the inbox after a fetch, after its own steps, and     *)
(* while others act beside it.                                             *)
LEMMA InwardSteps ==
  ASSUME IInv, Next, Inward'
  PROVE  \/ Fetch
         \/ \E line \in inbox : Takes(line) /\ \E bad : Inspect(line, bad)
         \/ Reading
         \/ UNCHANGED <<pc, job, body, inbox, cursor, saved>>
<1> USE DEF serverVars, journals, memory, tickVars, Goto, Inward, Applied
<1>1. ASSUME NEW p \in Paths, Edit(p) \/ Erase(p) PROVE UNCHANGED <<pc, job, body, inbox, cursor, saved>>
  BY <1>1 DEF Edit, Erase
<1>2. \/ LoseEvents \/ RemoteChange \/ ObsidianStarts \/ ObsidianExits
      => UNCHANGED <<pc, job, body, inbox, cursor, saved>>
  BY DEF LoseEvents, RemoteChange, ObsidianStarts, ObsidianExits
<1>3. ASSUME NEW bad, ReconcileEvents(bad) \/ Rescan(bad) PROVE ~Inward'
  BY <1>3 DEF ReconcileEvents, Rescan
<1>4. ASSUME NEW bad, NEW line \in inbox, Inspect(line, bad) PROVE Takes(line)
  BY <1>4 DEF Inspect, Takes
<1>5. Seed \/ FirstRun \/ StartRebaselined \/ Resumed \/ Started => ~Inward'
  BY DEF Seed, FirstRun, StartRebaselined, Resumed, Started
<1>6. \/ StartTick \/ Drain \/ SkipPut \/ Acknowledge \/ EndTick \/ Suspend \/ TickFails \/ Crash \/ Pause \/ Resume
      => ~Inward'
  BY DEF StartTick, Drain, SkipPut, Acknowledge, EndTick, Suspend, TickFails, Crash, Pause, Resume
<1>7. ASSUME NEW p \in Paths, SaveInObsidian(p) PROVE ~Inward'
  BY <1>7 DEF SaveInObsidian, PluginAwake
<1>8. PluginPushes \/ PluginPulls => ~Inward'
  BY DEF PluginPushes, PluginPulls, PluginAwake
<1>9. (\E op \in failed : RetryFailed(op)) \/ (\E ok \in BOOLEAN : Push(ok) \/ SaveManifest(ok)) => ~Inward'
  BY DEF RetryFailed, Push, SaveManifest
<1>10. HalfWay => ~Inward'
  BY HalfWaySteps
<1> HIDE DEF serverVars, journals, memory, tickVars, Goto, Inward, Applied
<1> QED
  BY <1>1, <1>2, <1>3, <1>4, <1>5, <1>6, <1>7, <1>8, <1>9, <1>10, Steps DEF Reading

(* What each of its steps on the inbox does.                               *)
LEMMA ReadingSteps ==
  ASSUME Reading
  PROVE  /\ UNCHANGED <<files, outbox, failed, remotes>>
         /\ \/ /\ pc = "apply" /\ pc' = "apply" /\ UNCHANGED <<cursor, saved, job, body>>
               /\ \E line \in inbox : line.rev <= cursor /\ inbox' = inbox \ {line}
            \/ /\ pc = "take" /\ pc' \in {"write", "advance"} /\ UNCHANGED <<cursor, saved, job, inbox, had>>
               /\ body' = files[job.path].content
               /\ pc' = "write" \/ ~files[job.path].live
            \/ /\ pc = "write" /\ pc' = "save"
            \/ /\ pc = "write" /\ pc' = "record" /\ UNCHANGED <<cursor, saved, job, body, inbox>>
               /\ Foreign(body) => body \in had'
            \/ /\ pc = "record" /\ pc' = "advance" /\ UNCHANGED <<cursor, saved, job, inbox, had>>
            \/ /\ pc = "take" /\ job.op = "delete" /\ pc' = "advance"
               /\ UNCHANGED <<cursor, saved, job, inbox, had>>
            \/ /\ pc = "advance" /\ pc' = "rewrite" /\ saved' = job.rev /\ cursor' = job.rev
               /\ UNCHANGED <<job, inbox, had>>
            \/ /\ pc = "rewrite" /\ pc' = "apply" /\ inbox' = inbox \ {job} /\ UNCHANGED <<cursor, saved, had>>
<1> USE DEF serverVars, journals, memory, tickVars, history, Goto
<1>1. CASE \E line \in inbox : DropLine(line)
  BY <1>1 DEF DropLine
<1>2. CASE Download
  BY <1>2 DEF Download
<1>3. CASE Write
  BY <1>3 DEF Write
<1>4. CASE Record
  BY <1>4 DEF Record
<1>5. CASE ApplyRemoteDelete
  BY <1>5 DEF ApplyRemoteDelete
<1>6. CASE Advance
  BY <1>6 DEF Advance
<1>7. CASE RewriteInbox
  BY <1>7 DEF RewriteInbox
<1> QED
  BY <1>1, <1>2, <1>3, <1>4, <1>5, <1>6, <1>7 DEF Reading

(* A line of the inbox is about the row it was read from, or an older one. *)
LEMMA LinesKept ==
  ASSUME IInv, Consistent(files), Lines, Next
  PROVE  Lines'
<1>1. /\ Tip(files) \in Nat /\ cursor \in Nat
      /\ \A q \in Paths : files[q].rev \in Nat /\ files'[q].rev \in Nat /\ files[q].rev <= Tip(files)
      /\ \A q \in Paths : files'[q] = files[q] \/ files'[q].rev > Tip(files)
      /\ \A line \in inbox : line.rev \in Nat /\ line.path \in Paths
  BY RowsRise DEF IInv, TypeOK, Line
<1>2. CASE inbox' \subseteq inbox
  <2>1. ASSUME NEW line \in inbox' PROVE line.rev > 0 /\ line.rev <= files'[line.path].rev
    <3>1. line.path \in Paths /\ line.rev > 0 /\ line.rev <= files[line.path].rev
      BY <1>1, <1>2, <2>1 DEF Lines
    <3> QED
      BY <1>1, <1>2, <3>1
  <2>2. ASSUME NEW line \in inbox', NEW q \in Paths, files'[q].rev = line.rev
        PROVE  line = InboxLine(files', q)
    <3>1. line \in inbox /\ line.path \in Paths /\ line.rev <= files[line.path].rev
      BY <1>1, <1>2 DEF Lines
    <3>2. files'[q] = files[q]
      BY <1>1, <2>2, <3>1
    <3>3. line = InboxLine(files, q)
      BY <2>2, <3>1, <3>2 DEF Lines
    <3> QED
      BY <3>2, <3>3 DEF InboxLine
  <2>3. \A line, other \in inbox' : line.rev = other.rev => line = other
    BY <1>2 DEF Lines
  <2> QED
    BY <2>1, <2>2, <2>3 DEF Lines
<1>3. CASE Fetch
  <2>1. inbox' = inbox \cup InboxLines(files, cursor) /\ files' = files
    BY <1>3 DEF Fetch, serverVars
  <2>2. \A line \in inbox' : \/ line \in inbox
                             \/ \E q \in Paths : line = InboxLine(files, q) /\ files[q].rev > cursor
    BY <2>1 DEF InboxLines, Inbox
  <2>3. \A q \in Paths : InboxLine(files, q).rev = files[q].rev /\ InboxLine(files, q).path = q
    BY DEF InboxLine
  <2>4. \A line \in inbox' : line.rev > 0 /\ line.rev <= files[line.path].rev
    BY <1>1, <2>2, <2>3 DEF Lines
  <2>5. \A q, w \in Paths : files[q].rev = files[w].rev /\ files[q].rev > cursor => q = w
    BY <1>1 DEF Consistent, RevisionsUnique
  <2>6. \A line \in inbox', q \in Paths : files[q].rev = line.rev => line = InboxLine(files, q)
    BY <2>2, <2>3, <2>5 DEF Lines
  <2>7. \A line, other \in inbox' : line.rev = other.rev => line = other
    <3> SUFFICES ASSUME NEW line \in inbox', NEW other \in inbox', line.rev = other.rev
                 PROVE  line = other
      OBVIOUS
    <3>1. CASE line \in inbox /\ other \in inbox
      BY <3>1 DEF Lines
    <3>2. CASE line \notin inbox
      BY <2>2, <2>3, <2>6, <3>2
    <3>3. CASE other \notin inbox
      BY <2>2, <2>3, <2>6, <3>3
    <3> QED
      BY <3>1, <3>2, <3>3
  <2> QED
    BY <2>1, <2>4, <2>6, <2>7 DEF Lines
<1> QED
  BY <1>2, <1>3, InboxSteps

(* The lines still cover the rows between the cursor and each of them.     *)
LEMMA WholeKept ==
  ASSUME IInv, Consistent(files), Lines, Whole, Taken, Next
  PROVE  Whole'
<1> SUFFICES ASSUME Inward', NEW line \in inbox', NEW p \in Paths,
                    cursor' < files'[p].rev, files'[p].rev <= line.rev
             PROVE  InboxLine(files', p) \in inbox'
  BY DEF Whole
<1>1. /\ Tip(files) \in Nat /\ cursor \in Nat
      /\ \A q \in Paths : files[q].rev \in Nat /\ files'[q].rev \in Nat /\ files[q].rev <= Tip(files)
      /\ files'[p] = files[p] \/ files'[p].rev > Tip(files)
      /\ \A other \in inbox : other.rev \in Nat /\ other.path \in Paths
      /\ (pc \in Applied => job \in Line)
  BY RowsRise DEF IInv, TypeOK, Line, InHand
<1>2. InboxLine(files, p).rev = files[p].rev
  BY DEF InboxLine
<1>3. CASE Fetch
  <2>1. /\ inbox' = inbox \cup InboxLines(files, cursor)
        /\ UNCHANGED <<files, cursor>>
    BY <1>3 DEF Fetch, serverVars, memory
  <2> QED
    BY <2>1 DEF InboxLines, Inbox
<1>4. ASSUME UNCHANGED <<inbox, cursor>>, Inward PROVE InboxLine(files', p) \in inbox'
  <2>1. line.rev <= Tip(files) /\ line.rev \in Nat
    <3>1. line.rev <= files[line.path].rev /\ line.path \in Paths /\ line.rev \in Nat
      BY <1>1, <1>4 DEF Lines
    <3> QED
      BY <1>1, <3>1
  <2>2. files'[p] = files[p]
    BY <1>1, <2>1
  <2>3. InboxLine(files, p) \in inbox
    BY <1>4, <2>2 DEF Whole
  <2> QED
    BY <1>4, <2>2, <2>3 DEF InboxLine
<1>5. ASSUME NEW taken \in inbox, Takes(taken) PROVE InboxLine(files', p) \in inbox'
  <2>1. UNCHANGED <<inbox, cursor>> /\ Inward
    BY <1>5 DEF Takes, Inward
  <2> QED
    BY <1>4, <2>1
<1>6. CASE Reading
  <2>1. UNCHANGED files /\ Inward
    BY <1>6, ReadingSteps DEF Inward, Applied
  <2>2. ASSUME NEW first \in inbox, inbox' = inbox \ {first}, first.rev <= cursor, cursor' = cursor
        PROVE  InboxLine(files, p) \in inbox'
    <3>1. InboxLine(files, p) \in inbox
      BY <2>1, <2>2 DEF Whole
    <3>2. InboxLine(files, p) # first
      BY <1>1, <1>2, <2>1, <2>2
    <3> QED
      BY <2>2, <3>1, <3>2
  <2>3. CASE pc = "rewrite" /\ inbox' = inbox \ {job} /\ cursor' = cursor
    <3>1. job \in inbox /\ job.rev <= cursor
      BY <2>3 DEF Taken, Applied, IsNext
    <3> QED
      BY <2>1, <2>2, <2>3, <3>1 DEF InboxLine
  <2>4. CASE pc = "advance" /\ cursor' = job.rev /\ inbox' = inbox
    <3>1. job.rev > cursor /\ job.rev \in Nat
      BY <1>1, <2>4 DEF Taken, Applied, Line
    <3>2. cursor < files[p].rev
      BY <1>1, <2>1, <2>4, <3>1
    <3>3. InboxLine(files, p) \in inbox
      BY <2>1, <2>4, <3>2 DEF Whole
    <3> QED
      BY <2>1, <2>4, <3>3 DEF InboxLine
  <2>5. CASE UNCHANGED <<inbox, cursor>>
    BY <1>4, <2>1, <2>5
  <2>6. pc' # "save"
    BY DEF Inward, Applied
  <2> QED
    BY <1>6, <2>1, <2>2, <2>3, <2>4, <2>5, <2>6, ReadingSteps DEF InboxLine
<1>7. ASSUME UNCHANGED <<pc, job, body, inbox, cursor, saved>> PROVE InboxLine(files', p) \in inbox'
  <2>1. Inward
    BY <1>7 DEF Inward
  <2> QED
    BY <1>4, <1>7, <2>1
<1> QED
  BY <1>3, <1>5, <1>6, <1>7, InwardSteps

(* The tick works on the first line of the inbox.                          *)
LEMMA TakenKept ==
  ASSUME IInv, Taken, Next
  PROVE  Taken'
<1> SUFFICES ASSUME (pc \in Applied)'
             PROVE  IsNext(job)' /\ IF pc' = "rewrite" THEN job'.rev <= cursor' ELSE job'.rev > cursor'
  BY DEF Taken
<1>1. Inward'
  BY DEF Inward
<1>2. CASE Fetch
  BY <1>2 DEF Fetch, Applied
<1>3. ASSUME NEW line \in inbox, Takes(line) PROVE Taken'
  BY <1>3 DEF Takes, IsNext, Taken
<1>4. CASE Reading
  <2>1. pc = "take" \/ pc = "write" \/ pc = "record" \/ pc = "advance"
    BY <1>4, ReadingSteps DEF Applied
  <2>2. IsNext(job) /\ job.rev > cursor /\ job.rev \in Nat
    BY <2>1 DEF Taken, Applied, IInv, InHand, Line
  <2>3. UNCHANGED <<job, inbox>> /\ IF pc' = "rewrite" THEN cursor' = job.rev ELSE cursor' = cursor
    BY <1>4, <2>1, ReadingSteps DEF Applied
  <2> QED
    BY <2>2, <2>3 DEF IsNext
<1>5. CASE UNCHANGED <<pc, job, body, inbox, cursor, saved>>
  BY <1>5 DEF Taken, IsNext
<1> QED
  BY <1>1, <1>2, <1>3, <1>4, <1>5, InwardSteps DEF Taken

(* What other devices will write is nowhere yet.                           *)
LEMMA ForeignBefore ==
  ASSUME IInv, Next, NEW v \in Written, v \in -remotes' .. -1
  PROVE  Foreign(v)
<1>1. edits \in Nat /\ remotes \in Nat /\ remotes' \in {remotes, remotes + 1} /\ remotes' \in 0 .. MaxRemote
  BY WrittenGrows, IInvKept DEF IInv, Counted
<1>2. v \in Contents
  BY <1>1, ForeignContents
<1>3. v \in 1 .. edits \/ v \in -remotes .. -1
  BY <1>2, NoContentIsNoContent DEF Written
<1> QED
  BY <1>1, <1>3 DEF Foreign

(* No content is nobody's.                                                 *)
LEMMA NoForeign == IInv => ~Foreign(NoContent)
BY ForeignContents, NoContentIsNoContent DEF Foreign, IInv, Counted

(* What was downloaded stays the row, or the line is no longer the row's.  *)
LEMMA DownloadedKept ==
  ASSUME IInv, Consistent(files), Origins, Lines, Taken, Downloaded, Next
  PROVE  Downloaded'
<1> SUFFICES ASSUME pc' \in {"write", "record", "advance"}, files'[job'.path].rev = job'.rev
             PROVE  LET v == files'[job'.path].content
                    IN  IF pc' = "write" THEN body' = v ELSE v \in -remotes' .. -1 => v \in had'
  BY DEF Downloaded, Foreign
<1>1. Inward' /\ had \subseteq had'
  BY VaultSteps DEF Inward, Applied
<1>2. CASE Reading
  <2>1. pc \in {"take", "write", "record"} /\ UNCHANGED <<files, job, inbox, remotes>>
    BY <1>2, ReadingSteps
  <2>2. job \in inbox /\ job \in Line /\ job.path \in Paths
    BY <2>1 DEF Taken, Applied, IsNext, IInv, InHand, Line
  <2>3. files[job.path].live \/ ~Foreign(files[job.path].content)
    BY <2>2, NoForeign DEF Consistent
  <2>4. CASE pc = "take" /\ body' = files[job.path].content /\ (pc' = "write" \/ ~files[job.path].live)
    BY <2>1, <2>3, <2>4 DEF Foreign
  <2>5. CASE pc = "take" /\ job.op = "delete" /\ pc' = "advance"
    <3>1. job = InboxLine(files, job.path)
      BY <2>1, <2>2 DEF Lines
    <3>2. InboxLine(files, job.path).op = IF files[job.path].live THEN "put" ELSE "delete"
      BY DEF InboxLine
    <3>3. ~files[job.path].live
      BY <2>5, <3>1, <3>2
    <3> QED
      BY <2>1, <2>3, <2>5, <3>3 DEF Foreign
  <2>6. CASE pc = "write" /\ pc' = "record" /\ (Foreign(body) => body \in had')
    BY <2>1, <2>6 DEF Downloaded, Foreign
  <2>7. CASE pc = "record" /\ pc' = "advance" /\ UNCHANGED had
    BY <2>1, <2>7 DEF Downloaded, Foreign
  <2> QED
    BY <1>2, <2>1, <2>4, <2>5, <2>6, <2>7, ReadingSteps
<1>3. CASE UNCHANGED <<pc, job, body, inbox, cursor, saved>>
  <2>1. job \in inbox /\ job \in Line /\ job.path \in Paths
    BY <1>3 DEF Taken, Applied, IsNext, IInv, InHand, Line
  <2>2. job.rev <= Tip(files) /\ job.rev \in Nat /\ Tip(files) \in Nat
    <3>1. job.rev <= files[job.path].rev /\ files[job.path].rev <= Tip(files)
          /\ files[job.path].rev \in Nat /\ job.rev \in Nat /\ Tip(files) \in Nat
      BY <2>1, RowsRise DEF Lines, Line
    <3> QED
      BY <3>1
  <2>3. files'[job.path] = files[job.path]
    BY <1>3, <2>1, <2>2, RowsRise
  <2>4. PICK v \in Written : v = files[job.path].content
    BY <2>1 DEF Origins
  <2>5. v \in -remotes' .. -1 => Foreign(v)
    BY ForeignBefore
  <2>6. IF pc = "write" THEN body = v ELSE Foreign(v) => v \in had
    BY <1>3, <2>3, <2>4 DEF Downloaded
  <2> QED
    BY <1>1, <1>3, <2>3, <2>4, <2>5, <2>6
<1>4. ~Fetch /\ \A line \in inbox : ~Takes(line)
  BY DEF Fetch, Takes
<1> QED
  BY <1>1, <1>2, <1>3, <1>4, InwardSteps

(* The rows that the cursor has passed: those it had passed, the one of    *)
(* the line that was applied, or all when the plugin pulls.                *)
LEMMA RowsPassed ==
  ASSUME RInv, Next, NEW p \in Paths, files'[p].rev <= saved'
  PROVE  /\ files'[p] = files[p]
         /\ \/ files[p].rev <= saved
            \/ /\ Advance \/ AdvanceHalfWay
               /\ saved' = job.rev /\ p = job.path /\ files[p].rev = job.rev
            \/ PluginPulls
<1>1. IInv /\ Consistent(files) /\ Cursors /\ Lines /\ Taken /\ Whole
  BY DEF RInv
<1>2. /\ saved \in Nat /\ cursor \in Nat /\ Tip(files) \in Nat /\ files[p].rev \in Nat /\ files'[p].rev \in Nat
      /\ files'[p] = files[p] \/ files'[p].rev > Tip(files)
      /\ saved <= Tip(files) /\ cursor <= saved
  BY <1>1, RowsRise DEF IInv, TypeOK, Cursors
<1>3. ASSUME Advance \/ AdvanceHalfWay, saved' = job.rev
      PROVE  /\ pc = "advance" /\ IsNext(job) /\ job \in inbox /\ job.rev <= Tip(files) /\ job.rev \in Nat
  <2>1. pc = "advance" /\ IsNext(job) /\ job \in inbox /\ job.rev \in Nat /\ job.path \in Paths
    BY <1>1, <1>3 DEF Advance, AdvanceHalfWay, Taken, Applied, IsNext, IInv, InHand, Line
  <2>2. job.rev <= files[job.path].rev /\ files[job.path].rev <= Tip(files) /\ files[job.path].rev \in Nat
    BY <1>1, <2>1, RowsRise DEF Lines
  <2> QED
    BY <1>2, <2>1, <2>2
<1>4. saved' \in Nat /\ saved' <= Tip(files)
  BY <1>1, <1>2, <1>3, CursorSteps
<1>5. files'[p] = files[p]
  BY <1>2, <1>4
<1>6. CASE (Advance \/ AdvanceHalfWay) /\ saved' = job.rev /\ files[p].rev > saved
  <2>1. /\ pc = "advance" /\ IsNext(job) /\ job \in inbox /\ job.rev \in Nat
        /\ cursor < files[p].rev /\ files[p].rev <= job.rev
    BY <1>2, <1>3, <1>5, <1>6
  <2>2. InboxLine(files, p) \in inbox
    BY <1>1, <2>1 DEF Whole, Inward, Applied
  <2>3. job.rev <= files[p].rev
    BY <2>1, <2>2 DEF IsNext, InboxLine
  <2>4. InboxLine(files, p).rev = job.rev /\ InboxLine(files, p).path = p
    BY <1>2, <2>1, <2>3 DEF InboxLine
  <2>5. job = InboxLine(files, p)
    BY <1>1, <2>1, <2>2, <2>4 DEF Lines
  <2> QED
    BY <1>2, <1>5, <1>6, <2>1, <2>3, <2>4, <2>5
<1>7. files[p].rev <= saved \/ files[p].rev > saved
  BY <1>2
<1>8. saved' = saved \/ PluginPulls \/ ((Advance \/ AdvanceHalfWay) /\ saved' = job.rev)
  BY <1>1, CursorSteps
<1> QED
  BY <1>5, <1>6, <1>7, <1>8

(* Whatever the cursor has passed was on this disk.                        *)
LEMMA SeenBelowKept ==
  ASSUME RInv, Next
  PROVE  SeenBelow'
<1> SUFFICES ASSUME NEW p \in Paths, files'[p].rev <= saved', files'[p].content \in -remotes' .. -1
             PROVE  files'[p].content \in had'
  BY DEF SeenBelow, Foreign
<1>1. IInv /\ Origins /\ Downloaded /\ SeenBelow /\ had \subseteq had' /\ files[p].rev \in Nat /\ saved \in Nat
  BY VaultSteps DEF RInv, IInv, TypeOK, Table, Row
<1>2. files'[p] = files[p]
  BY RowsPassed
<1>3. PICK v \in Written : v = files[p].content
  BY <1>1 DEF Origins
<1>4. Foreign(v)
  BY <1>1, <1>2, <1>3, ForeignBefore
<1>5. CASE files[p].rev <= saved
  BY <1>1, <1>2, <1>3, <1>4, <1>5 DEF SeenBelow
<1>6. CASE (Advance \/ AdvanceHalfWay) /\ p = job.path /\ files[p].rev = job.rev
  <2>1. v \in had
    BY <1>1, <1>3, <1>4, <1>6 DEF Advance, AdvanceHalfWay, Downloaded
  <2> QED
    BY <1>1, <1>2, <1>3, <2>1
<1>7. CASE PluginPulls /\ ~(files[p].rev <= saved)
  <2>1. v \in had'
    BY <1>1, <1>3, <1>4, <1>7 DEF PluginPulls
  <2> QED
    BY <1>2, <1>3, <2>1
<1> QED
  BY <1>5, <1>6, <1>7, RowsPassed

(* RInv holds at the start.                                                *)
LEMMA RInvInitially == Init => RInv
<1> SUFFICES ASSUME Init PROVE RInv
  OBVIOUS
<1>1. IInv
  BY IInvInitially
<1>2. PICK s \in {{}} \cup {{p} : p \in Paths} :
        /\ files = [p \in Paths |-> IF p \in s THEN FileRow(1, -1) ELSE NoRow]
        /\ disk = [p \in Paths |-> IF p \in s THEN -1 ELSE NoContent]
        /\ saved = Cardinality(s) /\ remotes = Cardinality(s)
        /\ had = IF s = {} THEN {} ELSE {-1}
  BY DEF Init
<1>3. \/ s = {} /\ Cardinality(s) = 0
      \/ Cardinality(s) = 1 /\ \E p \in Paths : s = {p}
  BY FS_EmptySet, FS_Singleton
<1>4. \A p \in Paths : /\ p \in s => files[p].rev = 1 /\ files[p].live /\ files[p].content = -1
                       /\ p \notin s => files[p].rev = 0 /\ ~files[p].live /\ files[p].content = NoContent
  BY <1>2 DEF FileRow, NoRow
<1>5. \A p, q \in s : p = q
  BY <1>3
<1>6. Consistent(files)
  <2>1. Antichain(files)
    BY <1>4, <1>5, UnderIsStrictOrder DEF Antichain
  <2>2. TombstonesFirst(files)
    BY <1>4 DEF TombstonesFirst
  <2>3. RevisionsUnique(files)
    BY <1>4, <1>5 DEF RevisionsUnique
  <2> QED
    BY <1>4, <2>1, <2>2, <2>3 DEF Consistent
<1>7. outbox = <<>> /\ failed = {} /\ inbox = {} /\ cursor = 0 /\ pc = "down" /\ body = NoContent /\ edits = 0
  BY DEF Init
<1>8. Origins
  <2>1. s # {} => -1 \in -remotes .. -1
    BY <1>2, <1>3
  <2> QED
    BY <1>2, <1>4, <1>7, <2>1 DEF Origins, Written
<1>9. Cursors
  <2>1. Tip(files) \in Nat /\ \A p \in Paths : files[p].rev <= Tip(files)
    BY <1>1, TipIsGreatest DEF IInv, TypeOK
  <2>2. saved <= Tip(files) /\ saved \in Nat
    BY <1>2, <1>3, <1>4, <2>1
  <2> QED
    BY <1>7, <2>2 DEF Cursors, Live
<1>10. Bases
  BY <1>7, Elements DEF Bases, ToSet
<1>11. Lines /\ Whole /\ Taken /\ Downloaded
  BY <1>7 DEF Lines, Whole, Inward, Taken, Downloaded, Applied
<1>12. SeenBelow
  <2>1. ~Foreign(NoContent)
    BY <1>1, NoForeign
  <2> QED
    BY <1>2, <1>4, <2>1 DEF SeenBelow
<1> QED
  BY <1>1, <1>6, <1>8, <1>9, <1>10, <1>11, <1>12 DEF RInv

(* Every step keeps RInv.                                                  *)
LEMMA RInvKept == RInv /\ [Next]_vars => RInv'
<1> SUFFICES ASSUME RInv, [Next]_vars PROVE RInv'
  OBVIOUS
<1>1. CASE UNCHANGED vars
  BY <1>1 DEF vars, serverVars, journals, memory, tickVars, history, counters, RInv, IInv, TypeOK, Counted,
              InHand, Origins, Written, Cursors, NoneBetween, Live, Bases, Lines, Whole, Inward, Taken, IsNext, Downloaded,
              SeenBelow, Foreign
<1>2. CASE Next
  <2>1. IInv /\ Consistent(files) /\ Origins /\ Cursors /\ Bases /\ Lines /\ Whole /\ Taken /\ Downloaded
    BY DEF RInv
  <2>2. IInv' /\ Consistent(files') /\ Origins' /\ Cursors' /\ Bases'
    BY <1>2, <2>1, IInvKept, RowsRise, OriginsKept, CursorsKept, BasesKept
  <2>3. Lines' /\ Whole' /\ Taken' /\ Downloaded' /\ SeenBelow'
    BY <1>2, <2>1, LinesKept, WholeKept, TakenKept, DownloadedKept, SeenBelowKept
  <2> QED
    BY <2>2, <2>3 DEF RInv
<1> QED
  BY <1>1, <1>2

(* At any time, also between a crash and the restart after it or while     *)
(* Obsidian syncs the same vault: whatever the saved cursor has passed was *)
(* on this disk, and no queued delete names a later revision.              *)
THEOREM RInvHolds == Spec => []RInv
BY RInvInitially, RInvKept, PTL DEF Spec

(* A delete of this client takes nothing off the server that other devices *)
(* wrote and this device never had, whatever is lost and retried.          *)
THEOREM DeletesOnlyWhatWasSeenHolds == Spec => DeletesOnlyWhatWasSeen
<1>1. ASSUME RInv, [Next]_vars, Pushing, Head(outbox).op = "delete", NEW p \in Paths,
             Foreign(files[p].content), ~files'[p].live
      PROVE  files[p].content \in had
  <2> DEFINE op == Head(outbox)
             d == Deleted(files, op.path, op.base)
             seen == Seen(files, op.path, op.base)
             late == Late(files, op.path, op.base)
             gone == IF late = {} THEN seen \cup {op.path} ELSE seen
  <2>1. Sends(op) /\ outbox # <<>>
    BY <1>1 DEF Pushing, Push, Sends
  <2>2. files' = d
    BY <1>1, <2>1 DEF Sends, Requested, Refused
  <2>3. outbox \in Seq(OutboxOp) /\ files \in Table /\ saved \in Nat
    BY <1>1 DEF RInv, IInv, TypeOK
  <2>4. op \in OutboxOp /\ op \in ToSet(outbox)
    BY <2>1, <2>3, Elements
  <2>5. op.path \in Paths /\ op.base \in Nat /\ op.base <= saved
    BY <1>1, <2>4 DEF RInv, Bases, OutboxOp
  <2>6. files[p].live
    BY <1>1, NoForeign DEF RInv, Consistent
  <2>7. p \notin gone => d[p] = files[p]
    BY <2>3, <2>5, Deleting
  <2>8. p \in gone
    BY <1>1, <2>2, <2>6, <2>7
  <2>9. p \in Active(files, op.path) /\ p \notin late
    BY <2>6, <2>8 DEF Seen, Active
  <2>10. ~(files[p].rev > op.base)
    BY <2>5, <2>9, NoBaseIsNoRevision DEF Late, NewerThan
  <2>11. files[p].rev <= saved
    <3>1. files[p].rev \in Nat
      BY <2>3 DEF Table, Row
    <3> QED
      BY <2>3, <2>5, <2>10, <3>1
  <2> QED
    BY <1>1, <2>11 DEF RInv, SeenBelow
<1>2. RInv /\ [Next]_vars =>
        [Pushing /\ Head(outbox).op = "delete" =>
           \A p \in Paths : Foreign(files[p].content) /\ ~files'[p].live => files[p].content \in had]_vars
  BY <1>1
<1> QED
  BY <1>2, RInvHolds, PTL DEF Spec, DeletesOnlyWhatWasSeen

-----------------------------------------------------------------------------
(* An edit leaves the disk only after the server has had it.  While it has *)
(* not, a put of it is queued or the tracker and the manifest say other    *)
(* bytes, so that the next look queues it; and no line of the inbox is     *)
(* taken while such an edit is where it would write.                       *)

Owed(p) == p \in Watched \ Excused({"adopted", "unqueued"})
Unsent(p) == disk[p] \in 1 .. edits /\ disk[p] \notin sent
PutQueued(p) == \E op \in ToSet(outbox) : op.op = "put" /\ op.path = p

Safe(m) == \A p \in Paths : Owed(p) /\ Unsent(p) => PutQueued(p) \/ m[p].hash # disk[p]

(* Hashes are of bytes that somebody wrote.                                *)
Entries ==
  \A p \in Paths : /\ tracker[p].hash \in Written
                   /\ manifest # NoManifest => manifest.files[p].hash \in Written

(* What the user wrote is on the server only after it was sent.            *)
Echo ==
  /\ body \in 1 .. edits => body \in sent
  /\ \A p \in Paths : files[p].content \in 1 .. edits => files[p].content \in sent

(* No file of the vault is in a folder that is a file.                     *)
DiskTree == \A p, q \in Paths : IsFile(disk, p) /\ IsFile(disk, q) => <<p, q>> \notin Under

FailedExcused == PathsOf(failed) \subseteq Excused({"unqueued"})

(* The put that is about to be struck is done, or its file has changed.    *)
Acked ==
  pc = "ack" /\ job.op = "put" =>
    \A p \in Paths : p = job.path /\ Owed(p) /\ Unsent(p) =>
      /\ tracker[p].hash # disk[p]
      /\ manifest # NoManifest => manifest.files[p].hash # disk[p]

Spared ==
  pc \in {"take", "write"} => \A p \in Paths : Owed(p) /\ Related(job.path, p) => ~Unsent(p)

UInv ==
  /\ RInv /\ Entries /\ Echo /\ DiskTree /\ FailedExcused
  /\ Safe(tracker) /\ (manifest # NoManifest => Safe(manifest.files))
  /\ Acked /\ Spared

(* The hash of an entry after each of the things that happen to manifests. *)
LEMMA Hashes ==
  ASSUME NEW m \in [Paths -> Entry], NEW d \in [Paths -> Known], NEW q \in Paths
  PROVE  /\ Touched(m, d)[q].hash = m[q].hash
         /\ \A s : Forget(m, s)[q].hash = IF q \in s THEN NoContent ELSE m[q].hash
         /\ Rebaselined(m, d)[q].hash = IF ~(q \in Watched /\ IsFile(d, q)) THEN NoContent
                                        ELSE IF m[q].seen = d[q] THEN m[q].hash ELSE d[q]
         /\ \A v : EntryOf(v).hash = v
         /\ NoEntries[q].hash = NoContent
<1>1. /\ \A v : EntryOf(v).hash = v
      /\ NoEntry.hash = NoContent
  BY DEF EntryOf, NoEntry
<1>2. Touched(m, d)[q].hash = m[q].hash
  BY <1>1 DEF Touched, Moved, Changed
<1>3. \A s : Forget(m, s)[q].hash = IF q \in s THEN NoContent ELSE m[q].hash
  BY <1>1 DEF Forget
<1>4. Rebaselined(m, d)[q].hash = IF ~(q \in Watched /\ IsFile(d, q)) THEN NoContent
                                  ELSE IF m[q].seen = d[q] THEN m[q].hash ELSE d[q]
  BY <1>1 DEF Rebaselined
<1>5. NoEntries[q].hash = NoContent
  BY <1>1 DEF NoEntries
<1> QED
  BY <1>1, <1>2, <1>3, <1>4, <1>5

(* The hashes after a look.                                                *)
LEMMA ReconciledHash ==
  ASSUME NEW m \in [Paths -> Entry], disk \in [Paths -> Known], NEW q \in Paths, NEW dirty, NEW bad
  PROVE  Reconciled(m, dirty, bad)[q].hash =
           IF q \in Present(dirty) \ bad THEN disk[q]
           ELSE IF q \in Gone(m, dirty) \ bad THEN NoContent ELSE m[q].hash
<1>1. /\ Forget(m, Gone(m, dirty) \ bad)[q].hash = IF q \in Gone(m, dirty) \ bad THEN NoContent ELSE m[q].hash
      /\ EntryOf(disk[q]).hash = disk[q]
  BY Hashes
<1> QED
  BY <1>1 DEF Reconciled

(* What the histories excuse, they excuse for ever.                        *)
LEMMA ExcusedGrows ==
  ASSUME Next
  PROVE  excused \subseteq excused' /\ \A p \in Paths : Owed(p)' => Owed(p)
<1> USE DEF history
<1>1. ASSUME NEW m, NEW dirty, NEW bad, NEW rev, ReconcilePaths(m, dirty, bad, rev) PROVE excused \subseteq excused'
  BY <1>1 DEF ReconcilePaths, EnqueueDurable
<1>2. ASSUME NEW known, AdoptFrom(known) PROVE excused \subseteq excused'
  BY <1>2 DEF AdoptFrom
<1>3. ASSUME NEW bad, ReconcileEvents(bad) \/ Rescan(bad) \/ \E line \in inbox : Inspect(line, bad)
      PROVE  \E m, dirty, rev : ReconcilePaths(m, dirty, bad, rev)
  BY <1>3 DEF ReconcileEvents, Rescan, Inspect
<1>4. Seed \/ Resumed => \E m, dirty, rev : ReconcilePaths(m, dirty, {}, rev)
  BY DEF Seed, Resumed
<1>5. FirstRun \/ StartRebaselined \/ Resume => \E known : AdoptFrom(known)
  BY DEF FirstRun, StartRebaselined, Resume
<1>6. ASSUME NEW p \in Paths, Edit(p) \/ Erase(p) \/ SaveInObsidian(p) PROVE excused' = excused
  BY <1>6 DEF Edit, Erase, SaveInObsidian
<1>7. \/ Started \/ LoseEvents \/ StartTick \/ Drain \/ SkipPut \/ Acknowledge \/ Fetch \/ EndTick
      \/ Download \/ Write \/ Record \/ ApplyRemoteDelete \/ Advance \/ RewriteInbox \/ Suspend \/ TickFails
      \/ RemoteChange \/ ObsidianStarts \/ ObsidianExits \/ PluginPushes \/ PluginPulls \/ Pause
      => excused' = excused
  BY DEF Started, LoseEvents, StartTick, Drain, SkipPut, Acknowledge, Fetch, EndTick, Download, Write, Record,
         ApplyRemoteDelete, Advance, RewriteInbox, Suspend, TickFails, RemoteChange, ObsidianStarts,
         ObsidianExits, PluginPushes, PluginPulls, Pause
<1>8. (\E op \in failed : RetryFailed(op)) \/ (\E line \in inbox : DropLine(line))
      \/ (\E ok \in BOOLEAN : Push(ok) \/ SaveManifest(ok)) => excused' = excused
  BY DEF RetryFailed, DropLine, Push, SaveManifest
<1>9. Crash => excused \subseteq excused'
  BY DEF Crash
<1> HIDE DEF history
<1>10. excused \subseteq excused'
  BY <1>1, <1>2, <1>3, <1>4, <1>5, <1>6, <1>7, <1>8, <1>9, Steps, HalfWaySteps
<1>11. Excused({"adopted", "unqueued"}) \subseteq Excused({"adopted", "unqueued"})'
  BY <1>10 DEF Excused
<1> QED
  BY <1>10, <1>11 DEF Owed

(* What changes the tracker, beside a look.                                *)
Still == UNCHANGED <<files, remotes, disk, sent, edits, saved>>

Looked(m) == Still /\ \E dirty, bad, rev : rev \in Nat /\ ReconcilePaths(m, dirty, bad, rev)

Adopts(known) == Still /\ Rebaseline(known) /\ AdoptFrom(known)

(* The steps that change the tracker.                                      *)
LEMMA TrackerSteps ==
  ASSUME IInv, Next
  PROVE  \/ UNCHANGED tracker
         \/ UNCHANGED manifest /\ \E m \in {tracker, Touched(tracker, disk)} : Looked(m)
         \/ Seed /\ Looked(NoEntries)
         \/ Resumed /\ Still
         \/ Adopts(NoEntries)
         \/ manifest # NoManifest /\ Adopts(manifest.files)
         \/ Adopts(tracker)
         \/ \E op \in failed : RetryFailed(op)
         \/ Write \/ Record \/ ApplyRemoteDelete \/ Crash
<1> USE DEF serverVars, memory, history, Still
<1>1. cursor \in Nat /\ saved \in Nat
  BY DEF IInv, TypeOK
<1>2. ASSUME NEW bad, ReconcileEvents(bad) \/ Rescan(bad) \/ \E line \in inbox : Inspect(line, bad)
      PROVE  UNCHANGED manifest /\ \E m \in {tracker, Touched(tracker, disk)} : Looked(m)
  BY <1>1, <1>2 DEF ReconcileEvents, Rescan, Inspect, Looked
<1>3. Seed => Looked(NoEntries)
  BY <1>1 DEF Seed, Starting, Looked
<1>4. Resumed => Still
  BY DEF Resumed, Starting
<1>5. FirstRun => Adopts(NoEntries)
  BY DEF FirstRun, Starting, Adopts
<1>6. StartRebaselined => manifest # NoManifest /\ Adopts(manifest.files)
  BY DEF StartRebaselined, Starting, Adopts
<1>7. Resume => Adopts(tracker)
  BY DEF Resume, Adopts
<1>8. ASSUME NEW p \in Paths, Edit(p) \/ Erase(p) \/ SaveInObsidian(p) PROVE UNCHANGED tracker
  BY <1>8 DEF Edit, Erase, SaveInObsidian
<1>9. \/ Started \/ LoseEvents \/ StartTick \/ Drain \/ SkipPut \/ Acknowledge \/ Fetch \/ EndTick
      \/ Download \/ Advance \/ RewriteInbox \/ Suspend \/ TickFails
      \/ RemoteChange \/ ObsidianStarts \/ ObsidianExits \/ PluginPushes \/ PluginPulls \/ Pause
      => UNCHANGED tracker
  BY DEF Started, LoseEvents, StartTick, Drain, SkipPut, Acknowledge, Fetch, EndTick, Download,
         Advance, RewriteInbox, Suspend, TickFails, RemoteChange, ObsidianStarts,
         ObsidianExits, PluginPushes, PluginPulls, Pause
<1>10. (\E line \in inbox : DropLine(line)) \/ (\E ok \in BOOLEAN : Push(ok) \/ SaveManifest(ok)) => UNCHANGED tracker
  BY DEF DropLine, Push, SaveManifest
<1> HIDE DEF serverVars, memory, history, Still
<1> QED
  BY <1>2, <1>3, <1>4, <1>5, <1>6, <1>7, <1>8, <1>9, <1>10, Steps, HalfWaySteps

(* What changes the manifest.                                              *)
LEMMA ManifestSteps ==
  ASSUME Next
  PROVE  \/ UNCHANGED manifest
         \/ /\ manifest' = [rev |-> cursor, files |-> tracker]
            /\ pc' = "idle" /\ UNCHANGED <<disk, outbox, tracker, sent, excused, edits, remotes>>
         \/ manifest' = [rev |-> saved, files |-> tracker'] /\ pc' = "idle" /\ Still
<1> USE DEF serverVars, journals, memory, history, counters, Still, Goto
<1>1. ASSUME NEW bad, ReconcileEvents(bad) \/ Rescan(bad) \/ \E line \in inbox : Inspect(line, bad)
      PROVE  UNCHANGED manifest
  BY <1>1 DEF ReconcileEvents, Rescan, Inspect
<1>2. Seed \/ Resumed => UNCHANGED manifest
  BY DEF Seed, Resumed, Starting
<1>3. FirstRun \/ StartRebaselined \/ Resume =>
        manifest' = [rev |-> saved, files |-> tracker'] /\ pc' = "idle" /\ Still
  BY DEF FirstRun, StartRebaselined, Resume, Starting, Rebaseline
<1>4. Started => /\ manifest' = [rev |-> cursor, files |-> tracker] /\ pc' = "idle"
                 /\ UNCHANGED <<disk, outbox, tracker, sent, excused, edits, remotes>>
  BY DEF Started
<1>5. ASSUME NEW p \in Paths, Edit(p) \/ Erase(p) \/ SaveInObsidian(p) PROVE UNCHANGED manifest
  BY <1>5 DEF Edit, Erase, SaveInObsidian
<1>6. \/ LoseEvents \/ StartTick \/ Drain \/ SkipPut \/ Acknowledge \/ Fetch \/ EndTick
      \/ Download \/ Write \/ Record \/ ApplyRemoteDelete \/ Advance \/ RewriteInbox \/ Suspend \/ TickFails
      \/ Crash \/ RemoteChange \/ ObsidianStarts \/ ObsidianExits \/ PluginPushes \/ PluginPulls \/ Pause
      => UNCHANGED manifest
  BY DEF LoseEvents, StartTick, Drain, SkipPut, Acknowledge, Fetch, EndTick, Download, Write, Record,
         ApplyRemoteDelete, Advance, RewriteInbox, Suspend, TickFails, Crash, RemoteChange, ObsidianStarts,
         ObsidianExits, PluginPushes, PluginPulls, Pause
<1>7. (\E op \in failed : RetryFailed(op)) \/ (\E line \in inbox : DropLine(line))
      \/ (\E ok \in BOOLEAN : Push(ok)) => UNCHANGED manifest
  BY DEF RetryFailed, DropLine, Push
<1>8. ASSUME NEW ok \in BOOLEAN, SaveManifest(ok)
      PROVE  \/ UNCHANGED manifest
             \/ /\ manifest' = [rev |-> cursor, files |-> tracker]
                /\ pc' = "idle" /\ UNCHANGED <<disk, outbox, tracker, sent, excused, edits, remotes>>
  BY <1>8 DEF SaveManifest
<1> HIDE DEF serverVars, journals, memory, history, counters, Still, Goto
<1> QED
  BY <1>1, <1>2, <1>3, <1>4, <1>5, <1>6, <1>7, <1>8, Steps, HalfWaySteps

(* What a step saves is new: nobody has it anywhere.                       *)
LEMMA NotYet ==
  ASSUME IInv, NEW v \in Written, edits < MaxEdits
  PROVE  v # edits + 1
<1>1. edits \in Nat /\ remotes \in Nat /\ MaxEdits \in Nat
  BY Bounds DEF IInv, Counted
<1>2. edits + 1 \in 1 .. MaxEdits
  BY <1>1
<1>3. NoContent # edits + 1
  BY <1>2, Numbered, NoContentIsNoContent
<1>4. \A w \in 1 .. edits \cup -remotes .. -1 : w # edits + 1
  BY <1>1
<1> QED
  BY <1>3, <1>4 DEF Written

(* What was written before a step is an edit after it if it was one.       *)
LEMMA EditsBefore ==
  ASSUME IInv, Next, NEW v \in Written, v \in 1 .. edits'
  PROVE  v \in 1 .. edits
<1>1. edits \in Nat /\ edits' \in {edits, edits + 1} /\ edits' \in 0 .. MaxEdits /\ MaxEdits \in Nat
  BY Bounds, WrittenGrows, IInvKept DEF IInv, Counted
<1>2. CASE edits' = edits
  BY <1>2
<1>3. CASE edits' = edits + 1
  <2>1. edits < MaxEdits
    BY <1>1, <1>3
  <2>2. v # edits + 1
    BY <2>1, NotYet
  <2> QED
    BY <1>1, <1>3, <2>2
<1> QED
  BY <1>1, <1>2, <1>3

(* Where an entry of the tracker comes from.                               *)
EntryFrom(p) ==
  \/ tracker'[p] \in {tracker[p], NoEntry, EntryOf(disk[p])}
  \/ manifest # NoManifest /\ tracker'[p] = manifest.files[p]
  \/ Record /\ p = job.path /\ IsFile(disk, p) /\ tracker'[p] = [hash |-> body, seen |-> disk[p]]

(* Every step keeps an entry or makes it in one of these ways.             *)
LEMMA EntrySteps ==
  ASSUME IInv, Next, NEW p \in Paths
  PROVE  EntryFrom(p)
<1>1. tracker \in [Paths -> Entry]
  BY DEF IInv, TypeOK
<1>2. ASSUME NEW m, NEW dirty, NEW bad, NEW rev, ReconcilePaths(m, dirty, bad, rev)
      PROVE  tracker'[p] \in {EntryOf(disk[p]), NoEntry, m[p]}
  BY <1>2 DEF ReconcilePaths, Reconciled, Forget
<1>3. ASSUME NEW known, Adopts(known)
      PROVE  tracker'[p] \in {NoEntry, known[p], EntryOf(disk[p])}
  BY <1>3 DEF Adopts, Rebaseline, Rebaselined
<1>4. \A m : Touched(m, disk)[p] \in {m[p], EntryOf(disk[p])}
  BY DEF Touched
<1>5. NoEntries[p] = NoEntry
  BY DEF NoEntries
<1>6. ASSUME NEW m \in {tracker, Touched(tracker, disk)}, Looked(m) PROVE EntryFrom(p)
  BY <1>2, <1>4, <1>6 DEF Looked, EntryFrom
<1>7. Looked(NoEntries) => EntryFrom(p)
  BY <1>2, <1>5 DEF Looked, EntryFrom
<1>8. CASE Resumed
  <2> DEFINE known == Touched(manifest.files, disk)
             changed == Changed(manifest.files, disk)
             missing == Missing(manifest.files, disk)
             same == {q \in changed : disk[q] = files[q].content}
             forgotten == {q \in missing : ~files[q].live}
             checked == [q \in Paths |-> IF q \in same THEN EntryOf(disk[q]) ELSE Forget(known, forgotten)[q]]
  <2>1. manifest # NoManifest /\ ReconcilePaths(checked, (changed \ same) \cup (missing \ forgotten), {}, saved)
    BY <1>8 DEF Resumed
  <2>2. known[p] \in {manifest.files[p], EntryOf(disk[p])}
    BY <1>4
  <2>3. checked[p] \in {EntryOf(disk[p]), Forget(known, forgotten)[p]}
    OBVIOUS
  <2>4. Forget(known, forgotten)[p] \in {NoEntry, known[p]}
    BY DEF Forget
  <2> HIDE DEF known, changed, missing, same, forgotten, checked
  <2>5. tracker'[p] \in {EntryOf(disk[p]), NoEntry, checked[p]}
    BY <1>2, <2>1
  <2> QED
    BY <2>1, <2>2, <2>3, <2>4, <2>5 DEF EntryFrom
<1>9. Adopts(NoEntries) \/ Adopts(tracker) \/ (manifest # NoManifest /\ Adopts(manifest.files)) => EntryFrom(p)
  BY <1>3, <1>5 DEF EntryFrom
<1>10. ASSUME NEW op \in failed, RetryFailed(op) PROVE EntryFrom(p)
  BY <1>1, <1>10 DEF RetryFailed, EntryFrom
<1>11. Write \/ ApplyRemoteDelete \/ Crash => EntryFrom(p)
  BY <1>5 DEF Write, ApplyRemoteDelete, Crash, Forget, EntryFrom
<1>12. Record => EntryFrom(p)
  BY <1>1 DEF Record, EntryFrom
<1>13. UNCHANGED tracker => EntryFrom(p)
  BY DEF EntryFrom
<1> QED
  BY <1>6, <1>7, <1>8, <1>9, <1>10, <1>11, <1>12, <1>13, TrackerSteps

(* The same for hashes.                                                    *)
HashFrom(p) ==
  \/ tracker'[p].hash \in {tracker[p].hash, NoContent, disk[p], body}
  \/ manifest # NoManifest /\ tracker'[p].hash = manifest.files[p].hash

(* So a hash is of the disk or of a download, or was known before.         *)
LEMMA HashSteps ==
  ASSUME IInv, Next, NEW p \in Paths
  PROVE  HashFrom(p)
<1>1. NoEntry.hash = NoContent /\ EntryOf(disk[p]).hash = disk[p] /\ [hash |-> body, seen |-> disk[p]].hash = body
  BY DEF NoEntry, EntryOf
<1>2. EntryFrom(p)
  BY EntrySteps
<1>3. CASE tracker'[p] \in {tracker[p], NoEntry, EntryOf(disk[p])}
  BY <1>1, <1>3 DEF HashFrom
<1>4. CASE manifest # NoManifest /\ tracker'[p] = manifest.files[p]
  BY <1>4 DEF HashFrom
<1>5. CASE tracker'[p] = [hash |-> body, seen |-> disk[p]]
  BY <1>1, <1>5 DEF HashFrom
<1> QED
  BY <1>2, <1>3, <1>4, <1>5 DEF EntryFrom

(* No manifest knows bytes before somebody writes them.                    *)
LEMMA EntriesKept ==
  ASSUME IInv, Origins, Entries, Next
  PROVE  Entries'
<1>1. Written \subseteq Written' /\ NoContent \in Written
  BY WrittenGrows DEF Written
<1>2. ASSUME NEW p \in Paths PROVE tracker'[p].hash \in Written'
  BY <1>1, HashSteps DEF HashFrom, Entries, Origins
<1>3. ASSUME NEW p \in Paths, manifest' # NoManifest PROVE manifest'.files[p].hash \in Written'
  <2>1. CASE UNCHANGED manifest
    BY <1>1, <1>3, <2>1 DEF Entries
  <2>2. CASE \E r : manifest' = [rev |-> r, files |-> tracker] \/ manifest' = [rev |-> r, files |-> tracker']
    BY <1>1, <1>2, <2>2 DEF Entries
  <2> QED
    BY <2>1, <2>2, ManifestSteps
<1> QED
  BY <1>2, <1>3 DEF Entries

(* The user's bytes come back from the server only after they were sent.   *)
LEMMA EchoKept ==
  ASSUME IInv, Origins, Echo, Next
  PROVE  Echo'
<1>1. sent \subseteq sent' /\ Written \subseteq Written' /\ NoContent \in Written
  BY VaultSteps, WrittenGrows DEF Written
<1>2. edits' \in Nat /\ 1 .. edits' \subseteq Contents /\ remotes \in Nat
      /\ files \in Table /\ disk \in [Paths -> Known]
      /\ (pc \in Applied => job.path \in Paths)
  <2>1. edits' \in 0 .. MaxEdits /\ MaxEdits \in Nat
    BY Bounds, IInvKept DEF IInv, Counted
  <2>2. 1 .. edits' \subseteq 1 .. MaxEdits /\ edits' \in Nat
    BY <2>1
  <2>3. 1 .. edits' \subseteq Contents
    BY <2>2, Numbered
  <2>4. pc \in Applied => job.path \in Paths
    BY DEF IInv, InHand, Line
  <2> QED
    BY <2>2, <2>3, <2>4, Bounds DEF IInv, Counted, TypeOK
<1>3. NoContent \notin 1 .. edits'
  BY <1>2, NoContentIsNoContent
<1>4. ASSUME NEW p \in Paths, files[p].content \in 1 .. edits' PROVE files[p].content \in sent'
  BY <1>1, <1>4, EditsBefore DEF Origins, Echo
<1>5. ASSUME body \in 1 .. edits' PROVE body \in sent'
  BY <1>1, <1>5, EditsBefore DEF Origins, Echo
<1>6. ASSUME body' \in 1 .. edits' PROVE body' \in sent'
  <2>1. CASE Download
    BY <1>2, <1>4, <1>6, <2>1 DEF Download, Applied
  <2>2. CASE body' \in {body, NoContent}
    BY <1>3, <1>5, <1>6, <2>2
  <2> QED
    BY <2>1, <2>2, VaultSteps
<1>7. ASSUME NEW q \in Paths, files'[q].content \in 1 .. edits' PROVE files'[q].content \in sent'
  <2>1. CASE files' = files
    BY <1>4, <1>7, <2>1
  <2>2. ASSUME NEW p \in Paths, NEW v \in Contents, files' = Uploaded(files, p, v),
               \/ v \in sent'
               \/ v = -(remotes + 1)
        PROVE  files'[q].content \in sent'
    <3>1. files'[q].content \in {files[q].content, NoContent, v}
      BY <1>2, <2>2, RowContents
    <3>2. v = -(remotes + 1) => v \notin 1 .. edits'
      BY <1>2
    <3> QED
      BY <1>3, <1>4, <1>7, <2>2, <3>1, <3>2
  <2>3. ASSUME NEW p \in Paths, NEW base, files' = Deleted(files, p, base) PROVE files'[q].content \in sent'
    <3>1. files'[q].content \in {files[q].content, NoContent}
      BY <1>2, <2>3, RowContents
    <3> QED
      BY <1>3, <1>4, <1>7, <3>1
  <2> QED
    BY <2>1, <2>2, <2>3, ServerRequests
<1> QED
  BY <1>6, <1>7 DEF Echo

(* An append that failed is excused.                                       *)
LEMMA FailedExcusedKept ==
  ASSUME IInv, FailedExcused, Next
  PROVE  FailedExcused'
<1> USE DEF journals, memory, Goto
<1>1. excused \subseteq excused' /\ saved \in Nat /\ cursor \in Nat
  BY ExcusedGrows DEF IInv, TypeOK
<1>2. ASSUME NEW m, NEW dirty, NEW bad, NEW rev \in Nat, ReconcilePaths(m, dirty, bad, rev), NEW f \in failed'
      PROVE  f \in failed \/ <<"unqueued", f.path>> \in excused'
  <2>1. Queued(Gone(m, dirty), Fresh(m, dirty), bad, rev)
    BY <1>2, LookQueues DEF IInv
  <2>2. excused' = excused \cup {"unqueued"} \X bad
    BY <1>2 DEF ReconcilePaths, EnqueueDurable
  <2>3. f \in failed \/ f.path \in bad
    BY <1>2, <2>1 DEF Queued
  <2> QED
    BY <2>2, <2>3
<1>3. ASSUME NEW bad, ReconcileEvents(bad) \/ Rescan(bad) \/ \E line \in inbox : Inspect(line, bad)
      PROVE  \E m, dirty : ReconcilePaths(m, dirty, bad, cursor)
  BY <1>3 DEF ReconcileEvents, Rescan, Inspect
<1>4. Seed \/ Resumed => \E m, dirty : ReconcilePaths(m, dirty, {}, saved)
  BY DEF Seed, Resumed
<1>5. FirstRun \/ StartRebaselined \/ Resume => UNCHANGED failed
  BY DEF FirstRun, StartRebaselined, Resume, Rebaseline
<1>6. ASSUME NEW p \in Paths, Edit(p) \/ Erase(p) \/ SaveInObsidian(p) PROVE UNCHANGED failed
  BY <1>6 DEF Edit, Erase, SaveInObsidian
<1>7. \/ Started \/ LoseEvents \/ StartTick \/ Drain \/ SkipPut \/ Acknowledge \/ Fetch \/ EndTick
      \/ Download \/ Write \/ Record \/ ApplyRemoteDelete \/ Advance \/ RewriteInbox \/ Suspend \/ TickFails
      \/ RemoteChange \/ ObsidianStarts \/ ObsidianExits \/ PluginPushes \/ PluginPulls \/ Pause
      => UNCHANGED failed
  BY DEF Started, LoseEvents, StartTick, Drain, SkipPut, Acknowledge, Fetch, EndTick, Download, Write, Record,
         ApplyRemoteDelete, Advance, RewriteInbox, Suspend, TickFails, RemoteChange, ObsidianStarts,
         ObsidianExits, PluginPushes, PluginPulls, Pause
<1>8. (\E line \in inbox : DropLine(line)) \/ (\E ok \in BOOLEAN : Push(ok) \/ SaveManifest(ok)) => UNCHANGED failed
  BY DEF DropLine, Push, SaveManifest
<1>9. Crash \/ (\E op \in failed : RetryFailed(op) \/ RetryHalfWay(op)) => failed' \subseteq failed
  BY DEF Crash, RetryFailed, RetryHalfWay
<1> HIDE DEF journals, memory, Goto
<1>10. ASSUME NEW f \in failed' PROVE f \in failed \/ <<"unqueued", f.path>> \in excused'
  BY <1>1, <1>2, <1>3, <1>4, <1>5, <1>6, <1>7, <1>8, <1>9, Steps, HalfWaySteps
<1>11. failed' \subseteq OutboxOp /\ \A op \in OutboxOp : op.path \in Paths
  BY IInvKept DEF IInv, TypeOK, OutboxOp
<1>12. \A p \in Excused({"unqueued"}) : <<"unqueued", p>> \in excused'
  BY <1>1 DEF Excused
<1>13. ASSUME NEW p \in PathsOf(failed)' PROVE p \in Excused({"unqueued"})'
  <2>1. PICK f \in failed' : p = f.path
    BY <1>13 DEF PathsOf
  <2>2. f \in failed => <<"unqueued", p>> \in excused'
    BY <1>12, <2>1 DEF FailedExcused, PathsOf
  <2>3. <<"unqueued", p>> \in excused' /\ p \in Paths
    BY <1>10, <1>11, <2>1, <2>2
  <2> QED
    BY <2>3 DEF Excused
<1> QED
  BY <1>13 DEF FailedExcused

(* Neither the user, nor the client, nor the plugin puts a file in a file. *)
LEMMA DiskTreeKept ==
  ASSUME IInv, Consistent(files), DiskTree, Next
  PROVE  DiskTree'
<1>1. /\ disk \in [Paths -> Known] /\ Under \subseteq Paths \X Paths
      /\ \A p \in Paths : <<p, p>> \notin Under
      /\ pc \in Applied => job.path \in Paths
  BY UnderIsStrictOrder DEF IInv, TypeOK, InHand, Line
<1>2. CASE UNCHANGED disk
  BY <1>2 DEF DiskTree, IsFile
<1>3. CASE \A q \in Paths : disk'[q] \in {disk[q], NoContent}
  BY <1>3 DEF DiskTree, IsFile
<1>4. ASSUME NEW p \in Paths, disk' = [disk EXCEPT ![p] = edits + 1], Edit(p) \/ SaveInObsidian(p)
      PROVE  DiskTree'
  <2>1. \A q \in Above(p) \cup Below(p) : disk[q] = NoContent
    BY <1>4 DEF Edit, SaveInObsidian
  <2>2. \A q \in Paths \ {p} : disk'[q] = disk[q]
    BY <1>1, <1>4
  <2>3. ASSUME NEW x \in Paths, NEW y \in Paths, IsFile(disk, x)', IsFile(disk, y)', <<x, y>> \in Under PROVE FALSE
    <3>1. CASE x = p
      BY <1>1, <2>1, <2>2, <2>3, <3>1 DEF Above, IsFile
    <3>2. CASE y = p
      BY <1>1, <2>1, <2>2, <2>3, <3>2 DEF Below, IsFile
    <3>3. CASE x # p /\ y # p
      BY <2>2, <2>3, <3>3 DEF DiskTree, IsFile
    <3> QED
      BY <3>1, <3>2, <3>3
  <2> QED
    BY <2>3 DEF DiskTree
<1>5. ASSUME pc = "write", FilesUnder(disk, job.path) = {},
             disk' = [q \in Paths |-> IF q = job.path THEN body ELSE IF q \in Above(job.path) THEN NoContent ELSE disk[q]]
      PROVE  DiskTree'
  <2> DEFINE p == job.path
  <2>1. p \in Paths /\ FilesUnder(disk, p) = {}
        /\ disk' = [q \in Paths |-> IF q = p THEN body ELSE IF q \in Above(p) THEN NoContent ELSE disk[q]]
    BY <1>1, <1>5 DEF Applied
  <2> HIDE DEF p
  <2>2. ASSUME NEW x \in Paths, NEW y \in Paths, IsFile(disk, x)', IsFile(disk, y)', <<x, y>> \in Under PROVE FALSE
    <3>1. CASE x = p
      BY <1>1, <2>1, <2>2, <3>1 DEF Above, IsFile
    <3>2. CASE y = p
      <4>1. x # p /\ x \in Below(p) /\ disk[x] # NoContent
        BY <1>1, <2>1, <2>2, <3>2 DEF Below, IsFile
      <4> QED
        BY <2>1, <4>1 DEF FilesUnder, IsFile
    <3>3. CASE x # p /\ y # p
      BY <2>1, <2>2, <3>3 DEF DiskTree, IsFile
    <3> QED
      BY <3>1, <3>2, <3>3
  <2> QED
    BY <2>2 DEF DiskTree
<1>6. CASE PluginPulls
  <2> DEFINE new == {q \in Paths : files[q].rev > saved}
  <2>1. disk' = [q \in Paths |-> IF q \in new THEN files[q].content
                                 ELSE IF \E u \in new : Related(q, u) THEN NoContent ELSE disk[q]]
    BY <1>6 DEF PluginPulls
  <2>2. new \subseteq Paths
    OBVIOUS
  <2> HIDE DEF new
  <2>3. ASSUME NEW x \in Paths, NEW y \in Paths, IsFile(disk, x)', IsFile(disk, y)', <<x, y>> \in Under PROVE FALSE
    <3>1. CASE x \in new /\ y \in new
      <4>1. files[x].content # NoContent /\ files[y].content # NoContent
        BY <2>1, <2>3, <3>1 DEF IsFile
      <4>2. files[x].live /\ files[y].live
        BY <4>1 DEF Consistent
      <4> QED
        BY <2>3, <4>2 DEF Consistent, Antichain
    <3>2. Related(x, y) /\ Related(y, x)
      BY <2>3 DEF Related
    <3>3. CASE x \in new /\ y \notin new
      BY <2>1, <2>3, <3>2, <3>3 DEF IsFile
    <3>4. CASE x \notin new /\ y \in new
      BY <2>1, <2>3, <3>2, <3>4 DEF IsFile
    <3>5. CASE x \notin new /\ y \notin new
      <4>1. disk[x] # NoContent /\ disk[y] # NoContent
        BY <2>1, <2>3, <3>5 DEF IsFile
      <4> QED
        BY <2>3, <4>1 DEF DiskTree, IsFile
    <3> QED
      BY <3>1, <3>3, <3>4, <3>5
  <2> QED
    BY <2>3 DEF DiskTree
<1>7. Write => UNCHANGED disk \/ DiskTree'
  BY <1>5 DEF Write
<1>8. ASSUME NEW renamed \in BOOLEAN, WriteHalfWay(renamed) PROVE DiskTree'
  <2>1. CASE renamed
    BY <1>5, <1>8, <2>1 DEF WriteHalfWay
  <2>2. CASE ~renamed
    BY <1>3, <1>8, <2>2 DEF WriteHalfWay
  <2> QED
    BY <2>1, <2>2
<1> QED
  BY <1>2, <1>3, <1>4, <1>6, <1>7, <1>8, VaultSteps

(* An unsent edit was there before, or is made now.                        *)
Saves(p) == disk'[p] = edits + 1 /\ edits < MaxEdits /\ (Edit(p) \/ SaveInObsidian(p))

(* A step leaves an edit unsent, or makes one.                             *)
LEMMA UnsentBefore ==
  ASSUME UInv, Next, NEW p \in Paths, Unsent(p)'
  PROVE  (Unsent(p) /\ disk'[p] = disk[p]) \/ Saves(p)
<1>1. IInv /\ Origins /\ Echo /\ sent \subseteq sent' /\ disk \in [Paths -> Known]
  BY VaultSteps DEF UInv, RInv, IInv, TypeOK
<1>2. disk'[p] \in 1 .. edits' /\ disk'[p] \notin sent'
  BY DEF Unsent
<1>3. disk'[p] # NoContent
  <2>1. edits' \in 0 .. MaxEdits /\ MaxEdits \in Nat
    BY <1>1, Bounds, IInvKept DEF IInv, Counted
  <2>2. 1 .. edits' \subseteq 1 .. MaxEdits
    BY <2>1
  <2> QED
    BY <1>2, <2>2, Numbered, NoContentIsNoContent
<1>4. disk[p] \in Written /\ body \in Written /\ files[p].content \in Written
  BY <1>1 DEF Origins
<1>5. CASE disk'[p] = disk[p]
  BY <1>1, <1>2, <1>4, <1>5, EditsBefore DEF Unsent
<1>6. disk'[p] # body
  BY <1>1, <1>2, <1>4, EditsBefore DEF Echo
<1>7. disk'[p] # files[p].content
  BY <1>1, <1>2, <1>4, EditsBefore DEF Echo
<1>8. ASSUME NEW q \in Paths, disk' = [disk EXCEPT ![q] = edits + 1], edits < MaxEdits, Edit(q) \/ SaveInObsidian(q)
      PROVE  disk'[p] = disk[p] \/ Saves(p)
  BY <1>1, <1>8 DEF Saves
<1>9. CASE disk'[p] \in {disk[p], NoContent, body, files[p].content}
  BY <1>3, <1>5, <1>6, <1>7, <1>9
<1> QED
  BY <1>1, <1>5, <1>8, <1>9, VaultSteps

(* A line leaves the outbox when it is struck, by this program or the other.*)
LEMMA LinesLeave ==
  ASSUME IInv, Next, NEW op \in ToSet(outbox), op \notin ToSet(outbox')
  PROVE  \/ Acknowledge /\ op = job
         \/ PluginPushes /\ op = Head(outbox)
<1> USE DEF journals, memory
<1>1. outbox \in Seq(OutboxOp) /\ saved \in Nat /\ cursor \in Nat
      /\ failed \subseteq OutboxOp
  BY DEF IInv, TypeOK
<1>3. ASSUME NEW m, NEW dirty, NEW bad, NEW rev \in Nat, ReconcilePaths(m, dirty, bad, rev)
      PROVE  ToSet(outbox) \subseteq ToSet(outbox')
  BY <1>3, LookQueues DEF IInv, Queued
<1>4. ASSUME NEW bad, ReconcileEvents(bad) \/ Rescan(bad) \/ \E line \in inbox : Inspect(line, bad)
      PROVE  \E m, dirty : ReconcilePaths(m, dirty, bad, cursor)
  BY <1>4 DEF ReconcileEvents, Rescan, Inspect
<1>5. Seed \/ Resumed => \E m, dirty : ReconcilePaths(m, dirty, {}, saved)
  BY DEF Seed, Resumed
<1>6. FirstRun \/ StartRebaselined \/ Resume => UNCHANGED outbox
  BY DEF FirstRun, StartRebaselined, Resume, Rebaseline
<1>7. ASSUME NEW q \in Paths, Edit(q) \/ Erase(q) PROVE UNCHANGED outbox
  BY <1>7 DEF Edit, Erase
<1>8. ASSUME NEW q \in Paths, SaveInObsidian(q) PROVE ToSet(outbox) \subseteq ToSet(outbox')
  <2>1. PutOp(q) \in OutboxOp
    BY DEF PutOp, OutboxOp
  <2> QED
    BY <1>1, <1>8, <2>1, Elements DEF SaveInObsidian
<1>9. \/ Started \/ LoseEvents \/ StartTick \/ Drain \/ SkipPut \/ Fetch \/ EndTick
      \/ Download \/ Write \/ Record \/ ApplyRemoteDelete \/ Advance \/ RewriteInbox \/ Suspend \/ TickFails
      \/ Crash \/ RemoteChange \/ ObsidianStarts \/ ObsidianExits \/ PluginPulls \/ Pause
      => UNCHANGED outbox
  BY DEF Started, LoseEvents, StartTick, Drain, SkipPut, Fetch, EndTick, Download, Write, Record,
         ApplyRemoteDelete, Advance, RewriteInbox, Suspend, TickFails, Crash, RemoteChange, ObsidianStarts,
         ObsidianExits, PluginPulls, Pause
<1>10. (\E line \in inbox : DropLine(line)) \/ (\E ok \in BOOLEAN : Push(ok) \/ SaveManifest(ok)) => UNCHANGED outbox
  BY DEF DropLine, Push, SaveManifest
<1>11. ASSUME NEW f \in failed, RetryFailed(f) \/ RetryHalfWay(f) PROVE ToSet(outbox) \subseteq ToSet(outbox')
  <2>1. outbox' = Append(outbox, f) /\ f \in OutboxOp
    BY <1>1, <1>11 DEF RetryFailed, RetryHalfWay
  <2> QED
    BY <1>1, <2>1, Elements
<1>14. HalfWay => UNCHANGED outbox \/ \E f \in failed : RetryHalfWay(f)
  BY HalfWaySteps
<1>12. Acknowledge => op = job
  BY <1>1, RemovesOne DEF Acknowledge
<1>13. ASSUME PluginPushes PROVE op = Head(outbox)
  <2>1. outbox # <<>> /\ outbox' = Tail(outbox)
    BY <1>13 DEF PluginPushes
  <2>2. ToSet(outbox) = {Head(outbox)} \cup ToSet(outbox')
    BY <1>1, <2>1, Elements
  <2> QED
    BY <2>2
<1> HIDE DEF journals, memory
<1> QED
  BY <1>1, <1>3, <1>4, <1>5, <1>6, <1>7, <1>8, <1>9, <1>10, <1>11, <1>12, <1>13, <1>14, Steps

(* How a put is struck.                                                    *)
Struck(p) ==
  \/ Acknowledge /\ job.op = "put" /\ job.path = p
  \/ /\ PluginPushes /\ UNCHANGED disk
     /\ disk[p] = NoContent \/ disk[p] \in sent'

(* Nothing else takes a put out of the outbox.                             *)
LEMMA PutsStay ==
  ASSUME IInv, Next, NEW p \in Paths, PutQueued(p)
  PROVE  PutQueued(p)' \/ Struck(p)
<1>1. PICK op \in ToSet(outbox) : op.op = "put" /\ op.path = p
  BY DEF PutQueued
<1>2. op \in ToSet(outbox') => PutQueued(p)'
  BY <1>1 DEF PutQueued
<1>3. Acknowledge /\ op = job => Struck(p)
  BY <1>1 DEF Struck
<1>4. ASSUME PluginPushes, op = Head(outbox) PROVE Struck(p)
  <2>1. UNCHANGED disk /\ (~IsFile(disk, p) \/ Requested(op, TRUE))
    BY <1>1, <1>4 DEF PluginPushes
  <2> QED
    BY <1>1, <1>4, <2>1 DEF Struck, Requested, Refused, IsFile
<1> QED
  BY <1>2, <1>3, <1>4, LinesLeave

(* The same for an unsent edit: its put stays, or Acked speaks of it.      *)
LEMMA UnsentPutStays ==
  ASSUME UInv, Next, NEW p \in Paths, Owed(p), Unsent(p), Unsent(p)', PutQueued(p)
  PROVE  \/ PutQueued(p)'
         \/ /\ UNCHANGED <<disk, tracker, manifest>>
            /\ tracker[p].hash # disk[p]
            /\ manifest # NoManifest => manifest.files[p].hash # disk[p]
<1>1. IInv /\ Acked
  BY DEF UInv, RInv
<1>2. CASE Acknowledge /\ job.op = "put" /\ job.path = p
  BY <1>1, <1>2 DEF Acknowledge, Acked, journals, memory
<1>3. CASE UNCHANGED disk /\ (disk[p] = NoContent \/ disk[p] \in sent')
  <2>1. disk[p] # NoContent
    <3>1. edits \in 0 .. MaxEdits /\ MaxEdits \in Nat /\ disk[p] \in 1 .. edits
      BY <1>1, Bounds DEF IInv, Counted, Unsent
    <3>2. disk[p] \in 1 .. MaxEdits
      BY <3>1
    <3> QED
      BY <3>2, Numbered, NoContentIsNoContent
  <2> QED
    BY <1>3, <2>1 DEF Unsent
<1> QED
  BY <1>1, <1>2, <1>3, PutsStay DEF Struck

(* An unsent edit is a file, and neither the server's nor in hand.         *)
LEMMA UnsentIsLocal ==
  ASSUME UInv, NEW p \in Paths, Unsent(p)
  PROVE  IsFile(disk, p) /\ ~Foreign(disk[p]) /\ files[p].content # disk[p] /\ body # disk[p]
<1>1. edits \in 0 .. MaxEdits /\ remotes \in Nat /\ MaxEdits \in Nat /\ disk[p] \in 1 .. edits
  BY Bounds DEF UInv, RInv, IInv, Counted, Unsent
<1>2. disk[p] \in 1 .. MaxEdits /\ disk[p] \notin -remotes .. -1
  BY <1>1
<1> QED
  BY <1>2, Numbered, NoContentIsNoContent DEF IsFile, Foreign, UInv, Echo, Unsent

(* A look queues what it finds changed.                                    *)
LEMMA LookFinds ==
  ASSUME UInv, NEW p \in Paths, Unsent(p), UNCHANGED disk, NEW m \in [Paths -> Entry], m[p].hash # disk[p],
         NEW dirty, NEW bad, NEW rev \in Nat, ReconcilePaths(m, dirty, bad, rev)
  PROVE  PutQueued(p)' \/ tracker'[p].hash # disk[p]
<1>1. disk[p] # NoContent
  BY UnsentIsLocal DEF IsFile
<1>2. disk \in [Paths -> Known] /\ TypeOK
  BY DEF UInv, RInv, IInv, TypeOK
<1>3. tracker' = Reconciled(m, dirty, bad)
  BY DEF ReconcilePaths
<1>4. CASE p \in Present(dirty) \ bad
  <2>1. Forget(m, Gone(m, dirty))[p].hash # disk[p]
    BY <1>1, <1>2, Hashes
  <2>2. p \in Fresh(m, dirty) \ bad
    BY <1>4, <2>1 DEF Fresh
  <2>3. PutOp(p) \in ToSet(outbox')
    BY <1>2, <2>2, LookQueues DEF Queued
  <2> QED
    BY <2>3 DEF PutQueued, PutOp
<1>5. CASE p \notin Present(dirty) \ bad
  <2>1. tracker'[p].hash \in {NoContent, m[p].hash}
    BY <1>2, <1>3, <1>5, ReconciledHash
  <2> QED
    BY <1>1, <2>1
<1> QED
  BY <1>4, <1>5

(* A new baseline adopts an unsent edit, and excuses it, unless it is known. *)
LEMMA AdoptExcuses ==
  ASSUME UInv, Next, NEW p \in Paths, Unsent(p), Owed(p)', NEW known, Adopts(known)
  PROVE  known[p].hash = disk[p]
<1>1. files[p].content # disk[p] /\ ~Foreign(disk[p])
  BY UnsentIsLocal
<1>2. <<"adopted", p>> \notin excused'
  BY DEF Owed, Excused
<1>3. p \notin {q \in Paths : /\ disk[q] # files[q].content /\ ~Foreign(disk[q])
                              /\ disk[q] # known[q].hash \/ files[q].rev <= saved}
  BY <1>2 DEF Adopts, AdoptFrom
<1> QED
  BY <1>1, <1>3

(* No step makes the tracker say that an unsent edit is known, unless its  *)
(* put is queued.                                                          *)
LEMMA TrackerTells ==
  ASSUME UInv, Next, NEW p \in Paths, Owed(p)', Unsent(p), Unsent(p)', disk'[p] = disk[p], tracker[p].hash # disk[p]
  PROVE  PutQueued(p)' \/ tracker'[p].hash # disk[p]
<1>1. /\ tracker \in [Paths -> Entry] /\ disk \in [Paths -> Known] /\ body \in Known /\ TypeOK
      /\ NoEntries \in [Paths -> Entry] /\ saved \in Nat
      /\ manifest # NoManifest => manifest.files \in [Paths -> Entry]
  BY Manifests DEF UInv, RInv, IInv, TypeOK
<1>2. disk[p] # NoContent /\ files[p].content # disk[p] /\ body # disk[p] /\ NoEntries[p].hash = NoContent
  BY <1>1, UnsentIsLocal, Hashes DEF IsFile
<1>3. Owed(p)
  BY ExcusedGrows
<1>4. manifest # NoManifest => PutQueued(p) \/ manifest.files[p].hash # disk[p]
  BY <1>3 DEF UInv, Safe
<1>5. ASSUME NEW m \in {tracker, Touched(tracker, disk)}, Looked(m) PROVE PutQueued(p)' \/ tracker'[p].hash # disk[p]
  <2>1. m \in [Paths -> Entry] /\ m[p].hash = tracker[p].hash
    BY <1>1, Manifests, Hashes
  <2> QED
    BY <1>5, <2>1, LookFinds DEF Looked, Still
<1>6. Looked(NoEntries) => PutQueued(p)' \/ tracker'[p].hash # disk[p]
  BY <1>1, <1>2, LookFinds DEF Looked, Still
<1>7. CASE Resumed /\ Still
  <2> DEFINE known == Touched(manifest.files, disk)
             changed == Changed(manifest.files, disk)
             missing == Missing(manifest.files, disk)
             same == {q \in changed : disk[q] = files[q].content}
             forgotten == {q \in missing : ~files[q].live}
             dirty == (changed \ same) \cup (missing \ forgotten)
             checked == [q \in Paths |-> IF q \in same THEN EntryOf(disk[q]) ELSE Forget(known, forgotten)[q]]
  <2>1. manifest # NoManifest /\ ReconcilePaths(checked, dirty, {}, saved)
    BY <1>7 DEF Resumed
  <2>2. p \notin same
    BY <1>2
  <2>3. checked[p] = Forget(known, forgotten)[p]
    BY <2>2
  <2>4. known \in [Paths -> Entry] /\ known[p].hash = manifest.files[p].hash
    BY <1>1, <2>1, Manifests, Hashes
  <2>5. checked[p].hash \in {NoContent, manifest.files[p].hash}
    BY <1>1, <2>3, <2>4, Hashes
  <2> HIDE DEF known, changed, missing, same, forgotten, dirty
  <2>6. checked \in [Paths -> Entry]
    BY <1>1, <2>4, CheckedManifest
  <2> HIDE DEF checked
  <2>7. CASE PutQueued(p)
    <3>1. ToSet(outbox) \subseteq ToSet(outbox')
      BY <1>1, <2>1, LookQueues DEF Queued
    <3> QED
      BY <2>7, <3>1 DEF PutQueued
  <2>8. CASE manifest.files[p].hash # disk[p]
    <3>1. checked[p].hash # disk[p]
      BY <1>2, <2>5, <2>8
    <3> QED
      BY <1>1, <1>7, <2>1, <2>6, <3>1, LookFinds DEF Still
  <2> QED
    BY <1>4, <2>1, <2>7, <2>8
<1>8. ~Adopts(NoEntries) /\ ~Adopts(tracker)
  BY <1>2, AdoptExcuses
<1>9. CASE manifest # NoManifest /\ Adopts(manifest.files)
  <2>1. PutQueued(p) /\ outbox' = outbox
    BY <1>4, <1>9, AdoptExcuses DEF Adopts, Rebaseline
  <2> QED
    BY <2>1 DEF PutQueued
<1>10. ASSUME NEW op \in failed, RetryFailed(op) PROVE tracker'[p].hash # disk[p]
  <2>1. p # op.path
    BY <1>3 DEF UInv, FailedExcused, PathsOf, Owed, Excused
  <2> QED
    BY <1>1, <1>10, <2>1 DEF RetryFailed
<1>11. CASE Write \/ ApplyRemoteDelete
  <2>1. tracker' = tracker \/ \E s : tracker' = Forget(tracker, s)
    BY <1>11 DEF Write, ApplyRemoteDelete
  <2> QED
    BY <1>1, <1>2, <2>1, Hashes
<1>12. CASE Record
  <2>1. tracker'[p] = tracker[p] \/ tracker'[p].hash = body
    BY <1>1, <1>12 DEF Record
  <2> QED
    BY <1>2, <2>1
<1>13. Crash => tracker'[p].hash # disk[p]
  BY <1>2 DEF Crash
<1>14. IInv
  BY DEF UInv, RInv
<1> QED
  BY <1>5, <1>6, <1>7, <1>8, <1>9, <1>10, <1>11, <1>12, <1>13, <1>14, TrackerSteps

(* A new edit is in no manifest.                                           *)
LEMMA SavesTell ==
  ASSUME UInv, NEW p \in Paths, Saves(p)
  PROVE  /\ UNCHANGED <<tracker, manifest>>
         /\ tracker[p].hash # disk'[p]
         /\ manifest # NoManifest => manifest.files[p].hash # disk'[p]
<1>1. tracker' = tracker /\ manifest' = manifest
  BY DEF Saves, Edit, SaveInObsidian, journals
<1> QED
  BY <1>1, NotYet DEF Saves, UInv, RInv, Entries

(* The tracker stays safe.                                                 *)
LEMMA TrackerSafe ==
  ASSUME UInv, Next
  PROVE  Safe(tracker)'
<1>1. ASSUME NEW p \in Paths, Owed(p)', Unsent(p)' PROVE PutQueued(p)' \/ tracker'[p].hash # disk'[p]
  <2>1. CASE Saves(p)
    BY <2>1, SavesTell
  <2>2. CASE Unsent(p) /\ disk'[p] = disk[p]
    <3>1. Owed(p)
      BY <1>1, ExcusedGrows
    <3>2. CASE PutQueued(p)
      BY <1>1, <2>2, <3>1, <3>2, UnsentPutStays
    <3>3. CASE tracker[p].hash # disk[p]
      BY <1>1, <2>2, <3>3, TrackerTells
    <3> QED
      BY <2>2, <3>1, <3>2, <3>3 DEF UInv, Safe
  <2> QED
    BY <1>1, <2>1, <2>2, UnsentBefore
<1> QED
  BY <1>1 DEF Safe

(* The manifest stays safe: it is saved from the tracker.                  *)
LEMMA ManifestSafe ==
  ASSUME UInv, Next, manifest' # NoManifest
  PROVE  Safe(manifest.files)'
<1>1. ASSUME NEW p \in Paths, Owed(p)', Unsent(p)' PROVE PutQueued(p)' \/ manifest'.files[p].hash # disk'[p]
  <2>1. Owed(p)
    BY <1>1, ExcusedGrows
  <2>2. CASE UNCHANGED manifest
    <3>1. CASE Saves(p)
      BY <2>2, <3>1, SavesTell
    <3>2. CASE Unsent(p) /\ disk'[p] = disk[p]
      BY <1>1, <2>1, <2>2, <3>2, UnsentPutStays DEF UInv, Safe
    <3> QED
      BY <1>1, <3>1, <3>2, UnsentBefore
  <2>3. ASSUME NEW r, manifest' = [rev |-> r, files |-> tracker],
               UNCHANGED <<disk, outbox, tracker, sent, excused, edits, remotes>>
        PROVE  PutQueued(p)' \/ manifest'.files[p].hash # disk'[p]
    <3>1. manifest'.files = tracker'
      BY <2>3
    <3> QED
      BY <1>1, <3>1, TrackerSafe DEF Safe
  <2>4. ASSUME NEW r, manifest' = [rev |-> r, files |-> tracker']
        PROVE  PutQueued(p)' \/ manifest'.files[p].hash # disk'[p]
    <3>1. manifest'.files = tracker'
      BY <2>4
    <3> QED
      BY <1>1, <3>1, TrackerSafe DEF Safe
  <2> QED
    BY <2>2, <2>3, <2>4, ManifestSteps
<1> QED
  BY <1>1 DEF Safe

(* What is known of the put under way is known until it is struck.         *)
LEMMA AckSteps ==
  ASSUME Next, pc' = "ack"
  PROVE  \/ Push(TRUE) \/ SkipPut \/ SkipUnseen
         \/ UNCHANGED <<pc, job, tracker, manifest>>
<1> USE DEF serverVars, journals, memory, tickVars, Goto
<1>1. ASSUME NEW p \in Paths, Edit(p) \/ Erase(p) PROVE UNCHANGED <<pc, job, tracker, manifest>>
  BY <1>1 DEF Edit, Erase
<1>2. \/ LoseEvents \/ RemoteChange \/ ObsidianStarts \/ ObsidianExits
      => UNCHANGED <<pc, job, tracker, manifest>>
  BY DEF LoseEvents, RemoteChange, ObsidianStarts, ObsidianExits
<1>3. ASSUME NEW bad, ReconcileEvents(bad) \/ Rescan(bad) \/ \E line \in inbox : Inspect(line, bad) PROVE FALSE
  BY <1>3 DEF ReconcileEvents, Rescan, Inspect
<1>4. ~(Seed \/ FirstRun \/ StartRebaselined \/ Resumed \/ Started)
  BY DEF Seed, FirstRun, StartRebaselined, Resumed, Started
<1>5. ~(\/ StartTick \/ Drain \/ Acknowledge \/ EndTick \/ Suspend \/ TickFails \/ Crash \/ Pause \/ Resume
        \/ Fetch \/ Download \/ Write \/ Record \/ ApplyRemoteDelete \/ Advance \/ RewriteInbox)
  BY DEF StartTick, Drain, Acknowledge, EndTick, Suspend, TickFails, Crash, Pause, Resume,
         Fetch, Download, Write, Record, ApplyRemoteDelete, Advance, RewriteInbox
<1>6. ASSUME NEW p \in Paths, SaveInObsidian(p) PROVE FALSE
  BY <1>6 DEF SaveInObsidian, PluginAwake
<1>7. ~(PluginPushes \/ PluginPulls)
  BY DEF PluginPushes, PluginPulls, PluginAwake
<1>8. ~(\/ \E op \in failed : RetryFailed(op)
        \/ \E line \in inbox : DropLine(line)
        \/ \E ok \in BOOLEAN : SaveManifest(ok)) /\ ~Push(FALSE)
  BY DEF RetryFailed, DropLine, SaveManifest, Push
<1> HIDE DEF serverVars, journals, memory, tickVars, Goto
<1>9. HalfWay => SkipUnseen
  BY HalfWaySteps
<1> QED
  BY <1>1, <1>2, <1>3, <1>4, <1>5, <1>6, <1>7, <1>8, <1>9, Steps

(* A put is sent, skipped, or waits for its line to be struck.             *)
LEMMA AckedKept ==
  ASSUME UInv, Next
  PROVE  Acked'
<1>1. ASSUME pc' = "ack", job'.op = "put", NEW p \in Paths, p = job'.path, Owed(p)', Unsent(p)'
      PROVE  /\ tracker'[p].hash # disk'[p]
             /\ manifest' # NoManifest => manifest'.files[p].hash # disk'[p]
  <2>1. CASE Push(TRUE)
    BY <1>1, <2>1 DEF Push, Sends, Requested, Refused, Unsent
  <2>3. CASE SkipPut
    <3>1. Unsent(p) /\ ~IsFile(disk, p)
      BY <1>1, <2>3 DEF SkipPut, history, counters, Unsent
    <3> QED
      BY <3>1, UnsentIsLocal
  <2>4. CASE SkipUnseen
    <3>1. <<"unqueued", p>> \in excused'
      BY <1>1, <2>4 DEF SkipUnseen
    <3> QED
      BY <1>1, <3>1 DEF Owed, Excused
  <2>2. CASE UNCHANGED <<pc, job, tracker, manifest>>
    <3>1. CASE Saves(p)
      BY <2>2, <3>1, SavesTell
    <3>2. CASE Unsent(p) /\ disk'[p] = disk[p]
      <4>1. Owed(p)
        BY <1>1, ExcusedGrows
      <4> QED
        BY <1>1, <2>2, <3>2, <4>1 DEF UInv, Acked
    <3> QED
      BY <1>1, <3>1, <3>2, UnsentBefore
  <2> QED
    BY <1>1, <2>1, <2>2, <2>3, <2>4, AckSteps
<1> QED
  BY <1>1 DEF Acked

(* A line is taken only where every change is queued.                      *)
LEMMA TakingSpares ==
  ASSUME UInv, Next, NEW line \in inbox, NEW bad, Inspect(line, bad), pc' = "take",
         NEW p \in Paths, Owed(p)', Related(line.path, p)
  PROVE  ~Unsent(p)
<1> SUFFICES ASSUME Unsent(p) PROVE FALSE
  OBVIOUS
<1> DEFINE q == line.path
           dirty == Unobserved(q)
<1>1. TypeOK /\ tracker \in [Paths -> Entry] /\ disk \in [Paths -> Known] /\ q \in Paths
  BY DEF UInv, RInv, IInv, TypeOK, Line
<1>2. Owed(p) /\ p \in Watched
  BY ExcusedGrows DEF Owed
<1>3. IsFile(disk, p)
  BY UnsentIsLocal
<1>4. Related(p, q)
  BY DEF Related
<1>5. ~PutQueued(p)
  BY <1>4 DEF Inspect, Deferred, Pending, Outgoing, OutboxPaths, PathsOf, PutQueued
<1>6. tracker[p].hash # disk[p]
  BY <1>2, <1>5 DEF UInv, Safe
<1>7. p \in {q} \cup Above(q) \/ (IsFolder(disk, q) /\ p \in Below(q))
  <2>1. CASE <<p, q>> \in Under
    <3>1. ~IsFile(disk, q)
      BY <1>1, <1>3, <2>1 DEF UInv, DiskTree
    <3> QED
      BY <1>3, <2>1, <3>1 DEF Below, IsFolder, FilesUnder
  <2>2. CASE p = q \/ <<q, p>> \in Under
    BY <2>2 DEF Above
  <2> QED
    BY <1>4, <2>1, <2>2 DEF Related
<1>8. p \in dirty
  BY <1>2, <1>3, <1>6, <1>7 DEF Unobserved, MatchesDisk
<1> HIDE DEF dirty, q
<1>9. p \in Present(dirty)
  BY <1>2, <1>3, <1>8 DEF Present
<1>10. Forget(tracker, Gone(tracker, dirty))[p].hash # disk[p]
  BY <1>1, <1>3, <1>6, Hashes DEF IsFile
<1>11. p \in Found(tracker, dirty)
  BY <1>9, <1>10 DEF Found, Fresh
<1>12. ReconcilePaths(tracker, dirty, bad, cursor) /\ Found(tracker, dirty) \ bad = {}
  BY DEF Inspect, Goto, dirty, q
<1>13. p \in bad
  BY <1>11, <1>12
<1>14. excused' = excused \cup {"unqueued"} \X bad
  BY <1>12 DEF ReconcilePaths, EnqueueDurable
<1>15. <<"unqueued", p>> \in excused'
  BY <1>13, <1>14
<1> QED
  BY <1>15 DEF Owed, Excused

(* Nothing unsent appears where a line is being applied.                   *)
LEMMA SparedKept ==
  ASSUME Quiet, UInv, Next
  PROVE  Spared'
<1>1. ASSUME pc' \in {"take", "write"}, NEW p \in Paths, Owed(p)', Related(job'.path, p), Unsent(p)' PROVE FALSE
  <2>1. Owed(p)
    BY <1>1, ExcusedGrows
  <2>2. IInv /\ Inward'
    BY <1>1 DEF UInv, RInv, Inward, Applied
  <2>3. ASSUME pc \in {"take", "write"}, job' = job PROVE Saves(p)
    BY <1>1, <2>1, <2>3, UnsentBefore DEF UInv, Spared
  <2>4. ~Fetch
    BY <1>1 DEF Fetch
  <2>5. ASSUME NEW line \in inbox, Takes(line), NEW bad, Inspect(line, bad) PROVE FALSE
    <3>1. job' = line /\ pc' = "take" /\ UNCHANGED <<disk, sent, edits>>
      BY <2>5 DEF Takes, Inspect
    <3>2. Unsent(p)
      BY <1>1, <3>1 DEF Unsent
    <3> QED
      BY <1>1, <2>5, <3>1, <3>2, TakingSpares
  <2>6. CASE Reading
    <3>1. pc = "take" /\ pc' = "write" /\ job' = job
      BY <1>1, <2>6, ReadingSteps
    <3>2. Saves(p)
      BY <2>3, <3>1
    <3> QED
      BY <3>1, <3>2 DEF Saves, Edit, SaveInObsidian, tickVars
  <2>7. CASE UNCHANGED <<pc, job, body, inbox, cursor, saved>>
    <3>1. Saves(p)
      BY <1>1, <2>3, <2>7
    <3> QED
      BY <1>1, <2>7, <3>1 DEF Saves, Edit, Undisturbed, SaveInObsidian, PluginAwake
  <2> QED
    BY <2>2, <2>4, <2>5, <2>6, <2>7, InwardSteps
<1> QED
  BY <1>1 DEF Spared

(* UInv holds at the start.                                                *)
LEMMA UInvInitially == Init => UInv
<1> SUFFICES ASSUME Init PROVE UInv
  OBVIOUS
<1>1. RInv
  BY RInvInitially
<1>2. edits = 0 /\ manifest = NoManifest /\ pc = "down" /\ failed = {} /\ body = NoContent
      /\ \A p \in Paths : tracker[p].hash = NoContent
  BY DEF Init, NoEntry
<1>3. 1 .. edits = {}
  BY <1>2
<1>4. Entries /\ Echo /\ Safe(tracker)
  BY <1>2, <1>3 DEF Entries, Written, Echo, Safe, Unsent
<1>5. FailedExcused /\ Acked /\ Spared
  BY <1>2 DEF FailedExcused, PathsOf, Acked, Spared
<1>6. DiskTree
  <2>1. PICK s \in {{}} \cup {{p} : p \in Paths} : disk = [p \in Paths |-> IF p \in s THEN -1 ELSE NoContent]
    BY DEF Init
  <2>2. \A p, q \in Paths : p \in s /\ q \in s => p = q
    BY <2>1
  <2> QED
    BY <2>1, <2>2, UnderIsStrictOrder DEF DiskTree, IsFile
<1> QED
  BY <1>1, <1>2, <1>4, <1>5, <1>6 DEF UInv

(* Without an edit between look and write, every step keeps UInv.          *)
LEMMA UInvKept == Quiet /\ UInv /\ [Next]_vars => UInv'
<1>1. CASE Quiet /\ UInv /\ Next
  <2>1. RInv'
    BY <1>1, RInvKept DEF UInv
  <2>2. Entries' /\ Echo' /\ DiskTree' /\ FailedExcused'
    BY <1>1, EntriesKept, EchoKept, DiskTreeKept, FailedExcusedKept DEF UInv, RInv
  <2>3. Safe(tracker)'
    BY <1>1, TrackerSafe
  <2>4. manifest' # NoManifest => Safe(manifest.files)'
    BY <1>1, ManifestSafe
  <2>5. Acked' /\ Spared'
    BY <1>1, AckedKept, SparedKept
  <2> QED
    BY <2>1, <2>2, <2>3, <2>4, <2>5 DEF UInv
<1>2. CASE UInv /\ UNCHANGED vars
  <2>1. RInv'
    BY <1>2, RInvKept DEF UInv
  <2> USE DEF vars, serverVars, journals, memory, tickVars, history, counters
  <2>2. Written' = Written /\ \A p \in Paths : Owed(p)' = Owed(p) /\ Unsent(p)' = Unsent(p) /\ PutQueued(p)' = PutQueued(p)
    BY <1>2 DEF Written, Owed, Excused, Unsent, PutQueued
  <2>3. Entries'
    BY <1>2, <2>2 DEF UInv, Entries
  <2>4. Echo' /\ DiskTree' /\ FailedExcused'
    BY <1>2 DEF UInv, Echo, DiskTree, IsFile, FailedExcused, PathsOf, Excused
  <2>5. Safe(tracker)' /\ (manifest' # NoManifest => Safe(manifest.files)')
    BY <1>2, <2>2 DEF UInv, Safe
  <2>6. Acked' /\ Spared'
    BY <1>2, <2>2 DEF UInv, Acked, Spared
  <2> QED
    BY <2>1, <2>3, <2>4, <2>5, <2>6 DEF UInv
<1> QED
  BY <1>1, <1>2

(* Between the look at a path and the write of it nobody edits it (Quiet): *)
(* then no inbound change takes an edit off the disk that the server has   *)
(* not had, whether the change came with an event or not, whatever fails,  *)
(* and however often the process dies or Obsidian is opened in between.    *)
(* Excused are edits that a new baseline took over, and changes whose      *)
(* append failed or whose put was struck since the look at the file failed.*)
THEOREM UnsentEditKeptHolds == Quiet => (Spec => UnsentEditKept)
<1> SUFFICES ASSUME Quiet PROVE Spec => UnsentEditKept
  OBVIOUS
<1>1. ASSUME UInv, Applying, NEW p \in Watched \ Excused({"adopted", "unqueued"}),
             disk[p] \in 1 .. edits, disk'[p] # disk[p]
      PROVE  disk[p] \in sent
  <2>1. p \in Paths /\ Owed(p) /\ disk \in [Paths -> Known]
    BY <1>1, WatchedPaths DEF Owed, UInv, RInv, IInv, TypeOK
  <2>2. pc \in {"take", "write"}
    BY <1>1 DEF Applying, Write, ApplyRemoteDelete, WriteHalfWay, DeleteHalfWay
  <2>3. p \in {job.path} \cup Above(job.path) \cup Below(job.path)
    <3>1. Write \/ ApplyRemoteDelete \/ (\E renamed \in BOOLEAN : WriteHalfWay(renamed)) => p \in {job.path} \cup Above(job.path) \cup Below(job.path)
      BY <1>1, <2>1 DEF Write, ApplyRemoteDelete, WriteHalfWay
    <3>2. (\E gone \in SUBSET Paths : DeleteHalfWay(gone)) => p \in Below(job.path)
      BY <1>1, <2>1 DEF DeleteHalfWay, FilesUnder
    <3> QED
      BY <1>1, <3>1, <3>2 DEF Applying
  <2>4. Related(job.path, p)
    BY <2>3 DEF Related, Above, Below
  <2>5. ~Unsent(p)
    BY <1>1, <2>1, <2>2, <2>4 DEF UInv, Spared
  <2> QED
    BY <1>1, <2>5 DEF Unsent
<1>2. UInv /\ [Next]_vars =>
        [Applying => \A p \in Watched \ Excused({"adopted", "unqueued"}) :
           disk[p] \in 1 .. edits /\ disk'[p] # disk[p] => disk[p] \in sent]_vars
  BY <1>1
<1>3. UInv /\ [Next]_vars => UInv'
  BY UInvKept
<1> QED
  BY <1>2, <1>3, UInvInitially, PTL DEF Spec, UnsentEditKept

-----------------------------------------------------------------------------
(* Bytes that came from the server do not go back to it.  While they are   *)
(* on the disk, no put of their path is queued, and whoever looks knows    *)
(* them already: the tracker while the client works, the manifest when it  *)
(* starts with the cursor that the manifest was saved with.  With another  *)
(* cursor the start takes over what is on the disk.                        *)

Theirs(p) == p \notin Excused({"torn", "unqueued"}) /\ Foreign(disk[p])

NotOutgoing == \A p \in Paths : Theirs(p) => ~PutQueued(p)

Tracking ==
  pc \notin {"down", "paused"} =>
    \A p \in Watched : Theirs(p) => tracker[p].hash = disk[p] \/ (pc = "record" /\ p = job.path)

Placed == pc = "record" => \A p \in Paths : p = job.path /\ Foreign(disk[p]) => disk[p] = body

(* An entry whose size and time are of other bytes than its hash was made  *)
(* over a save by the user.                                                *)
Truthful(m) == \A p \in Paths : m[p].hash = m[p].seen \/ m[p].seen \in 1 .. edits

Behind == manifest # NoManifest => manifest.rev <= saved

Resumable ==
  pc = "down" /\ manifest # NoManifest /\ manifest.rev = saved =>
    \A p \in Watched : Theirs(p) => manifest.files[p].hash = disk[p]

(* Without a manifest nothing was applied yet, unless the cursor tells.    *)
Blank ==
  manifest = NoManifest =>
    /\ pc \in {"down", "started"}
    /\ saved = 0 \/ pc = "started" => \A p \in Paths : ~Foreign(disk[p])

Clear == pc \in {"take", "write"} => \A p \in Paths : p = job.path => ~PutQueued(p)

SInv ==
  /\ RInv /\ DiskTree /\ FailedExcused
  /\ NotOutgoing /\ Tracking /\ Placed
  /\ Truthful(tracker) /\ (manifest # NoManifest => Truthful(manifest.files))
  /\ Behind /\ Resumable /\ Blank /\ Clear

(* Bytes of another device come by a write of the tick or by the plugin.   *)
Lands(p) ==
  Write /\ pc' = "record" /\ UNCHANGED <<job, body>> /\ p = job.path /\ disk'[p] = body

(* Or by a write that fails when it is done.                               *)
Tears(p) == (\E renamed \in BOOLEAN : WriteHalfWay(renamed)) /\ p = job.path /\ <<"torn", p>> \in excused'

(* Other bytes of theirs than before come in no other way.                 *)
LEMMA ForeignSteps ==
  ASSUME SInv, Next, NEW p \in Paths, Foreign(disk[p])'
  PROVE  (Foreign(disk[p]) /\ disk'[p] = disk[p]) \/ Lands(p) \/ Tears(p) \/ PluginPulls
<1>1. IInv /\ Origins /\ disk \in [Paths -> Known] /\ disk[p] \in Written
  BY DEF SInv, RInv, IInv, TypeOK, Origins
<1>2. disk'[p] \in -remotes' .. -1
  BY DEF Foreign
<1>3. CASE disk'[p] = disk[p]
  BY <1>1, <1>2, <1>3, ForeignBefore
<1>4. disk'[p] # NoContent
  BY <1>1, <1>2, ForeignBefore, NoForeign DEF Written
<1>5. disk'[p] # edits + 1
  <2>1. edits \in Nat /\ remotes' \in Nat
    BY <1>1, Bounds, IInvKept DEF IInv, Counted
  <2> QED
    BY <1>2, <2>1
<1>7. ASSUME NEW q \in Paths, disk' = [disk EXCEPT ![q] = edits + 1] PROVE disk'[p] = disk[p]
  BY <1>1, <1>5, <1>7
<1>8. CASE disk'[p] \in {disk[p], NoContent}
  BY <1>3, <1>4, <1>8
<1>9. CASE Write
  <2>1. \/ UNCHANGED disk
        \/ /\ pc' = "record" /\ UNCHANGED <<job, body>>
           /\ disk' = [q \in Paths |-> IF q = job.path THEN body
                                       ELSE IF q \in Above(job.path) THEN NoContent ELSE disk[q]]
    BY <1>9 DEF Write
  <2> QED
    BY <1>3, <1>4, <1>9, <2>1 DEF Lands
<1>10. \/ UNCHANGED disk
       \/ \E q \in Paths : disk' = [disk EXCEPT ![q] = edits + 1]
       \/ disk'[p] \in {disk[p], NoContent}
       \/ Write \/ (\E renamed \in BOOLEAN : WriteHalfWay(renamed)) \/ PluginPulls
  BY <1>1, VaultSteps
<1>11. ASSUME NEW renamed \in BOOLEAN, WriteHalfWay(renamed), disk'[p] \notin {disk[p], NoContent} PROVE Tears(p)
  <2>1. /\ disk' = [q \in Paths |-> IF q = job.path /\ renamed THEN body
                                    ELSE IF q \in Above(job.path) THEN NoContent ELSE disk[q]]
        /\ excused' = excused \cup {"torn"} \X {q \in {job.path} : renamed /\ Foreign(body)}
        /\ UNCHANGED remotes
    BY <1>11 DEF WriteHalfWay, serverVars
  <2>2. p = job.path /\ renamed /\ disk'[p] = body
    BY <1>11, <2>1
  <2>3. Foreign(body)
    BY <2>1, <2>2 DEF Foreign
  <2> QED
    BY <1>11, <2>1, <2>2, <2>3 DEF Tears
<1> QED
  BY <1>3, <1>7, <1>8, <1>9, <1>10, <1>11

(* The same for those that no weakness excuses.                            *)
LEMMA TheirsSteps ==
  ASSUME SInv, Next, NEW p \in Paths, Theirs(p)'
  PROVE  (Theirs(p) /\ disk'[p] = disk[p]) \/ Lands(p) \/ PluginPulls
<1>1. Foreign(disk[p])' /\ p \notin Excused({"torn", "unqueued"})'
  BY DEF Theirs
<1>2. Excused({"torn", "unqueued"}) \subseteq Excused({"torn", "unqueued"})'
  BY ExcusedGrows DEF Excused
<1>3. ~Tears(p)
  BY <1>1 DEF Tears, Excused
<1> QED
  BY <1>1, <1>2, <1>3, ForeignSteps DEF Theirs

(* Where the main loop goes.                                               *)
LEMMA Stages ==
  ASSUME Next
  PROVE  /\ pc' = "down" => Crash \/ (pc = "down" /\ UNCHANGED manifest)
         /\ pc' = "started" => Seed \/ Resumed \/ pc = "started"
         /\ pc \in {"down", "paused"} /\ pc' \notin {"down", "paused"} =>
              Seed \/ FirstRun \/ StartRebaselined \/ Resumed \/ Resume
         /\ pc = "record" => Record \/ RecordFails \/ pc' = "down" \/ UNCHANGED <<pc, job, tracker>>
         /\ pc = "down" => FirstRun \/ StartRebaselined \/ pc' \in {"down", "started"}
         /\ pc = "started" => Started \/ pc' \in {"down", "started"}
<1> USE DEF serverVars, journals, memory, tickVars, Goto
<1>1. ASSUME NEW p \in Paths, Edit(p) \/ Erase(p) \/ SaveInObsidian(p) PROVE UNCHANGED <<pc, job, tracker, manifest>>
  BY <1>1 DEF Edit, Erase, SaveInObsidian
<1>2. LoseEvents \/ RemoteChange \/ ObsidianStarts \/ ObsidianExits \/ PluginPushes \/ PluginPulls
      => UNCHANGED <<pc, job, tracker, manifest>>
  BY DEF LoseEvents, RemoteChange, ObsidianStarts, ObsidianExits, PluginPushes, PluginPulls
<1>3. ASSUME NEW bad, ReconcileEvents(bad) \/ Rescan(bad) \/ \E line \in inbox : Inspect(line, bad)
      PROVE  pc \in {"idle", "apply"} /\ pc' \notin {"down", "started"}
  BY <1>3 DEF ReconcileEvents, Rescan, Inspect
<1>4. Seed \/ FirstRun \/ StartRebaselined \/ Resumed => pc = "down" /\ pc' \in {"started", "idle"}
  BY DEF Seed, FirstRun, StartRebaselined, Resumed, Starting
<1>5. /\ Seed \/ Resumed => pc' = "started"
      /\ FirstRun \/ StartRebaselined => pc' = "idle"
      /\ Started => pc = "started" /\ pc' = "idle"
  BY DEF Seed, Resumed, Started, FirstRun, StartRebaselined
<1>6. \/ StartTick \/ Drain \/ SkipPut \/ Acknowledge \/ EndTick \/ Suspend \/ TickFails \/ Pause
      \/ Fetch \/ Download \/ Write \/ ApplyRemoteDelete \/ Advance \/ RewriteInbox
      => pc \notin {"down", "paused", "started", "record"} /\ pc' \notin {"down", "started"}
  BY DEF StartTick, Drain, SkipPut, Acknowledge, EndTick, Suspend, TickFails, Pause,
         Fetch, Download, Write, ApplyRemoteDelete, Advance, RewriteInbox
<1>7. Record => pc = "record" /\ pc' = "advance"
  BY DEF Record
<1>8. Crash => pc' = "down" /\ pc \notin {"down", "paused"}
  BY DEF Crash, Live
<1>9. Resume => pc = "paused" /\ pc' = "idle"
  BY DEF Resume
<1>10. (\E op \in failed : RetryFailed(op)) \/ (\E line \in inbox : DropLine(line))
       \/ (\E ok \in BOOLEAN : Push(ok) \/ SaveManifest(ok))
      => pc \notin {"down", "paused", "started", "record"} /\ pc' \notin {"down", "started"}
  BY DEF RetryFailed, DropLine, SaveManifest, Push
<1> HIDE DEF serverVars, journals, memory, tickVars, Goto
<1>17. HalfWay => /\ pc \notin {"down", "paused", "started"} /\ pc' \notin {"down", "started"}
                  /\ pc = "record" => RecordFails
  BY HalfWaySteps
<1>11. pc' = "down" => Crash \/ (pc = "down" /\ UNCHANGED manifest)
  BY <1>1, <1>2, <1>3, <1>4, <1>5, <1>6, <1>7, <1>9, <1>10, <1>17, Steps
<1>12. pc' = "started" => Seed \/ Resumed \/ pc = "started"
  BY <1>1, <1>2, <1>3, <1>4, <1>5, <1>6, <1>7, <1>8, <1>9, <1>10, <1>17, Steps
<1>13. pc \in {"down", "paused"} /\ pc' \notin {"down", "paused"} =>
         Seed \/ FirstRun \/ StartRebaselined \/ Resumed \/ Resume
  BY <1>1, <1>2, <1>3, <1>5, <1>6, <1>7, <1>8, <1>10, <1>17, Steps
<1>14. pc = "record" => Record \/ RecordFails \/ pc' = "down" \/ UNCHANGED <<pc, job, tracker>>
  BY <1>1, <1>2, <1>3, <1>4, <1>5, <1>6, <1>8, <1>9, <1>10, <1>17, Steps
<1>15. pc = "down" => FirstRun \/ StartRebaselined \/ pc' \in {"down", "started"}
  BY <1>1, <1>2, <1>3, <1>5, <1>6, <1>7, <1>8, <1>9, <1>10, <1>17, Steps
<1>16. pc = "started" => Started \/ pc' \in {"down", "started"}
  BY <1>1, <1>2, <1>3, <1>4, <1>6, <1>7, <1>8, <1>9, <1>10, <1>17, Steps
<1> QED
  BY <1>11, <1>12, <1>13, <1>14, <1>15, <1>16

(* A look takes no file for gone, and calls fresh what its manifest does   *)
(* not know.                                                               *)
LEMMA FilesFound ==
  ASSUME DiskTree, disk \in [Paths -> Known], NEW m \in [Paths -> Entry], NEW p \in Paths, IsFile(disk, p), NEW dirty
  PROVE  /\ p \notin Gone(m, dirty)
         /\ p \in Fresh(m, dirty) => p \in Watched /\ m[p].hash # disk[p]
<1>1. ASSUME NEW d \in dirty, p \in TrackedUnder(m, d), p = d => ~IsFile(disk, d),
             p # d /\ IsFolder(disk, d) => Absent(disk, p)
      PROVE  FALSE
  <2>1. p # d /\ p \in Below(d)
    BY <1>1 DEF TrackedUnder
  <2>2. d \in Paths /\ <<p, d>> \in Under
    BY <2>1, UnderIsStrictOrder DEF Below
  <2>3. ~IsFile(disk, d)
    BY <2>2 DEF DiskTree
  <2>4. IsFolder(disk, d)
    BY <2>1, <2>3 DEF IsFolder, FilesUnder
  <2> QED
    BY <1>1, <2>1, <2>4 DEF Absent
<1>2. p \notin Gone(m, dirty)
  BY <1>1 DEF Gone
<1>3. ASSUME p \in Fresh(m, dirty) PROVE p \in Watched /\ m[p].hash # disk[p]
  <2>1. p \in Present(dirty) /\ Forget(m, Gone(m, dirty))[p].hash # disk[p]
    BY <1>3 DEF Fresh
  <2>2. Forget(m, Gone(m, dirty))[p].hash = m[p].hash
    BY <1>2, Hashes
  <2> QED
    BY <2>1, <2>2 DEF Present
<1> QED
  BY <1>2, <1>3

(* What the start compares the vault with knows a file as the manifest     *)
(* does, or as it is; and a path as the manifest does, or as the server.   *)
LEMMA Resuming ==
  ASSUME IInv, Resumed
  PROVE  /\ UNCHANGED disk /\ manifest # NoManifest /\ manifest.rev = saved
         /\ \E m \in [Paths -> Entry] :
              /\ \E dirty : ReconcilePaths(m, dirty, {}, saved)
              /\ \A p \in Watched : IsFile(disk, p) => m[p].hash \in {disk[p], manifest.files[p].hash}
              /\ Consistent(files) => \A p \in Paths : m[p].hash \in {files[p].content, manifest.files[p].hash}
<1> DEFINE known == Touched(manifest.files, disk)
           changed == Changed(manifest.files, disk)
           missing == Missing(manifest.files, disk)
           same == {q \in changed : disk[q] = files[q].content}
           forgotten == {q \in missing : ~files[q].live}
           dirty == (changed \ same) \cup (missing \ forgotten)
           checked == [q \in Paths |-> IF q \in same THEN EntryOf(disk[q]) ELSE Forget(known, forgotten)[q]]
<1>1. UNCHANGED disk /\ manifest # NoManifest /\ manifest.rev = saved /\ ReconcilePaths(checked, dirty, {}, saved)
  BY DEF Resumed, Starting
<1>2. disk \in [Paths -> Known] /\ manifest.files \in [Paths -> Entry]
  BY <1>1 DEF IInv, TypeOK
<1>3. known \in [Paths -> Entry]
  BY <1>2, Manifests
<1>4. \A p \in Paths : known[p].hash = manifest.files[p].hash
  BY <1>2, Hashes
<1>5. \A p \in Watched : IsFile(disk, p) => p \notin forgotten
  BY DEF Missing
<1>6. \A p \in Paths : checked[p] = IF p \in same THEN EntryOf(disk[p]) ELSE Forget(known, forgotten)[p]
  OBVIOUS
<1>7. (\A p \in same : disk[p] = files[p].content) /\ \A p \in forgotten : ~files[p].live
  OBVIOUS
<1> HIDE DEF known, changed, missing, same, forgotten, dirty
<1>8. checked \in [Paths -> Entry]
  BY <1>2, <1>3, CheckedManifest
<1> HIDE DEF checked
<1>9. ASSUME NEW p \in Watched, IsFile(disk, p) PROVE checked[p].hash \in {disk[p], manifest.files[p].hash}
  <2>1. p \in Paths
    BY WatchedPaths
  <2>2. Forget(known, forgotten)[p].hash = manifest.files[p].hash
    BY <1>2, <1>3, <1>5, <1>9, <1>4, <2>1, Hashes
  <2>3. EntryOf(disk[p]).hash = disk[p]
    BY DEF EntryOf
  <2> QED
    BY <1>6, <2>1, <2>2, <2>3
<1>10. ASSUME Consistent(files), NEW p \in Paths PROVE checked[p].hash \in {files[p].content, manifest.files[p].hash}
  <2>1. EntryOf(disk[p]).hash = disk[p] /\ (p \in same => disk[p] = files[p].content)
    BY <1>7 DEF EntryOf
  <2>2. p \in forgotten => files[p].content = NoContent
    BY <1>7, <1>10 DEF Consistent
  <2>3. Forget(known, forgotten)[p].hash = IF p \in forgotten THEN NoContent ELSE manifest.files[p].hash
    BY <1>2, <1>3, <1>4, Hashes
  <2> QED
    BY <1>6, <2>1, <2>2, <2>3
<1> QED
  BY <1>1, <1>8, <1>9, <1>10

(* How a put comes into the outbox: a look finds bytes that its manifest   *)
(* does not know, the plugin saves, or an append is tried again.           *)
Finds(p) ==
  /\ UNCHANGED disk /\ p \in Watched
  /\ \/ pc \in {"idle", "apply"} /\ tracker[p].hash # disk[p]
     \/ Seed
     \/ Resumed /\ manifest.files[p].hash # disk[p]

Queues(p) == Finds(p) \/ SaveInObsidian(p) \/ (pc = "retry" /\ p \in PathsOf(failed))

(* A put is new only where one of these found it.                          *)
LEMMA NewPuts ==
  ASSUME IInv, DiskTree, Next, NEW p \in Paths, PutQueued(p)'
  PROVE  PutQueued(p) \/ Queues(p)
<1> USE DEF journals, memory
<1>1. /\ outbox \in Seq(OutboxOp) /\ saved \in Nat /\ cursor \in Nat /\ failed \subseteq OutboxOp
      /\ disk \in [Paths -> Known] /\ tracker \in [Paths -> Entry] /\ NoEntries \in [Paths -> Entry]
  BY Manifests DEF IInv, TypeOK
<1>2. ASSUME ToSet(outbox') \subseteq ToSet(outbox) PROVE PutQueued(p)
  BY <1>2 DEF PutQueued
<1>3. ASSUME NEW m \in [Paths -> Entry], NEW dirty, NEW bad, NEW rev \in Nat, ReconcilePaths(m, dirty, bad, rev)
      PROVE  PutQueued(p) \/ (p \in Watched /\ IsFile(disk, p) /\ m[p].hash # disk[p])
  <2>1. PICK op \in ToSet(outbox') : op.op = "put" /\ op.path = p
    BY DEF PutQueued
  <2>2. Queued(Gone(m, dirty), Fresh(m, dirty), bad, rev)
    BY <1>3, LookQueues DEF IInv
  <2>3. \/ op \in ToSet(outbox)
        \/ \E q \in Gone(m, dirty) : op = DeleteOp(q, rev)
        \/ \E q \in Fresh(m, dirty) : op = PutOp(q)
    BY <2>2 DEF Queued
  <2>4. op \in ToSet(outbox) => PutQueued(p)
    BY <2>1 DEF PutQueued
  <2>5. \A q : DeleteOp(q, rev).op = "delete" /\ PutOp(q).path = q
    BY DEF DeleteOp, PutOp
  <2>6. op \in ToSet(outbox) \/ p \in Fresh(m, dirty)
    BY <2>1, <2>3, <2>5
  <2>7. p \in Fresh(m, dirty) => IsFile(disk, p)
    BY DEF Fresh, Present
  <2> QED
    BY <1>1, <2>4, <2>6, <2>7, FilesFound
<1>4. ASSUME NEW bad, ReconcileEvents(bad) \/ Rescan(bad) \/ \E line \in inbox : Inspect(line, bad)
      PROVE  PutQueued(p) \/ Finds(p)
  <2>1. UNCHANGED disk /\ pc \in {"idle", "apply"}
    BY <1>4 DEF ReconcileEvents, Rescan, Inspect
  <2>2. \E m \in {tracker, Touched(tracker, disk)} : \E dirty : ReconcilePaths(m, dirty, bad, cursor)
    BY <1>4 DEF ReconcileEvents, Rescan, Inspect
  <2>3. \A m \in {tracker, Touched(tracker, disk)} : m \in [Paths -> Entry] /\ m[p].hash = tracker[p].hash
    BY <1>1, Manifests, Hashes
  <2> QED
    BY <1>1, <1>3, <2>1, <2>2, <2>3 DEF Finds
<1>5. Seed => PutQueued(p) \/ Finds(p)
  <2>1. Seed => UNCHANGED disk /\ \E dirty : ReconcilePaths(NoEntries, dirty, {}, saved)
    BY DEF Seed, Starting
  <2> QED
    BY <1>1, <1>3, <2>1 DEF Finds
<1>6. Resumed => PutQueued(p) \/ Finds(p)
  <2> SUFFICES ASSUME Resumed, ~PutQueued(p) PROVE Finds(p)
    OBVIOUS
  <2>1. UNCHANGED disk
    BY Resuming
  <2>2. PICK m \in [Paths -> Entry] :
          /\ \E dirty : ReconcilePaths(m, dirty, {}, saved)
          /\ \A q \in Watched : IsFile(disk, q) => m[q].hash \in {disk[q], manifest.files[q].hash}
    BY Resuming
  <2>3. p \in Watched /\ IsFile(disk, p) /\ m[p].hash # disk[p]
    BY <1>1, <1>3, <2>2
  <2> QED
    BY <2>1, <2>2, <2>3 DEF Finds
<1>7. ASSUME NEW q \in Paths, SaveInObsidian(q) PROVE PutQueued(p) \/ SaveInObsidian(p)
  <2>1. PutOp(q) \in OutboxOp /\ PutOp(q).path = q
    BY DEF PutOp, OutboxOp
  <2>2. ToSet(outbox') = ToSet(outbox) \cup {PutOp(q)}
    BY <1>1, <1>7, <2>1, Elements DEF SaveInObsidian
  <2> QED
    BY <1>7, <2>1, <2>2 DEF PutQueued
<1>8. ASSUME NEW f \in failed, RetryFailed(f) \/ RetryHalfWay(f) PROVE PutQueued(p) \/ (pc = "retry" /\ p \in PathsOf(failed))
  <2>1. outbox' = Append(outbox, f) /\ pc = "retry" /\ f \in OutboxOp
    BY <1>1, <1>8 DEF RetryFailed, RetryHalfWay
  <2>2. ToSet(outbox') = ToSet(outbox) \cup {f}
    BY <1>1, <2>1, Elements
  <2> QED
    BY <1>8, <2>1, <2>2 DEF PutQueued, PathsOf
<1>14. HalfWay => UNCHANGED outbox \/ \E f \in failed : RetryHalfWay(f)
  BY HalfWaySteps
<1>9. ASSUME NEW q \in Paths, Edit(q) \/ Erase(q) PROVE UNCHANGED outbox
  BY <1>9 DEF Edit, Erase
<1>10. \/ FirstRun \/ StartRebaselined \/ Resume \/ Started \/ LoseEvents \/ StartTick \/ Drain \/ SkipPut
       \/ Fetch \/ EndTick \/ Download \/ Write \/ Record \/ ApplyRemoteDelete \/ Advance \/ RewriteInbox
       \/ Suspend \/ TickFails \/ Crash \/ RemoteChange \/ ObsidianStarts \/ ObsidianExits \/ PluginPulls
       \/ Pause
       => UNCHANGED outbox
  BY DEF FirstRun, StartRebaselined, Resume, Rebaseline, Started, LoseEvents, StartTick, Drain, SkipPut,
         Fetch, EndTick, Download, Write, Record, ApplyRemoteDelete, Advance, RewriteInbox, Suspend, TickFails,
         Crash, RemoteChange, ObsidianStarts, ObsidianExits, PluginPulls, Pause
<1>11. (\E line \in inbox : DropLine(line)) \/ (\E ok \in BOOLEAN : Push(ok) \/ SaveManifest(ok)) => UNCHANGED outbox
  BY DEF DropLine, Push, SaveManifest
<1>12. Acknowledge => ToSet(outbox') \subseteq ToSet(outbox)
  BY <1>1, RemovesOne DEF Acknowledge
<1>13. ASSUME PluginPushes PROVE ToSet(outbox') \subseteq ToSet(outbox)
  <2>1. outbox # <<>> /\ outbox' = Tail(outbox)
    BY <1>13 DEF PluginPushes
  <2>2. ToSet(outbox) = {Head(outbox)} \cup ToSet(outbox')
    BY <1>1, <2>1, Elements
  <2> QED
    BY <2>2
<1> HIDE DEF journals, memory
<1> QED
  BY <1>2, <1>4, <1>5, <1>6, <1>7, <1>8, <1>9, <1>10, <1>11, <1>12, <1>13, <1>14, Steps DEF Queues

(* The manifest's revision does not overtake the cursor of data.json.      *)
LEMMA BehindKept ==
  ASSUME SInv, Next
  PROVE  Behind' /\ saved <= saved'
<1>1. saved' \in Nat /\ saved <= saved' /\ saved \in Nat /\ cursor \in Nat /\ cursor <= saved
      /\ (manifest # NoManifest => manifest.rev \in Nat /\ manifest.rev <= saved)
  BY CursorsKept DEF SInv, RInv, IInv, TypeOK, Cursors, Behind
<1>2. CASE UNCHANGED manifest
  BY <1>1, <1>2 DEF Behind
<1>3. CASE manifest' = [rev |-> cursor, files |-> tracker]
  BY <1>1, <1>3 DEF Behind
<1>4. CASE manifest' = [rev |-> saved, files |-> tracker']
  BY <1>1, <1>4 DEF Behind
<1> QED
  BY <1>1, <1>2, <1>3, <1>4, ManifestSteps

(* Size and time go with other bytes only when the user saved just then.   *)
LEMMA TruthfulKept ==
  ASSUME SInv, Next
  PROVE  Truthful(tracker)' /\ (manifest' # NoManifest => Truthful(manifest.files)')
<1>1. IInv /\ Origins /\ 1 .. edits \subseteq 1 .. edits'
  <2>1. IInv /\ Origins /\ edits \in Nat /\ edits' \in {edits, edits + 1}
    BY WrittenGrows DEF SInv, RInv, IInv, Counted
  <2> QED
    BY <2>1
<1>2. ASSUME NEW p \in Paths PROVE tracker'[p].hash = tracker'[p].seen \/ tracker'[p].seen \in 1 .. edits'
  <2>1. CASE tracker'[p] = tracker[p]
    BY <1>1, <2>1 DEF SInv, Truthful
  <2>2. CASE tracker'[p] \in {NoEntry, EntryOf(disk[p])}
    BY <2>2 DEF NoEntry, EntryOf
  <2>3. CASE manifest # NoManifest /\ tracker'[p] = manifest.files[p]
    BY <1>1, <2>3 DEF SInv, Truthful
  <2>4. CASE Record /\ p = job.path /\ IsFile(disk, p) /\ tracker'[p] = [hash |-> body, seen |-> disk[p]]
    <3>1. Foreign(disk[p]) => disk[p] = body
      BY <2>4 DEF SInv, Placed, Record
    <3>2. disk[p] \in 1 .. edits \/ Foreign(disk[p])
      BY <1>1, <2>4 DEF Origins, Written, IsFile, Foreign
    <3> QED
      BY <1>1, <2>4, <3>1, <3>2
  <2> QED
    BY <1>1, <2>1, <2>2, <2>3, <2>4, EntrySteps DEF EntryFrom
<1>3. ASSUME manifest' # NoManifest, NEW p \in Paths
      PROVE  manifest'.files[p].hash = manifest'.files[p].seen \/ manifest'.files[p].seen \in 1 .. edits'
  <2>1. CASE UNCHANGED manifest
    BY <1>1, <1>3, <2>1 DEF SInv, Truthful
  <2>2. CASE \E r : manifest' = [rev |-> r, files |-> tracker'] \/ manifest' = [rev |-> r, files |-> tracker]
    BY <1>1, <1>2, <2>2 DEF SInv, Truthful
  <2> QED
    BY <2>1, <2>2, ManifestSteps
<1> QED
  BY <1>2, <1>3 DEF Truthful

(* What the tick wrote is there until it is recorded, or the user saves.   *)
LEMMA PlacedKept ==
  ASSUME SInv, Next
  PROVE  Placed'
<1>1. ASSUME pc' = "record", NEW p \in Paths, p = job'.path, Foreign(disk[p])' PROVE disk'[p] = body'
  <2>1. IInv /\ Inward'
    BY <1>1 DEF SInv, RInv, Inward, Applied
  <2>2. ~Fetch /\ ~PluginPulls /\ ~Tears(p)
    <3>1. PluginPulls => pc \in {"paused", "down"} /\ pc' = pc
      BY DEF PluginPulls, PluginAwake, tickVars
    <3>2. Tears(p) => pc' = "save"
      BY DEF Tears, WriteHalfWay, FailsHalfWay, Goto
    <3> QED
      BY <1>1, <3>1, <3>2 DEF Fetch
  <2>3. CASE Reading
    <3>1. pc = "write"
      BY <1>1, <2>3, ReadingSteps
    <3>2. Write
      BY <2>3, <3>1 DEF Reading, DropLine, Download, Record, ApplyRemoteDelete, Advance, RewriteInbox
    <3>3. UNCHANGED <<job, body>>
          /\ disk' = [q \in Paths |-> IF q = job.path THEN body
                                      ELSE IF q \in Above(job.path) THEN NoContent ELSE disk[q]]
      BY <1>1, <3>2 DEF Write, Goto
    <3> QED
      BY <1>1, <3>3
  <2>4. CASE UNCHANGED <<pc, job, body, inbox, cursor, saved>>
    <3>1. pc = "record" /\ p = job.path /\ body' = body
      BY <1>1, <2>4
    <3>2. Lands(p) => disk'[p] = body
      BY DEF Lands
    <3>3. Foreign(disk[p]) => disk[p] = body
      BY <3>1 DEF SInv, Placed
    <3> QED
      BY <1>1, <2>2, <3>1, <3>2, <3>3, ForeignSteps
  <2>5. ~\E line \in inbox : Takes(line)
    BY <1>1 DEF Takes
  <2> QED
    BY <2>1, <2>2, <2>3, <2>4, <2>5, InwardSteps
<1> QED
  BY <1>1 DEF Placed

(* A line is taken where no put waits, and while it is applied none comes. *)
LEMMA ClearKept ==
  ASSUME SInv, Next
  PROVE  Clear'
<1>1. ASSUME pc' \in {"take", "write"}, NEW p \in Paths, p = job'.path, PutQueued(p)' PROVE FALSE
  <2>1. IInv /\ Inward' /\ TypeOK /\ cursor \in Nat
    BY <1>1 DEF SInv, RInv, IInv, TypeOK, Inward, Applied
  <2>2. ~Fetch
    BY <1>1 DEF Fetch
  <2>3. pc \in {"take", "write"} /\ job' = job => ~PutQueued(p)
    BY <1>1 DEF SInv, Clear
  <2>4. ASSUME NEW line \in inbox, Takes(line), NEW bad, Inspect(line, bad) PROVE FALSE
    <3> DEFINE dirty == Unobserved(line.path)
    <3>1. line.path = p
      BY <1>1, <2>4 DEF Takes
    <3>2. ~PutQueued(p)
      BY <2>4, <3>1 DEF Inspect, Deferred, Pending, Outgoing, OutboxPaths, PathsOf, Related, PutQueued
    <3>3. ReconcilePaths(tracker, dirty, bad, cursor) /\ Found(tracker, dirty) \ bad = {}
      BY <1>1, <2>4 DEF Inspect, Goto
    <3> HIDE DEF dirty
    <3>4. Queued(Gone(tracker, dirty), Fresh(tracker, dirty), bad, cursor)
      BY <2>1, <3>3, LookQueues
    <3>5. \A op \in ToSet(outbox') : op \in ToSet(outbox)
      BY <3>3, <3>4 DEF Queued, Found
    <3> QED
      BY <1>1, <3>2, <3>5 DEF PutQueued
  <2>5. CASE Reading
    <3>1. pc = "take" /\ job' = job /\ UNCHANGED outbox
      BY <1>1, <2>5, ReadingSteps
    <3>2. PutQueued(p)
      BY <1>1, <3>1 DEF PutQueued
    <3> QED
      BY <2>3, <3>1, <3>2
  <2>6. CASE UNCHANGED <<pc, job, body, inbox, cursor, saved>>
    <3>1. pc \in {"take", "write"} /\ job' = job
      BY <1>1, <2>6
    <3>2. ~Queues(p)
      BY <3>1 DEF Queues, Finds, Seed, Resumed, Starting, SaveInObsidian, PluginAwake
    <3> QED
      BY <1>1, <2>1, <2>3, <3>1, <3>2, NewPuts DEF SInv
  <2> QED
    BY <2>1, <2>2, <2>4, <2>5, <2>6, InwardSteps
<1> QED
  BY <1>1 DEF Clear

(* A file with bytes of another device is a file, and is not excused.      *)
LEMMA TheirsAreFiles ==
  ASSUME SInv, NEW p \in Paths, Theirs(p)
  PROVE  /\ IsFile(disk, p) /\ disk[p] \notin 1 .. edits /\ disk[p] \in Written
         /\ p \notin Excused({"unqueued"}) /\ p \notin PathsOf(failed)
<1>1. IInv /\ FailedExcused /\ disk[p] \in -remotes .. -1 /\ disk[p] \in Written
  BY DEF SInv, RInv, Origins, Theirs, Foreign
<1>2. disk[p] \notin 1 .. edits
  <2>1. edits \in Nat /\ remotes \in Nat
    BY <1>1 DEF IInv, Counted
  <2> QED
    BY <1>1, <2>1
<1>3. IsFile(disk, p)
  BY <1>1, NoForeign DEF IsFile, Foreign
<1>4. p \notin Excused({"unqueued"})
  BY DEF Theirs, Excused
<1> QED
  BY <1>1, <1>2, <1>3, <1>4 DEF FailedExcused

(* Nothing queues a put of bytes of another device.                        *)
LEMMA NotOutgoingKept ==
  ASSUME SInv, Next
  PROVE  NotOutgoing'
<1>1. ASSUME NEW p \in Paths, Theirs(p)', PutQueued(p)' PROVE FALSE
  <2>1. IInv /\ DiskTree
    BY DEF SInv, RInv
  <2>2. PutQueued(p) \/ Queues(p)
    BY <1>1, <2>1, NewPuts
  <2>3. CASE Theirs(p) /\ disk'[p] = disk[p]
    <3>1. ~PutQueued(p)
      BY <2>3 DEF SInv, NotOutgoing
    <3>2. IsFile(disk, p) /\ disk[p] \in Written /\ p \notin PathsOf(failed) /\ Foreign(disk[p])
      BY <2>3, TheirsAreFiles DEF Theirs
    <3>3. ~SaveInObsidian(p)
      <4>1. SaveInObsidian(p) => disk'[p] = edits + 1 /\ edits < MaxEdits
        BY <2>1 DEF SaveInObsidian, IInv, TypeOK
      <4> QED
        BY <2>1, <2>3, <3>2, <4>1, NotYet
    <3>4. ~Seed
      BY <3>2 DEF Seed, SInv, Blank
    <3>5. pc \in {"idle", "apply"} /\ p \in Watched => tracker[p].hash = disk[p]
      BY <2>3 DEF SInv, Tracking
    <3>6. Resumed /\ p \in Watched => manifest.files[p].hash = disk[p]
      <4>1. Resumed => pc = "down"
        BY DEF Resumed, Starting
      <4> QED
        BY <2>1, <2>3, <4>1, Resuming DEF SInv, Resumable
    <3> QED
      BY <2>2, <3>1, <3>2, <3>3, <3>4, <3>5, <3>6 DEF Queues, Finds
  <2>4. CASE Lands(p)
    <3>1. pc = "write" /\ ~PutQueued(p)
      BY <2>4 DEF Lands, Write, SInv, Clear
    <3> QED
      BY <2>2, <3>1 DEF Queues, Finds, Seed, Resumed, Starting, SaveInObsidian, PluginAwake
  <2>5. CASE PluginPulls
    <3>1. outbox' = <<>>
      BY <2>5 DEF PluginPulls
    <3>2. ToSet(<<>>) = {}
      BY DEF ToSet
    <3> QED
      BY <1>1, <3>1, <3>2 DEF PutQueued
  <2> QED
    BY <1>1, <2>3, <2>4, <2>5, TheirsSteps
<1> QED
  BY <1>1 DEF NotOutgoing

(* A new baseline knows the bytes that are on the disk.                    *)
LEMMA BaselineKnows ==
  ASSUME SInv, NEW p \in Watched, Theirs(p), NEW known \in [Paths -> Entry], Truthful(known), Adopts(known)
  PROVE  tracker'[p].hash = disk[p]
<1>1. p \in Paths /\ disk \in [Paths -> Known]
  BY WatchedPaths DEF SInv, RInv, IInv, TypeOK
<1>2. IsFile(disk, p) /\ disk[p] \notin 1 .. edits
  BY <1>1, TheirsAreFiles
<1>3. tracker' = Rebaselined(known, disk)
  BY DEF Adopts, Rebaseline
<1>4. known[p].seen = disk[p] => known[p].hash = disk[p]
  BY <1>1, <1>2 DEF Truthful
<1> QED
  BY <1>1, <1>2, <1>3, <1>4, Hashes

(* A look keeps what its manifest knows.                                   *)
LEMMA LookKnows ==
  ASSUME SInv, NEW p \in Watched, Theirs(p), NEW m \in [Paths -> Entry], m[p].hash = disk[p],
         NEW dirty, NEW bad, NEW rev, ReconcilePaths(m, dirty, bad, rev)
  PROVE  tracker'[p].hash = disk[p]
<1>1. p \in Paths /\ disk \in [Paths -> Known] /\ DiskTree
  BY WatchedPaths DEF SInv, RInv, IInv, TypeOK
<1>2. p \notin Gone(m, dirty)
  BY <1>1, TheirsAreFiles, FilesFound
<1>3. tracker' = Reconciled(m, dirty, bad)
  BY DEF ReconcilePaths
<1> QED
  BY <1>1, <1>2, <1>3, ReconciledHash

(* While the client works, its tracker knows the bytes of other devices.   *)
LEMMA TrackingKept ==
  ASSUME SInv, Next
  PROVE  Tracking'
<1>1. /\ IInv /\ disk \in [Paths -> Known] /\ tracker \in [Paths -> Entry] /\ NoEntries \in [Paths -> Entry]
      /\ manifest # NoManifest => manifest.files \in [Paths -> Entry] /\ Truthful(manifest.files)
      /\ Truthful(tracker)
  BY Manifests DEF SInv, RInv, IInv, TypeOK
<1>2. Truthful(NoEntries)
  BY DEF Truthful, NoEntries, NoEntry
<1>3. ASSUME pc' \notin {"down", "paused"}, NEW p \in Watched, Theirs(p)'
      PROVE  tracker'[p].hash = disk'[p] \/ (pc' = "record" /\ p = job'.path)
  <2>1. p \in Paths
    BY WatchedPaths
  <2>2. Lands(p) => pc' = "record" /\ p = job'.path
    BY DEF Lands
  <2>3. ~PluginPulls
    <3>1. PluginPulls => pc \in {"paused", "down"} /\ pc' = pc
      BY DEF PluginPulls, PluginAwake, tickVars
    <3> QED
      BY <1>3, <3>1
  <2>4. CASE Theirs(p) /\ disk'[p] = disk[p]
    <3>1. IsFile(disk, p) /\ p \notin PathsOf(failed) /\ Foreign(disk[p])
      BY <2>1, <2>4, TheirsAreFiles DEF Theirs
    <3>2. Adopts(NoEntries) \/ Adopts(tracker) \/ (manifest # NoManifest /\ Adopts(manifest.files))
          => tracker'[p].hash = disk[p]
      BY <1>1, <1>2, <2>4, BaselineKnows
    <3>3. ~Seed
      BY <2>1, <3>1 DEF Seed, SInv, Blank
    <3>4. Resumed => tracker'[p].hash = disk[p]
      <4> SUFFICES ASSUME Resumed PROVE tracker'[p].hash = disk[p]
        OBVIOUS
      <4>1. PICK m \in [Paths -> Entry] :
              /\ \E dirty : ReconcilePaths(m, dirty, {}, saved)
              /\ \A q \in Watched : IsFile(disk, q) => m[q].hash \in {disk[q], manifest.files[q].hash}
        BY <1>1, Resuming
      <4>2. pc = "down" /\ manifest # NoManifest /\ manifest.rev = saved
        BY <1>1, Resuming DEF Resumed, Starting
      <4>3. manifest.files[p].hash = disk[p]
        BY <2>4, <4>2 DEF SInv, Resumable
      <4>4. m[p].hash = disk[p]
        BY <3>1, <4>1, <4>3
      <4> QED
        BY <2>4, <4>1, <4>4, LookKnows
    <3>5. CASE pc \in {"down", "paused"}
      <4>1. FirstRun => Adopts(NoEntries)
        BY DEF FirstRun, Starting, Adopts, Still, serverVars
      <4>2. StartRebaselined => manifest # NoManifest /\ Adopts(manifest.files)
        BY DEF StartRebaselined, Starting, Adopts, Still, serverVars
      <4>3. Resume => Adopts(tracker)
        BY DEF Resume, Adopts, Still, serverVars
      <4> QED
        BY <1>3, <2>4, <3>2, <3>3, <3>4, <3>5, <4>1, <4>2, <4>3, Stages
    <3>6. CASE pc = "record" /\ p = job.path
      <4>1. Record => tracker'[p].hash = disk[p]
        <5>1. disk[p] = body
          BY <2>1, <3>1, <3>6 DEF SInv, Placed
        <5>2. Record => tracker'[p] = [hash |-> body, seen |-> disk[p]]
          BY <1>1, <2>1, <3>1, <3>6 DEF Record
        <5> QED
          BY <5>1, <5>2
      <4>2. ASSUME RecordFails PROVE tracker'[p].hash = disk[p]
        <5>1. UNCHANGED tracker /\ excused' = excused \cup {"torn"} \X Torn(p)
          BY <3>6, <4>2 DEF RecordFails, memory
        <5>2. <<"torn", p>> \notin excused'
          BY <1>3, <2>1 DEF Theirs, Excused
        <5>3. tracker[p].hash # disk[p] => p \in Torn(p)
          BY <3>1 DEF Torn
        <5> QED
          BY <5>1, <5>2, <5>3
      <4> QED
        BY <1>3, <2>4, <3>6, <4>1, <4>2, Stages
    <3>7. CASE pc \notin {"down", "paused"} /\ ~(pc = "record" /\ p = job.path)
      <4>1. tracker[p].hash = disk[p]
        BY <2>4, <3>7 DEF SInv, Tracking
      <4>2. ASSUME NEW m \in {tracker, Touched(tracker, disk)}, Looked(m) PROVE tracker'[p].hash = disk[p]
        <5>1. m \in [Paths -> Entry] /\ m[p].hash = disk[p]
          BY <1>1, <2>1, <4>1, Manifests, Hashes
        <5> QED
          BY <2>4, <4>2, <5>1, LookKnows DEF Looked
      <4>3. ASSUME NEW op \in failed, RetryFailed(op) PROVE tracker'[p].hash = disk[p]
        <5>1. p # op.path
          BY <3>1 DEF PathsOf
        <5> QED
          BY <1>1, <2>1, <4>1, <4>3, <5>1 DEF RetryFailed
      <4>4. Write => tracker'[p].hash = disk[p]
        <5>1. disk'[p] # NoContent
          BY <2>4, <3>1 DEF IsFile
        <5>2. Write => \/ UNCHANGED tracker
                       \/ /\ tracker' = Forget(tracker, Above(job.path))
                          /\ disk' = [q \in Paths |-> IF q = job.path THEN body
                                                      ELSE IF q \in Above(job.path) THEN NoContent ELSE disk[q]]
          BY DEF Write
        <5>3. job.path \notin Above(job.path)
          BY UnderIsStrictOrder DEF Above
        <5>4. ASSUME p \notin Above(job.path) PROVE Forget(tracker, Above(job.path))[p].hash = tracker[p].hash
          BY <1>1, <2>1, <5>4, Hashes
        <5> QED
          BY <2>1, <4>1, <5>1, <5>2, <5>3, <5>4
      <4>5. ApplyRemoteDelete => tracker'[p].hash = disk[p]
        <5>1. disk'[p] # NoContent
          BY <2>4, <3>1 DEF IsFile
        <5>2. ApplyRemoteDelete =>
                LET gone == {job.path} \cup Below(job.path)
                IN  /\ disk' = [q \in Paths |-> IF q \in gone THEN NoContent ELSE disk[q]]
                    /\ tracker' = Forget(tracker, gone)
          BY DEF ApplyRemoteDelete
        <5>3. \A s : p \notin s => Forget(tracker, s)[p].hash = tracker[p].hash
          BY <1>1, <2>1, Hashes
        <5> QED
          BY <2>1, <4>1, <5>1, <5>2, <5>3
      <4>6. Record => tracker'[p].hash = disk[p]
        <5>1. Record => pc = "record"
          BY DEF Record
        <5> QED
          BY <1>1, <2>1, <3>7, <4>1, <5>1 DEF Record
      <4>7. Crash => pc' = "down"
        BY DEF Crash, Goto
      <4>8. ~(Seed /\ Looked(NoEntries))
        BY <3>3
      <4> QED
        BY <1>1, <1>3, <2>4, <3>2, <3>4, <4>1, <4>2, <4>3, <4>4, <4>5, <4>6, <4>7, <4>8, TrackerSteps
    <3> QED
      BY <3>5, <3>6, <3>7
  <2> QED
    BY <1>3, <2>1, <2>2, <2>3, <2>4, TheirsSteps
<1> QED
  BY <1>3 DEF Tracking

(* A crash leaves a manifest with the cursor of data.json that knows the   *)
(* bytes of other devices, or the crash excuses them.                      *)
LEMMA ResumableKept ==
  ASSUME SInv, Next
  PROVE  Resumable'
<1>1. ASSUME pc' = "down", manifest' # NoManifest, manifest'.rev = saved', NEW p \in Watched, Theirs(p)'
      PROVE  manifest'.files[p].hash = disk'[p]
  <2>1. p \in Paths
    BY WatchedPaths
  <2>2. CASE Crash
    <3>1. /\ UNCHANGED <<disk, manifest, remotes>>
          /\ excused' = excused \cup {"torn"} \X {q \in Paths :
               Foreign(disk[q]) /\ manifest # NoManifest /\ manifest.files[q].hash # disk[q]}
      BY <2>2 DEF Crash, serverVars, journals
    <3>2. Foreign(disk[p]) /\ <<"torn", p>> \notin excused'
      BY <1>1, <2>1, <3>1 DEF Theirs, Excused, Foreign
    <3> QED
      BY <1>1, <2>1, <3>1, <3>2
  <2>3. CASE pc = "down" /\ UNCHANGED manifest
    <3>1. manifest.rev <= saved /\ saved <= saved' /\ saved \in Nat /\ saved' \in Nat /\ manifest.rev \in Nat
      BY <1>1, <2>3, BehindKept, IInvKept DEF SInv, RInv, IInv, TypeOK, Behind
    <3>2. manifest.rev = saved /\ saved' = saved
      BY <1>1, <2>3, <3>1
    <3>3. ~Lands(p)
      BY <2>3 DEF Lands, Write
    <3>4. ~PluginPulls
      BY <3>2 DEF PluginPulls
    <3> QED
      BY <1>1, <2>1, <2>3, <3>2, <3>3, <3>4, TheirsSteps DEF SInv, Resumable
  <2> QED
    BY <1>1, <2>2, <2>3, Stages
<1> QED
  BY <1>1 DEF Resumable

(* The first manifest is saved before anything is applied.                 *)
LEMMA BlankKept ==
  ASSUME SInv, Next
  PROVE  Blank'
<1> SUFFICES ASSUME manifest' = NoManifest PROVE Blank'
  BY DEF Blank
<1>1. IInv /\ IInv' /\ saved \in Nat /\ saved' \in Nat /\ cursor \in Nat /\ saved <= saved'
      /\ tracker \in [Paths -> Entry] /\ tracker' \in [Paths -> Entry]
  BY IInvKept, BehindKept DEF SInv, RInv, IInv, TypeOK
<1>2. \A r \in Nat, m \in [Paths -> Entry] : manifest' # [rev |-> r, files |-> m]
  BY NoManifestIsNone
<1>3. manifest = NoManifest
  BY <1>1, <1>2, ManifestSteps
<1>4. pc \in {"down", "started"} /\ (saved = 0 \/ pc = "started" => \A p \in Paths : ~Foreign(disk[p]))
  BY <1>3 DEF SInv, Blank
<1>5. ~FirstRun /\ ~StartRebaselined /\ ~Started /\ ~Resumed
  <2>1. FirstRun \/ StartRebaselined => manifest' = [rev |-> saved, files |-> tracker']
    BY DEF FirstRun, StartRebaselined, Rebaseline
  <2>2. Started => manifest' = [rev |-> cursor, files |-> tracker]
    BY DEF Started
  <2>3. Resumed => manifest # NoManifest
    BY <1>1, Resuming
  <2> QED
    BY <1>1, <1>2, <1>3, <2>1, <2>2, <2>3
<1>6. pc' \in {"down", "started"}
  BY <1>4, <1>5, Stages
<1>7. ASSUME saved' = 0 \/ pc' = "started", NEW p \in Paths, Foreign(disk[p])' PROVE FALSE
  <2>1. ~Lands(p)
    BY <1>4 DEF Lands, Write
  <2>2. ~PluginPulls
    <3>1. PluginPulls => pc \in {"paused", "down"} /\ pc' = pc /\ saved' # saved
      BY DEF PluginPulls, PluginAwake, tickVars
    <3>2. PluginPulls => saved' # 0
      BY <1>1, <3>1
    <3> QED
      BY <1>4, <1>7, <3>1, <3>2
  <2>5. ~Tears(p)
    BY <1>4 DEF Tears, WriteHalfWay
  <2>3. Foreign(disk[p])
    BY <1>7, <2>1, <2>2, <2>5, ForeignSteps
  <2>4. pc = "down" /\ saved # 0
    BY <1>4, <2>3
  <2>7. pc' = "started"
    BY <1>1, <1>7, <2>4
  <2>6. Seed
    BY <1>5, <2>4, <2>7, Stages
  <2> QED
    BY <2>4, <2>6 DEF Seed
<1> QED
  BY <1>6, <1>7 DEF Blank

(* SInv holds at the start.                                                *)
LEMMA SInvInitially == Init => SInv
<1> SUFFICES ASSUME Init PROVE SInv
  OBVIOUS
<1>1. RInv /\ IInv
  BY RInvInitially, IInvInitially
<1>2. manifest = NoManifest /\ pc = "down" /\ failed = {} /\ outbox = <<>>
      /\ \A p \in Paths : tracker[p] = NoEntry
  BY DEF Init
<1>3. PICK s \in {{}} \cup {{p} : p \in Paths} :
        /\ disk = [p \in Paths |-> IF p \in s THEN -1 ELSE NoContent]
        /\ saved = Cardinality(s)
  BY DEF Init
<1>4. FailedExcused /\ NotOutgoing /\ Tracking /\ Placed
  BY <1>2 DEF FailedExcused, PathsOf, NotOutgoing, PutQueued, ToSet, Tracking, Placed
<1>5. Truthful(tracker) /\ Behind /\ Resumable /\ Clear
  BY <1>2 DEF Truthful, NoEntry, Behind, Resumable, Clear
<1>6. DiskTree
  <2>1. \A p, q \in Paths : p \in s /\ q \in s => p = q
    BY <1>3
  <2> QED
    BY <1>3, <2>1, UnderIsStrictOrder DEF DiskTree, IsFile
<1>7. Blank
  <2>1. s = {} \/ Cardinality(s) = 1
    BY FS_Singleton
  <2>2. saved = 0 => \A p \in Paths : disk[p] = NoContent
    BY <1>3, <2>1
  <2>3. ~Foreign(NoContent)
    BY <1>1, NoForeign
  <2> QED
    BY <1>2, <2>2, <2>3 DEF Blank
<1> QED
  BY <1>1, <1>2, <1>4, <1>5, <1>6, <1>7 DEF SInv

(* Every step keeps SInv.                                                  *)
LEMMA SInvKept == SInv /\ [Next]_vars => SInv'
<1>1. CASE SInv /\ Next
  <2>1. RInv' /\ DiskTree' /\ FailedExcused'
    BY <1>1, RInvKept, DiskTreeKept, FailedExcusedKept DEF SInv, RInv
  <2>2. NotOutgoing' /\ Tracking' /\ Placed' /\ Clear'
    BY <1>1, NotOutgoingKept, TrackingKept, PlacedKept, ClearKept
  <2>3. Truthful(tracker)' /\ (manifest' # NoManifest => Truthful(manifest.files)')
    BY <1>1, TruthfulKept
  <2>4. Behind' /\ Resumable' /\ Blank'
    BY <1>1, BehindKept, ResumableKept, BlankKept
  <2> QED
    BY <2>1, <2>2, <2>3, <2>4 DEF SInv
<1>2. CASE SInv /\ UNCHANGED vars
  <2>1. RInv'
    BY <1>2, RInvKept DEF SInv
  <2> USE DEF vars, serverVars, journals, memory, tickVars, history, counters
  <2>2. \A p \in Paths : /\ Theirs(p)' = Theirs(p) /\ PutQueued(p)' = PutQueued(p)
                         /\ Foreign(disk[p])' = Foreign(disk[p])
    BY <1>2 DEF Theirs, Foreign, Excused, PutQueued
  <2>3. DiskTree' /\ FailedExcused'
    BY <1>2 DEF SInv, DiskTree, IsFile, FailedExcused, PathsOf, Excused
  <2>4. NotOutgoing' /\ Tracking' /\ Placed' /\ Clear'
    BY <1>2, <2>2, WatchedPaths DEF SInv, NotOutgoing, Tracking, Placed, Clear
  <2>5. Truthful(tracker)' /\ (manifest' # NoManifest => Truthful(manifest.files)')
    BY <1>2 DEF SInv, Truthful
  <2>6. Behind' /\ Resumable' /\ Blank'
    BY <1>2, <2>2, WatchedPaths DEF SInv, Behind, Resumable, Blank
  <2> QED
    BY <2>1, <2>3, <2>4, <2>5, <2>6 DEF SInv
<1> QED
  BY <1>1, <1>2

(* What another device wrote and this one wrote to its disk is not pushed  *)
(* back as a change of this device, over whatever the server has by then:  *)
(* whatever the user does, whatever fails, and however often Obsidian is   *)
(* opened in between.  Excused are bytes that a crash left on the disk but *)
(* not in the manifest, or a failure half-way on the disk but not in the   *)
(* tracker; and changes whose append failed, or whose put was struck since *)
(* the look at the file failed.                                            *)
THEOREM NoStalePushHolds == Spec => NoStalePush
<1>1. ASSUME SInv, Pushing, NEW p \in Paths \ Excused({"torn", "unqueued"}),
             files'[p].content # files[p].content
      PROVE  ~Foreign(files'[p].content)
  <2> DEFINE op == Head(outbox)
  <2>1. outbox # <<>> /\ Sends(op) /\ (op.op = "put" => IsFile(disk, op.path))
    BY <1>1 DEF Pushing, Push, Sends
  <2>2. IInv /\ outbox \in Seq(OutboxOp) /\ files \in Table /\ disk \in [Paths -> Known] /\ ~Foreign(NoContent)
    BY <1>1, NoForeign DEF SInv, RInv, IInv, TypeOK
  <2>3. op \in OutboxOp /\ op \in ToSet(outbox)
    BY <2>1, <2>2, Elements
  <2>4. op.path \in Paths
    BY <2>3 DEF OutboxOp
  <2> HIDE DEF op
  <2>5. CASE files' = Deleted(files, op.path, op.base)
    BY <1>1, <2>2, <2>4, <2>5, RowContents
  <2>6. CASE op.op = "put" /\ files' = Uploaded(files, op.path, disk[op.path])
    <3>1. disk[op.path] \in Contents
      BY <2>1, <2>2, <2>4, <2>6 DEF IsFile, Known
    <3>2. files'[p].content \in {files[p].content, NoContent, disk[op.path]}
      BY <2>2, <2>4, <2>6, <3>1, RowContents
    <3>3. CASE p = op.path
      <4>1. PutQueued(p)
        BY <2>3, <2>6, <3>3 DEF PutQueued
      <4>2. ~Foreign(disk[p])
        BY <1>1, <4>1 DEF SInv, NotOutgoing, Theirs
      <4> QED
        BY <1>1, <2>2, <3>2, <3>3, <4>2
    <3>4. CASE p # op.path
      <4>1. files'[p].content \in {files[p].content, NoContent}
        <5>1. p \in Conflicts(files, op.path) \/ files'[p] = files[p]
          BY <2>2, <2>4, <2>6, <3>1, <3>4, Uploading
        <5>2. p \in Conflicts(files, op.path) => files'[p] = Tombstone(files'[p].rev)
          BY <2>2, <2>4, <2>6, <3>1, Uploading
        <5> QED
          BY <5>1, <5>2 DEF Tombstone
      <4> QED
        BY <1>1, <2>2, <4>1
    <3> QED
      BY <3>3, <3>4
  <2>7. files' = files \/ files' = Deleted(files, op.path, op.base)
        \/ (op.op = "put" /\ files' = Uploaded(files, op.path, disk[op.path]))
    BY <2>1 DEF Sends, Requested, Refused
  <2> QED
    BY <1>1, <2>5, <2>6, <2>7
<1>2. SInv /\ [Next]_vars =>
        [Pushing => \A p \in Paths \ Excused({"torn", "unqueued"}) :
           files'[p].content # files[p].content => ~Foreign(files'[p].content)]_vars
  BY <1>1
<1>3. SInv /\ [Next]_vars => SInv'
  BY SInvKept
<1> QED
  BY <1>2, <1>3, SInvInitially, PTL DEF Spec, NoStalePush

-----------------------------------------------------------------------------
(* At rest, the tracker knows every row that the cursor has passed, or a   *)
(* scan finds the difference.  While the client works, the tracker knows   *)
(* such a row, has other bytes than the disk, or the outbox holds what it  *)
(* does not know; so does a manifest that was saved with the cursor of     *)
(* data.json.                                                              *)

Settled(p) == p \in Watched \ (dead \cup Excused({"adopted", "torn", "unqueued"}))
Passed(p) == Settled(p) /\ files[p].rev <= saved
DeleteQueued(p) == \E op \in ToSet(outbox) : op.op = "delete" /\ op.path = p

(* What an entry with the hash h tells of the path p, without and with the *)
(* help of a put that is queued.                                           *)
Knows(h, p) ==
  \/ h = files[p].content
  \/ h # NoContent /\ h # disk[p]
  \/ h = NoContent /\ DeleteQueued(p)
Told(h, p) == Knows(h, p) \/ (h # NoContent /\ PutQueued(p))

Telling(m) == \A p \in Paths : Passed(p) => Told(m[p].hash, p)
InTracker == pc \notin {"down", "paused"} => Telling(tracker)
InManifest == manifest # NoManifest /\ manifest.rev = saved => Telling(manifest.files)

(* Size and time are those of the bytes that were hashed. *)
Exact(m) == \A p \in Paths : m[p].hash = m[p].seen

Bytes == \A p \in Paths : files[p].live => files[p].content # NoContent /\ files[p].rev > 0

(* A delete says the revision of the row that it deletes, as far as the    *)
(* cursor has come.                                                        *)
DeleteBases ==
  \A op \in ToSet(outbox) : op.op = "delete" /\ op.path \notin Excused({"unqueued"}) =>
    files[op.path].rev <= op.base \/ files[op.path].rev > saved

(* The line that is applied, from the look at its path to the cursor.      *)
Alone == pc \in Applied \ {"rewrite"} => job.path \notin OutboxPaths
Fetched ==
  pc \in {"write", "record"} =>
    /\ body # NoContent
    /\ \A p \in Paths : p = job.path /\ files[p].rev = job.rev => files[p].content = body
WayFree == pc = "write" => \A q \in Above(job.path) : files[q].live => files[q].rev > saved
Landed == pc = "record" => \A p \in Paths : p = job.path => disk[p] = body
Recorded ==
  pc = "advance" => \A p \in Paths : p = job.path /\ files[p].rev = job.rev =>
    /\ Foreign(disk[p]) => disk[p] = files[p].content
    /\ p \in Watched => tracker[p].hash = files[p].content

(* Bytes of another device are of the row that the cursor has passed.      *)
Fixed == \A p \in Paths : Foreign(disk[p]) /\ files[p].rev <= saved => disk[p] = files[p].content

(* The operation that is about to be struck is not needed any more.        *)
Striking ==
  pc = "ack" => \A p \in Paths : p = job.path /\ Passed(p) =>
    /\ job.op = "delete" => files[p].content = NoContent
    /\ job.op = "put" => /\ Knows(tracker[p].hash, p)
                         /\ manifest # NoManifest /\ manifest.rev = saved => Knows(manifest.files[p].hash, p)

(* No save of data.json fails when it is done; see AdvanceHalfWay.         *)
CursorsWhole == "cursor" \notin Faults

MInv ==
  /\ SInv /\ CursorsWhole /\ Entries /\ Bytes /\ Fixed /\ DeleteBases
  /\ Exact(tracker) /\ (manifest # NoManifest => Exact(manifest.files))
  /\ InTracker /\ InManifest /\ Striking
  /\ Alone /\ Fetched /\ WayFree /\ Landed /\ Recorded

(* The cursor moves with data.json.                                        *)
LEMMA NoHalfAdvance == CursorsWhole => ~AdvanceHalfWay
BY DEF CursorsWhole, AdvanceHalfWay, Blame

(* Where the deletes come from.                                            *)
LEMMA NewDeletes ==
  ASSUME SInv, CursorsWhole, Next, NEW op \in ToSet(outbox'), op \notin ToSet(outbox), op.op = "delete"
  PROVE  op \in failed \/ (UNCHANGED <<files, saved>> /\ op.base = saved)
<1> USE DEF journals, memory, serverVars
<1>1. /\ IInv /\ outbox \in Seq(OutboxOp) /\ saved \in Nat /\ cursor \in Nat /\ failed \subseteq OutboxOp
      /\ Live => cursor = saved
  BY DEF SInv, RInv, IInv, TypeOK, Cursors, CursorsWhole
<1>2. ASSUME NEW m, NEW dirty, NEW bad, NEW rev \in Nat, ReconcilePaths(m, dirty, bad, rev) PROVE op.base = rev
  <2>1. \/ \E p \in Gone(m, dirty) : op = DeleteOp(p, rev)
        \/ \E p \in Fresh(m, dirty) : op = PutOp(p)
    BY <1>1, <1>2, LookQueues DEF IInv, Queued
  <2> QED
    BY <2>1 DEF DeleteOp, PutOp
<1>3. ASSUME NEW bad, ReconcileEvents(bad) \/ Rescan(bad) \/ \E line \in inbox : Inspect(line, bad)
      PROVE  UNCHANGED <<files, saved>> /\ op.base = saved
  <2>1. Live /\ UNCHANGED <<files, saved>> /\ \E m, dirty : ReconcilePaths(m, dirty, bad, cursor)
    BY <1>3 DEF ReconcileEvents, Rescan, Inspect, Live
  <2> QED
    BY <1>1, <1>2, <2>1
<1>4. ASSUME Seed \/ Resumed PROVE UNCHANGED <<files, saved>> /\ op.base = saved
  <2>1. UNCHANGED <<files, saved>> /\ \E m, dirty : ReconcilePaths(m, dirty, {}, saved)
    BY <1>4 DEF Seed, Resumed, Starting
  <2> QED
    BY <1>1, <1>2, <2>1
<1>5. FirstRun \/ StartRebaselined \/ Resume => UNCHANGED outbox
  BY DEF FirstRun, StartRebaselined, Resume, Rebaseline
<1>6. ASSUME NEW q \in Paths, Edit(q) \/ Erase(q) PROVE UNCHANGED outbox
  BY <1>6 DEF Edit, Erase
<1>7. ASSUME NEW q \in Paths, SaveInObsidian(q) PROVE FALSE
  <2>1. PutOp(q) \in OutboxOp
    BY DEF PutOp, OutboxOp
  <2>2. op = PutOp(q)
    BY <1>1, <1>7, <2>1, Elements DEF SaveInObsidian
  <2> QED
    BY <2>2 DEF PutOp
<1>8. \/ Started \/ LoseEvents \/ StartTick \/ Drain \/ SkipPut \/ Fetch \/ EndTick
      \/ Download \/ Write \/ Record \/ ApplyRemoteDelete \/ Advance \/ RewriteInbox \/ Suspend \/ TickFails
      \/ Crash \/ RemoteChange \/ ObsidianStarts \/ ObsidianExits \/ PluginPulls \/ Pause
      => UNCHANGED outbox
  BY DEF Started, LoseEvents, StartTick, Drain, SkipPut, Fetch, EndTick, Download, Write, Record,
         ApplyRemoteDelete, Advance, RewriteInbox, Suspend, TickFails, Crash, RemoteChange, ObsidianStarts,
         ObsidianExits, PluginPulls, Pause
<1>9. (\E line \in inbox : DropLine(line)) \/ (\E ok \in BOOLEAN : Push(ok) \/ SaveManifest(ok)) => UNCHANGED outbox
  BY DEF DropLine, Push, SaveManifest
<1>10. ASSUME NEW f \in failed, RetryFailed(f) \/ RetryHalfWay(f) PROVE op \in failed
  <2>1. outbox' = Append(outbox, f) /\ f \in OutboxOp
    BY <1>1, <1>10 DEF RetryFailed, RetryHalfWay
  <2>2. ToSet(outbox') = ToSet(outbox) \cup {f}
    BY <1>1, <2>1, Elements
  <2> QED
    BY <1>10, <2>2
<1>13. HalfWay => UNCHANGED outbox \/ \E f \in failed : RetryHalfWay(f)
  BY HalfWaySteps
<1>11. ~Acknowledge
  BY <1>1, RemovesOne DEF Acknowledge
<1>12. ~PluginPushes
  <2>1. PluginPushes => outbox # <<>> /\ outbox' = Tail(outbox)
    BY DEF PluginPushes
  <2>2. outbox # <<>> => ToSet(outbox) = {Head(outbox)} \cup ToSet(Tail(outbox))
    BY <1>1, Elements
  <2> QED
    BY <2>1, <2>2
<1> HIDE DEF journals, memory, serverVars
<1> QED
  BY <1>3, <1>4, <1>5, <1>6, <1>7, <1>8, <1>9, <1>10, <1>11, <1>12, <1>13, Steps

(* A path that the server refused stays refused.                           *)
LEMMA DeadGrows ==
  ASSUME Next
  PROVE  dead \subseteq dead'
<1> USE DEF journals
<1>1. ASSUME NEW p \in Paths, Edit(p) \/ Erase(p) \/ SaveInObsidian(p) PROVE UNCHANGED dead
  BY <1>1 DEF Edit, Erase, SaveInObsidian
<1>2. ASSUME NEW bad, ReconcileEvents(bad) \/ Rescan(bad) \/ \E line \in inbox : Inspect(line, bad)
      PROVE  UNCHANGED dead
  BY <1>2 DEF ReconcileEvents, Rescan, Inspect
<1>3. \/ Seed \/ FirstRun \/ StartRebaselined \/ Resumed \/ Started
      \/ LoseEvents \/ StartTick \/ Drain \/ SkipPut \/ Acknowledge \/ Fetch \/ EndTick
      \/ Download \/ Write \/ Record \/ ApplyRemoteDelete \/ Advance \/ RewriteInbox \/ Suspend \/ TickFails
      \/ Crash \/ RemoteChange \/ ObsidianStarts \/ ObsidianExits \/ PluginPulls \/ Pause \/ Resume
      => UNCHANGED dead
  BY DEF Seed, FirstRun, StartRebaselined, Resumed, Starting, Started, LoseEvents, StartTick, Drain, SkipPut,
         Acknowledge, Fetch, EndTick, Download, Write, Record, ApplyRemoteDelete, Advance, RewriteInbox,
         Suspend, TickFails, Crash, RemoteChange, ObsidianStarts, ObsidianExits, PluginPulls, Pause, Resume
<1>4. (\E op \in failed : RetryFailed(op)) \/ (\E line \in inbox : DropLine(line))
      \/ (\E ok \in BOOLEAN : SaveManifest(ok)) => UNCHANGED dead
  BY DEF RetryFailed, DropLine, SaveManifest
<1>5. (\E ok \in BOOLEAN : Push(ok)) \/ PluginPushes => dead \subseteq dead'
  BY DEF Push, PluginPushes, Sends, Requested, Refused
<1> HIDE DEF journals
<1> QED
  BY <1>1, <1>2, <1>3, <1>4, <1>5, Steps, HalfWaySteps

(* What is settled after a step was settled before it.                     *)
LEMMA SettledBefore ==
  ASSUME Next, NEW p \in Paths, Settled(p)'
  PROVE  Settled(p)
BY ExcusedGrows, DeadGrows DEF Settled, Excused

(* While a line is applied, the outbox does not change, and the tracker     *)
(* only by the tick's own steps.                                           *)
LEMMA ApplyingSteps ==
  ASSUME Next, pc \in Applied
  PROVE  /\ UNCHANGED outbox
         /\ pc' = pc => UNCHANGED <<tracker, job, body>>
<1> USE DEF journals, memory, Applied
<1>1. ASSUME NEW p \in Paths, Edit(p) \/ Erase(p) PROVE UNCHANGED <<outbox, tracker, job, body>>
  BY <1>1 DEF Edit, Erase, tickVars
<1>2. ASSUME NEW bad PROVE ~(ReconcileEvents(bad) \/ Rescan(bad) \/ \E line \in inbox : Inspect(line, bad))
  BY DEF ReconcileEvents, Rescan, Inspect
<1>3. \/ LoseEvents \/ RemoteChange \/ ObsidianStarts \/ ObsidianExits
      => UNCHANGED <<outbox, tracker, job, body>>
  BY DEF LoseEvents, RemoteChange, ObsidianStarts, ObsidianExits, tickVars
<1>4. \/ Download \/ Write \/ Record \/ ApplyRemoteDelete \/ Advance \/ RewriteInbox \/ Suspend \/ TickFails \/ Crash
      => UNCHANGED outbox /\ pc' # pc
  BY DEF Download, Write, Record, ApplyRemoteDelete, Advance, RewriteInbox, Suspend, TickFails, Crash, Goto
<1>5. ~(Seed \/ FirstRun \/ StartRebaselined \/ Resumed \/ Started \/ StartTick \/ Drain \/ SkipPut \/ Acknowledge
        \/ Fetch \/ EndTick \/ PluginPushes \/ PluginPulls \/ Pause \/ Resume)
  BY DEF Seed, FirstRun, StartRebaselined, Resumed, Starting, Started, StartTick, Drain, SkipPut, Acknowledge,
         Fetch, EndTick, PluginPushes, PluginPulls, PluginAwake, Pause, Resume
<1>6. ~(\E op \in failed : RetryFailed(op)) /\ ~(\E line \in inbox : DropLine(line))
      /\ ~(\E ok \in BOOLEAN : Push(ok) \/ SaveManifest(ok)) /\ ~(\E p \in Paths : SaveInObsidian(p))
  BY DEF RetryFailed, DropLine, Push, SaveManifest, SaveInObsidian, PluginAwake
<1>7. HalfWay => UNCHANGED outbox /\ pc' # pc
  BY HalfWaySteps
<1> HIDE DEF journals, memory, Applied
<1> QED
  BY <1>1, <1>2, <1>3, <1>4, <1>5, <1>6, <1>7, Steps

(* The line that is applied is ahead of the cursor.                        *)
LEMMA LineAhead ==
  ASSUME RInv, CursorsWhole, pc \in Applied \ {"rewrite"}
  PROVE  /\ job \in inbox /\ job.path \in Paths /\ job.rev \in Nat /\ cursor = saved
         /\ saved < job.rev /\ job.rev <= files[job.path].rev /\ files[job.path].rev <= Tip(files)
         /\ files[job.path].rev \in Nat /\ Tip(files) \in Nat /\ saved \in Nat
         /\ files[job.path].rev = job.rev => job.op = IF files[job.path].live THEN "put" ELSE "delete"
<1>1. job \in inbox /\ job.path \in Paths /\ job.rev \in Nat /\ cursor = saved /\ job.rev > cursor
  BY DEF RInv, IInv, InHand, Taken, Applied, IsNext, Line, Cursors, CursorsWhole, Live
<1>2. files \in Table /\ saved \in Nat
  BY DEF RInv, IInv, TypeOK
<1>3. files[job.path].rev \in Nat /\ files[job.path].rev <= Tip(files) /\ Tip(files) \in Nat
  BY <1>1, <1>2, TipIsGreatest
<1>4. job.rev <= files[job.path].rev /\ (files[job.path].rev = job.rev => job = InboxLine(files, job.path))
  BY <1>1 DEF RInv, Lines
<1>5. InboxLine(files, job.path).op = IF files[job.path].live THEN "put" ELSE "delete"
  BY DEF InboxLine
<1> QED
  BY <1>1, <1>2, <1>3, <1>4, <1>5

(* Where the cursor has passed, the disk changes by the user only.         *)
LEMMA PassedDisk ==
  ASSUME SInv, CursorsWhole, Next, NEW p \in Paths, files[p].rev <= saved, ~PluginPulls
  PROVE  disk'[p] \in {disk[p], NoContent} \/ Saves(p)
<1>1. RInv /\ IInv /\ disk \in [Paths -> Known] /\ files[p].rev \in Nat /\ saved \in Nat
  BY DEF SInv, RInv, IInv, TypeOK, Table, Row
<1>2. ASSUME NEW q \in Paths, disk' = [disk EXCEPT ![q] = edits + 1], edits < MaxEdits, Edit(q) \/ SaveInObsidian(q)
      PROVE  disk'[p] = disk[p] \/ Saves(p)
  BY <1>1, <1>2 DEF Saves
<1>3. ASSUME Write \/ \E renamed \in BOOLEAN : WriteHalfWay(renamed) PROVE disk'[p] \in {disk[p], NoContent}
  <2>1. pc \in Applied \ {"rewrite"}
    BY <1>3 DEF Write, WriteHalfWay, Applied
  <2>2. p # job.path
    BY <1>1, <2>1, LineAhead
  <2>3. \/ disk' = disk
        \/ \E renamed \in BOOLEAN :
             disk' = [q \in Paths |-> IF q = job.path /\ renamed THEN body
                                      ELSE IF q \in Above(job.path) THEN NoContent ELSE disk[q]]
    BY <1>3 DEF Write, WriteHalfWay
  <2> QED
    BY <2>2, <2>3
<1> QED
  BY <1>1, <1>2, <1>3, VaultSteps

(* An operation answered that leaves its row behind the cursor had nothing *)
(* to do: it deletes what is deleted already.                              *)
LEMMA PushEffect ==
  ASSUME MInv, NEW op \in ToSet(outbox), Requested(op, TRUE), op.op = "put" => IsFile(disk, op.path),
         Settled(op.path), Passed(op.path)', saved' = saved
  PROVE  op.op = "delete" /\ files[op.path].content = NoContent
<1> DEFINE p == op.path
<1>1. /\ IInv /\ Consistent(files) /\ files \in Table /\ disk \in [Paths -> Known] /\ outbox \in Seq(OutboxOp)
      /\ saved <= Tip(files) /\ saved \in Nat
  BY DEF MInv, SInv, RInv, IInv, TypeOK, Cursors
<1>2. op \in OutboxOp
  BY <1>1, Elements
<1>3. p \in Paths /\ op.op \in {"put", "delete"} /\ op.base \in Nat \cup {NoBase}
  BY <1>2 DEF OutboxOp
<1>4. files'[p].rev <= saved /\ p \notin dead'
  BY DEF Passed, Settled
<1>5. Tip(files) \in Nat
  BY <1>1, TipIsGreatest
<1> HIDE DEF p
<1>6. ASSUME op.op = "put" PROVE FALSE
  <2>1. disk[p] \in Contents
    BY <1>1, <1>3, <1>6 DEF IsFile, Known, p
  <2>2. files' = Uploaded(files, p, disk[p])
    BY <1>4, <1>6 DEF Requested, Refused, p
  <2>3. Uploaded(files, p, disk[p])[p].rev > Tip(files) /\ Uploaded(files, p, disk[p]) \in Table
    BY <1>1, <1>3, <2>1, Uploading
  <2>4. files'[p].rev > Tip(files) /\ files'[p].rev \in Nat
    BY <1>3, <2>2, <2>3 DEF Table, Row
  <2> QED
    BY <1>1, <1>4, <1>5, <2>4
<1>7. op.op = "delete"
  BY <1>3, <1>6
<1>8. files' = Deleted(files, p, op.base)
  BY <1>7 DEF Requested, Refused, p
<1> DEFINE gone == IF Late(files, p, op.base) = {} THEN Seen(files, p, op.base) \cup {p} ELSE Seen(files, p, op.base)
<1>9. /\ files' \in Table
      /\ \A q \in Paths \ gone : files'[q] = files[q]
      /\ \A q \in gone : files'[q].rev > Tip(files)
  BY <1>1, <1>3, <1>8, Deleting
<1>10. p \notin gone
  <2>1. p \in gone => files'[p].rev > Tip(files) /\ files'[p].rev \in Nat
    BY <1>3, <1>9 DEF Table, Row
  <2> QED
    BY <1>1, <1>4, <1>5, <2>1
<1>11. files'[p] = files[p]
  BY <1>3, <1>9, <1>10
<1>12. PICK q : q \in Late(files, p, op.base)
  BY <1>10
<1>13. op.base # NoBase /\ q \in Active(files, p) /\ files[q].rev > op.base
  BY <1>12 DEF Late, NewerThan
<1>14. ASSUME files[p].live PROVE FALSE
  <2>1. q = p
    BY <1>1, <1>3, <1>13, <1>14 DEF Active, Below, Consistent, Antichain
  <2>2. p \notin Excused({"unqueued"})
    BY DEF Settled, Excused, p
  <2>3. files[p].rev <= op.base \/ files[p].rev > saved
    BY <1>7, <2>2 DEF MInv, DeleteBases, p
  <2>4. files[p].rev \in Nat /\ op.base \in Nat
    BY <1>1, <1>3, <1>13 DEF Table, Row
  <2> QED
    BY <1>1, <1>4, <1>11, <1>13, <2>1, <2>3, <2>4
<1> QED
  BY <1>1, <1>3, <1>7, <1>14 DEF Consistent, p

(* What an entry tells of a row stays true, unless a delete is struck.      *)
LEMMA KnowsStays ==
  ASSUME SInv, CursorsWhole, Next, ~PluginPulls, NEW p \in Paths, files[p].rev <= saved, files'[p] = files[p],
         NEW h \in Written, Knows(h, p)
  PROVE  Knows(h, p)' \/ (h = NoContent /\ DeleteQueued(p) /\ ~DeleteQueued(p)')
<1>1. h = files[p].content => Knows(h, p)'
  BY DEF Knows
<1>2. h = NoContent /\ DeleteQueued(p)' => Knows(h, p)'
  BY DEF Knows
<1>3. ASSUME h # NoContent, h # disk[p] PROVE h # disk'[p]
  <2>1. disk'[p] \in {disk[p], NoContent} \/ (disk'[p] = edits + 1 /\ edits < MaxEdits)
    BY PassedDisk DEF Saves
  <2> QED
    BY <1>3, <2>1, NotYet DEF SInv, RInv
<1> QED
  BY <1>1, <1>2, <1>3 DEF Knows

(* Unless it is refreshed, what an entry tells of a row stays told.        *)
LEMMA ToldStays ==
  ASSUME MInv, Next, ~PluginPulls, NEW p \in Paths, Passed(p), Passed(p)', files'[p] = files[p], saved' = saved,
         NEW h \in Written, Told(h, p), pc = "ack" /\ p = job.path /\ job.op = "put" => Knows(h, p)
  PROVE  Told(h, p)'
<1>1. IInv /\ SInv /\ CursorsWhole /\ outbox \in Seq(OutboxOp)
  BY DEF MInv, SInv, RInv, IInv, TypeOK
<1>2. PluginPushes => outbox # <<>>
                      /\ ((Head(outbox).op = "put" /\ ~IsFile(disk, Head(outbox).path))
                          \/ Requested(Head(outbox), TRUE))
  BY DEF PluginPushes
<1>3. Acknowledge => pc = "ack" /\ UNCHANGED <<disk, files>>
  BY DEF Acknowledge, serverVars
<1>4. DeleteQueued(p) => DeleteQueued(p)' \/ files[p].content = NoContent
  <2> SUFFICES ASSUME DeleteQueued(p), ~DeleteQueued(p)' PROVE files[p].content = NoContent
    OBVIOUS
  <2>1. PICK op \in ToSet(outbox) : op.op = "delete" /\ op.path = p
    BY DEF DeleteQueued
  <2>2. op \notin ToSet(outbox')
    BY <2>1 DEF DeleteQueued
  <2>3. CASE Acknowledge /\ op = job
    BY <1>3, <2>1, <2>3 DEF MInv, Striking
  <2>4. CASE PluginPushes /\ op = Head(outbox)
    BY <1>2, <2>1, <2>4, PushEffect DEF Passed
  <2> QED
    BY <1>1, <2>2, <2>3, <2>4, LinesLeave
<1>5. PutQueued(p) /\ h # NoContent => PutQueued(p)' \/ Knows(h, p)
  <2> SUFFICES ASSUME PutQueued(p), h # NoContent, ~PutQueued(p)' PROVE Knows(h, p)
    OBVIOUS
  <2>1. PICK op \in ToSet(outbox) : op.op = "put" /\ op.path = p
    BY DEF PutQueued
  <2>2. op \notin ToSet(outbox')
    BY <2>1 DEF PutQueued
  <2>3. CASE Acknowledge /\ op = job
    BY <1>3, <2>1, <2>3
  <2>4. CASE PluginPushes /\ op = Head(outbox)
    <3>1. ~IsFile(disk, p)
      BY <1>2, <2>1, <2>4, PushEffect DEF Passed
    <3> QED
      BY <3>1 DEF Knows, IsFile
  <2> QED
    BY <1>1, <2>2, <2>3, <2>4, LinesLeave
<1>6. Knows(h, p) => Told(h, p)'
  <2>1. Knows(h, p) => Knows(h, p)' \/ (h = NoContent /\ DeleteQueued(p) /\ ~DeleteQueued(p)')
    BY <1>1, KnowsStays DEF Passed
  <2>2. h = NoContent /\ files[p].content = NoContent => Knows(h, p)'
    BY DEF Knows
  <2> QED
    BY <1>4, <2>1, <2>2 DEF Told
<1> QED
  BY <1>5, <1>6 DEF Told

(* A look finds what its manifest does not know.                           *)
LEMMA LookTells ==
  ASSUME IInv, DiskTree, NEW p \in Paths, NEW m \in [Paths -> Entry], Told(m[p].hash, p),
         NEW dirty, NEW bad, NEW rev \in Nat, ReconcilePaths(m, dirty, bad, rev),
         UNCHANGED <<files, disk>>, Settled(p)'
  PROVE  Told(tracker[p].hash, p)'
<1>1. disk \in [Paths -> Known]
  BY DEF IInv, TypeOK
<1>2. tracker' = Reconciled(m, dirty, bad) /\ EnqueueDurable(Gone(m, dirty), Fresh(m, dirty), bad, rev)
  BY DEF ReconcilePaths
<1>3. p \notin bad
  BY <1>2 DEF EnqueueDurable, Settled, Excused
<1>4. Queued(Gone(m, dirty), Fresh(m, dirty), bad, rev)
  BY LookQueues DEF IInv
<1>5. ToSet(outbox) \subseteq ToSet(outbox')
  BY <1>4 DEF Queued
<1>6. ASSUME NEW h, Told(h, p) PROVE Told(h, p)'
  BY <1>5, <1>6 DEF Told, Knows, PutQueued, DeleteQueued
<1>7. tracker'[p].hash = IF p \in Present(dirty) THEN disk[p] ELSE IF p \in Gone(m, dirty) THEN NoContent ELSE m[p].hash
  BY <1>1, <1>2, <1>3, ReconciledHash
<1>8. CASE p \in Present(dirty)
  <2>1. IsFile(disk, p)
    BY <1>8 DEF Present
  <2>2. CASE p \in Fresh(m, dirty)
    <3>1. PutOp(p) \in ToSet(outbox')
      BY <1>3, <1>4, <2>2 DEF Queued
    <3>2. PutQueued(p)'
      BY <3>1 DEF PutQueued, PutOp
    <3>3. tracker'[p].hash # NoContent
      BY <1>7, <1>8, <2>1 DEF IsFile
    <3> QED
      BY <3>2, <3>3 DEF Told
  <2>3. CASE p \notin Fresh(m, dirty)
    <3>1. p \notin Gone(m, dirty)
      BY <1>1, <2>1, FilesFound
    <3>2. Forget(m, Gone(m, dirty))[p].hash = disk[p]
      BY <1>8, <2>3 DEF Fresh
    <3>3. m[p].hash = disk[p]
      BY <1>1, <3>1, <3>2, Hashes
    <3>4. PICK h : h = m[p].hash
      OBVIOUS
    <3>5. tracker'[p].hash = h
      BY <1>7, <1>8, <3>3, <3>4
    <3>6. Told(h, p)'
      BY <1>6, <3>4
    <3> QED
      BY <3>5, <3>6
  <2> QED
    BY <2>2, <2>3
<1>9. CASE p \notin Present(dirty) /\ p \in Gone(m, dirty)
  <2>1. DeleteOp(p, rev) \in ToSet(outbox')
    BY <1>3, <1>4, <1>9 DEF Queued
  <2>2. DeleteQueued(p)'
    BY <2>1 DEF DeleteQueued, DeleteOp
  <2> QED
    BY <1>7, <1>9, <2>2 DEF Told, Knows
<1>10. CASE p \notin Present(dirty) /\ p \notin Gone(m, dirty)
  <2>1. PICK h : h = m[p].hash
    OBVIOUS
  <2>2. tracker'[p].hash = h
    BY <1>7, <1>10, <2>1
  <2>3. Told(h, p)'
    BY <1>6, <2>1
  <2> QED
    BY <2>2, <2>3
<1> QED
  BY <1>8, <1>9, <1>10

(* A new baseline is as the server, or the path is excused.                *)
LEMMA BaselineTells ==
  ASSUME IInv, Fixed, NEW p \in Paths, NEW known \in [Paths -> Entry], Exact(known), Adopts(known), Passed(p)'
  PROVE  Told(tracker[p].hash, p)'
<1>1. UNCHANGED <<files, disk, saved>> /\ tracker' = Rebaselined(known, disk) /\ disk \in [Paths -> Known]
  BY DEF Adopts, Still, Rebaseline, IInv, TypeOK
<1>2. p \in Watched /\ files[p].rev <= saved /\ <<"adopted", p>> \notin excused'
  BY <1>1 DEF Passed, Settled, Excused
<1>3. disk[p] = files[p].content \/ Foreign(disk[p])
  BY <1>2 DEF Adopts, AdoptFrom
<1>4. disk[p] = files[p].content
  BY <1>2, <1>3 DEF Fixed
<1>5. known[p].hash = known[p].seen
  BY DEF Exact
<1>6. tracker'[p].hash = disk[p]
  BY <1>1, <1>2, <1>5, Hashes DEF IsFile
<1> QED
  BY <1>1, <1>4, <1>6 DEF Told, Knows

(* The start compares the vault with the server before it looks at it.     *)
LEMMA ResumingTells ==
  ASSUME MInv, Resumed, NEW p \in Paths, Settled(p), Passed(p)'
  PROVE  Told(tracker[p].hash, p)'
<1>1. /\ IInv /\ DiskTree /\ Consistent(files) /\ saved \in Nat
      /\ UNCHANGED <<files, saved>>
  BY DEF MInv, SInv, RInv, IInv, TypeOK, Resumed, Starting, serverVars
<1>2. UNCHANGED disk /\ manifest # NoManifest /\ manifest.rev = saved
  BY <1>1, Resuming
<1>3. PICK m \in [Paths -> Entry] :
        /\ \E dirty : ReconcilePaths(m, dirty, {}, saved)
        /\ \A q \in Paths : m[q].hash \in {files[q].content, manifest.files[q].hash}
  BY <1>1, Resuming
<1>4. Passed(p) /\ Settled(p)'
  BY <1>1 DEF Passed
<1>5. Told(manifest.files[p].hash, p)
  BY <1>2, <1>4 DEF MInv, InManifest, Telling
<1>6. Told(files[p].content, p)
  BY DEF Told, Knows
<1>7. Told(m[p].hash, p)
  BY <1>3, <1>5, <1>6
<1> QED
  BY <1>1, <1>2, <1>3, <1>4, <1>7, LookTells

(* Without a manifest the first start queues what there is.                *)
LEMMA SeedTells ==
  ASSUME MInv, Seed, NEW p \in Paths, Settled(p), Passed(p)'
  PROVE  Told(tracker[p].hash, p)'
<1>1. /\ IInv /\ DiskTree /\ Consistent(files) /\ saved = 0 /\ files[p].rev \in Nat
      /\ UNCHANGED <<files, saved, disk>> /\ NoEntries \in [Paths -> Entry]
      /\ \E dirty : ReconcilePaths(NoEntries, dirty, {}, 0)
  BY Manifests DEF MInv, SInv, RInv, IInv, TypeOK, Table, Row, Seed, Starting, serverVars
<1>2. files[p].rev = 0 /\ Settled(p)'
  BY <1>1 DEF Passed
<1>3. files[p].content = NoContent
  BY <1>1, <1>2 DEF MInv, Bytes, Consistent
<1>4. Told(NoEntries[p].hash, p)
  BY <1>3 DEF Told, Knows, NoEntries, NoEntry
<1> QED
  BY <1>1, <1>2, <1>4, LookTells

(* A tombstone ahead of the cursor covers no file behind the cursor.       *)
LEMMA TombstoneCovers ==
  ASSUME MInv, ApplyRemoteDelete, NEW p \in Below(job.path), files[p].rev <= saved
  PROVE  files[p].content = NoContent
<1>1. RInv /\ CursorsWhole /\ Consistent(files) /\ files \in Table /\ saved \in Nat /\ pc \in Applied \ {"rewrite"}
  BY DEF MInv, SInv, RInv, IInv, TypeOK, ApplyRemoteDelete, Applied
<1>2. job.path \in Paths /\ job.rev \in Nat /\ saved < job.rev /\ job.rev <= files[job.path].rev
  BY <1>1, LineAhead
<1>3. p \in Paths /\ <<p, job.path>> \in Under /\ files[p].rev \in Nat /\ files[job.path].rev \in Nat
  BY <1>1, <1>2 DEF Below, Table, Row
<1>4. files[p].live => ~files[job.path].live
  BY <1>1, <1>2, <1>3 DEF Consistent, Antichain
<1>5. files[p].live => files[job.path].rev < files[p].rev
  BY <1>1, <1>2, <1>3, <1>4 DEF Consistent, TombstonesFirst
<1>6. ~files[p].live
  BY <1>1, <1>2, <1>3, <1>5
<1> QED
  BY <1>1, <1>3, <1>6 DEF Consistent

(* While the client works, the tracker tells of every row that the cursor  *)
(* has passed.                                                             *)
LEMMA InTrackerKept ==
  ASSUME MInv, Next
  PROVE  InTracker'
<1>1. /\ SInv /\ RInv /\ IInv /\ DiskTree /\ Consistent(files) /\ Fixed /\ FailedExcused
      /\ CursorsWhole /\ ~AdvanceHalfWay
      /\ disk \in [Paths -> Known] /\ tracker \in [Paths -> Entry] /\ NoEntries \in [Paths -> Entry]
      /\ manifest # NoManifest => manifest.files \in [Paths -> Entry] /\ Exact(manifest.files)
      /\ Exact(tracker) /\ saved \in Nat
  BY Manifests, NoHalfAdvance DEF MInv, SInv, RInv, IInv, TypeOK
<1>2. Exact(NoEntries)
  BY DEF Exact, NoEntries, NoEntry
<1>3. ASSUME pc' \notin {"down", "paused"}, NEW p \in Paths, Passed(p)'
      PROVE  Told(tracker[p].hash, p)'
  <2>1. Settled(p) /\ Settled(p)'
    BY <1>3, SettledBefore DEF Passed
  <2>2. ~PluginPulls
    <3>1. PluginPulls => pc \in {"paused", "down"} /\ pc' = pc
      BY DEF PluginPulls, PluginAwake, tickVars
    <3> QED
      BY <1>3, <3>1
  <2>3. /\ files'[p] = files[p]
        /\ files[p].rev <= saved \/ (Advance /\ p = job.path /\ files[p].rev = job.rev)
    BY <1>1, <1>3, <2>2, RowsPassed DEF Passed
  <2>4. CASE Advance
    <3>1. pc = "advance" /\ UNCHANGED <<files, disk, outbox, tracker>>
      BY <2>4 DEF Advance, serverVars
    <3>2. p \in Watched
      BY <2>1 DEF Settled
    <3>3. Told(tracker[p].hash, p)
      <4>1. files[p].rev <= saved => Told(tracker[p].hash, p)
        BY <2>1, <3>1 DEF MInv, InTracker, Telling, Passed
      <4>2. p = job.path /\ files[p].rev = job.rev => tracker[p].hash = files[p].content
        BY <3>1, <3>2 DEF MInv, Recorded
      <4> QED
        BY <2>3, <4>1, <4>2 DEF Told, Knows
    <3> QED
      BY <3>1, <3>3 DEF Told, Knows, PutQueued, DeleteQueued
  <2>5. CASE ~Advance
    <3>1. saved' = saved /\ files[p].rev <= saved /\ Passed(p)
      BY <1>1, <2>1, <2>2, <2>3, <2>5, CursorSteps DEF Passed
    <3>2. Adopts(NoEntries) \/ Adopts(tracker) \/ (manifest # NoManifest /\ Adopts(manifest.files))
          => Told(tracker[p].hash, p)'
      BY <1>1, <1>2, <1>3, BaselineTells
    <3>3. Seed \/ Resumed => Told(tracker[p].hash, p)'
      BY <1>3, <2>1, SeedTells, ResumingTells
    <3>4. CASE pc \in {"down", "paused"}
      <4>1. FirstRun => Adopts(NoEntries)
        BY DEF FirstRun, Starting, Adopts, Still, serverVars
      <4>2. StartRebaselined => manifest # NoManifest /\ Adopts(manifest.files)
        BY DEF StartRebaselined, Starting, Adopts, Still, serverVars
      <4>3. Resume => Adopts(tracker)
        BY DEF Resume, Adopts, Still, serverVars
      <4> QED
        BY <1>3, <3>2, <3>3, <3>4, <4>1, <4>2, <4>3, Stages
    <3>5. CASE pc \notin {"down", "paused"}
      <4>1. PICK h \in Written : h = tracker[p].hash
        BY DEF MInv, Entries
      <4>2. Told(h, p)
        BY <3>1, <3>5, <4>1 DEF MInv, InTracker, Telling
      <4>3. ASSUME tracker'[p].hash = h PROVE Told(tracker[p].hash, p)'
        <5>1. pc = "ack" /\ p = job.path /\ job.op = "put" => Knows(h, p)
          BY <3>1, <4>1 DEF MInv, Striking
        <5>2. Told(h, p)'
          BY <1>3, <2>2, <2>3, <3>1, <4>2, <5>1, ToldStays
        <5> QED
          BY <4>3, <5>2
      <4>4. ASSUME NEW m \in {tracker, Touched(tracker, disk)}, Looked(m) PROVE Told(tracker[p].hash, p)'
        <5>1. m \in [Paths -> Entry] /\ m[p].hash = tracker[p].hash
          BY <1>1, Manifests, Hashes
        <5>2. Told(m[p].hash, p)
          BY <4>1, <4>2, <5>1
        <5>3. UNCHANGED <<files, disk>> /\ \E dirty, bad, rev : rev \in Nat /\ ReconcilePaths(m, dirty, bad, rev)
          BY <4>4 DEF Looked, Still
        <5> QED
          BY <1>1, <2>1, <5>1, <5>2, <5>3, LookTells
      <4>5. ASSUME NEW op \in failed, RetryFailed(op) PROVE tracker'[p].hash = h
        <5>1. op.path \in Excused({"unqueued"})
          BY <1>1, <4>5 DEF FailedExcused, PathsOf
        <5>2. p # op.path
          BY <2>1, <5>1 DEF Settled, Excused
        <5> QED
          BY <1>1, <4>1, <4>5, <5>2 DEF RetryFailed
      <4>6. Write => Told(tracker[p].hash, p)'
        <5>1. Write => pc = "write" /\ (UNCHANGED tracker \/ tracker' = Forget(tracker, Above(job.path)))
          BY DEF Write
        <5>2. ASSUME p \notin Above(job.path) PROVE Forget(tracker, Above(job.path))[p].hash = tracker[p].hash
          BY <1>1, <5>2, Hashes
        <5>3. ASSUME p \in Above(job.path), pc = "write", tracker' = Forget(tracker, Above(job.path))
              PROVE  tracker'[p].hash = files[p].content
          <6>1. ~files[p].live
            BY <1>1, <3>1, <5>3 DEF MInv, WayFree, IInv, TypeOK, Table, Row
          <6>2. tracker'[p].hash = NoContent
            BY <1>1, <5>3, Hashes
          <6> QED
            BY <1>1, <6>1, <6>2 DEF Consistent
        <5> QED
          BY <2>3, <4>1, <4>3, <5>1, <5>2, <5>3 DEF Told, Knows
      <4>7. Record => tracker'[p].hash = h
        <5>1. Record => pc \in Applied \ {"rewrite"}
          BY DEF Record, Applied
        <5>2. Record => p # job.path
          BY <1>1, <3>1, <5>1, LineAhead DEF IInv, TypeOK, Table, Row
        <5> QED
          BY <1>1, <4>1, <5>2 DEF Record
      <4>8. ApplyRemoteDelete => Told(tracker[p].hash, p)'
        <5>1. ApplyRemoteDelete => tracker' = Forget(tracker, {job.path} \cup Below(job.path))
          BY DEF ApplyRemoteDelete
        <5>2. ASSUME NEW s PROVE Forget(tracker, s)[p].hash = IF p \in s THEN NoContent ELSE h
          BY <1>1, <4>1, Hashes
        <5>3. ApplyRemoteDelete => p # job.path
          <6>1. ApplyRemoteDelete => pc \in Applied \ {"rewrite"}
            BY DEF ApplyRemoteDelete, Applied
          <6> QED
            BY <1>1, <3>1, <6>1, LineAhead DEF IInv, TypeOK, Table, Row
        <5>4. ApplyRemoteDelete /\ p \in Below(job.path) => files[p].content = NoContent
          BY <3>1, TombstoneCovers
        <5> QED
          BY <2>3, <4>3, <5>1, <5>2, <5>3, <5>4 DEF Told, Knows
      <4>9. Crash => pc' = "down"
        BY DEF Crash, Goto
      <4>10. UNCHANGED tracker => tracker'[p].hash = h
        BY <4>1
      <4> QED
        BY <1>1, <1>3, <3>2, <3>3, <4>3, <4>4, <4>5, <4>6, <4>7, <4>8, <4>9, <4>10, TrackerSteps
    <3> QED
      BY <3>4, <3>5
  <2> QED
    BY <2>4, <2>5
<1> QED
  BY <1>3 DEF InTracker, Telling

(* A manifest that was saved with the cursor of data.json tells of every   *)
(* row that the cursor has passed.                                         *)
LEMMA InManifestKept ==
  ASSUME MInv, Next
  PROVE  InManifest'
<1>1. SInv /\ RInv /\ IInv /\ IInv' /\ saved \in Nat /\ InTracker' /\ CursorsWhole /\ ~AdvanceHalfWay
  BY IInvKept, InTrackerKept, NoHalfAdvance DEF MInv, SInv, RInv, IInv, TypeOK
<1>2. ASSUME manifest' # NoManifest, manifest'.rev = saved', NEW p \in Paths, Passed(p)'
      PROVE  Told(manifest.files[p].hash, p)'
  <2>1. CASE UNCHANGED manifest
    <3>1. manifest.rev <= saved /\ saved <= saved' /\ saved' \in Nat /\ manifest.rev \in Nat
      BY <1>1, <1>2, <2>1, BehindKept DEF SInv, IInv, TypeOK, Behind
    <3>2. manifest # NoManifest /\ manifest.rev = saved /\ saved' = saved
      BY <1>1, <1>2, <2>1, <3>1
    <3>3. ~PluginPulls /\ ~Advance
      <4>1. Advance => pc \in Applied \ {"rewrite"} /\ saved' = job.rev
        BY DEF Advance, Applied
      <4>2. ~Advance
        BY <1>1, <3>2, <4>1, LineAhead
      <4> QED
        BY <3>2, <4>2 DEF PluginPulls
    <3>4. files'[p] = files[p] /\ Settled(p) /\ Passed(p)
      BY <1>1, <1>2, <3>3, RowsPassed, SettledBefore DEF Passed
    <3>5. PICK h \in Written : h = manifest.files[p].hash
      BY <3>2 DEF MInv, Entries
    <3>6. Told(h, p)
      BY <3>2, <3>4, <3>5 DEF MInv, InManifest, Telling
    <3>7. pc = "ack" /\ p = job.path /\ job.op = "put" => Knows(h, p)
      BY <3>2, <3>4, <3>5 DEF MInv, Striking
    <3>8. Told(h, p)'
      BY <1>2, <3>2, <3>3, <3>4, <3>6, <3>7, ToldStays
    <3> QED
      BY <2>1, <3>5, <3>8
  <2>2. CASE pc' = "idle" /\ \E r : manifest' = [rev |-> r, files |-> tracker']
    <3>1. Told(tracker[p].hash, p)'
      BY <1>1, <1>2, <2>2 DEF InTracker, Telling
    <3> QED
      BY <2>2, <3>1
  <2> QED
    BY <2>1, <2>2, ManifestSteps
<1> QED
  BY <1>2 DEF InManifest, Telling

(* Size and time go with the bytes that were hashed.                       *)
LEMMA ExactKept ==
  ASSUME MInv, Next
  PROVE  Exact(tracker)' /\ (manifest' # NoManifest => Exact(manifest.files)')
<1>1. IInv
  BY DEF MInv, SInv, RInv
<1>2. ASSUME NEW p \in Paths PROVE tracker'[p].hash = tracker'[p].seen
  <2>1. CASE tracker'[p] = tracker[p]
    BY <2>1 DEF MInv, Exact
  <2>2. CASE tracker'[p] \in {NoEntry, EntryOf(disk[p])}
    BY <2>2 DEF NoEntry, EntryOf
  <2>3. CASE manifest # NoManifest /\ tracker'[p] = manifest.files[p]
    BY <2>3 DEF MInv, Exact
  <2>4. CASE Record /\ p = job.path /\ IsFile(disk, p) /\ tracker'[p] = [hash |-> body, seen |-> disk[p]]
    <3>1. disk[p] = body
      BY <2>4 DEF MInv, Landed, Record
    <3> QED
      BY <2>4, <3>1
  <2> QED
    BY <1>1, <2>1, <2>2, <2>3, <2>4, EntrySteps DEF EntryFrom
<1>3. ASSUME manifest' # NoManifest, NEW p \in Paths PROVE manifest'.files[p].hash = manifest'.files[p].seen
  <2>1. CASE UNCHANGED manifest
    BY <1>3, <2>1 DEF MInv, Exact
  <2>2. CASE \E r : manifest' = [rev |-> r, files |-> tracker'] \/ manifest' = [rev |-> r, files |-> tracker]
    BY <1>2, <2>2 DEF MInv, Exact
  <2> QED
    BY <2>1, <2>2, ManifestSteps
<1> QED
  BY <1>2, <1>3 DEF Exact

(* A live row has bytes and a revision.                                    *)
LEMMA BytesKept ==
  ASSUME MInv, Next
  PROVE  Bytes'
<1>1. IInv /\ files \in Table /\ Bytes
  BY DEF MInv, SInv, RInv, IInv, TypeOK
<1>2. Tip(files) \in Nat
  BY <1>1, TipIsGreatest
<1>3. ASSUME NEW p \in Paths, NEW v \in Contents, files' = Uploaded(files, p, v), NEW q \in Paths, files'[q].live
      PROVE  files'[q].content # NoContent /\ files'[q].rev > 0
  <2>1. /\ files' \in Table
        /\ files'[p] = FileRow(files'[p].rev, v) /\ files'[p].rev > Tip(files)
        /\ \A w \in Paths \ (Conflicts(files, p) \cup {p}) : files'[w] = files[w]
        /\ \A w \in Conflicts(files, p) : files'[w] = Tombstone(files'[w].rev)
    BY <1>1, <1>3, Uploading
  <2>2. q \notin Conflicts(files, p)
    BY <1>3, <2>1, RowsLive
  <2>3. FileRow(files'[p].rev, v).content = v /\ files'[p].rev \in Nat
    BY <2>1 DEF FileRow, Table, Row
  <2>4. q = p => files'[q].content # NoContent /\ files'[q].rev > 0
    BY <1>2, <2>1, <2>3, NoContentIsNoContent
  <2> QED
    BY <1>1, <1>3, <2>1, <2>2, <2>4 DEF Bytes
<1>4. ASSUME NEW p \in Paths, NEW base, files' = Deleted(files, p, base), NEW q \in Paths, files'[q].live
      PROVE  files'[q] = files[q]
  <2> DEFINE gone == IF Late(files, p, base) = {} THEN Seen(files, p, base) \cup {p} ELSE Seen(files, p, base)
  <2>1. /\ \A w \in Paths \ gone : files'[w] = files[w]
        /\ \A w \in gone : files'[w] = Tombstone(files'[w].rev)
    BY <1>1, <1>4, Deleting
  <2>2. q \notin gone
    BY <1>4, <2>1, RowsLive
  <2> QED
    BY <2>1, <2>2
<1>5. UNCHANGED files => Bytes'
  BY <1>1 DEF Bytes
<1>6. (\E p \in Paths, v \in Contents : files' = Uploaded(files, p, v)) => Bytes'
  BY <1>3 DEF Bytes
<1>7. (\E p \in Paths : \E base : files' = Deleted(files, p, base)) => Bytes'
  BY <1>1, <1>4 DEF Bytes
<1> QED
  BY <1>1, <1>5, <1>6, <1>7, ServerRequests

(* No delete in the outbox is behind its row, as far as the cursor came.    *)
LEMMA DeleteBasesKept ==
  ASSUME MInv, Next
  PROVE  DeleteBases'
<1>1. /\ SInv /\ RInv /\ IInv /\ IInv' /\ FailedExcused /\ outbox \in Seq(OutboxOp) /\ outbox' \in Seq(OutboxOp)
      /\ saved \in Nat /\ saved' \in Nat /\ files \in Table /\ files' \in Table
      /\ CursorsWhole /\ ~AdvanceHalfWay
  BY IInvKept, NoHalfAdvance DEF MInv, SInv, RInv, IInv, TypeOK
<1>2. ASSUME NEW op \in ToSet(outbox'), op.op = "delete", op.path \notin Excused({"unqueued"})',
             ~(files'[op.path].rev > saved')
      PROVE  files'[op.path].rev <= op.base
  <2>1. op.path \in Paths /\ op.base \in Nat \cup {NoBase}
    <3>1. ToSet(outbox') \subseteq OutboxOp
      BY <1>1, Elements
    <3>2. op \in OutboxOp
      BY <1>2, <3>1
    <3> QED
      BY <3>2 DEF OutboxOp
  <2>2. op.path \notin Excused({"unqueued"})
    BY <1>2, ExcusedGrows DEF Excused
  <2>3. files'[op.path].rev \in Nat /\ files[op.path].rev \in Nat
    BY <1>1, <2>1 DEF Table, Row
  <2>4. files'[op.path].rev <= saved'
    BY <1>1, <1>2, <2>3
  <2>5. CASE op \in ToSet(outbox)
    <3>1. files[op.path].rev <= op.base \/ files[op.path].rev > saved
      BY <1>2, <2>2, <2>5 DEF MInv, DeleteBases
    <3>2. ~PluginPulls
      <4>1. PluginPulls => ToSet(outbox) = {}
        BY DEF PluginPulls, ToSet
      <4> QED
        BY <2>5, <4>1
    <3>3. ~(Advance /\ op.path = job.path)
      BY <2>5 DEF Advance, Applied, MInv, Alone, OutboxPaths, PathsOf
    <3>4. files'[op.path] = files[op.path] /\ files[op.path].rev <= saved
      BY <1>1, <2>1, <2>4, <3>2, <3>3, RowsPassed
    <3> QED
      BY <1>1, <2>3, <3>1, <3>4
  <2>6. CASE op \notin ToSet(outbox)
    <3>1. op \notin failed
      BY <1>1, <2>2 DEF FailedExcused, PathsOf
    <3>2. saved' = saved /\ op.base = saved
      BY <1>1, <1>2, <2>6, <3>1, NewDeletes
    <3> QED
      BY <2>4, <3>2
  <2> QED
    BY <2>5, <2>6
<1> QED
  BY <1>2 DEF DeleteBases

(* How the line that is applied comes to its stage.                        *)
LEMMA StageSteps ==
  ASSUME RInv, Next, pc' \in Applied \ {"rewrite"}
  PROVE  \/ pc' = "take" /\ \E line \in inbox : Takes(line) /\ \E bad : Inspect(line, bad)
         \/ pc' = "write" /\ Download
         \/ pc' = "record" /\ Write
         \/ pc' = "advance" /\ (Download \/ Record \/ ApplyRemoteDelete)
         \/ UNCHANGED <<pc, job, body, inbox, cursor, saved, outbox, tracker>>
<1>1. IInv /\ Inward'
  BY DEF RInv, Inward
<1>2. ~Fetch
  BY DEF Fetch, Applied
<1>3. \A line \in inbox : Takes(line) => pc' = "take"
  BY DEF Takes
<1>4. CASE Reading
  <2>1. (\E line \in inbox : DropLine(line)) \/ Advance \/ RewriteInbox => pc' \in {"apply", "rewrite"}
    BY DEF DropLine, Advance, RewriteInbox, Goto, tickVars
  <2>2. Download => pc' \in {"write", "advance"}
    BY DEF Download
  <2>3. Write => pc' \in {"save", "record"}
    BY DEF Write, Goto
  <2>4. Record \/ ApplyRemoteDelete => pc' = "advance"
    BY DEF Record, ApplyRemoteDelete
  <2> QED
    BY <1>4, <2>1, <2>2, <2>3, <2>4 DEF Reading, Applied
<1>5. UNCHANGED <<pc, job, body, inbox, cursor, saved>> =>
        UNCHANGED <<pc, job, body, inbox, cursor, saved, outbox, tracker>>
  BY ApplyingSteps
<1> QED
  BY <1>1, <1>2, <1>3, <1>4, <1>5, InwardSteps

(* The row of the line that is applied, if the line is still about it.     *)
LEMMA LineRow ==
  ASSUME RInv, CursorsWhole, Next, pc \in Applied \ {"rewrite"}, files'[job.path].rev = job.rev
  PROVE  files'[job.path] = files[job.path]
<1>1. job.path \in Paths /\ job.rev \in Nat /\ Tip(files) \in Nat /\ job.rev <= files[job.path].rev
      /\ files[job.path].rev <= Tip(files) /\ files[job.path].rev \in Nat
  BY LineAhead
<1>2. files'[job.path] = files[job.path] \/ files'[job.path].rev > Tip(files)
  BY <1>1, RowsRise DEF RInv
<1> QED
  BY <1>1, <1>2

(* Nothing is queued for the path of the line that is applied.             *)
LEMMA AloneKept ==
  ASSUME MInv, Next
  PROVE  Alone'
<1>1. ASSUME pc' \in Applied \ {"rewrite"} PROVE job'.path \notin PathsOf(ToSet(outbox'))
  <2>1. RInv /\ TypeOK /\ cursor \in Nat
    BY DEF MInv, SInv, RInv, IInv, TypeOK
  <2>2. ASSUME NEW line \in inbox, Takes(line), NEW bad, Inspect(line, bad), pc' = "take"
        PROVE  job'.path \notin PathsOf(ToSet(outbox'))
    <3> DEFINE dirty == Unobserved(line.path)
    <3>1. job' = line
      BY <2>2 DEF Takes
    <3>2. line.path \notin OutboxPaths
      BY <2>2 DEF Inspect, Deferred, Pending, Outgoing, Related
    <3>3. ReconcilePaths(tracker, dirty, bad, cursor) /\ Found(tracker, dirty) \ bad = {}
      BY <2>2 DEF Inspect, Goto
    <3> HIDE DEF dirty
    <3>4. Queued(Gone(tracker, dirty), Fresh(tracker, dirty), bad, cursor)
      BY <2>1, <3>3, LookQueues
    <3>5. \A op \in ToSet(outbox') : op \in ToSet(outbox)
      BY <3>3, <3>4 DEF Queued, Found
    <3> QED
      BY <3>1, <3>2, <3>5 DEF OutboxPaths, PathsOf
  <2>3. Download => UNCHANGED <<job, outbox>> /\ pc = "take"
    BY DEF Download, journals
  <2>4. Write /\ pc' = "record" => UNCHANGED <<job, outbox>> /\ pc = "write"
    BY DEF Write, Goto, journals
  <2>5. Record \/ ApplyRemoteDelete => UNCHANGED <<job, outbox>> /\ pc \in {"take", "record"}
    BY DEF Record, ApplyRemoteDelete, journals
  <2>6. UNCHANGED <<job, outbox>> /\ pc \in Applied \ {"rewrite"} => job'.path \notin PathsOf(ToSet(outbox'))
    BY DEF MInv, Alone, OutboxPaths
  <2> QED
    BY <1>1, <2>1, <2>2, <2>3, <2>4, <2>5, <2>6, StageSteps DEF Applied
<1> QED
  BY <1>1 DEF Alone, OutboxPaths

(* What was downloaded is what the row holds.                              *)
LEMMA FetchedKept ==
  ASSUME MInv, Next
  PROVE  Fetched'
<1>1. ASSUME pc' \in {"write", "record"}
      PROVE  /\ body' # NoContent
             /\ \A p \in Paths : p = job'.path /\ files'[p].rev = job'.rev => files'[p].content = body'
  <2>1. RInv /\ CursorsWhole /\ pc' \in Applied \ {"rewrite"}
    BY <1>1 DEF MInv, SInv, Applied
  <2>2. CASE Download /\ pc' = "write"
    <3>1. pc = "take" /\ UNCHANGED <<job, files>> /\ body' = files[job.path].content /\ files[job.path].live
      BY <2>2 DEF Download, serverVars
    <3>2. job.path \in Paths
      BY <2>1, <3>1, LineAhead DEF Applied
    <3> QED
      BY <3>1, <3>2 DEF MInv, Bytes
  <2>3. CASE Write /\ pc' = "record"
    <3>1. pc = "write" /\ UNCHANGED <<job, files, body>>
      BY <2>3 DEF Write, Goto, serverVars
    <3> QED
      BY <3>1 DEF MInv, Fetched
  <2>4. CASE UNCHANGED <<pc, job, body, inbox, cursor, saved>>
    <3>1. pc \in {"write", "record"} /\ pc \in Applied \ {"rewrite"}
      BY <1>1, <2>1, <2>4
    <3>2. files'[job.path].rev = job.rev => files'[job.path] = files[job.path]
      BY <2>1, <3>1, LineRow
    <3> QED
      BY <2>4, <3>1, <3>2 DEF MInv, Fetched
  <2> QED
    BY <1>1, <2>1, <2>2, <2>3, <2>4, StageSteps
<1> QED
  BY <1>1 DEF Fetched

(* Where a file comes down, no file is in its way that the cursor passed.  *)
LEMMA WayFreeKept ==
  ASSUME MInv, Next
  PROVE  WayFree'
<1>1. ASSUME pc' = "write", NEW q \in Above(job'.path), files'[q].live PROVE files'[q].rev > saved'
  <2>1. /\ RInv /\ IInv /\ CursorsWhole /\ Consistent(files) /\ pc' \in Applied \ {"rewrite"}
        /\ saved \in Nat /\ saved <= Tip(files)
    BY <1>1 DEF MInv, SInv, RInv, IInv, TypeOK, Applied, Cursors
  <2>2. q \in Paths /\ <<job'.path, q>> \in Under
    BY DEF Above
  <2>3. ASSUME Download PROVE FALSE
    <3>1. pc = "take" /\ UNCHANGED <<job, files>> /\ files[job.path].live
      BY <1>1, <2>3 DEF Download, serverVars
    <3>2. job.path \in Paths
      BY <2>1, <3>1, LineAhead DEF Applied
    <3> QED
      BY <1>1, <2>1, <2>2, <3>1, <3>2 DEF Consistent, Antichain
  <2>4. CASE UNCHANGED <<pc, job, body, inbox, cursor, saved>>
    <3>1. files'[q] = files[q] \/ files'[q].rev > Tip(files)
      BY <2>1, <2>2, RowsRise
    <3>2. Tip(files) \in Nat /\ files'[q].rev \in Nat
      BY <2>1, <2>2, RowsRise
    <3>3. files'[q] = files[q] => files[q].rev > saved
      BY <1>1, <2>4 DEF MInv, WayFree
    <3> QED
      BY <2>1, <2>4, <3>1, <3>2, <3>3
  <2> QED
    BY <1>1, <2>1, <2>3, <2>4, StageSteps
<1> QED
  BY <1>1 DEF WayFree

(* Nobody touches the path between the write and its record.               *)
LEMMA LandedKept ==
  ASSUME Quiet, MInv, Next
  PROVE  Landed'
<1>1. ASSUME pc' = "record", NEW p \in Paths, p = job'.path PROVE disk'[p] = body'
  <2>1. RInv /\ IInv /\ disk \in [Paths -> Known] /\ pc' \in Applied \ {"rewrite"}
    BY <1>1 DEF MInv, SInv, RInv, IInv, TypeOK, Applied
  <2>2. CASE Write
    <3>1. UNCHANGED <<job, body>>
          /\ disk' = [q \in Paths |-> IF q = job.path THEN body
                                      ELSE IF q \in Above(job.path) THEN NoContent ELSE disk[q]]
      BY <1>1, <2>2 DEF Write, Goto
    <3> QED
      BY <1>1, <3>1
  <2>3. CASE UNCHANGED <<pc, job, body, inbox, cursor, saved>>
    <3>1. pc = "record" /\ p = job.path /\ disk[p] = body
      BY <1>1, <2>3 DEF MInv, Landed
    <3>2. ASSUME NEW q \in Paths, Edit(q) PROVE disk'[p] = disk[p]
      <4>1. ~Related(job.path, q) /\ disk' = [disk EXCEPT ![q] = edits + 1]
        BY <3>1, <3>2 DEF Edit, Undisturbed
      <4> QED
        BY <2>1, <3>1, <4>1 DEF Related
    <3>3. ASSUME NEW q \in Paths, Erase(q) PROVE disk'[p] = disk[p]
      <4>1. /\ \A u \in {q} \cup Below(q) : ~Related(job.path, u)
            /\ disk' = [u \in Paths |-> IF u \in {q} \cup Below(q) THEN NoContent ELSE disk[u]]
        BY <3>1, <3>3 DEF Erase, Undisturbed
      <4> QED
        BY <3>1, <4>1 DEF Related
    <3>4. /\ ~Write /\ ~ApplyRemoteDelete /\ ~PluginPulls /\ ~\E q \in Paths : SaveInObsidian(q)
          /\ ~\E renamed \in BOOLEAN : WriteHalfWay(renamed)
          /\ ~\E gone \in SUBSET Paths : DeleteHalfWay(gone)
      BY <3>1 DEF Write, WriteHalfWay, ApplyRemoteDelete, DeleteHalfWay, PluginPulls, SaveInObsidian, PluginAwake
    <3> QED
      BY <2>1, <2>3, <3>1, <3>2, <3>3, <3>4, VaultSteps
  <2> QED
    BY <1>1, <2>1, <2>2, <2>3, StageSteps
<1> QED
  BY <1>1 DEF Landed

(* The cursor reaches a line when disk and tracker are as its row.         *)
LEMMA RecordedKept ==
  ASSUME MInv, Next
  PROVE  Recorded'
<1>1. ASSUME pc' = "advance", NEW p \in Paths, p = job'.path, files'[p].rev = job'.rev
      PROVE  /\ Foreign(disk[p])' => disk'[p] = files'[p].content
             /\ p \in Watched => tracker'[p].hash = files'[p].content
  <2>1. /\ SInv /\ RInv /\ IInv /\ CursorsWhole /\ Consistent(files) /\ pc' \in Applied \ {"rewrite"}
        /\ disk \in [Paths -> Known] /\ tracker \in [Paths -> Entry] /\ ~Foreign(NoContent)
    BY <1>1, NoForeign DEF MInv, SInv, RInv, IInv, TypeOK, Applied
  <2>2. ASSUME Download PROVE FALSE
    <3>1. pc = "take" /\ job.op = "put" /\ UNCHANGED <<job, files>> /\ ~files[job.path].live
      BY <1>1, <2>2 DEF Download, serverVars
    <3> QED
      BY <1>1, <2>1, <3>1, LineAhead DEF Applied
  <2>3. CASE Record
    <3>1. pc = "record" /\ UNCHANGED <<job, files, disk>>
      BY <2>3 DEF Record, serverVars
    <3>2. disk[p] = body /\ body # NoContent /\ files[p].content = body
      BY <1>1, <3>1 DEF MInv, Fetched, Landed
    <3>3. p \in Watched => tracker'[p] = [hash |-> body, seen |-> disk[p]]
      BY <1>1, <2>1, <2>3, <3>1, <3>2 DEF Record, IsFile
    <3> QED
      BY <3>1, <3>2, <3>3
  <2>4. CASE ApplyRemoteDelete
    <3>1. /\ pc = "take" /\ job.op = "delete" /\ UNCHANGED <<job, files, remotes>>
          /\ disk' = [q \in Paths |-> IF q \in {job.path} \cup Below(job.path) THEN NoContent ELSE disk[q]]
          /\ tracker' = Forget(tracker, {job.path} \cup Below(job.path))
      BY <2>4 DEF ApplyRemoteDelete, serverVars
    <3>2. files[p].content = NoContent
      BY <1>1, <2>1, <3>1, LineAhead DEF Applied, Consistent
    <3>3. disk'[p] = NoContent /\ ~Foreign(disk[p])'
      BY <1>1, <2>1, <3>1 DEF Foreign
    <3>4. \A s : p \in s => Forget(tracker, s)[p].hash = NoContent
      BY <1>1, <2>1, Hashes
    <3>5. tracker'[p].hash = NoContent
      BY <1>1, <3>1, <3>4
    <3> QED
      BY <3>1, <3>2, <3>3, <3>5
  <2>5. CASE UNCHANGED <<pc, job, body, inbox, cursor, saved, outbox, tracker>>
    <3>1. pc = "advance" /\ p = job.path /\ files'[p] = files[p]
      BY <1>1, <2>1, <2>5, LineRow DEF Applied
    <3>2. Foreign(disk[p]) => disk[p] = files[p].content
      BY <1>1, <2>5, <3>1 DEF MInv, Recorded
    <3>3. p \in Watched => tracker[p].hash = files[p].content
      BY <1>1, <2>5, <3>1 DEF MInv, Recorded
    <3>4. ~Lands(p) /\ ~Tears(p) /\ ~PluginPulls
      BY <3>1 DEF Lands, Write, Tears, WriteHalfWay, PluginPulls, PluginAwake
    <3> QED
      BY <2>1, <2>5, <3>1, <3>2, <3>3, <3>4, ForeignSteps
  <2> QED
    BY <1>1, <2>1, <2>2, <2>3, <2>4, <2>5, StageSteps
<1> QED
  BY <1>1 DEF Recorded

(* Bytes of another device are replaced when the cursor passes their row.  *)
LEMMA FixedKept ==
  ASSUME MInv, Next
  PROVE  Fixed'
<1>1. ASSUME NEW p \in Paths, Foreign(disk[p])', files'[p].rev <= saved' PROVE disk'[p] = files'[p].content
  <2>1. /\ SInv /\ RInv /\ IInv /\ CursorsWhole /\ ~AdvanceHalfWay
        /\ files[p].rev \in Nat /\ saved \in Nat /\ ~Foreign(NoContent)
    BY NoForeign, NoHalfAdvance DEF MInv, SInv, RInv, IInv, TypeOK, Table, Row
  <2>2. files'[p] = files[p]
    BY <1>1, <2>1, RowsPassed
  <2>3. CASE PluginPulls
    <3>1. /\ UNCHANGED remotes
          /\ disk' = [q \in Paths |-> IF files[q].rev > saved THEN files[q].content
                                      ELSE IF \E u \in {w \in Paths : files[w].rev > saved} : Related(q, u)
                                           THEN NoContent ELSE disk[q]]
      BY <2>3 DEF PluginPulls, serverVars
    <3>2. files[p].rev > saved => disk'[p] = files[p].content
      BY <3>1
    <3>3. ASSUME ~(files[p].rev > saved) PROVE disk'[p] = files[p].content
      <4>1. disk'[p] \in {NoContent, disk[p]}
        BY <3>1, <3>3
      <4>2. disk'[p] = disk[p] /\ Foreign(disk[p])
        BY <1>1, <2>1, <3>1, <4>1 DEF Foreign
      <4> QED
        BY <2>1, <3>3, <4>2 DEF MInv, Fixed
    <3> QED
      BY <2>2, <3>2, <3>3
  <2>4. CASE ~PluginPulls
    <3>1. files[p].rev <= saved \/ (Advance /\ p = job.path /\ files[p].rev = job.rev)
      BY <1>1, <2>1, <2>4, RowsPassed
    <3>2. ~Lands(p) /\ ~Tears(p)
      <4>1. Lands(p) \/ Tears(p) => pc = "write" /\ p = job.path
        BY DEF Lands, Write, Tears, WriteHalfWay
      <4>2. pc = "write" /\ p = job.path => ~(files[p].rev <= saved)
        BY <2>1, LineAhead DEF Applied
      <4>3. Advance => pc = "advance"
        BY DEF Advance
      <4> QED
        BY <3>1, <4>1, <4>2, <4>3
    <3>3. Foreign(disk[p]) /\ disk'[p] = disk[p]
      BY <1>1, <2>1, <2>4, <3>2, ForeignSteps
    <3>4. files[p].rev <= saved => disk[p] = files[p].content
      BY <3>3 DEF MInv, Fixed
    <3>5. Advance /\ p = job.path /\ files[p].rev = job.rev => disk[p] = files[p].content
      BY <3>3 DEF Advance, MInv, Recorded
    <3> QED
      BY <2>2, <3>1, <3>3, <3>4, <3>5
  <2> QED
    BY <2>3, <2>4
<1> QED
  BY <1>1 DEF Fixed

(* An operation is struck when nothing is lost by that.                    *)
LEMMA StrikingKept ==
  ASSUME MInv, Next
  PROVE  Striking'
<1>1. ASSUME pc' = "ack", NEW p \in Paths, p = job'.path, Passed(p)'
      PROVE  /\ job'.op = "delete" => files'[p].content = NoContent
             /\ job'.op = "put" =>
                  /\ Knows(tracker[p].hash, p)'
                  /\ manifest' # NoManifest /\ manifest'.rev = saved' => Knows(manifest.files[p].hash, p)'
  <2>1. SInv /\ RInv /\ IInv /\ CursorsWhole /\ ~AdvanceHalfWay /\ outbox \in Seq(OutboxOp)
    BY NoHalfAdvance DEF MInv, SInv, RInv, IInv, TypeOK
  <2>2. ~Advance /\ ~PluginPulls /\ ~Acknowledge /\ ~PluginPushes
    <3>1. PluginPulls \/ PluginPushes => pc \in {"paused", "down"} /\ pc' = pc
      BY DEF PluginPulls, PluginPushes, PluginAwake, tickVars
    <3> QED
      BY <1>1, <3>1 DEF Advance, Acknowledge, Goto
  <2>3. files'[p] = files[p] /\ files[p].rev <= saved /\ Settled(p) /\ Passed(p)
    BY <1>1, <2>1, <2>2, RowsPassed, SettledBefore DEF Passed
  <2>4. CASE Push(TRUE)
    <3>1. /\ outbox # <<>> /\ Requested(Head(outbox), TRUE) /\ job' = Head(outbox) /\ saved' = saved
          /\ Head(outbox).op = "put" => IsFile(disk, Head(outbox).path)
      BY <2>4 DEF Push
    <3>2. Head(outbox) \in ToSet(outbox)
      BY <2>1, <3>1, Elements
    <3>3. PICK op \in ToSet(outbox) : op = Head(outbox)
      BY <3>2
    <3>4. p = op.path
      BY <1>1, <3>1, <3>3
    <3>5. op.op = "delete" /\ files[op.path].content = NoContent
      BY <1>1, <2>3, <3>1, <3>3, <3>4, PushEffect
    <3> QED
      BY <2>3, <3>1, <3>3, <3>4, <3>5
  <2>5. CASE SkipPut
    <3>1. /\ pc = "drain" /\ job' = Head(outbox) /\ job'.op = "put" /\ disk[p] = NoContent
          /\ UNCHANGED <<files, disk, outbox, saved, manifest, tracker>>
      BY <1>1, <2>5 DEF SkipPut, IsFile, serverVars, journals, memory
    <3>2. \A h : Told(h, p) => Knows(h, p)
      BY <3>1 DEF Told, Knows
    <3>3. Knows(tracker[p].hash, p)
      BY <2>3, <3>1, <3>2 DEF MInv, InTracker, Telling
    <3>4. manifest # NoManifest /\ manifest.rev = saved => Knows(manifest.files[p].hash, p)
      BY <2>3, <3>2 DEF MInv, InManifest, Telling
    <3> QED
      BY <3>1, <3>3, <3>4 DEF Knows, DeleteQueued
  <2>7. CASE SkipUnseen
    <3>1. <<"unqueued", p>> \in excused'
      BY <1>1, <2>7 DEF SkipUnseen
    <3> QED
      BY <1>1, <3>1 DEF Passed, Settled, Excused
  <2>6. CASE UNCHANGED <<pc, job, tracker, manifest>>
    <3>1. pc = "ack" /\ p = job.path
      BY <1>1, <2>6
    <3>2. saved' = saved
      BY <2>1, <2>2, CursorSteps
    <3>3. DeleteQueued(p) => DeleteQueued(p)'
      <4>1. \A op \in ToSet(outbox) : op \in ToSet(outbox')
        BY <2>1, <2>2, LinesLeave
      <4> QED
        BY <4>1 DEF DeleteQueued
    <3>4. ASSUME NEW h \in Written, Knows(h, p) PROVE Knows(h, p)'
      BY <2>1, <2>2, <2>3, <3>3, <3>4, KnowsStays
    <3>5. ASSUME job.op = "put" PROVE Knows(tracker[p].hash, p)'
      <4>1. PICK h \in Written : h = tracker[p].hash
        BY DEF MInv, Entries
      <4>2. Knows(h, p)'
        BY <2>3, <3>1, <3>4, <3>5, <4>1 DEF MInv, Striking
      <4> QED
        BY <2>6, <4>1, <4>2
    <3>6. ASSUME job.op = "put", manifest # NoManifest, manifest.rev = saved
          PROVE  Knows(manifest.files[p].hash, p)'
      <4>1. PICK h \in Written : h = manifest.files[p].hash
        BY <3>6 DEF MInv, Entries
      <4>2. Knows(h, p)'
        BY <2>3, <3>1, <3>4, <3>6, <4>1 DEF MInv, Striking
      <4> QED
        BY <2>6, <4>1, <4>2
    <3>7. job.op = "delete" => files[p].content = NoContent
      BY <2>3, <3>1 DEF MInv, Striking
    <3> QED
      BY <2>3, <2>6, <3>2, <3>5, <3>6, <3>7
  <2> QED
    BY <1>1, <2>4, <2>5, <2>6, <2>7, AckSteps
<1> QED
  BY <1>1 DEF Striking
(* The client is down; a file of the archive is as its row.                *)
LEMMA MInvInitially == CursorsWhole /\ Init => MInv
<1> SUFFICES ASSUME CursorsWhole, Init PROVE MInv
  OBVIOUS
<1>1. SInv /\ RInv /\ IInv
  BY SInvInitially DEF SInv, RInv
<1>2. /\ manifest = NoManifest /\ pc = "down" /\ outbox = <<>>
      /\ \A p \in Paths : tracker[p] = NoEntry
  BY DEF Init
<1>3. PICK s \in {{}} \cup {{p} : p \in Paths} :
        /\ disk = [p \in Paths |-> IF p \in s THEN -1 ELSE NoContent]
        /\ files = [p \in Paths |-> IF p \in s THEN FileRow(1, -1) ELSE NoRow]
        /\ remotes = Cardinality(s)
  BY DEF Init
<1>4. ~Foreign(NoContent)
  BY <1>1, NoForeign
<1>5. Entries /\ Exact(tracker)
  BY <1>2 DEF Entries, Written, Exact, NoEntry
<1>6. ToSet(outbox) = {}
  BY <1>2 DEF ToSet
<1>7. Bytes /\ Fixed
  <2>1. \A p \in s : -1 # NoContent
    <3>1. s = {} \/ Cardinality(s) = 1
      BY FS_Singleton
    <3>2. s # {} => Foreign(-1)
      BY <1>3, <3>1 DEF Foreign
    <3> QED
      BY <1>4, <3>2
  <2>2. \A p \in Paths : IF p \in s THEN files[p] = FileRow(1, -1) /\ disk[p] = -1
                                    ELSE files[p] = NoRow /\ disk[p] = NoContent
    BY <1>3
  <2> QED
    BY <1>4, <2>1, <2>2 DEF Bytes, Fixed, FileRow, NoRow
<1>8. DeleteBases
  BY <1>6 DEF DeleteBases
<1>9. InTracker /\ InManifest /\ Striking
  BY <1>2 DEF InTracker, InManifest, Striking
<1>10. Alone /\ Fetched /\ WayFree /\ Landed /\ Recorded
  BY <1>2 DEF Alone, Applied, Fetched, WayFree, Landed, Recorded
<1> QED
  BY <1>1, <1>2, <1>5, <1>7, <1>8, <1>9, <1>10 DEF MInv

(* Each part by its own lemma; a stutter changes nothing it speaks of.     *)
LEMMA MInvKept == Quiet /\ MInv /\ [Next]_vars => MInv'
<1>1. CASE Quiet /\ MInv /\ Next
  <2>1. SInv' /\ Entries'
    BY <1>1, SInvKept, EntriesKept DEF MInv, SInv, RInv
  <2>2. Bytes' /\ Fixed' /\ DeleteBases'
    BY <1>1, BytesKept, FixedKept, DeleteBasesKept
  <2>3. Exact(tracker)' /\ (manifest' # NoManifest => Exact(manifest.files)')
    BY <1>1, ExactKept
  <2>4. InTracker' /\ InManifest' /\ Striking'
    BY <1>1, InTrackerKept, InManifestKept, StrikingKept
  <2>5. Alone' /\ Fetched' /\ WayFree' /\ Landed' /\ Recorded'
    BY <1>1, AloneKept, FetchedKept, WayFreeKept, LandedKept, RecordedKept
  <2>6. CursorsWhole
    BY <1>1 DEF MInv
  <2> QED
    BY <2>1, <2>2, <2>3, <2>4, <2>5, <2>6 DEF MInv
<1>2. CASE MInv /\ UNCHANGED vars
  <2>1. SInv' /\ CursorsWhole
    BY <1>2, SInvKept DEF MInv
  <2> USE DEF vars, serverVars, journals, memory, tickVars, history, counters
  <2>2. \A p \in Paths : Foreign(disk[p])' = Foreign(disk[p])
    BY <1>2 DEF Foreign
  <2>3. \A p \in Paths : Passed(p)' = Passed(p)
    BY <1>2 DEF Passed, Settled, Excused
  <2>4. \A p \in Paths : PutQueued(p)' = PutQueued(p) /\ DeleteQueued(p)' = DeleteQueued(p)
    BY <1>2 DEF PutQueued, DeleteQueued
  <2>5. \A p \in Paths : /\ Told(tracker[p].hash, p)' = Told(tracker[p].hash, p)
                         /\ Knows(tracker[p].hash, p)' = Knows(tracker[p].hash, p)
                         /\ Told(manifest.files[p].hash, p)' = Told(manifest.files[p].hash, p)
                         /\ Knows(manifest.files[p].hash, p)' = Knows(manifest.files[p].hash, p)
    BY <1>2, <2>4 DEF Told, Knows
  <2>6. Entries' /\ Bytes' /\ Fixed' /\ DeleteBases'
    BY <1>2, <2>2 DEF MInv, Entries, Written, Bytes, Fixed, DeleteBases, Excused
  <2>7. Exact(tracker)' /\ (manifest' # NoManifest => Exact(manifest.files)')
    BY <1>2 DEF MInv, Exact
  <2>8. InTracker' /\ InManifest' /\ Striking'
    BY <1>2, <2>3, <2>5 DEF MInv, InTracker, InManifest, Striking, Telling
  <2>9. Alone' /\ Fetched' /\ WayFree' /\ Landed' /\ Recorded'
    BY <1>2, <2>2, WatchedPaths DEF MInv, Alone, OutboxPaths, PathsOf, Fetched, WayFree, Landed, Recorded
  <2> QED
    BY <2>1, <2>6, <2>7, <2>8, <2>9 DEF MInv
<1> QED
  BY <1>1, <1>2

(* At rest, a row that the cursor has passed and that nothing is queued    *)
(* for is the tracker's, so the disk has it or a scan finds out.           *)
LEMMA TrackerAtRest == MInv => ManifestInSync
<1> SUFFICES ASSUME MInv, pc = "idle",
                    NEW p \in Watched \ (Outgoing \cup dead \cup Excused({"adopted", "torn", "unqueued"})),
                    files[p].rev <= cursor
             PROVE  InSync(p) \/ p \in Changed(tracker, disk) \cup Missing(tracker, disk)
  BY DEF ManifestInSync
<1>1. p \in Paths /\ Passed(p)
  BY WatchedPaths DEF MInv, SInv, RInv, Cursors, CursorsWhole, Live, Passed, Settled
<1>2. ~PutQueued(p) /\ ~DeleteQueued(p)
  BY DEF PutQueued, DeleteQueued, Outgoing, OutboxPaths, PathsOf
<1>3. /\ tracker[p].hash = files[p].content \/ (tracker[p].hash # NoContent /\ tracker[p].hash # disk[p])
      /\ tracker[p].hash = tracker[p].seen
  BY <1>1, <1>2 DEF MInv, InTracker, Telling, Told, Knows, Exact
<1>4. CASE tracker[p].hash = disk[p]
  BY <1>3, <1>4 DEF InSync
<1>5. CASE tracker[p].hash # disk[p] /\ IsFile(disk, p)
  BY <1>3, <1>5 DEF Changed, Moved
<1>6. CASE tracker[p].hash # disk[p] /\ ~IsFile(disk, p)
  BY <1>1, <1>6 DEF Missing, Tracked, IsFile
<1> QED
  BY <1>4, <1>5, <1>6

(* At rest the client's last known state is true: a path that its cursor   *)
(* has passed, with no change of it under way, is on the disk as it is on  *)
(* the server, or the next scan finds that it is not; through every        *)
(* failure, crash and restart, and with Obsidian opened in between.        *)
(* Nobody edits a path between the look at it, the write of it and the     *)
(* stat that follows (Quiet), and no save of data.json fails when it is    *)
(* done already.  Excused are edits that a new baseline took over, bytes   *)
(* that a crash left outside the manifest or a failure outside the         *)
(* tracker, changes whose append failed or whose put was struck unseen,    *)
(* and operations the server refused for good (dead).                      *)
THEOREM ManifestInSyncHolds == Quiet /\ "cursor" \notin Faults => (Spec => []ManifestInSync)
<1> SUFFICES ASSUME Quiet, "cursor" \notin Faults PROVE Spec => []ManifestInSync
  OBVIOUS
<1>3. CursorsWhole
  BY DEF CursorsWhole
<1>1. MInv /\ [Next]_vars => MInv'
  BY MInvKept
<1>2. MInv => ManifestInSync
  BY TrackerAtRest
<1>4. Init => MInv
  BY <1>3, MInvInitially
<1> QED
  BY <1>1, <1>2, <1>4, PTL DEF Spec
=============================================================================
