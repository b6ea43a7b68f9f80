-------------------------- MODULE PluginSyncProofs --------------------------
(***************************************************************************)
(* Theorems about PluginSync, for every set of paths and every bound: the  *)
(* types, that the device's server keeps what the store promises, what an  *)
(* inbound change does to a path with a local change on its way out, that  *)
(* no unsent edit is lost, and that the cursor passes nothing unseen.      *)
(***************************************************************************)
EXTENDS PluginSync, FiniteSetTheorems, SequenceTheorems, WellFoundedInduction, TLAPS

-----------------------------------------------------------------------------
(* VaultOps: the operations of the store.                                  *)

(* A finite set of numbers that is not empty has a greatest element.       *)
LEMMA Greatest ==
  ASSUME NEW S \in SUBSET Nat, IsFiniteSet(S), S # {}
  PROVE  Max(S) \in S /\ \A n \in S : n <= Max(S)
<1> DEFINE Topped(T) == \E m \in T : \A n \in T : n <= m
           Sizes == {Cardinality(T) : T \in {U \in SUBSET S : U # {} /\ ~Topped(U)}}
           R == {ss \in Nat \X Nat : ss[1] < ss[2]}
<1>1. Topped(S)
  <2> SUFFICES ASSUME ~Topped(S) PROVE FALSE
    OBVIOUS
  <2>1. Sizes \subseteq Nat /\ Sizes # {}
    <3>1. \A T \in SUBSET S : Cardinality(T) \in Nat
      BY FS_Subset, FS_CardinalityType
    <3>2. Cardinality(S) \in Sizes
      OBVIOUS
    <3> QED
      BY <3>1, <3>2
  <2>2. IsWellFoundedOn(R, Nat)
    BY NatLessThanWellFounded DEF OpToRel
  <2>3. PICK k \in Sizes : \A j \in Sizes : <<j, k>> \notin R
    <3> HIDE DEF Sizes, R
    <3> QED
      BY <2>1, <2>2, WFMin
  <2>4. PICK T \in SUBSET S : T # {} /\ ~Topped(T) /\ k = Cardinality(T)
    BY <2>3
  <2>5. IsFiniteSet(T)
    BY <2>4, FS_Subset
  <2>6. PICK x \in T : TRUE
    BY <2>4
  <2> DEFINE U == T \ {x}
  <2>7. IsFiniteSet(U) /\ Cardinality(U) = k - 1 /\ Cardinality(U) \in Nat /\ k \in Nat
    BY <2>4, <2>5, <2>6, FS_RemoveElement, FS_CardinalityType
  <2>8. U \in SUBSET S
    BY <2>4
  <2>9. U = {} \/ Topped(U)
    <3> SUFFICES ASSUME U # {}, ~Topped(U) PROVE FALSE
      OBVIOUS
    <3>1. Cardinality(U) \in Sizes
      BY <2>8
    <3>2. <<Cardinality(U), k>> \notin R
      BY <2>3, <3>1
    <3> HIDE DEF U
    <3>3. Cardinality(U) < k
      BY <2>7
    <3>4. <<Cardinality(U), k>> \in R
      BY <2>7, <3>3
    <3> QED
      BY <3>2, <3>4
  <2>10. CASE U = {}
    <3>1. T = {x} /\ x \in Nat
      BY <2>4, <2>6, <2>10
    <3> QED
      BY <2>4, <3>1
  <2>11. CASE Topped(U)
    <3>1. PICK m \in U : \A n \in U : n <= m
      BY <2>11
    <3>2. m \in T /\ m \in Nat /\ x \in Nat /\ \A n \in T : n \in Nat
      BY <2>4, <2>6, <3>1
    <3>3. (\A n \in T : n <= m) \/ (\A n \in T : n <= x)
      BY <3>1, <3>2
    <3> QED
      BY <2>4, <2>6, <3>2, <3>3
  <2> QED
    BY <2>9, <2>10, <2>11
<1>2. \E m \in S : \A n \in S : m >= n
  BY <1>1
<1> HIDE DEF Topped, Sizes, R
<1>3. Max(S) \in S /\ \A n \in S : Max(S) >= n
  BY <1>2 DEF Max
<1> QED
  BY <1>3

(* The tip is the greatest revision of a row.                              *)
LEMMA TipIsGreatest ==
  ASSUME NEW t \in Table
  PROVE  /\ Tip(t) \in Nat
         /\ \A p \in Paths : t[p].rev \in Nat /\ t[p].rev <= Tip(t)
         /\ Tip(t) = 0 \/ \E p \in Paths : t[p].rev = Tip(t)
<1> DEFINE revs == {t[p].rev : p \in Paths}
           f == [p \in Paths |-> t[p].rev]
           S == {0} \cup revs
<1>1. \A p \in Paths : t[p].rev \in Nat
  BY DEF Table, Row
<1>2. IsFiniteSet(revs)
  <2>1. f \in Surjection(Paths, revs)
    BY DEF Surjection
  <2> HIDE DEF f, revs
  <2> QED
    BY <2>1, PathsFinite, FS_Surjection
<1>3. S \in SUBSET Nat /\ S # {}
  BY <1>1
<1>4. IsFiniteSet(S)
  <2>1. S = revs \cup {0}
    OBVIOUS
  <2> HIDE DEF revs, S
  <2> QED
    BY <1>2, <2>1, FS_AddElement
<1>5. Max(S) \in S /\ \A n \in S : n <= Max(S)
  <2> HIDE DEF S
  <2> QED
    BY <1>3, <1>4, Greatest
<1>6. Tip(t) = Max(S)
  BY DEF Tip
<1> HIDE DEF S
<1>7. Tip(t) \in S /\ \A n \in S : n <= Tip(t)
  BY <1>5, <1>6
<1> QED
  BY <1>1, <1>3, <1>7 DEF S

(* Everything up to the tip has been drawn.                                *)
LEMMA ReachedIsTip ==
  ASSUME NEW t \in Table, NEW p \in Paths
  PROVE  Reached(t) = 0 .. Tip(t)
<1>1. Tip(t) = 0 \/ \E q \in Paths : t[q].rev = Tip(t)
  BY TipIsGreatest
<1>2. \A q \in Paths : t[q].rev \in Nat /\ t[q].rev <= Tip(t)
  BY TipIsGreatest
<1>3. Tip(t) \in Nat
  BY TipIsGreatest
<1>4. \E q \in Paths : Tip(t) \in 0 .. t[q].rev
  BY <1>1, <1>2, <1>3
<1>5. \A r : r \in 0 .. Tip(t) => \E q \in Paths : r \in 0 .. t[q].rev
  BY <1>2, <1>3, <1>4
<1>6. \A r : (\E q \in Paths : r \in 0 .. t[q].rev) => r \in 0 .. Tip(t)
  BY <1>2, <1>3
<1> QED
  BY <1>5, <1>6 DEF Reached

(* A sequence of a set's elements, each at one place.                      *)
LEMMA Ordering ==
  ASSUME NEW s \in SUBSET Paths
  PROVE  /\ Cardinality(s) \in Nat
         /\ SetToSeq(s) \in [1 .. Cardinality(s) -> s]
         /\ Len(SetToSeq(s)) = Cardinality(s) /\ SetToSeq(s) \in Seq(s)
         /\ \A q \in s : LET i == SelectInSeq(SetToSeq(s), LAMBDA x : x = q)
                         IN  i \in 1 .. Cardinality(s) /\ SetToSeq(s)[i] = q
<1>1. IsFiniteSet(s) /\ Cardinality(s) \in Nat /\ ExistsBijection(1 .. Cardinality(s), s)
  BY PathsFinite, FS_Subset, FS_CardinalityType
<1> DEFINE n == Cardinality(s)
           o == SetToSeq(s)
<1>2. \E f \in [1 .. n -> s] : IsInjective(f)
  BY <1>1 DEF ExistsBijection, Bijection, Injection
<1>3. o \in [1 .. n -> s] /\ IsInjective(o)
  BY <1>2 DEF SetToSeq
<1> HIDE DEF o
<1>4. o \in Injection(1 .. n, s) /\ IsFiniteSet(1 .. n) /\ Cardinality(1 .. n) = n
  BY <1>1, <1>3, FS_Interval DEF Injection
<1>5. o \in Surjection(1 .. n, s)
  BY <1>1, <1>4, FS_Injection
<1>6. o \in Seq(s) /\ Len(o) = n
  BY <1>1, <1>3
<1>7. ASSUME NEW q \in s
      PROVE  LET i == SelectInSeq(o, LAMBDA x : x = q)
             IN  i \in 1 .. n /\ o[i] = q
  <2>1. PICK k \in 1 .. n : o[k] = q
    BY <1>5 DEF Surjection
  <2> DEFINE I == {i \in 1 .. Len(o) : o[i] = q}
  <2>2. k \in I /\ \A i, j \in I : i = j
    BY <1>3, <1>6, <2>1 DEF IsInjective
  <2>3. I = {k}
    BY <2>2
  <2> HIDE DEF I
  <2>4. Min(I) = k
    BY <1>1, <2>1, <2>3 DEF Min
  <2>5. SelectInSeq(o, LAMBDA x : x = q) = Min(I)
    BY <2>3 DEF SelectInSeq, I
  <2> QED
    BY <2>1, <2>4, <2>5
<1> QED
  BY <1>1, <1>3, <1>6, <1>7 DEF o

(* Rows that are buried take the revisions from r on, each its own.        *)
LEMMA Burying ==
  ASSUME NEW t \in Table, NEW s \in SUBSET Paths, NEW r \in Nat
  PROVE  LET b == Bury(t, s, r)
         IN  /\ b \in Table
             /\ \A q \in Paths \ s : b[q] = t[q]
             /\ \A q \in s : /\ b[q] = Tombstone(b[q].rev)
                             /\ b[q].rev >= r /\ b[q].rev < r + Cardinality(s)
             /\ \A q, u \in s : b[q].rev = b[u].rev => q = u
<1> DEFINE b == Bury(t, s, r)
           at(q) == SelectInSeq(SetToSeq(s), LAMBDA x : x = q)
<1>1. /\ Cardinality(s) \in Nat
      /\ \A q \in s : at(q) \in 1 .. Cardinality(s) /\ SetToSeq(s)[at(q)] = q
  BY Ordering
<1>2. \A q \in Paths : b[q] = IF q \in s THEN Tombstone(r + at(q) - 1) ELSE t[q]
  BY DEF Bury
<1>3. b \in [Paths -> {b[q] : q \in Paths}]
  BY DEF Bury
<1> HIDE DEF b, at
<1>4. ASSUME NEW q \in s
      PROVE  /\ b[q] = Tombstone(r + at(q) - 1) /\ b[q].rev = r + at(q) - 1
             /\ b[q].rev \in Nat /\ b[q].rev >= r /\ b[q].rev < r + Cardinality(s)
             /\ b[q] \in Row
  <2>1. b[q] = Tombstone(r + at(q) - 1)
    BY <1>2
  <2>2. b[q].rev = r + at(q) - 1
    BY <2>1 DEF Tombstone
  <2>3. at(q) \in Nat /\ at(q) >= 1 /\ at(q) <= Cardinality(s)
    BY <1>1
  <2>4. b[q].rev \in Nat /\ b[q].rev >= r /\ b[q].rev < r + Cardinality(s)
    BY <1>1, <2>2, <2>3
  <2> QED
    BY <2>1, <2>2, <2>4 DEF Tombstone, Row
<1>5. ASSUME NEW q \in s, NEW u \in s, b[q].rev = b[u].rev
      PROVE  q = u
  <2>1. at(q) = at(u)
    BY <1>1, <1>4, <1>5
  <2> QED
    BY <1>1, <2>1
<1>6. \A q \in Paths : b[q] \in Row
  BY <1>2, <1>4 DEF Table
<1>7. b \in Table
  BY <1>3, <1>6 DEF Table
<1> QED
  BY <1>2, <1>4, <1>5, <1>7 DEF b

(* An upload: what is in the way is buried, the file comes last.           *)
LEMMA Uploading ==
  ASSUME NEW t \in Table, NEW p \in Paths, NEW v \in Contents
  PROVE  LET u == Uploaded(t, p, v)
             hit == Conflicts(t, p)
         IN  /\ u \in Table /\ Tip(u) > Tip(t)
             /\ u[p] = FileRow(u[p].rev, v) /\ u[p].rev > Tip(t)
             /\ hit \subseteq Paths \ {p}
             /\ \A q \in Paths \ (hit \cup {p}) : u[q] = t[q]
             /\ \A q \in hit : /\ u[q] = Tombstone(u[q].rev)
                               /\ u[q].rev > Tip(t) /\ u[q].rev < u[p].rev
             /\ \A q, w \in hit : u[q].rev = u[w].rev => q = w
<1> DEFINE u == Uploaded(t, p, v)
           hit == Conflicts(t, p)
           b == Bury(t, hit, Tip(t) + 1)
           rev == Tip(t) + Cardinality(hit) + 1
<1>1. hit \in SUBSET Paths /\ p \notin hit
  BY UnderIsStrictOrder DEF Conflicts, Above, Below
<1>2. Tip(t) \in Nat /\ Tip(t) + 1 \in Nat
  BY TipIsGreatest
<1>3. /\ b \in Table
      /\ \A q \in Paths \ hit : b[q] = t[q]
      /\ \A q \in hit : /\ b[q] = Tombstone(b[q].rev)
                        /\ b[q].rev >= Tip(t) + 1 /\ b[q].rev < Tip(t) + 1 + Cardinality(hit)
      /\ \A q, w \in hit : b[q].rev = b[w].rev => q = w
  <2> HIDE DEF hit
  <2> QED
    BY <1>1, <1>2, Burying
<1>4. Cardinality(hit) \in Nat
  <2> HIDE DEF hit
  <2> QED
    BY <1>1, Ordering
<1>5. u = [b EXCEPT ![p] = FileRow(rev, v)]
  BY DEF Uploaded
<1> HIDE DEF u, hit, b
<1>6. rev \in Nat /\ rev > Tip(t)
  BY <1>2, <1>4
<1>7. FileRow(rev, v) \in Row /\ FileRow(rev, v).rev = rev
  BY <1>6 DEF FileRow, Row
<1>8. u \in Table /\ u[p] = FileRow(rev, v) /\ \A q \in Paths \ {p} : u[q] = b[q]
  BY <1>3, <1>5, <1>7 DEF Table
<1>9. \A q \in hit : u[q] = b[q] /\ b[q].rev \in Nat
  BY <1>1, <1>3, <1>8 DEF Table, Row
<1>10. u[p].rev = rev /\ Tip(u) \in Nat /\ u[p].rev <= Tip(u)
  BY <1>7, <1>8, TipIsGreatest
<1>11. \A q \in hit : /\ u[q] = Tombstone(u[q].rev)
                      /\ u[q].rev > Tip(t) /\ u[q].rev < u[p].rev
  BY <1>2, <1>3, <1>4, <1>9, <1>10
<1>12. Tip(u) > Tip(t)
  BY <1>2, <1>6, <1>10
<1>13. \A q, w \in hit : u[q].rev = u[w].rev => q = w
  BY <1>3, <1>9
<1>14. \A q \in Paths \ (hit \cup {p}) : u[q] = t[q]
  BY <1>3, <1>8
<1>15. u[p] = FileRow(u[p].rev, v) /\ u[p].rev > Tip(t)
  BY <1>6, <1>8, <1>10
<1> QED
  BY <1>1, <1>8, <1>11, <1>12, <1>13, <1>14, <1>15 DEF u, hit

(* A delete: what its base covers is buried, and the path unless something *)
(* newer survives below it.                                                *)
LEMMA Deleting ==
  ASSUME NEW t \in Table, NEW p \in Paths, NEW base
  PROVE  LET d == Deleted(t, p, base)
             seen == Seen(t, p, base)
             gone == IF Late(t, p, base) = {} THEN seen \cup {p} ELSE seen
         IN  /\ d \in Table /\ Tip(d) >= Tip(t)
             /\ seen \subseteq Paths \ {p}
             /\ \A q \in Paths \ gone : d[q] = t[q]
             /\ \A q \in gone : d[q] = Tombstone(d[q].rev) /\ d[q].rev > Tip(t)
             /\ p \in gone => \A q \in seen : d[q].rev < d[p].rev
             /\ \A q, w \in gone : d[q].rev = d[w].rev => q = w
<1> DEFINE d == Deleted(t, p, base)
           seen == Seen(t, p, base)
           late == Late(t, p, base)
           gone == IF late = {} THEN seen \cup {p} ELSE seen
           b == Bury(t, seen, Tip(t) + 1)
           rev == Tip(t) + Cardinality(seen) + 1
<1>1. seen \in SUBSET Paths /\ p \notin seen
  BY DEF Seen, Active, Below
<1>2. Tip(t) \in Nat /\ Tip(t) + 1 \in Nat
  BY TipIsGreatest
<1>3. /\ b \in Table
      /\ \A q \in Paths \ seen : b[q] = t[q]
      /\ \A q \in seen : /\ b[q] = Tombstone(b[q].rev)
                         /\ b[q].rev >= Tip(t) + 1 /\ b[q].rev < Tip(t) + 1 + Cardinality(seen)
      /\ \A q, w \in seen : b[q].rev = b[w].rev => q = w
  <2> HIDE DEF seen
  <2> QED
    BY <1>1, <1>2, Burying
<1>4. Cardinality(seen) \in Nat
  <2> HIDE DEF seen
  <2> QED
    BY <1>1, Ordering
<1>5. d = IF late # {} THEN b ELSE [b EXCEPT ![p] = Tombstone(rev)]
  BY DEF Deleted
<1>6. gone = IF late = {} THEN seen \cup {p} ELSE seen
  OBVIOUS
<1> HIDE DEF d, seen, b, late, gone
<1>7. rev \in Nat /\ rev > Tip(t)
  BY <1>2, <1>4
<1>8. Tombstone(rev) \in Row /\ Tombstone(rev).rev = rev
  BY <1>7 DEF Tombstone, Row
<1>9. /\ d \in Table /\ \A q \in Paths \ {p} : d[q] = b[q]
      /\ d[p] = IF late # {} THEN b[p] ELSE Tombstone(rev)
  BY <1>3, <1>5, <1>8 DEF Table
<1>10. \A q \in seen : d[q] = b[q] /\ b[q].rev \in Nat
  BY <1>1, <1>3, <1>9 DEF Table, Row
<1>11. \A q \in seen : /\ d[q] = Tombstone(d[q].rev)
                       /\ d[q].rev > Tip(t) /\ d[q].rev < rev
  BY <1>2, <1>3, <1>4, <1>10
<1>12. p \in gone => late = {} /\ d[p] = Tombstone(d[p].rev) /\ d[p].rev = rev
  BY <1>1, <1>6, <1>8, <1>9
<1>13. \A q \in gone : q \in seen \/ q = p
  BY <1>6
<1>14. \A q \in gone : d[q] = Tombstone(d[q].rev) /\ d[q].rev > Tip(t)
  BY <1>7, <1>11, <1>12, <1>13
<1>15. p \in gone => \A q \in seen : d[q].rev < d[p].rev
  BY <1>11, <1>12
<1>16. \A q \in seen : d[q].rev \in Nat
  BY <1>10
<1>17. ASSUME NEW q \in gone, NEW w \in gone, d[q].rev = d[w].rev PROVE q = w
  <2>1. CASE q \in seen /\ w \in seen
    BY <1>3, <1>10, <1>17, <2>1
  <2>2. CASE q = p /\ w \in seen
    BY <1>7, <1>11, <1>12, <1>16, <1>17, <2>2
  <2>3. CASE q \in seen /\ w = p
    BY <1>7, <1>11, <1>12, <1>16, <1>17, <2>3
  <2> QED
    BY <1>13, <1>17, <2>1, <2>2, <2>3
<1>18. \A q \in Paths \ gone : d[q] = t[q]
  BY <1>3, <1>6, <1>9
<1>19. Tip(d) >= Tip(t)
  <2>1. Tip(d) \in Nat /\ \A q \in Paths : d[q].rev \in Nat /\ d[q].rev <= Tip(d)
    BY <1>9, TipIsGreatest
  <2>2. CASE Tip(t) = 0
    BY <2>1, <2>2
  <2>3. CASE \E q \in Paths : t[q].rev = Tip(t)
    <3>1. PICK q \in Paths : t[q].rev = Tip(t)
      BY <2>3
    <3>2. CASE q \in gone
      BY <1>2, <1>14, <2>1, <3>1, <3>2
    <3>3. CASE q \notin gone
      BY <1>2, <1>18, <2>1, <3>1, <3>3
    <3> QED
      BY <3>2, <3>3
  <2> QED
    BY <2>2, <2>3, TipIsGreatest
<1> QED
  BY <1>1, <1>9, <1>14, <1>15, <1>17, <1>18, <1>19 DEF d, seen, gone, late

-----------------------------------------------------------------------------
(* VaultOps against SharedVault: each operation of VaultOps is a step that *)
(* the store promises, whatever the tree of paths.                         *)

Vault == INSTANCE SharedVault WITH files <- files

(* SharedVault speaks of the same table.                                   *)
LEMMA SameTable ==
  /\ Vault!Table = Table
  /\ \A t, p : Vault!Conflicts(t, p) = Conflicts(t, p) /\ Vault!Active(t, p) = Active(t, p)
  /\ \A t, s, b : Vault!NewerThan(t, s, b) = NewerThan(t, s, b)
  /\ \A t : Vault!Reached(t) = Reached(t)
  /\ \A rev, v : Vault!FileRow(rev, v) = FileRow(rev, v)
  /\ \A rev : Vault!Tombstone(rev) = Tombstone(rev)
BY DEF Vault!Table, Table, Vault!Row, Row, Vault!Conflicts, Conflicts, Vault!Above, Above,
       Vault!Below, Below, Vault!Active, Active, Vault!NewerThan, NewerThan, Vault!Reached, Reached,
       Vault!FileRow, FileRow, Vault!Tombstone, Tombstone

(* An upload is one, and draws revisions past the tip.                     *)
LEMMA UploadPromised ==
  ASSUME files \in Table, NEW p \in Paths, NEW v \in Contents, files' = Uploaded(files, p, v)
  PROVE  files' \in Table /\ Tip(files)' > Tip(files) /\ Vault!Step
<1> DEFINE hit == Conflicts(files, p)
<1>1. /\ files' \in Table /\ Tip(files)' > Tip(files)
      /\ files'[p] = FileRow(files'[p].rev, v) /\ files'[p].rev > Tip(files)
      /\ hit \subseteq Paths \ {p}
      /\ \A q \in Paths \ (hit \cup {p}) : files'[q] = files[q]
      /\ \A q \in hit : /\ files'[q] = Tombstone(files'[q].rev)
                        /\ files'[q].rev > Tip(files) /\ files'[q].rev < files'[p].rev
      /\ \A q, w \in hit : files'[q].rev = files'[w].rev => q = w
  BY Uploading
<1>2. Tip(files) \in Nat /\ \A q \in Paths : files[q].rev \in Nat /\ files[q].rev <= Tip(files)
  BY TipIsGreatest
<1>3. \A q \in Paths : files'[q].rev \in Nat
  BY <1>1 DEF Table, Row
<1> HIDE DEF hit
<1>4. Vault!Fresh(hit \cup {p})
  <2>1. \A q \in hit \cup {p}, w \in Paths : files'[q].rev > files[w].rev
    BY <1>1, <1>2, <1>3
  <2>2. \A q, r \in hit \cup {p} : files'[q].rev = files'[r].rev => q = r
    BY <1>1, <1>3
  <2> QED
    BY <2>1, <2>2 DEF Vault!Fresh
<1>5. Vault!Upload(p, v)
  <2>1. Vault!Conflicts(files, p) = hit
    BY SameTable DEF hit
  <2>2. Vault!Buried(hit) /\ Vault!Untouched(Paths \ (hit \cup {p}))
    BY <1>1, SameTable DEF Vault!Buried, Vault!Untouched
  <2>3. files'[p] = Vault!FileRow(files'[p].rev, v)
    BY <1>1, SameTable
  <2>4. \A q \in hit : files'[q].rev < files'[p].rev
    BY <1>1
  <2> QED
    BY <1>4, <2>1, <2>2, <2>3, <2>4 DEF Vault!Upload
<1> QED
  BY <1>1, <1>5, SameTable DEF Vault!Step

(* So is a delete with a base that the server has reached.                 *)
LEMMA DeletePromised ==
  ASSUME files \in Table, NEW p \in Paths, NEW base \in {NoBase} \cup 0 .. Tip(files),
         files' = Deleted(files, p, base)
  PROVE  files' \in Table /\ Tip(files)' >= Tip(files) /\ Vault!Step
<1> DEFINE seen == Seen(files, p, base)
           late == Late(files, p, base)
           gone == IF late = {} THEN seen \cup {p} ELSE seen
<1>1. /\ files' \in Table /\ Tip(files)' >= Tip(files)
      /\ seen \subseteq Paths \ {p}
      /\ \A q \in Paths \ gone : files'[q] = files[q]
      /\ \A q \in gone : files'[q] = Tombstone(files'[q].rev) /\ files'[q].rev > Tip(files)
      /\ p \in gone => \A q \in seen : files'[q].rev < files'[p].rev
      /\ \A q, w \in gone : files'[q].rev = files'[w].rev => q = w
  BY Deleting
<1>2. Tip(files) \in Nat /\ \A q \in Paths : files[q].rev \in Nat /\ files[q].rev <= Tip(files)
  BY TipIsGreatest
<1>3. \A q \in Paths : files'[q].rev \in Nat
  BY <1>1 DEF Table, Row
<1>4. /\ late = Vault!Newer(p, base)
      /\ seen = Active(files, p) \ ({p} \cup Vault!Newer(p, base))
      /\ gone \subseteq Paths
  BY <1>1, SameTable DEF Late, Seen, Vault!Newer
<1>5. gone = IF Vault!Newer(p, base) = {} THEN seen \cup {p} ELSE seen
  BY <1>4
<1> HIDE DEF seen, late, gone
<1>6. Vault!Fresh(gone)
  <2>1. \A q \in gone, w \in Paths : files'[q].rev > files[w].rev
    BY <1>1, <1>2, <1>3, <1>4
  <2> QED
    BY <1>1, <2>1 DEF Vault!Fresh
<1>7. Vault!Buried(gone) /\ Vault!Untouched(Paths \ gone)
  BY <1>1, SameTable DEF Vault!Buried, Vault!Untouched
<1>8. Vault!Delete(p, base)
  <2>1. seen = Vault!Active(files, p) \ ({p} \cup Vault!Newer(p, base))
    BY <1>4, SameTable
  <2>2. p \in gone => \A q \in seen : files'[q].rev < files'[p].rev
    BY <1>1
  <2> QED
    BY <1>5, <1>6, <1>7, <2>1, <2>2 DEF Vault!Delete
<1>9. base \in {NoBase} \cup Reached(files)
  BY ReachedIsTip
<1> QED
  BY <1>1, <1>8, <1>9, SameTable DEF Vault!Step

-----------------------------------------------------------------------------
(* Types.  No base, cursor or line is past the server's last revision, no  *)
(* operation is later than the last edit, and the tick has in hand what    *)
(* its next step needs.                                                    *)

OpsAt(n, e) == [op : {"put", "delete"}, path : Paths, base : 0 .. n \cup {NoBase}, id : 1 .. e]
LinesAt(n) == [rev : 0 .. n, path : Paths, op : {"put", "delete"}]
RefreshesAt(n, e) == [op : OpsAt(n, e) \cup [path : Paths, id : {0}], ok : BOOLEAN,
                      seen : {"unread", "listed", "gone"}]

Queues(n, e) ==
  /\ outbox \in Seq(OpsAt(n, e)) /\ appends \in Seq(OpsAt(n, e)) /\ todo \in Seq(OpsAt(n, e))
  /\ basing \subseteq OpsAt(n, e) /\ refreshes \subseteq RefreshesAt(n, e)
  /\ failed \subseteq OpsAt(n, e) /\ IsFiniteSet(failed)

Cursor(n) == inbox \subseteq LinesAt(n) /\ revision \in 0 .. n /\ saved \in 0 .. revision

Plain ==
  /\ disk \in [Paths -> Contents \cup {NoContent}]
  /\ dead \cup pending \cup batch \cup lost \subseteq Paths
  /\ sent \subseteq Contents
  /\ hydrated \in BOOLEAN
  /\ pc \in {"idle", "retry", "drain", "next", "read", "push", "ack", "settle", "list", "rebuild",
             "fetch", "apply", "write", "advance", "rewrite"}
  /\ wait \subseteq Nat
  /\ body \in Contents \cup {NoContent}
  /\ edits \in Nat /\ remotes \in Nat

InHand ==
  /\ pc \in {"read", "push", "ack"} => todo # <<>>
  /\ pc = "push" /\ Head(todo).op = "put" => body \in Contents
  /\ pc \in {"write", "advance"} => \A line \in inbox : line.rev > revision

Typed(n, e) == Queues(n, e) /\ Cursor(n) /\ Plain /\ InHand

IInv == files \in Table /\ Typed(Tip(files), edits)

(* What is typed now is typed after more revisions and more edits.         *)
LEMMA TypedMore ==
  ASSUME NEW n \in Nat, NEW m \in Nat, n <= m, NEW d \in Nat, NEW e \in Nat, d <= e
  PROVE  Typed(n, d) => Typed(m, e)
<1>1. 0 .. n \subseteq 0 .. m /\ 1 .. d \subseteq 1 .. e
  OBVIOUS
<1>2. OpsAt(n, d) \subseteq OpsAt(m, e) /\ LinesAt(n) \subseteq LinesAt(m)
  BY <1>1 DEF OpsAt, LinesAt
<1>3. RefreshesAt(n, d) \subseteq RefreshesAt(m, e)
  BY <1>2 DEF RefreshesAt
<1>4. Seq(OpsAt(n, d)) \subseteq Seq(OpsAt(m, e))
  BY <1>2
<1>5. Queues(n, d) => Queues(m, e)
  BY <1>2, <1>3, <1>4 DEF Queues
<1>6. Cursor(n) => Cursor(m)
  BY <1>1, <1>2 DEF Cursor
<1> QED
  BY <1>5, <1>6 DEF Typed

(* The invariant implies the types that the runs check.                    *)
LEMMA IInvIsTypeOK == IInv => TypeOK
<1> SUFFICES ASSUME IInv PROVE TypeOK
  OBVIOUS
<1> DEFINE n == Tip(files)
           e == edits
<1>1. n \in Nat /\ e \in Nat /\ files \in Table /\ Typed(n, e)
  BY TipIsGreatest DEF IInv, Typed, Plain
<1> HIDE DEF n, e
<1>2. OpsAt(n, e) \subseteq OutboxOp /\ LinesAt(n) \subseteq Line
  BY <1>1 DEF OpsAt, LinesAt, OutboxOp, Line
<1>3. Seq(OpsAt(n, e)) \subseteq Seq(OutboxOp)
  BY <1>2
<1>4. \A s \in refreshes : s.op.path \in Paths /\ s.seen \in {"unread", "listed", "gone"}
  BY <1>1 DEF Typed, Queues, RefreshesAt, OpsAt
<1>5. revision \in Nat /\ saved \in 0 .. revision
  BY <1>1 DEF Typed, Cursor
<1> QED
  BY <1>1, <1>2, <1>3, <1>4, <1>5 DEF TypeOK, Typed, Queues, Cursor, Plain

(* ToSet by places.                                                        *)
LEMMA Places ==
  ASSUME NEW S, NEW s \in Seq(S)
  PROVE  ToSet(s) = {s[i] : i \in 1 .. Len(s)}
BY DEF ToSet

(* What the first, the last and the other elements of a sequence are.      *)
LEMMA Elements ==
  ASSUME NEW S, NEW s \in Seq(S)
  PROVE  /\ ToSet(s) \subseteq S
         /\ s # <<>> => /\ Head(s) \in S /\ Tail(s) \in Seq(S)
                        /\ ToSet(s) = {Head(s)} \cup ToSet(Tail(s))
         /\ \A x \in S : Append(s, x) \in Seq(S) /\ ToSet(Append(s, x)) = ToSet(s) \cup {x}
         /\ s # <<>> <=> ToSet(s) # {}
<1>1. ToSet(s) \subseteq S /\ ToSet(s) = {s[i] : i \in 1 .. Len(s)}
  BY DEF ToSet
<1>2. s # <<>> => Head(s) \in S /\ Tail(s) \in Seq(S)
  OBVIOUS
<1>3. s # <<>> => ToSet(s) = {Head(s)} \cup ToSet(Tail(s))
  <2> SUFFICES ASSUME s # <<>> PROVE ToSet(s) = {Head(s)} \cup ToSet(Tail(s))
    OBVIOUS
  <2>1. Len(s) \in Nat /\ Len(s) >= 1 /\ Len(Tail(s)) = Len(s) - 1 /\ Head(s) = s[1]
    OBVIOUS
  <2>2. \A i \in 1 .. Len(Tail(s)) : Tail(s)[i] = s[i + 1]
    OBVIOUS
  <2>3. \A i \in 1 .. Len(s) : s[i] = Head(s) \/ (i - 1 \in 1 .. Len(Tail(s)) /\ s[i] = Tail(s)[i - 1])
    BY <2>1, <2>2
  <2>4. ToSet(Tail(s)) = {Tail(s)[i] : i \in 1 .. Len(Tail(s))}
    BY <1>2, Places
  <2>5. \A i \in 1 .. Len(Tail(s)) : i + 1 \in 1 .. Len(s)
    BY <2>1
  <2>6. 1 \in 1 .. Len(s)
    BY <2>1
  <2>7. ASSUME NEW x \in ToSet(s) PROVE x \in {Head(s)} \cup ToSet(Tail(s))
    <3>1. PICK i \in 1 .. Len(s) : x = s[i]
      BY <1>1, <2>7
    <3> QED
      BY <2>3, <2>4, <3>1
  <2>8. Head(s) \in ToSet(s)
    BY <1>1, <2>1, <2>6
  <2>9. ASSUME NEW x \in ToSet(Tail(s)) PROVE x \in ToSet(s)
    <3>1. PICK i \in 1 .. Len(Tail(s)) : x = Tail(s)[i]
      BY <2>4, <2>9
    <3>2. x = s[i + 1] /\ i + 1 \in 1 .. Len(s)
      BY <2>2, <2>5, <3>1
    <3> QED
      BY <1>1, <3>2
  <2> QED
    BY <2>7, <2>8, <2>9
<1>4. ASSUME NEW x \in S PROVE Append(s, x) \in Seq(S) /\ ToSet(Append(s, x)) = ToSet(s) \cup {x}
  <2>1. /\ Append(s, x) \in Seq(S) /\ Len(Append(s, x)) = Len(s) + 1 /\ Len(s) \in Nat
        /\ Append(s, x)[Len(s) + 1] = x
        /\ \A i \in 1 .. Len(s) : Append(s, x)[i] = s[i]
    OBVIOUS
  <2> QED
    BY <2>1 DEF ToSet
<1>5. s # <<>> <=> ToSet(s) # {}
  <2>1. s = <<>> => ToSet(s) = {}
    BY DEF ToSet
  <2>2. s # <<>> => 1 \in 1 .. Len(s)
    OBVIOUS
  <2> QED
    BY <1>1, <2>1, <2>2
<1> QED
  BY <1>1, <1>2, <1>3, <1>4, <1>5

(* RemoveFirst takes away at most the element it is given. *)
LEMMA RemovesOne ==
  ASSUME NEW S, NEW s \in Seq(S), NEW e
  PROVE  /\ RemoveFirst(s, e) \in Seq(S)
         /\ ToSet(RemoveFirst(s, e)) \subseteq ToSet(s)
         /\ ToSet(s) \ {e} \subseteq ToSet(RemoveFirst(s, e))
<1>1. CASE ~\E i \in 1 .. Len(s) : s[i] = e
  BY <1>1 DEF RemoveFirst
<1>2. CASE \E i \in 1 .. Len(s) : s[i] = e
  <2> DEFINE I == {i \in 1 .. Len(s) : s[i] = e}
             k == SelectInSeq(s, LAMBDA v : v = e)
             a == SubSeq(s, 1, k - 1)
             b == SubSeq(s, k + 1, Len(s))
  <2>1. k = Min(I)
    BY <1>2 DEF SelectInSeq
  <2>2. k \in 1 .. Len(s) /\ s[k] = e
    <3>1. I \subseteq Nat /\ I # {}
      BY <1>2
    <3>2. \E m \in I : \A n \in I : m <= n
      <4> DEFINE R == {ss \in Nat \X Nat : ss[1] < ss[2]}
      <4>1. IsWellFoundedOn(R, Nat)
        BY NatLessThanWellFounded DEF OpToRel
      <4> HIDE DEF I, R
      <4>2. PICK m \in I : \A n \in I : <<n, m>> \notin R
        BY <3>1, <4>1, WFMin
      <4>3. \A n \in I : n \in Nat /\ m \in Nat
        BY <3>1
      <4>4. \A n \in I : ~(n < m)
        BY <4>2, <4>3 DEF R
      <4> QED
        BY <4>2, <4>3, <4>4
    <3>3. Min(I) \in I
      <4> HIDE DEF I
      <4> QED
        BY <3>2 DEF Min
    <3> QED
      BY <2>1, <3>3
  <2>3. RemoveFirst(s, e) = a \o b
    BY <1>2 DEF RemoveFirst, RemoveAt
  <2> HIDE DEF I, k
  <2>4. /\ a \in Seq(S) /\ Len(a) = k - 1 /\ \A i \in 1 .. k - 1 : a[i] = s[i]
        /\ b \in Seq(S) /\ Len(b) = Len(s) - k /\ \A i \in 1 .. Len(s) - k : b[i] = s[k + i]
    BY <2>2
  <2> HIDE DEF a, b
  <2>5. /\ a \o b \in Seq(S) /\ Len(a \o b) = Len(a) + Len(b)
        /\ \A i \in 1 .. Len(a) : (a \o b)[i] = a[i]
        /\ \A i \in 1 .. Len(b) : (a \o b)[Len(a) + i] = b[i]
    <3>1. /\ a \o b \in Seq(S) /\ Len(a \o b) = Len(a) + Len(b)
          /\ \A i \in 1 .. Len(a) + Len(b) : (a \o b)[i] = IF i <= Len(a) THEN a[i] ELSE b[i - Len(a)]
      BY <2>4, ConcatProperties
    <3>2. Len(a) \in Nat /\ Len(b) \in Nat
      BY <2>4
    <3>3. ASSUME NEW i \in 1 .. Len(b) PROVE (a \o b)[Len(a) + i] = b[i]
      <4>1. Len(a) + i \in 1 .. Len(a) + Len(b) /\ ~(Len(a) + i <= Len(a)) /\ Len(a) + i - Len(a) = i
        BY <3>2
      <4> QED
        BY <3>1, <4>1
    <3>4. \A i \in 1 .. Len(a) : (a \o b)[i] = a[i]
      BY <3>1, <3>2
    <3> QED
      BY <3>1, <3>3, <3>4
  <2>6. ASSUME NEW i \in 1 .. Len(a \o b)
        PROVE  \E j \in 1 .. Len(s) : (a \o b)[i] = s[j]
    <3>1. CASE i <= k - 1
      BY <2>2, <2>4, <2>5, <3>1
    <3>2. CASE i > k - 1
      <4>1. i - (k - 1) \in 1 .. Len(b) /\ i = Len(a) + (i - (k - 1))
        BY <2>2, <2>4, <2>5, <3>2
      <4>2. (a \o b)[i] = s[k + (i - (k - 1))]
        BY <2>4, <2>5, <4>1
      <4> QED
        BY <2>2, <2>4, <4>1, <4>2
    <3> QED
      BY <2>2, <3>1, <3>2
  <2>7. ASSUME NEW j \in 1 .. Len(s), j # k
        PROVE  \E i \in 1 .. Len(a \o b) : (a \o b)[i] = s[j]
    <3>1. CASE j < k
      <4>1. j \in 1 .. Len(a) /\ j \in 1 .. Len(a \o b) /\ a[j] = s[j]
        BY <2>2, <2>4, <2>5, <3>1
      <4> QED
        BY <2>5, <4>1
    <3>2. CASE j > k
      <4>1. j - k \in 1 .. Len(b) /\ b[j - k] = s[k + (j - k)] /\ k + (j - k) = j
        BY <2>2, <2>4, <3>2
      <4>2. (a \o b)[Len(a) + (j - k)] = s[j] /\ Len(a) + (j - k) \in 1 .. Len(a \o b)
        BY <2>2, <2>4, <2>5, <4>1
      <4> QED
        BY <4>2
    <3> QED
      BY <2>2, <2>7, <3>1, <3>2
  <2>8. ToSet(a \o b) = {(a \o b)[i] : i \in 1 .. Len(a \o b)} /\ ToSet(s) = {s[j] : j \in 1 .. Len(s)}
    BY <2>5, Places
  <2>9. ToSet(a \o b) \subseteq ToSet(s)
    BY <2>6, <2>8
  <2>10. ToSet(s) \ {e} \subseteq ToSet(a \o b)
    BY <2>2, <2>7, <2>8
  <2> QED
    BY <2>3, <2>5, <2>9, <2>10
<1> QED
  BY <1>1, <1>2

(* The steps of the user and of the enqueues keep the types.               *)
LEMMA EnqueueTypes ==
  ASSUME NEW n \in Nat, NEW e \in Nat, Typed(n, e),
         \/ \E p \in Paths : (Save(p) \/ Erase(p)) /\ edits + 1 <= e
         \/ Enqueueing \/ AppendOutbox(FALSE)
  PROVE  Typed(n, e)'
<1>1. ASSUME NEW p \in Paths, Save(p), edits + 1 <= e PROVE Typed(n, e)'
  <2>1. Op("put", p, NoBase) \in OpsAt(n, e)
    BY <1>1 DEF Op, OpsAt, Typed, Plain
  <2>2. appends' \in Seq(OpsAt(n, e))
    BY <1>1, <2>1, Elements DEF Save, Typed, Queues
  <2>3. edits + 1 \in Contents
    BY <1>1, Bounds, Numbered DEF Save, Typed, Plain
  <2>4. Plain'
    BY <1>1, <2>3 DEF Save, Typed, Plain, tickVars
  <2> QED
    BY <1>1, <2>2, <2>4 DEF Save, Typed, Queues, Cursor, InHand, tickVars
<1>2. ASSUME NEW p \in Paths, Erase(p), edits + 1 <= e PROVE Typed(n, e)'
  <2>1. Op("delete", p, revision) \in OpsAt(n, e)
    BY <1>2 DEF Op, OpsAt, Typed, Plain, Cursor
  <2>2. Plain'
    BY <1>2 DEF Erase, Typed, Plain, tickVars
  <2> QED
    BY <1>2, <2>1, <2>2 DEF Erase, Typed, Queues, Cursor, InHand, tickVars
<1>3. ASSUME NEW op \in basing, EnqueueDelete(op) PROVE Typed(n, e)'
  <2>1. op \in OpsAt(n, e) /\ op.path \in Paths
    BY <1>3 DEF Typed, Queues, OpsAt
  <2>2. appends' \in Seq(OpsAt(n, e))
    BY <1>3, <2>1, Elements DEF EnqueueDelete, Typed, Queues
  <2> QED
    BY <1>3, <2>1, <2>2 DEF EnqueueDelete, Typed, Queues, Cursor, Plain, InHand, tickVars, diskVars, ghosts, counters
<1>4. ASSUME NEW op \in OpsAt(n, e), NEW ok \in BOOLEAN, NEW pend \in SUBSET Paths, Finish(op, ok, pend)
      PROVE  /\ failed' \subseteq OpsAt(n, e) /\ IsFiniteSet(failed') /\ pending' \subseteq Paths
             /\ \/ UNCHANGED <<pc, tickVars>>
                \/ Idle
  <2>1. failed \subseteq OpsAt(n, e) /\ IsFiniteSet(failed) /\ op.path \in Paths
    BY DEF Typed, Queues, OpsAt
  <2> DEFINE others == {f \in failed : f.path # op.path}
  <2>2. IsFiniteSet(others) /\ IsFiniteSet(others \cup {op}) /\ others \subseteq failed
    BY <2>1, FS_Subset, FS_AddElement
  <2>3. failed' = IF ok THEN others ELSE others \cup {op}
    BY <1>4 DEF Finish
  <2> HIDE DEF others
  <2>4. failed' \subseteq OpsAt(n, e) /\ IsFiniteSet(failed')
    BY <2>1, <2>2, <2>3
  <2> QED
    BY <1>4, <2>1, <2>4 DEF Finish
<1>5. Idle => /\ pc' = "idle" /\ wait' \subseteq Nat /\ todo' \in Seq(OpsAt(n, e))
              /\ body' = NoContent /\ batch' = {}
  BY DEF Idle
<1>6. ASSUME NEW ok \in BOOLEAN, AppendOutbox(ok) PROVE Typed(n, e)'
  <2> DEFINE op == Head(appends)
  <2> DEFINE S == OpsAt(n, e)
  <2>9. /\ appends # <<>> /\ appends' = Tail(appends)
        /\ outbox' = Append(outbox, op) \/ outbox' = outbox
    BY <1>6 DEF AppendOutbox
  <2>10. outbox \in Seq(S) /\ appends \in Seq(S) /\ pending \subseteq Paths
    BY DEF Typed, Queues, Plain
  <2>11. \A x \in S : x.path \in Paths
    BY DEF OpsAt
  <2>12. op \in S /\ Tail(appends) \in Seq(S)
    <3> HIDE DEF S
    <3> QED
      BY <2>9, <2>10, Elements
  <2>13. Append(outbox, op) \in Seq(S)
    <3> HIDE DEF S, op
    <3> QED
      BY <2>10, <2>12, Elements
  <2>1. /\ op \in OpsAt(n, e) /\ appends' \in Seq(OpsAt(n, e)) /\ op.path \in Paths
        /\ outbox \in Seq(OpsAt(n, e)) /\ pending \subseteq Paths
    <3> HIDE DEF op
    <3> QED
      BY <2>9, <2>10, <2>11, <2>12
  <2>2. outbox' \in Seq(OpsAt(n, e))
    <3> HIDE DEF op
    <3> QED
      BY <2>9, <2>10, <2>13
  <2> HIDE DEF S
  <2>3. /\ failed' \subseteq OpsAt(n, e) /\ IsFiniteSet(failed') /\ pending' \subseteq Paths
        /\ UNCHANGED <<pc, tickVars>> \/ Idle
        /\ refreshes' \subseteq RefreshesAt(n, e)
    <3>1. CASE op.path \in PathsOf(ToSet(Tail(appends)))
      <4>1. Finish(op, ok, pending \cup {op.path}) /\ refreshes' = refreshes
        BY <1>6, <3>1 DEF AppendOutbox
      <4> HIDE DEF op
      <4> QED
        BY <1>4, <2>1, <4>1 DEF Typed, Queues
    <3>2. CASE op.path \notin PathsOf(ToSet(Tail(appends)))
      <4>1. /\ refreshes' = refreshes \cup {[op |-> op, ok |-> ok, seen |-> "unread"]}
            /\ UNCHANGED <<failed, pending, pc, tickVars>>
        BY <1>6, <3>2 DEF AppendOutbox
      <4> HIDE DEF op
      <4>2. [op |-> op, ok |-> ok, seen |-> "unread"] \in RefreshesAt(n, e)
        BY <2>1 DEF RefreshesAt
      <4> QED
        BY <2>1, <4>1, <4>2 DEF Typed, Queues
    <3> QED
      BY <3>1, <3>2
  <2>4. UNCHANGED <<disk, inbox, revision, saved, dead, basing, hydrated, lost, sent, edits, remotes>>
    BY <1>6 DEF AppendOutbox
  <2>5. Queues(n, e)'
    <3>1. todo' \in Seq(OpsAt(n, e))
      BY <1>5, <2>3 DEF Typed, Queues, tickVars
    <3> QED
      BY <2>1, <2>2, <2>3, <2>4, <3>1 DEF Typed, Queues
  <2>6. Plain'
    BY <1>5, <2>3, <2>4 DEF Typed, Plain, tickVars
  <2>7. InHand'
    BY <1>5, <2>3, <2>4 DEF Typed, InHand, tickVars
  <2> QED
    BY <2>4, <2>5, <2>6, <2>7 DEF Typed, Cursor
<1>7. ASSUME NEW s \in refreshes, ReadListing(s) PROVE Typed(n, e)'
  <2>1. s \in RefreshesAt(n, e)
    BY DEF Typed, Queues
  <2>2. /\ [s EXCEPT !.seen = "listed"] \in RefreshesAt(n, e)
        /\ [s EXCEPT !.seen = "gone"] \in RefreshesAt(n, e)
    BY <2>1 DEF RefreshesAt
  <2>3. refreshes' \subseteq RefreshesAt(n, e)
    BY <1>7, <2>2 DEF ReadListing, Typed, Queues
  <2> QED
    BY <1>7, <2>3 DEF ReadListing, Typed, Queues, Cursor, Plain, InHand, tickVars, diskVars, ghosts, counters
<1>8. ASSUME NEW s \in refreshes, RefreshPending(s) PROVE Typed(n, e)'
  <2> DEFINE pend == IF s.seen = "listed" THEN pending \cup {s.op.path} ELSE pending \ {s.op.path}
  <2>1. /\ s.op.path \in Paths /\ s.ok \in BOOLEAN /\ pend \subseteq Paths
        /\ s.op.id # 0 => s.op \in OpsAt(n, e)
    BY DEF Typed, Queues, RefreshesAt, OpsAt, Plain
  <2>2. /\ refreshes' \subseteq refreshes
        /\ UNCHANGED <<diskVars, basing, appends, hydrated, ghosts>>
        /\ \/ s.op.id = 0 /\ pending' = pend /\ UNCHANGED <<failed, pc, tickVars>>
           \/ s.op.id # 0 /\ Finish(s.op, s.ok, pend)
    BY <1>8 DEF RefreshPending
  <2> HIDE DEF pend
  <2>3. /\ failed' \subseteq OpsAt(n, e) /\ IsFiniteSet(failed') /\ pending' \subseteq Paths
        /\ UNCHANGED <<pc, tickVars>> \/ Idle
    BY <1>4, <2>1, <2>2 DEF Typed, Queues
  <2>4. Queues(n, e)'
    <3>1. todo' \in Seq(OpsAt(n, e))
      BY <1>5, <2>3 DEF Typed, Queues, tickVars
    <3> QED
      BY <2>2, <2>3, <3>1 DEF Typed, Queues, diskVars
  <2>5. Plain'
    BY <1>5, <2>2, <2>3 DEF Typed, Plain, tickVars, diskVars, ghosts, counters
  <2>6. InHand'
    BY <1>5, <2>2, <2>3 DEF Typed, InHand, tickVars, diskVars
  <2> QED
    BY <2>2, <2>4, <2>5, <2>6 DEF Typed, Cursor, diskVars
<1> QED
  BY <1>1, <1>2, <1>3, <1>6, <1>7, <1>8 DEF Enqueueing

(* So do the steps of the tick, its failures and a crash.                  *)
LEMMA TickTypes ==
  ASSUME files \in Table, NEW n \in Nat, Tip(files) <= n, NEW e \in Nat, Typed(n, e),
         Ticking \/ TickFails \/ Crash \/ \E line \in inbox : AdvanceUnsaved(line)
  PROVE  Typed(n, e)'
<1> DEFINE S == OpsAt(n, e)
<1>1. /\ outbox \in Seq(S) /\ appends \in Seq(S) /\ todo \in Seq(S)
      /\ basing \subseteq S /\ refreshes \subseteq RefreshesAt(n, e)
      /\ failed \subseteq S /\ IsFiniteSet(failed)
  BY DEF Typed, Queues
<1>2. /\ inbox \subseteq LinesAt(n) /\ revision \in 0 .. n /\ saved \in 0 .. revision
      /\ \A line \in inbox : line.rev \in 0 .. n /\ line.path \in Paths
  BY DEF Typed, Cursor, LinesAt
<1>3. \A op \in S : op.path \in Paths /\ op.id \in 1 .. e /\ op.base \in 0 .. n \cup {NoBase}
  BY DEF OpsAt
<1>4. Plain /\ InHand
  BY DEF Typed
<1>5. todo # <<>> => Head(todo) \in S /\ Tail(todo) \in Seq(S)
  <2> HIDE DEF S
  <2> QED
    BY <1>1, Elements
<1>6. OutboxPaths \subseteq Paths /\ Counted \subseteq Paths /\ PathsOf(failed) \subseteq Paths
      /\ InFlight \subseteq Nat
  <2>1. ToSet(outbox) \subseteq S /\ ToSet(appends) \subseteq S
    <3> HIDE DEF S
    <3> QED
      BY <1>1, Elements
  <2> HIDE DEF S
  <2> QED
    BY <1>1, <1>3, <2>1 DEF OutboxPaths, Counted, PathsOf, InFlight
<1>7. \A p \in Paths : files[p].content \in Contents \cup {NoContent} /\ files[p].rev \in Nat
  BY DEF Table, Row
<1>8. SetToSeqs(failed) \subseteq Seq(S)
  <2>1. Cardinality(failed) \in Nat
    BY <1>1, FS_CardinalityType
  <2>2. SetToSeqs(failed) \subseteq [1 .. Cardinality(failed) -> failed]
    BY DEF SetToSeqs
  <2> HIDE DEF S
  <2>3. ASSUME NEW f \in [1 .. Cardinality(failed) -> failed] PROVE f \in Seq(S)
    <3>1. f \in [1 .. Cardinality(failed) -> S]
      BY <1>1
    <3>2. \A m \in Nat : [1 .. m -> S] \subseteq Seq(S)
      OBVIOUS
    <3> QED
      BY <2>1, <3>1, <3>2
  <2> QED
    BY <2>2, <2>3
<1> HIDE DEF S
<1>9. <<>> \in Seq(S)
  OBVIOUS
<1>12. Queues(n, e)' = (/\ outbox' \in Seq(S) /\ appends' \in Seq(S) /\ todo' \in Seq(S)
                        /\ basing' \subseteq S /\ refreshes' \subseteq RefreshesAt(n, e)
                        /\ failed' \subseteq S /\ IsFiniteSet(failed'))
  BY DEF Queues, S
<1> DEFINE Held == UNCHANGED <<diskVars, pending, queueVars, ghosts>>
<1>13. ASSUME Held, todo' \in Seq(S) PROVE Queues(n, e)' /\ Cursor(n)'
  BY <1>1, <1>2, <1>12, <1>13 DEF queueVars, diskVars, Cursor
<1>14. ASSUME StartTick PROVE Typed(n, e)'
  <2>1. Held /\ todo' \in Seq(S) /\ pc' = "retry" /\ UNCHANGED <<wait, body, batch>>
    BY <1>8, <1>14 DEF StartTick
  <2> QED
    BY <1>4, <1>13, <2>1 DEF Typed, Plain, InHand, diskVars, queueVars, ghosts, counters
<1>15. ASSUME RetryFailed PROVE Typed(n, e)'
  <2> DEFINE rest == {f \in failed : f.path # Head(todo).path}
  <2>1. IsFiniteSet(rest) /\ rest \subseteq S
    BY <1>1, FS_Subset
  <2> HIDE DEF rest
  <2>2. failed' = rest /\ todo' = Tail(todo) /\ outbox' = Append(outbox, Head(todo)) /\ todo # <<>>
    BY <1>15 DEF RetryFailed, rest
  <2>3. outbox' \in Seq(S) /\ todo' \in Seq(S)
    BY <1>1, <1>5, <2>2, Elements
  <2>4. /\ UNCHANGED <<disk, inbox, revision, saved, dead, pending, basing, appends, refreshes,
                       hydrated, pc, wait, body, batch, ghosts>>
        /\ pc = "retry"
    BY <1>15 DEF RetryFailed
  <2>5. Queues(n, e)' /\ Cursor(n)'
    BY <1>1, <1>2, <1>12, <2>1, <2>2, <2>3, <2>4 DEF Cursor
  <2> QED
    BY <1>4, <2>4, <2>5 DEF Typed, Plain, InHand, ghosts, counters
<1>16. ASSUME Hydrate PROVE Typed(n, e)'
  <2>1. /\ UNCHANGED <<diskVars, basing, appends, refreshes, failed, todo, body, batch, ghosts>>
        /\ pending' \subseteq Paths /\ hydrated' \in BOOLEAN /\ pc' = "drain" /\ wait' \subseteq Nat
    BY <1>4, <1>6, <1>16 DEF Hydrate, Plain
  <2>2. Queues(n, e)' /\ Cursor(n)'
    BY <1>1, <1>2, <1>12, <2>1 DEF Cursor, diskVars
  <2> QED
    BY <1>4, <2>1, <2>2 DEF Typed, Plain, InHand, diskVars, ghosts, counters
<1>17. ASSUME DrainSnapshot PROVE Typed(n, e)'
  <2>1. Held /\ todo' = outbox /\ pc' = "next" /\ wait' = {} /\ UNCHANGED <<body, batch>>
    BY <1>17 DEF DrainSnapshot
  <2> QED
    BY <1>1, <1>4, <1>13, <2>1 DEF Typed, Plain, InHand, diskVars, queueVars, ghosts, counters
<1>18. ASSUME NextPut PROVE Typed(n, e)'
  <2>1. /\ Held /\ UNCHANGED <<wait, todo, body>> /\ pc' \in {"ack", "read"} /\ todo # <<>>
        /\ batch' \subseteq batch \cup {Head(todo).path}
    BY <1>18 DEF NextPut
  <2>2. Head(todo).path \in Paths
    BY <1>3, <1>5, <2>1
  <2>3. Queues(n, e)' /\ Cursor(n)'
    BY <1>1, <1>13, <2>1
  <2>4. batch' \subseteq Paths
    BY <1>4, <2>1, <2>2 DEF Plain
  <2>5. Plain'
    BY <1>4, <2>1, <2>4 DEF Plain, diskVars, queueVars, ghosts, counters
  <2>6. InHand'
    BY <2>1 DEF InHand
  <2> QED
    BY <2>3, <2>5, <2>6 DEF Typed
<1>19. ASSUME NextDelete PROVE Typed(n, e)'
  <2>1. Held /\ UNCHANGED tickVars /\ pc' = "push" /\ todo # <<>> /\ Head(todo).op = "delete"
    BY <1>19 DEF NextDelete
  <2>2. Queues(n, e)' /\ Cursor(n)'
    BY <1>1, <1>13, <2>1 DEF tickVars
  <2> QED
    BY <1>4, <2>1, <2>2 DEF Typed, Plain, InHand, tickVars, diskVars, queueVars, ghosts, counters
<1>20. Idle => /\ pc' = "idle" /\ wait' = {} /\ todo' \in Seq(S) /\ body' = NoContent /\ batch' = {}
  BY <1>9 DEF Idle
<1>21. ASSUME Held, Idle PROVE Typed(n, e)'
  <2>1. Queues(n, e)' /\ Cursor(n)'
    BY <1>13, <1>20, <1>21
  <2> QED
    BY <1>4, <1>20, <1>21, <2>1 DEF Typed, Plain, InHand, diskVars, queueVars, ghosts, counters
<1>22. ASSUME ReadBody PROVE Typed(n, e)'
  <2>1. Held /\ pc = "read"
    BY <1>22 DEF ReadBody
  <2>2. CASE disk[Head(todo).path] = NoContent
    BY <1>21, <1>22, <2>1, <2>2 DEF ReadBody
  <2>3. CASE disk[Head(todo).path] # NoContent
    <3>1. body' = disk[Head(todo).path] /\ pc' = "push" /\ UNCHANGED <<wait, todo, batch>>
      BY <1>22, <2>3 DEF ReadBody
    <3>2. todo # <<>> /\ Head(todo).path \in Paths
      BY <1>3, <1>4, <1>5, <2>1 DEF InHand
    <3>3. body' \in Contents
      BY <1>4, <2>3, <3>1, <3>2 DEF Plain
    <3>4. Queues(n, e)' /\ Cursor(n)'
      BY <1>1, <1>13, <2>1, <3>1
    <3> QED
      BY <1>4, <2>1, <3>1, <3>2, <3>3, <3>4 DEF Typed, Plain, InHand, diskVars, queueVars, ghosts, counters
  <2> QED
    BY <2>2, <2>3
<1>23. ASSUME Push PROVE Typed(n, e)'
  <2>1. /\ pc = "push" /\ body' = NoContent /\ pc' = "ack"
        /\ UNCHANGED <<disk, outbox, inbox, revision, saved, pending, queueVars, wait, todo, lost, counters>>
        /\ dead' \subseteq dead \cup {Head(todo).path} /\ batch' = batch \cup {Head(todo).path}
        /\ sent' \subseteq sent \cup {body}
        /\ Head(todo).op # "put" => sent' = sent
    BY <1>23 DEF Push, Send
  <2>2. todo # <<>> /\ Head(todo).path \in Paths
    BY <1>3, <1>4, <1>5, <2>1 DEF InHand
  <2>3. sent' \subseteq Contents
    BY <1>4, <2>1 DEF Plain, InHand
  <2>4. Queues(n, e)' /\ Cursor(n)'
    BY <1>1, <1>2, <1>12, <2>1 DEF Cursor, queueVars
  <2>5. (dead \cup pending \cup batch \cup lost)' \subseteq Paths
    BY <1>4, <2>1, <2>2 DEF Plain
  <2>6. Plain'
    BY <1>4, <2>1, <2>3, <2>5 DEF Plain, queueVars, counters
  <2>7. InHand'
    BY <2>1, <2>2 DEF InHand
  <2> QED
    BY <2>4, <2>6, <2>7 DEF Typed
<1>24. ASSUME Acknowledge PROVE Typed(n, e)'
  <2>1. /\ pc = "ack" /\ outbox' = RemoveFirst(outbox, Head(todo)) /\ todo' = Tail(todo) /\ pc' = "next"
        /\ UNCHANGED <<disk, inbox, revision, saved, dead, pending, queueVars, wait, body, batch, ghosts>>
    BY <1>24 DEF Acknowledge, Strike
  <2>2. todo # <<>>
    BY <1>4, <2>1 DEF InHand
  <2>3. outbox' \in Seq(S) /\ todo' \in Seq(S)
    BY <1>1, <1>5, <2>1, <2>2, RemovesOne
  <2>4. Queues(n, e)' /\ Cursor(n)'
    BY <1>1, <1>2, <1>12, <2>1, <2>3 DEF Cursor, queueVars
  <2> QED
    BY <1>4, <2>1, <2>4 DEF Typed, Plain, InHand, queueVars, ghosts, counters
<1>25. ASSUME RefreshProcessed PROVE Typed(n, e)'
  <2>1. /\ pc = "next"
        /\ UNCHANGED <<diskVars, basing, appends, failed, hydrated, pc, wait, todo, body, ghosts>>
    BY <1>25 DEF RefreshProcessed
  <2>2. PICK p \in batch :
          /\ batch' = batch \ {p}
          /\ \/ pending' = pending \cup {p} /\ UNCHANGED refreshes
             \/ /\ refreshes' = refreshes \cup
                     {[op |-> [path |-> p, id |-> 0], ok |-> TRUE, seen |-> "unread"]}
                /\ UNCHANGED pending
    BY <1>25 DEF RefreshProcessed
  <2>3. p \in Paths /\ pending' \subseteq Paths /\ batch' \subseteq Paths
    BY <1>4, <2>2 DEF Plain
  <2>4. [op |-> [path |-> p, id |-> 0], ok |-> TRUE, seen |-> "unread"] \in RefreshesAt(n, e)
    BY <2>3 DEF RefreshesAt
  <2>5. refreshes' \subseteq RefreshesAt(n, e)
    BY <1>1, <2>2, <2>4
  <2>6. Queues(n, e)' /\ Cursor(n)'
    BY <1>1, <1>2, <1>12, <2>1, <2>5 DEF Cursor, diskVars
  <2> QED
    BY <1>4, <2>1, <2>3, <2>6 DEF Typed, Plain, InHand, diskVars, ghosts, counters
<1>26. ASSUME UNCHANGED <<diskVars, queueVars, todo, body, ghosts>>,
              pc' \in {"settle", "list", "drain", "rebuild", "fetch"},
              pending' \subseteq Paths, wait' \subseteq Nat, batch' \subseteq Paths
       PROVE  Typed(n, e)'
  <2>1. Queues(n, e)' /\ Cursor(n)'
    BY <1>1, <1>2, <1>12, <1>26 DEF Cursor, diskVars, queueVars
  <2> QED
    BY <1>4, <1>26, <2>1 DEF Typed, Plain, InHand, diskVars, queueVars, ghosts, counters
<1>27. ASSUME DrainEnds \/ OutboxEmptyOrAgain PROVE Typed(n, e)'
  BY <1>4, <1>6, <1>26, <1>27 DEF DrainEnds, OutboxEmptyOrAgain, Plain
<1>28. ASSUME ListForRebuild PROVE Typed(n, e)'
  BY <1>4, <1>6, <1>26, <1>28 DEF ListForRebuild, Plain
<1>29. ASSUME Rebuild PROVE Typed(n, e)'
  BY <1>4, <1>6, <1>26, <1>29 DEF Rebuild, Plain
<1>30. ASSUME Fetch PROVE Typed(n, e)'
  <2>1. /\ inbox' = inbox \cup InboxLines(files, revision) /\ pc' = "apply"
        /\ UNCHANGED <<disk, outbox, revision, saved, dead, pending, queueVars, tickVars, ghosts>>
    BY <1>30 DEF Fetch, FetchAbove
  <2>2. InboxLines(files, revision) \subseteq LinesAt(n)
    <3>1. ASSUME NEW p \in Paths PROVE InboxLine(files, p) \in LinesAt(n)
      <4>1. files[p].rev \in 0 .. n
        BY <1>7, TipIsGreatest
      <4> QED
        BY <4>1 DEF InboxLine, LinesAt
    <3> QED
      BY <3>1 DEF InboxLines, Inbox
  <2>3. Queues(n, e)' /\ Cursor(n)'
    BY <1>1, <1>2, <1>12, <2>1, <2>2 DEF Cursor, queueVars, tickVars
  <2> QED
    BY <1>4, <2>1, <2>3 DEF Typed, Plain, InHand, queueVars, tickVars, ghosts, counters
<1>31. ASSUME EndTick PROVE Typed(n, e)'
  BY <1>21, <1>31 DEF EndTick
<1>32. ASSUME NEW line \in inbox, DropLine(line) \/ RewriteInbox(line) PROVE Typed(n, e)'
  <2>1. /\ inbox' \subseteq inbox /\ pc \in {"apply", "rewrite"} /\ pc' = "apply"
        /\ UNCHANGED <<disk, outbox, revision, saved, dead, pending, queueVars, tickVars, ghosts>>
    BY <1>32 DEF DropLine, RewriteInbox
  <2>2. Queues(n, e)' /\ Cursor(n)'
    BY <1>1, <1>2, <1>12, <2>1 DEF Cursor, queueVars, tickVars
  <2> QED
    BY <1>4, <2>1, <2>2 DEF Typed, Plain, InHand, queueVars, tickVars, ghosts, counters
<1>33. ASSUME NEW line \in inbox, IsFirst(line), line.rev > revision
       PROVE  \A other \in inbox : other.rev > revision
  BY <1>2, <1>33 DEF IsFirst
<1>34. ASSUME NEW line \in inbox, ApplyDelete(line) PROVE Typed(n, e)'
  <2>1. /\ pc' = "advance" /\ IsFirst(line) /\ line.rev > revision
        /\ UNCHANGED <<outbox, inbox, revision, saved, dead, pending, queueVars, tickVars, ghosts>>
        /\ disk' \in [Paths -> Contents \cup {NoContent}]
    BY <1>4, <1>34 DEF ApplyDelete, Plain
  <2>2. Queues(n, e)' /\ Cursor(n)'
    BY <1>1, <1>2, <1>12, <2>1 DEF Cursor, queueVars, tickVars
  <2> QED
    BY <1>4, <1>33, <2>1, <2>2 DEF Typed, Plain, InHand, queueVars, tickVars, ghosts, counters
<1>35. ASSUME NEW line \in inbox, Download(line) PROVE Typed(n, e)'
  <2>1. /\ pc' \in {"write", "advance"} /\ IsFirst(line) /\ line.rev > revision
        /\ Held /\ UNCHANGED <<wait, todo, batch>>
        /\ body' = files[line.path].content
    BY <1>35 DEF Download
  <2>2. body' \in Contents \cup {NoContent}
    BY <1>2, <1>7, <2>1
  <2>3. Queues(n, e)' /\ Cursor(n)'
    BY <1>1, <1>13, <2>1
  <2>4. Plain'
    BY <1>4, <2>1, <2>2 DEF Plain, diskVars, queueVars, ghosts, counters
  <2>5. InHand'
    BY <1>33, <2>1 DEF InHand, diskVars
  <2> QED
    BY <2>3, <2>4, <2>5 DEF Typed
<1>36. ASSUME NEW line \in inbox, WriteBody(line) PROVE Typed(n, e)'
  <2>1. /\ pc = "write"
        /\ UNCHANGED <<outbox, inbox, revision, saved, dead, pending, queueVars, ghosts>>
        /\ \/ Idle /\ UNCHANGED disk
           \/ /\ pc' = "advance" /\ body' = NoContent /\ UNCHANGED <<wait, todo, batch>>
              /\ \/ disk' = disk
                 \/ disk' = [q \in Paths |-> IF q = line.path THEN body
                                             ELSE IF q \in Above(line.path) THEN NoContent ELSE disk[q]]
    BY <1>36 DEF WriteBody, WriteUnless
  <2>2. disk' \in [Paths -> Contents \cup {NoContent}]
    BY <1>4, <2>1 DEF Plain
  <2>3. todo' \in Seq(S)
    BY <1>1, <1>20, <2>1
  <2>4. Queues(n, e)' /\ Cursor(n)'
    BY <1>1, <1>2, <1>12, <2>1, <2>3 DEF Cursor, queueVars
  <2>5. pc' \in {"idle", "advance"} /\ wait' \subseteq Nat /\ batch' \subseteq Paths /\ body' = NoContent
    BY <1>4, <1>20, <2>1 DEF Plain
  <2>6. Plain'
    BY <1>4, <2>1, <2>2, <2>5 DEF Plain, queueVars, ghosts, counters
  <2>7. InHand'
    BY <1>4, <2>1, <2>5 DEF InHand
  <2> QED
    BY <2>4, <2>6, <2>7 DEF Typed
<1>37. ASSUME NEW line \in inbox, Advance(line) PROVE Typed(n, e)'
  <2>1. /\ pc' = "rewrite" /\ revision' = line.rev /\ saved' = line.rev
        /\ UNCHANGED <<disk, outbox, inbox, dead, pending, queueVars, tickVars, ghosts>>
    BY <1>37 DEF Advance, AdvanceTo
  <2>2. Queues(n, e)' /\ Cursor(n)'
    BY <1>1, <1>2, <1>12, <2>1 DEF Cursor, queueVars, tickVars
  <2> QED
    BY <1>4, <2>1, <2>2 DEF Typed, Plain, InHand, queueVars, tickVars, ghosts, counters
<1>38. ASSUME NEW line \in inbox, AdvanceUnsaved(line) PROVE Typed(n, e)'
  <2>1. /\ pc = "advance" /\ revision' = line.rev /\ Idle
        /\ UNCHANGED <<disk, outbox, inbox, saved, dead, pending, queueVars, lost, sent, edits, remotes>>
    BY <1>38 DEF AdvanceUnsaved
  <2>2. line.rev > revision
    BY <1>4, <2>1 DEF InHand
  <2>3. Queues(n, e)' /\ Cursor(n)'
    BY <1>1, <1>2, <1>12, <1>20, <2>1, <2>2 DEF Cursor, queueVars
  <2> QED
    BY <1>4, <1>20, <2>1, <2>3 DEF Typed, Plain, InHand, queueVars
<1>39. ASSUME TickFails PROVE Typed(n, e)'
  <2>1. /\ Idle /\ refreshes' \subseteq refreshes
        /\ UNCHANGED <<diskVars, pending, basing, appends, failed, hydrated, lost, sent, edits, remotes>>
    BY <1>39 DEF TickFails
  <2>2. Queues(n, e)' /\ Cursor(n)'
    BY <1>1, <1>2, <1>12, <1>20, <2>1 DEF Cursor, diskVars
  <2> QED
    BY <1>4, <1>20, <2>1, <2>2 DEF Typed, Plain, InHand, diskVars
<1>40. ASSUME Crash PROVE Typed(n, e)'
  <2>1. /\ Idle /\ refreshes' = {} /\ pending' = {} /\ basing' = {} /\ appends' = <<>> /\ failed' = {}
        /\ hydrated' = FALSE /\ lost' = lost \cup PathsOf(Volatile) /\ revision' = saved
        /\ UNCHANGED <<disk, outbox, inbox, saved, dead, sent, edits, remotes>>
    BY <1>40 DEF Crash
  <2>2. IsFiniteSet({})
    BY FS_EmptySet
  <2>3. Queues(n, e)' /\ Cursor(n)'
    BY <1>1, <1>2, <1>9, <1>12, <1>20, <2>1, <2>2 DEF Cursor
  <2>4. PathsOf(Volatile) \subseteq Paths
    <3>1. ToSet(appends) \subseteq S
      BY <1>1, Elements
    <3>2. \A s \in refreshes : s.op.path \in Paths
      BY <1>1, <1>3 DEF RefreshesAt, S
    <3>3. \A op \in Volatile : op.path \in Paths
      BY <1>1, <1>3, <3>1, <3>2 DEF Volatile
    <3> QED
      BY <3>3 DEF PathsOf
  <2>5. (dead \cup pending \cup batch \cup lost)' \subseteq Paths
    BY <1>4, <1>20, <2>1, <2>4 DEF Plain
  <2>6. Plain'
    BY <1>4, <1>20, <2>1, <2>5 DEF Plain
  <2>7. InHand'
    BY <1>20, <2>1 DEF InHand
  <2> QED
    BY <2>3, <2>6, <2>7 DEF Typed
<1> QED
  BY <1>14, <1>15, <1>16, <1>17, <1>18, <1>19, <1>22, <1>23, <1>24, <1>25, <1>27, <1>28, <1>29,
     <1>30, <1>31, <1>32, <1>34, <1>35, <1>36, <1>37, <1>38, <1>39, <1>40 DEF Ticking, Applying, Typed

(* Only a request of the tick and another device change the server.        *)
LEMMA ServerChanges == Next => UNCHANGED files \/ Push \/ RemoteChange
<1>1. ASSUME NEW p \in Paths, Save(p) \/ Erase(p) PROVE UNCHANGED files
  BY <1>1 DEF Save, Erase
<1>2. Enqueueing \/ AppendOutbox(FALSE) => UNCHANGED files
  BY DEF Enqueueing, AppendOutbox, EnqueueDelete, ReadListing, RefreshPending
<1>3. ASSUME NEW line \in inbox,
             \/ DropLine(line) \/ Applying(line) \/ Download(line) \/ Advance(line)
             \/ RewriteInbox(line) \/ AdvanceUnsaved(line)
      PROVE  UNCHANGED files
  BY <1>3 DEF DropLine, Applying, ApplyDelete, WriteBody, WriteUnless, Download, Advance, AdvanceTo,
              RewriteInbox, AdvanceUnsaved
<1>4. TickFails \/ Crash => UNCHANGED files
  BY DEF TickFails, Crash
<1>5. \/ StartTick \/ RetryFailed \/ Hydrate \/ DrainSnapshot \/ NextPut \/ NextDelete \/ ReadBody
      \/ Acknowledge \/ RefreshProcessed \/ DrainEnds \/ OutboxEmptyOrAgain
      \/ ListForRebuild \/ Rebuild \/ Fetch \/ EndTick
      => UNCHANGED files
  BY DEF StartTick, RetryFailed, Hydrate, DrainSnapshot, NextPut, NextDelete, ReadBody, Acknowledge,
         Strike, RefreshProcessed, DrainEnds, OutboxEmptyOrAgain, ListForRebuild, Rebuild, Fetch,
         FetchAbove, EndTick
<1>6. Ticking => UNCHANGED files \/ Push
  BY <1>3, <1>5 DEF Ticking
<1> QED
  BY <1>1, <1>2, <1>3, <1>4, <1>6 DEF Next

(* Each change is an upload or a delete with a base the server has reached. *)
LEMMA ServerRequests ==
  ASSUME IInv, Next
  PROVE  \/ UNCHANGED files
         \/ \E p \in Paths : \/ \E v \in Contents : files' = Uploaded(files, p, v)
                           \/ \E base \in {NoBase} \cup 0 .. Tip(files) :
                                files' = Deleted(files, p, base)
<1>1. CASE Push
  <2> DEFINE op == Head(todo)
  <2>1. /\ pc = "push"
        /\ \/ UNCHANGED files
           \/ op.op = "put" /\ files' = Uploaded(files, op.path, body)
           \/ op.op # "put" /\ files' = Deleted(files, op.path, op.base)
    BY <1>1 DEF Push, Send
  <2>2. todo # <<>> /\ (op.op = "put" => body \in Contents) /\ todo \in Seq(OpsAt(Tip(files), edits))
    BY <2>1 DEF IInv, Typed, InHand, Queues
  <2>3. op \in OpsAt(Tip(files), edits)
    BY <2>2
  <2>4. op.path \in Paths /\ op.base \in {NoBase} \cup 0 .. Tip(files)
    BY <2>3 DEF OpsAt
  <2> HIDE DEF op
  <2> QED
    BY <2>1, <2>2, <2>4
<1>2. CASE RemoteChange
  <2>1. remotes < MaxRemote /\ remotes \in Nat
    BY <1>2 DEF RemoteChange, IInv, Typed, Plain
  <2>2. -(remotes + 1) \in Contents
    <3>1. remotes + 1 \in 1 .. MaxRemote
      BY <2>1, Bounds
    <3> QED
      BY <3>1, Numbered
  <2>3. PICK p \in Paths :
             \/ files' = Uploaded(files, p, -(remotes + 1))
             \/ \E base \in Reached(files) \cup {NoBase} : files' = Deleted(files, p, base)
    BY <1>2 DEF RemoteChange
  <2>4. Reached(files) = 0 .. Tip(files)
    BY ReachedIsTip DEF IInv
  <2> QED
    BY <2>2, <2>3, <2>4
<1> QED
  BY <1>1, <1>2, ServerChanges

(* The server's table keeps its type and its tip never falls.              *)
LEMMA ServerSteps ==
  ASSUME IInv, Next
  PROVE  files' \in Table /\ Tip(files)' \in Nat /\ Tip(files)' >= Tip(files)
<1>1. Tip(files) \in Nat /\ files \in Table
  BY TipIsGreatest DEF IInv
<1>2. CASE UNCHANGED files
  BY <1>1, <1>2
<1>3. ASSUME NEW p \in Paths, NEW v \in Contents, files' = Uploaded(files, p, v)
      PROVE  files' \in Table /\ Tip(files)' >= Tip(files)
  <2>1. files' \in Table /\ Tip(files)' > Tip(files)
    BY <1>1, <1>3, UploadPromised
  <2>2. Tip(files)' \in Nat
    BY <2>1, TipIsGreatest
  <2> QED
    BY <1>1, <2>1, <2>2
<1>4. ASSUME NEW p \in Paths, NEW base \in {NoBase} \cup 0 .. Tip(files), files' = Deleted(files, p, base)
      PROVE  files' \in Table /\ Tip(files)' >= Tip(files)
  BY <1>1, <1>4, DeletePromised
<1>5. files' \in Table => Tip(files)' \in Nat
  BY TipIsGreatest
<1> QED
  BY <1>2, <1>3, <1>4, <1>5, ServerRequests

(* The initial state.                                                      *)
LEMMA IInvInitially == Init => IInv
<1> SUFFICES ASSUME Init PROVE IInv
  OBVIOUS
<1>1. files \in Table
  BY DEF Init, Table, Row, NoRow
<1>2. Tip(files) \in Nat
  BY <1>1, TipIsGreatest
<1>3. <<>> \in Seq(OpsAt(Tip(files), edits)) /\ IsFiniteSet({})
  BY FS_EmptySet
<1>4. Queues(Tip(files), edits)
  BY <1>3 DEF Init, Queues
<1>5. Cursor(Tip(files))
  BY <1>2 DEF Init, Cursor
<1>6. Plain
  BY DEF Init, Plain
<1>7. InHand
  BY DEF Init, InHand
<1> QED
  BY <1>1, <1>4, <1>5, <1>6, <1>7 DEF IInv, Typed

(* The next state's types, read with a later tip.                          *)
LEMMA TypedLater ==
  ASSUME NEW n \in Nat, NEW m \in Nat, n <= m, NEW e \in Nat, Typed(n, e)'
  PROVE  Typed(m, e)'
<1>1. 0 .. n \subseteq 0 .. m
  OBVIOUS
<1>2. OpsAt(n, e) \subseteq OpsAt(m, e) /\ LinesAt(n) \subseteq LinesAt(m)
  BY <1>1 DEF OpsAt, LinesAt
<1>3. RefreshesAt(n, e) \subseteq RefreshesAt(m, e)
  BY <1>2 DEF RefreshesAt
<1>4. Seq(OpsAt(n, e)) \subseteq Seq(OpsAt(m, e))
  BY <1>2
<1>5. Queues(n, e)' /\ Cursor(n)' /\ Plain' /\ InHand'
  BY DEF Typed
<1>6. Queues(m, e)'
  BY <1>2, <1>3, <1>4, <1>5 DEF Queues
<1>7. Cursor(m)'
  BY <1>1, <1>2, <1>5 DEF Cursor
<1> QED
  BY <1>5, <1>6, <1>7 DEF Typed

(* Only the user edits.                                                    *)
LEMMA EditsKept ==
  \/ Ticking \/ TickFails \/ Crash \/ RemoteChange \/ Enqueueing \/ AppendOutbox(FALSE)
  \/ \E line \in inbox : AdvanceUnsaved(line)
  => edits' = edits
<1>1. ASSUME NEW line \in inbox,
             \/ DropLine(line) \/ Applying(line) \/ Download(line) \/ Advance(line)
             \/ RewriteInbox(line) \/ AdvanceUnsaved(line)
      PROVE  edits' = edits
  BY <1>1 DEF DropLine, Applying, ApplyDelete, WriteBody, WriteUnless, Download, Advance, AdvanceTo,
              RewriteInbox, AdvanceUnsaved, ghosts, counters
<1>2. \/ StartTick \/ RetryFailed \/ Hydrate \/ DrainSnapshot \/ NextPut \/ NextDelete \/ ReadBody
      \/ Push \/ Acknowledge \/ RefreshProcessed \/ DrainEnds \/ OutboxEmptyOrAgain
      \/ ListForRebuild \/ Rebuild \/ Fetch \/ EndTick
      => edits' = edits
  BY DEF StartTick, RetryFailed, Hydrate, DrainSnapshot, NextPut, NextDelete, ReadBody, Push, Send,
         Acknowledge, Strike, RefreshProcessed, DrainEnds, OutboxEmptyOrAgain, ListForRebuild, Rebuild,
         Fetch, FetchAbove, EndTick, ghosts, counters
<1>3. TickFails \/ Crash \/ RemoteChange \/ Enqueueing \/ AppendOutbox(FALSE) => edits' = edits
  BY DEF TickFails, Crash, RemoteChange, Enqueueing, AppendOutbox, EnqueueDelete, ReadListing,
         RefreshPending, ghosts, counters
<1> QED
  BY <1>1, <1>2, <1>3 DEF Ticking

(* Their number grows.                                                     *)
LEMMA EditsCounted ==
  ASSUME edits \in Nat, Next
  PROVE  edits' \in Nat /\ edits <= edits'
<1>1. ASSUME NEW p \in Paths, Save(p) \/ Erase(p) PROVE edits' = edits + 1
  BY <1>1 DEF Save, Erase
<1>2. edits' = edits + 1 \/ edits' = edits
  BY <1>1, EditsKept DEF Next
<1> QED
  BY <1>2

(* Every step keeps the types.                                             *)
LEMMA IInvKept == IInv /\ [Next]_vars => IInv'
<1>1. ASSUME IInv, UNCHANGED vars PROVE IInv'
  <2>1. /\ UNCHANGED <<files, disk, outbox, inbox, revision, saved, dead, pending, basing, appends>>
        /\ UNCHANGED <<refreshes, failed, hydrated, pc, wait, todo, body, batch, lost, sent>>
        /\ UNCHANGED <<edits, remotes>>
    BY <1>1 DEF vars, tickVars, diskVars, queueVars, ghosts, counters
  <2>2. Queues(Tip(files), edits)' = Queues(Tip(files), edits)
    BY <2>1 DEF Queues
  <2>3. Cursor(Tip(files))' = Cursor(Tip(files)) /\ Plain' = Plain /\ InHand' = InHand
    BY <2>1 DEF Cursor, Plain, InHand
  <2> QED
    BY <1>1, <2>1, <2>2, <2>3 DEF IInv, Typed
<1>2. ASSUME IInv, Next,
             NEW n \in Nat, n = Tip(files), NEW m \in Nat, m = Tip(files)', n <= m,
             NEW d \in Nat, d = edits, NEW e \in Nat, e = edits'
      PROVE  Typed(m, e)'
  <2>1. files \in Table /\ Typed(n, d)
    BY <1>2 DEF IInv
  <2>2. CASE \E p \in Paths : Save(p) \/ Erase(p)
    <3>1. d <= e /\ edits + 1 <= e
      BY <1>2, <2>2 DEF Save, Erase
    <3>2. Typed(n, e)
      BY <2>1, <3>1, TypedMore
    <3>3. Typed(n, e)'
      BY <2>2, <3>1, <3>2, EnqueueTypes
    <3> QED
      BY <1>2, <3>3, TypedLater
  <2>3. CASE Enqueueing \/ AppendOutbox(FALSE)
    <3>1. e = d
      BY <1>2, <2>3 DEF Enqueueing, EnqueueDelete, AppendOutbox, ReadListing, RefreshPending, ghosts, counters
    <3>2. Typed(n, e)'
      BY <2>1, <2>3, <3>1, EnqueueTypes
    <3> QED
      BY <1>2, <3>2, TypedLater
  <2>4. CASE Ticking \/ TickFails \/ Crash \/ \E line \in inbox : AdvanceUnsaved(line)
    <3>1. e = d
      BY <1>2, <2>4, EditsKept
    <3>2. Typed(n, e)'
      BY <1>2, <2>1, <2>4, <3>1, TickTypes
    <3> QED
      BY <1>2, <3>2, TypedLater
  <2>5. CASE RemoteChange
    <3>1. /\ UNCHANGED <<diskVars, pending, queueVars, pc, tickVars, lost, sent, edits, faults>>
          /\ remotes' = remotes + 1
      BY <2>5 DEF RemoteChange
    <3>2. Queues(n, e)' /\ Cursor(n)' /\ Plain' /\ InHand'
      BY <1>2, <2>1, <3>1 DEF Typed, Queues, Cursor, Plain, InHand, diskVars, queueVars, tickVars
    <3>3. Typed(n, e)'
      BY <3>2 DEF Typed
    <3> QED
      BY <1>2, <3>3, TypedLater
  <2> QED
    BY <1>2, <2>2, <2>3, <2>4, <2>5 DEF Next
<1>3. ASSUME IInv, Next PROVE IInv'
  <2>1. Tip(files) \in Nat /\ edits \in Nat
    BY <1>3, TipIsGreatest DEF IInv, Typed, Plain
  <2>2. files' \in Table /\ Tip(files)' \in Nat /\ Tip(files) <= Tip(files)'
    BY <1>3, <2>1, ServerSteps
  <2>3. edits' \in Nat
    BY <1>3, <2>1, EditsCounted
  <2>4. PICK n \in Nat, m \in Nat, d \in Nat, e \in Nat :
          n = Tip(files) /\ m = Tip(files)' /\ d = edits /\ e = edits'
    BY <2>1, <2>2, <2>3
  <2>5. Typed(m, e)'
    BY <1>2, <1>3, <2>2, <2>4
  <2>6. Queues(m, e)' /\ Cursor(m)' /\ Plain' /\ InHand'
    BY <2>5 DEF Typed
  <2>7. Queues(Tip(files), edits)' /\ Cursor(Tip(files))'
    BY <2>4, <2>6 DEF Queues, Cursor
  <2> QED
    BY <2>2, <2>6, <2>7 DEF IInv, Typed
<1> QED
  BY <1>1, <1>3

(* The inductive invariant.                                                *)
THEOREM IInvHolds == Spec => []IInv
BY IInvInitially, IInvKept, PTL DEF Spec

(* Every variable has the type the runs check, for every number of paths,  *)
(* edits, remote changes and faults: no operation, inbox line or cursor    *)
(* of engine.ts, outbox.ts or inbox.ts leaves its range.                   *)
THEOREM TypeCorrect == Spec => []TypeOK
BY IInvHolds, IInvIsTypeOK, PTL

-----------------------------------------------------------------------------
(* The conflict guard.  At most one enqueue of a path is on its way (the   *)
(* short reads of local files end before the path's next save), so the     *)
(* look that ends it is at the outbox as it left it; from the rebuild on,  *)
(* what is in the outbox, waits for it or failed to get there is pending.  *)

Own == {s \in refreshes : s.op.id # 0}
Distinct(s) == \A i, j \in 1 .. Len(s) : s[i].path = s[j].path => i = j
Refreshed == PathsOf({s.op : s \in refreshes})

OneEach ==
  /\ Distinct(appends)
  /\ \A op, other \in basing : op.path = other.path => op = other
  /\ \A s, t \in Own : s.op.path = t.op.path => s = t
  /\ \A s \in Own : s.op.path \notin Counted \cup PathsOf(basing)
  /\ Counted \cap PathsOf(basing) = {}

(* The tick looks at a path itself only when its drain has nothing left,   *)
(* and waits for nobody while it drains.                                   *)
TickOwn ==
  /\ \A s \in refreshes : s.op.id = 0 => pc = "next" /\ todo = <<>>
  /\ pc \in {"next", "read", "push", "ack"} => wait = {}

Guarding == pc \in {"list", "rebuild", "fetch", "apply", "write", "advance", "rewrite"}

GuardBuilt ==
  /\ Guarding => \A s \in refreshes : s.seen = "gone" => s.op.path \notin OutboxPaths
  /\ Guarding => OutboxPaths \subseteq pending \cup Counted \cup Refreshed
  /\ Guarding /\ pc \notin {"list", "rebuild"} =>
       Counted \cup PathsOf(failed) \subseteq pending \cup Refreshed

GInv == OneEach /\ TickOwn /\ GuardBuilt

(* The steps that start no enqueue and end none. *)
Elsewhere ==
  \/ StartTick \/ RetryFailed \/ Hydrate \/ DrainSnapshot \/ NextPut \/ NextDelete \/ ReadBody
  \/ Push \/ Acknowledge \/ DrainEnds \/ OutboxEmptyOrAgain \/ ListForRebuild \/ Rebuild \/ Fetch
  \/ EndTick \/ RemoteChange
  \/ \E line \in inbox : \/ DropLine(line) \/ Applying(line) \/ Download(line) \/ Advance(line)
                         \/ RewriteInbox(line) \/ AdvanceUnsaved(line)

(* They leave the enqueues alone.                                          *)
LEMMA ElsewhereUnchanged == Elsewhere => UNCHANGED <<basing, appends, refreshes>>
<1>1. ASSUME NEW line \in inbox,
             \/ DropLine(line) \/ Applying(line) \/ Download(line) \/ Advance(line)
             \/ RewriteInbox(line) \/ AdvanceUnsaved(line)
      PROVE  UNCHANGED <<basing, appends, refreshes>>
  BY <1>1 DEF DropLine, Applying, ApplyDelete, WriteBody, WriteUnless, Download, Advance, AdvanceTo,
              RewriteInbox, AdvanceUnsaved, queueVars
<1>2. \/ StartTick \/ RetryFailed \/ Hydrate \/ DrainSnapshot \/ NextPut \/ NextDelete \/ ReadBody
      \/ Push \/ Acknowledge
      => UNCHANGED <<basing, appends, refreshes>>
  BY DEF StartTick, RetryFailed, Hydrate, DrainSnapshot, NextPut, NextDelete, ReadBody, Push, Send,
         Acknowledge, Strike, queueVars
<1>3. \/ DrainEnds \/ OutboxEmptyOrAgain \/ ListForRebuild \/ Rebuild \/ Fetch \/ EndTick \/ RemoteChange
      => UNCHANGED <<basing, appends, refreshes>>
  BY DEF DrainEnds, OutboxEmptyOrAgain, ListForRebuild, Rebuild, Fetch, FetchAbove, EndTick,
         RemoteChange, queueVars
<1> QED
  BY <1>1, <1>2, <1>3 DEF Elsewhere

(* Paths of the elements of a sequence whose paths differ.                 *)
LEMMA DistinctPaths ==
  ASSUME NEW S, NEW s \in Seq(S), Distinct(s)
  PROVE  /\ s # <<>> => Distinct(Tail(s)) /\ Head(s).path \notin PathsOf(ToSet(Tail(s)))
         /\ \A x \in S : x.path \notin PathsOf(ToSet(s)) => Distinct(Append(s, x))
<1>1. ASSUME s # <<>> PROVE Distinct(Tail(s)) /\ Head(s).path \notin PathsOf(ToSet(Tail(s)))
  <2>1. /\ Len(s) \in Nat /\ Len(s) >= 1 /\ Len(Tail(s)) = Len(s) - 1 /\ Head(s) = s[1]
        /\ Tail(s) \in Seq(S) /\ \A i \in 1 .. Len(Tail(s)) : Tail(s)[i] = s[i + 1]
    BY <1>1
  <2>2. \A i \in 1 .. Len(Tail(s)) : i + 1 \in 1 .. Len(s) /\ i + 1 # 1 /\ 1 \in 1 .. Len(s)
    BY <2>1
  <2>3. Distinct(Tail(s))
    <3> SUFFICES ASSUME NEW i \in 1 .. Len(Tail(s)), NEW j \in 1 .. Len(Tail(s)),
                        Tail(s)[i].path = Tail(s)[j].path
                 PROVE  i = j
      BY DEF Distinct
    <3>1. i + 1 = j + 1
      BY <2>1, <2>2 DEF Distinct
    <3> QED
      BY <3>1
  <2>4. \A i \in 1 .. Len(Tail(s)) : Tail(s)[i].path # Head(s).path
    <3> SUFFICES ASSUME NEW i \in 1 .. Len(Tail(s)), Tail(s)[i].path = Head(s).path PROVE FALSE
      OBVIOUS
    <3>1. s[i + 1].path = s[1].path
      BY <2>1
    <3> QED
      BY <2>2, <3>1 DEF Distinct
  <2>5. ToSet(Tail(s)) = {Tail(s)[i] : i \in 1 .. Len(Tail(s))}
    BY <2>1, Places
  <2> QED
    BY <2>3, <2>4, <2>5 DEF PathsOf
<1>2. ASSUME NEW x \in S, x.path \notin PathsOf(ToSet(s)) PROVE Distinct(Append(s, x))
  <2>1. /\ Len(Append(s, x)) = Len(s) + 1 /\ Len(s) \in Nat
        /\ Append(s, x)[Len(s) + 1] = x
        /\ \A i \in 1 .. Len(s) : Append(s, x)[i] = s[i]
    OBVIOUS
  <2>2. \A i \in 1 .. Len(s) : s[i].path # x.path
    BY <1>2, Places DEF PathsOf
  <2> SUFFICES ASSUME NEW i \in 1 .. Len(Append(s, x)), NEW j \in 1 .. Len(Append(s, x)),
                      Append(s, x)[i].path = Append(s, x)[j].path
               PROVE  i = j
    BY DEF Distinct
  <2>3. (i \in 1 .. Len(s) \/ i = Len(s) + 1) /\ (j \in 1 .. Len(s) \/ j = Len(s) + 1)
    BY <2>1
  <2>4. CASE i \in 1 .. Len(s) /\ j \in 1 .. Len(s)
    BY <2>1, <2>4 DEF Distinct
  <2>5. CASE ~(i \in 1 .. Len(s) /\ j \in 1 .. Len(s))
    BY <2>1, <2>2, <2>3, <2>5
  <2> QED
    BY <2>4, <2>5
<1> QED
  BY <1>1, <1>2

(* An append always ends its path's last enqueue.                          *)
LEMMA AppendShape ==
  ASSUME IInv, OneEach, NEW ok \in BOOLEAN, AppendOutbox(ok)
  PROVE  \E op \in OpsAt(Tip(files), edits) :
           /\ ToSet(appends) = {op} \cup ToSet(appends')
           /\ op.path \notin PathsOf(ToSet(appends')) /\ Distinct(appends')
           /\ refreshes' = refreshes \cup {[op |-> op, ok |-> ok, seen |-> "unread"]}
           /\ outbox' = IF ok THEN Append(outbox, op) ELSE outbox
           /\ UNCHANGED <<disk, inbox, revision, saved, dead, basing, pending, failed, hydrated, pc,
                          tickVars, lost, sent, edits>>
<1> DEFINE op == Head(appends)
           S == OpsAt(Tip(files), edits)
<1>1. appends \in Seq(S) /\ appends # <<>> /\ appends' = Tail(appends)
  BY DEF IInv, Typed, Queues, AppendOutbox
<1> HIDE DEF S
<1>2. op \in S /\ ToSet(appends) = {op} \cup ToSet(Tail(appends))
  BY <1>1, Elements
<1>3. Distinct(Tail(appends)) /\ op.path \notin PathsOf(ToSet(Tail(appends)))
  BY <1>1, DistinctPaths DEF OneEach
<1>4. /\ refreshes' = refreshes \cup {[op |-> op, ok |-> ok, seen |-> "unread"]}
      /\ UNCHANGED <<failed, pending, pc, tickVars>>
  BY <1>3 DEF AppendOutbox
<1>5. /\ outbox' = IF ok THEN Append(outbox, op) ELSE outbox
      /\ UNCHANGED <<disk, inbox, revision, saved, dead, basing, hydrated, lost, sent, edits>>
  BY DEF AppendOutbox
<1> HIDE DEF op
<1> QED
  BY <1>1, <1>2, <1>3, <1>4, <1>5 DEF S

(* The end of an enqueue, or of a look by the tick.                        *)
LEMMA RefreshShape ==
  ASSUME IInv, NEW s \in refreshes, RefreshPending(s)
  PROVE  /\ s.op.path \in Paths /\ s.ok \in BOOLEAN /\ s.seen \in {"listed", "gone"}
         /\ s.op.id # 0 => s.op \in OpsAt(Tip(files), edits)
         /\ refreshes' = refreshes \ {s}
         /\ UNCHANGED <<diskVars, basing, appends, hydrated, ghosts>>
         /\ UNCHANGED <<pc, tickVars>> \/ (Idle /\ s.op.id # 0 /\ s.op.id \in wait)
         /\ \/ s.op.id = 0 /\ failed' = failed
            \/ s.op.id # 0 /\ s.ok /\ failed' = {f \in failed : f.path # s.op.path}
            \/ s.op.id # 0 /\ ~s.ok /\ failed' = {f \in failed : f.path # s.op.path} \cup {s.op}
         /\ s.seen = "listed" => pending' = pending \cup {s.op.path}
         /\ s.seen = "gone" => pending \ {s.op.path} \subseteq pending'
         /\ s.op.id # 0 /\ ~s.ok => s.op.path \in pending'
<1> DEFINE pend == IF s.seen = "listed" THEN pending \cup {s.op.path} ELSE pending \ {s.op.path}
<1>1. s \in RefreshesAt(Tip(files), edits)
  BY DEF IInv, Typed, Queues
<1>2. /\ s.op.path \in Paths /\ s.ok \in BOOLEAN /\ s.seen \in {"listed", "gone"}
      /\ s.op.id # 0 => s.op \in OpsAt(Tip(files), edits)
  BY <1>1 DEF RefreshesAt, OpsAt, RefreshPending
<1>3. /\ refreshes' = refreshes \ {s}
      /\ UNCHANGED <<diskVars, basing, appends, hydrated, ghosts>>
      /\ \/ s.op.id = 0 /\ pending' = pend /\ UNCHANGED <<failed, pc, tickVars>>
         \/ s.op.id # 0 /\ Finish(s.op, s.ok, pend)
  BY DEF RefreshPending
<1>4. CASE s.op.id = 0
  BY <1>2, <1>3, <1>4
<1>5. CASE s.op.id # 0 /\ s.ok
  <2>1. failed' = {f \in failed : f.path # s.op.path} /\ pending' = pend /\ UNCHANGED <<pc, tickVars>>
    BY <1>3, <1>5 DEF Finish
  <2> QED
    BY <1>2, <1>3, <1>5, <2>1
<1>6. CASE s.op.id # 0 /\ ~s.ok
  <2>1. /\ failed' = {f \in failed : f.path # s.op.path} \cup {s.op}
        /\ pending' = pend \cup {s.op.path}
        /\ UNCHANGED <<pc, tickVars>> \/ (Idle /\ s.op.id \in wait)
    BY <1>3, <1>6 DEF Finish
  <2> QED
    BY <1>2, <1>3, <1>6, <2>1
<1> QED
  BY <1>2, <1>4, <1>5, <1>6

(* A listing.                                                              *)
LEMMA ListingShape ==
  ASSUME NEW s \in refreshes, ReadListing(s), IInv
  PROVE  \E t : /\ t.op = s.op /\ t.ok = s.ok /\ t.seen \in {"listed", "gone"}
                /\ t.seen = "gone" => s.op.path \notin OutboxPaths
                /\ refreshes' = (refreshes \ {s}) \cup {t}
                /\ UNCHANGED <<files, diskVars, pending, basing, appends, failed, hydrated, pc,
                               tickVars, ghosts>>
<1> DEFINE t == [s EXCEPT !.seen = IF s.op.path \in OutboxPaths THEN "listed" ELSE "gone"]
<1>1. s \in RefreshesAt(Tip(files), edits)
  BY DEF IInv, Typed, Queues
<1>2. t.op = s.op /\ t.ok = s.ok /\ t.seen = IF s.op.path \in OutboxPaths THEN "listed" ELSE "gone"
  BY <1>1 DEF RefreshesAt
<1>3. /\ refreshes' = (refreshes \ {s}) \cup {t}
      /\ UNCHANGED <<files, diskVars, pending, basing, appends, failed, hydrated, pc, tickVars, ghosts>>
  BY DEF ReadListing
<1> HIDE DEF t
<1> QED
  BY <1>2, <1>3

(* What a step does to the enqueues.                                       *)
LEMMA Steps ==
  ASSUME Next
  PROVE  \/ \E p \in Paths : Save(p) \/ Erase(p)
         \/ \E op \in basing : EnqueueDelete(op)
         \/ \E ok \in BOOLEAN : AppendOutbox(ok)
         \/ \E s \in refreshes : ReadListing(s) \/ RefreshPending(s)
         \/ RefreshProcessed \/ TickFails \/ Crash \/ Elsewhere
<1>1. Ticking => RefreshProcessed \/ Elsewhere
  BY DEF Ticking, Elsewhere
<1>2. Enqueueing => \/ \E op \in basing : EnqueueDelete(op)
                    \/ \E ok \in BOOLEAN : AppendOutbox(ok)
                    \/ \E s \in refreshes : ReadListing(s) \/ RefreshPending(s)
  BY DEF Enqueueing
<1>3. (\E line \in inbox : AdvanceUnsaved(line)) \/ RemoteChange => Elsewhere
  BY DEF Elsewhere
<1>4. AppendOutbox(FALSE) => \E ok \in BOOLEAN : AppendOutbox(ok)
  OBVIOUS
<1> QED
  BY <1>1, <1>2, <1>3, <1>4 DEF Next

(* A path has one enqueue on its way.                                      *)
LEMMA OneEachKept ==
  ASSUME IInv, OneEach, Prompt, Next
  PROVE  OneEach'
<1> DEFINE S == OpsAt(Tip(files), edits)
<1>1. appends \in Seq(S) /\ basing \subseteq S /\ refreshes \subseteq RefreshesAt(Tip(files), edits)
  BY DEF IInv, Typed, Queues
<1>2. CASE UNCHANGED <<basing, appends, refreshes>>
  BY <1>2 DEF OneEach, Distinct, Own, Counted
<1>3. ASSUME NEW p \in Paths, Save(p) PROVE OneEach'
  <2> DEFINE op == Op("put", p, NoBase)
             T == S \cup {op}
  <2>1. appends' = Append(appends, op) /\ UNCHANGED <<basing, refreshes>>
    BY <1>3 DEF Save
  <2>2. op.path = p
    BY DEF Op
  <2>3. p \notin Counted /\ p \notin PathsOf({s.op : s \in refreshes}) /\ p \notin PathsOf(basing)
    BY <1>3 DEF Save, Calm
  <2>4. appends \in Seq(T)
    BY <1>1
  <2> HIDE DEF S, op
  <2>5. op \in T
    OBVIOUS
  <2> HIDE DEF T
  <2>6. ToSet(appends') = ToSet(appends) \cup {op}
    BY <2>1, <2>4, <2>5, Elements
  <2>7. Distinct(appends')
    BY <2>1, <2>2, <2>3, <2>4, <2>5, DistinctPaths DEF OneEach, Counted
  <2>8. Counted' = Counted \cup {p}
    BY <2>2, <2>6 DEF Counted, PathsOf
  <2>9. \A s \in Own : s.op.path # p
    BY <2>3 DEF PathsOf, Own
  <2>10. Own' = Own /\ PathsOf(basing)' = PathsOf(basing)
    BY <2>1 DEF Own, PathsOf
  <2> QED
    BY <2>1, <2>3, <2>7, <2>8, <2>9, <2>10 DEF OneEach
<1>4. ASSUME NEW p \in Paths, Erase(p) PROVE OneEach'
  <2> DEFINE op == Op("delete", p, revision)
  <2>1. basing' = basing \cup {op} /\ UNCHANGED <<appends, refreshes>>
    BY <1>4 DEF Erase
  <2>2. op.path = p
    BY DEF Op
  <2>3. p \notin Counted /\ p \notin PathsOf({s.op : s \in refreshes}) /\ p \notin PathsOf(basing)
    BY <1>4 DEF Erase, Calm
  <2> HIDE DEF op
  <2>4. PathsOf(basing') = PathsOf(basing) \cup {p}
    BY <2>1, <2>2 DEF PathsOf
  <2>5. \A s \in Own : s.op.path # p
    BY <2>3 DEF PathsOf, Own
  <2>6. \A o \in basing : o.path # p
    BY <2>3 DEF PathsOf
  <2>7. Own' = Own /\ Counted' = Counted
    BY <2>1 DEF Own, Counted
  <2>8. \A o, other \in basing' : o.path = other.path => o = other
    BY <2>1, <2>2, <2>6 DEF OneEach
  <2>9. Distinct(appends)'
    BY <2>1 DEF OneEach
  <2>10. Counted' \cap PathsOf(basing') = {} /\ \A s \in Own' : s.op.path \notin Counted' \cup PathsOf(basing')
    BY <2>3, <2>4, <2>5, <2>7 DEF OneEach
  <2>11. \A s, t \in Own' : s.op.path = t.op.path => s = t
    BY <2>7 DEF OneEach
  <2> QED
    BY <2>8, <2>9, <2>10, <2>11 DEF OneEach
<1>5. ASSUME NEW op \in basing, EnqueueDelete(op) PROVE OneEach'
  <2>1. basing' = basing \ {op} /\ appends' = Append(appends, op) /\ UNCHANGED refreshes
    BY <1>5 DEF EnqueueDelete
  <2>2. op \in S
    BY <1>1
  <2> HIDE DEF S
  <2>3. op.path \in PathsOf(basing) /\ PathsOf(basing') \subseteq PathsOf(basing)
    BY <2>1 DEF PathsOf
  <2>4. op.path \notin PathsOf(ToSet(appends))
    BY <2>3 DEF OneEach, Counted
  <2>5. Distinct(appends') /\ ToSet(appends') = ToSet(appends) \cup {op}
    BY <1>1, <2>1, <2>2, <2>4, DistinctPaths, Elements DEF OneEach
  <2>6. Counted' = Counted \cup {op.path}
    BY <2>5 DEF Counted, PathsOf
  <2>7. op.path \notin PathsOf(basing')
    BY <2>1 DEF PathsOf, OneEach
  <2>8. Own' = Own
    BY <2>1 DEF Own
  <2>9. \A s \in Own' : s.op.path \notin Counted' \cup PathsOf(basing')
    BY <2>3, <2>6, <2>8 DEF OneEach
  <2>10. Counted' \cap PathsOf(basing') = {}
    BY <2>3, <2>6, <2>7 DEF OneEach
  <2>11. \A o, other \in basing' : o.path = other.path => o = other
    BY <2>1 DEF OneEach
  <2> QED
    BY <2>5, <2>8, <2>9, <2>10, <2>11 DEF OneEach
<1>6. ASSUME NEW ok \in BOOLEAN, AppendOutbox(ok) PROVE OneEach'
  <2>1. PICK op \in S :
           /\ ToSet(appends) = {op} \cup ToSet(appends')
           /\ op.path \notin PathsOf(ToSet(appends')) /\ Distinct(appends')
           /\ refreshes' = refreshes \cup {[op |-> op, ok |-> ok, seen |-> "unread"]}
           /\ basing' = basing
    BY <1>6, AppendShape
  <2> HIDE DEF S
  <2>2. Counted = Counted' \cup {op.path}
    BY <2>1 DEF Counted, PathsOf
  <2>3. op.path \notin Counted'
    BY <2>1 DEF Counted
  <2>4. Own' \subseteq Own \cup {[op |-> op, ok |-> ok, seen |-> "unread"]}
    BY <2>1 DEF Own
  <2>5. op.path \notin PathsOf(basing) /\ \A s \in Own : s.op.path # op.path
    BY <2>2 DEF OneEach
  <2>6. PathsOf(basing)' = PathsOf(basing)
    BY <2>1 DEF PathsOf
  <2>7. [op |-> op, ok |-> ok, seen |-> "unread"].op.path = op.path
    OBVIOUS
  <2>8. \A s, t \in Own' : s.op.path = t.op.path => s = t
    BY <2>4, <2>5, <2>7 DEF OneEach
  <2>9. \A s \in Own' : s.op.path \notin Counted' \cup PathsOf(basing)
    BY <2>2, <2>3, <2>4, <2>5, <2>7 DEF OneEach
  <2> QED
    BY <2>1, <2>2, <2>6, <2>8, <2>9 DEF OneEach
<1>7. ASSUME NEW s \in refreshes, ReadListing(s) PROVE OneEach'
  <2>1. PICK t : /\ t.op = s.op /\ refreshes' = (refreshes \ {s}) \cup {t}
                 /\ UNCHANGED <<basing, appends>>
    BY <1>7, ListingShape
  <2>2. \A x \in Own' : (x \in Own /\ x # s) \/ (x = t /\ s \in Own)
    BY <2>1 DEF Own
  <2>3. Distinct(appends)' /\ Counted' = Counted /\ PathsOf(basing)' = PathsOf(basing)
    BY <2>1 DEF OneEach, Counted, PathsOf
  <2>4. \A x, y \in Own' : x.op.path = y.op.path => x = y
    BY <2>1, <2>2 DEF OneEach
  <2>5. \A x \in Own' : x.op.path \notin Counted \cup PathsOf(basing)
    BY <2>1, <2>2 DEF OneEach
  <2>6. \A op, other \in basing' : op.path = other.path => op = other
    BY <2>1 DEF OneEach
  <2> QED
    BY <2>3, <2>4, <2>5, <2>6 DEF OneEach
<1>8. ASSUME refreshes' \subseteq refreshes \cup {x \in refreshes' : x.op.id = 0}, UNCHANGED <<basing, appends>>
      PROVE  OneEach'
  <2>1. Own' \subseteq Own
    BY <1>8 DEF Own
  <2>2. Distinct(appends)' /\ Counted' = Counted /\ PathsOf(basing)' = PathsOf(basing)
    BY <1>8 DEF OneEach, Counted, PathsOf
  <2> QED
    BY <1>8, <2>1, <2>2 DEF OneEach
<1>9. ASSUME NEW s \in refreshes, RefreshPending(s) PROVE OneEach'
  BY <1>8, <1>9 DEF RefreshPending
<1>10. ASSUME RefreshProcessed PROVE OneEach'
  <2>1. PICK p : \/ UNCHANGED refreshes
                 \/ refreshes' = refreshes \cup
                        {[op |-> [path |-> p, id |-> 0], ok |-> TRUE, seen |-> "unread"]}
    BY <1>10 DEF RefreshProcessed
  <2>2. UNCHANGED <<basing, appends>>
    BY <1>10 DEF RefreshProcessed
  <2>3. [op |-> [path |-> p, id |-> 0], ok |-> TRUE, seen |-> "unread"].op.id = 0
    OBVIOUS
  <2> QED
    BY <1>8, <2>1, <2>2, <2>3
<1>11. ASSUME TickFails PROVE OneEach'
  BY <1>8, <1>11 DEF TickFails
<1>12. ASSUME Crash PROVE OneEach'
  <2>1. basing' = {} /\ appends' = <<>> /\ refreshes' = {}
    BY <1>12 DEF Crash
  <2>2. Own' = {} /\ PathsOf(basing)' = {} /\ Distinct(appends)'
    BY <2>1 DEF Own, PathsOf, Distinct
  <2> QED
    BY <2>1, <2>2 DEF OneEach
<1> QED
  BY <1>2, <1>3, <1>4, <1>5, <1>6, <1>7, <1>9, <1>10, <1>11, <1>12, Steps, ElsewhereUnchanged

(* The tick's own looks come one at a time, at the end of a drain.         *)
LEMMA TickOwnKept ==
  ASSUME IInv, OneEach, TickOwn, Next
  PROVE  TickOwn'
<1> DEFINE Draining == {"next", "read", "push", "ack"}
<1>1. ASSUME UNCHANGED <<pc, wait, todo>>, \A s \in refreshes' : s.op.id = 0 => \E t \in refreshes : t.op.id = 0
      PROVE  TickOwn'
  BY <1>1 DEF TickOwn
<1>2. ASSUME pc' \notin Draining, \A s \in refreshes' : s.op.id # 0
      PROVE  TickOwn'
  BY <1>2 DEF TickOwn
<1>3. Idle => pc' \notin Draining
  BY DEF Idle
<1>4. ASSUME NEW p \in Paths, Save(p) \/ Erase(p) PROVE TickOwn'
  BY <1>1, <1>4 DEF Save, Erase, tickVars
<1>5. ASSUME NEW op \in basing, EnqueueDelete(op) PROVE TickOwn'
  BY <1>1, <1>5 DEF EnqueueDelete, tickVars
<1>6. ASSUME NEW ok \in BOOLEAN, AppendOutbox(ok) PROVE TickOwn'
  <2>1. PICK op \in OpsAt(Tip(files), edits) :
           /\ refreshes' = refreshes \cup {[op |-> op, ok |-> ok, seen |-> "unread"]}
           /\ UNCHANGED <<pc, tickVars>>
    BY <1>6, AppendShape
  <2>2. op.id # 0
    <3>1. op.id \in 1 .. edits /\ edits \in Nat
      BY DEF OpsAt, IInv, Typed, Plain
    <3> QED
      BY <3>1
  <2>3. [op |-> op, ok |-> ok, seen |-> "unread"].op = op
    OBVIOUS
  <2> QED
    BY <1>1, <2>1, <2>2, <2>3 DEF tickVars
<1>7. ASSUME NEW s \in refreshes, ReadListing(s) PROVE TickOwn'
  <2>1. PICK t : t.op = s.op /\ refreshes' = (refreshes \ {s}) \cup {t} /\ UNCHANGED <<pc, tickVars>>
    BY <1>7, ListingShape
  <2> QED
    BY <1>1, <2>1 DEF tickVars
<1>8. ASSUME NEW s \in refreshes, RefreshPending(s) PROVE TickOwn'
  <2>1. /\ refreshes' = refreshes \ {s}
        /\ UNCHANGED <<pc, tickVars>> \/ (Idle /\ s.op.id \in wait)
    BY <1>8, RefreshShape
  <2>2. CASE UNCHANGED <<pc, tickVars>>
    BY <1>1, <2>1, <2>2 DEF tickVars
  <2>3. CASE Idle /\ s.op.id \in wait
    BY <1>2, <1>3, <2>1, <2>3 DEF TickOwn
  <2> QED
    BY <2>1, <2>2, <2>3
<1>9. ASSUME RefreshProcessed PROVE TickOwn'
  BY <1>9 DEF RefreshProcessed, TickOwn
<1>10. ASSUME TickFails \/ Crash PROVE TickOwn'
  BY <1>2, <1>3, <1>10 DEF TickFails, Crash
<1>11. ASSUME Settled({0}) PROVE \A s \in refreshes : s.op.id # 0
  BY <1>11 DEF Settled
<1>12. ASSUME UNCHANGED refreshes, \A s \in refreshes : s.op.id # 0, pc' \in Draining => wait' = {}
       PROVE  TickOwn'
  BY <1>12 DEF TickOwn
<1>13. pc # "next" \/ todo # <<>> => \A s \in refreshes : s.op.id # 0
  BY DEF TickOwn
<1>14. pc \in Draining => wait = {}
  BY DEF TickOwn
<1> HIDE DEF Draining
<1>15. ASSUME DrainEnds PROVE TickOwn'
  <2>1. UNCHANGED refreshes /\ Settled({0}) /\ pc' = "settle"
    BY <1>15 DEF DrainEnds, queueVars
  <2> QED
    BY <1>11, <1>12, <2>1 DEF Draining
<1>16. ASSUME DrainSnapshot PROVE TickOwn'
  <2>1. UNCHANGED refreshes /\ pc = "drain" /\ wait' = {}
    BY <1>16 DEF DrainSnapshot, queueVars
  <2> QED
    BY <1>12, <1>13, <2>1
<1>17. ASSUME NextPut \/ NextDelete PROVE TickOwn'
  <2>1. UNCHANGED <<refreshes, wait>> /\ pc = "next" /\ todo # <<>>
    BY <1>17 DEF NextPut, NextDelete, queueVars, tickVars
  <2> QED
    BY <1>12, <1>13, <1>14, <2>1 DEF Draining
<1>18. ASSUME Push \/ Acknowledge PROVE TickOwn'
  <2>1. UNCHANGED <<refreshes, wait>> /\ pc \in {"push", "ack"}
    BY <1>18 DEF Push, Send, Acknowledge, Strike, queueVars
  <2> QED
    BY <1>12, <1>13, <1>14, <2>1 DEF Draining
<1>19. ASSUME ReadBody PROVE TickOwn'
  <2>1. UNCHANGED refreshes /\ pc = "read" /\ (Idle \/ UNCHANGED wait)
    BY <1>19 DEF ReadBody, queueVars
  <2> QED
    BY <1>3, <1>12, <1>13, <1>14, <2>1 DEF Draining
<1>20. ASSUME RemoteChange PROVE TickOwn'
  BY <1>1, <1>20 DEF RemoteChange, queueVars, tickVars
<1>21. ASSUME UNCHANGED refreshes, pc \notin Draining, pc' \notin Draining PROVE TickOwn'
  <2>1. pc # "next"
    BY <1>21 DEF Draining
  <2> QED
    BY <1>12, <1>13, <1>21, <2>1
<1>22. ASSUME \/ StartTick \/ RetryFailed \/ Hydrate \/ OutboxEmptyOrAgain \/ ListForRebuild \/ Rebuild
              \/ Fetch \/ EndTick
       PROVE  TickOwn'
  <2>1. UNCHANGED refreshes
    BY <1>22 DEF StartTick, RetryFailed, Hydrate, OutboxEmptyOrAgain, ListForRebuild, Rebuild, Fetch,
         FetchAbove, EndTick, queueVars
  <2>2. pc \notin Draining /\ pc' \notin Draining
    BY <1>22 DEF StartTick, RetryFailed, Hydrate, OutboxEmptyOrAgain, ListForRebuild, Rebuild, Fetch,
         FetchAbove, EndTick, Idle, Draining
  <2> QED
    BY <1>21, <2>1, <2>2
<1>23. ASSUME NEW line \in inbox,
              \/ DropLine(line) \/ Applying(line) \/ Download(line) \/ Advance(line)
              \/ RewriteInbox(line) \/ AdvanceUnsaved(line)
       PROVE  TickOwn'
  <2>1. UNCHANGED refreshes
    BY <1>23 DEF DropLine, Applying, ApplyDelete, WriteBody, WriteUnless, Download, Advance, AdvanceTo,
              RewriteInbox, AdvanceUnsaved, queueVars
  <2>2. pc \notin Draining /\ pc' \notin Draining
    BY <1>23 DEF DropLine, Applying, ApplyDelete, WriteBody, WriteUnless, Download, Advance, AdvanceTo,
              RewriteInbox, AdvanceUnsaved, Idle, Draining
  <2> QED
    BY <1>21, <2>1, <2>2
<1>24. Elsewhere => TickOwn'
  BY <1>15, <1>16, <1>17, <1>18, <1>19, <1>20, <1>22, <1>23 DEF Elsewhere
<1> QED
  BY <1>4, <1>5, <1>6, <1>7, <1>8, <1>9, <1>10, <1>24, Steps

(* The guard stays built.                                                  *)
LEMMA GuardBuiltKept ==
  ASSUME IInv, OneEach, TickOwn, GuardBuilt, Next
  PROVE  GuardBuilt'
<1>1. CASE ~Guarding'
  BY <1>1 DEF GuardBuilt, Guarding
<1>2. \A p : p \in Refreshed <=> \E s \in refreshes : s.op.path = p
  BY DEF Refreshed, PathsOf
<1>3. \A p : p \in Refreshed' <=> \E s \in refreshes' : s.op.path = p
  BY DEF Refreshed, PathsOf
<1>4. /\ Counted = PathsOf(ToSet(appends)) /\ Counted' = PathsOf(ToSet(appends'))
      /\ OutboxPaths = PathsOf(ToSet(outbox)) /\ OutboxPaths' = PathsOf(ToSet(outbox'))
  BY DEF Counted, OutboxPaths
<1> DEFINE S == OpsAt(Tip(files), edits)
<1>5. /\ appends \in Seq(S) /\ outbox \in Seq(S) /\ basing \subseteq S
      /\ \A op \in S : op.id # 0
  <2>1. edits \in Nat
    BY DEF IInv, Typed, Plain
  <2> QED
    BY <2>1 DEF IInv, Typed, Queues, OpsAt
<1> HIDE DEF S
<1>6. Idle => ~Guarding'
  BY DEF Idle, Guarding
<1> USE DEF GuardBuilt
<1>7. ASSUME NEW op \in S, appends' = Append(appends, op), pending' = pending \cup {op.path},
             UNCHANGED <<outbox, refreshes, failed, pc>>
      PROVE  GuardBuilt'
  <2>1. ToSet(appends') = ToSet(appends) \cup {op}
    BY <1>5, <1>7, Elements
  <2>2. Counted' = Counted \cup {op.path}
    BY <1>4, <2>1 DEF PathsOf
  <2>3. OutboxPaths' = OutboxPaths /\ Refreshed' = Refreshed /\ PathsOf(failed)' = PathsOf(failed)
    BY <1>7 DEF OutboxPaths, Refreshed, PathsOf
  <2> QED
    BY <1>7, <2>2, <2>3 DEF Guarding
<1>8. ASSUME NEW p \in Paths, Save(p) PROVE GuardBuilt'
  <2> DEFINE op == Op("put", p, NoBase)
             T == S \cup {op}
  <2>1. /\ appends' = Append(appends, op) /\ pending' = pending \cup {p}
        /\ UNCHANGED <<outbox, refreshes, failed, pc>>
    BY <1>8 DEF Save
  <2>2. op.path = p
    BY DEF Op
  <2>3. appends \in Seq(T)
    BY <1>5
  <2> HIDE DEF op
  <2>4. op \in T
    OBVIOUS
  <2> HIDE DEF T
  <2>5. ToSet(appends') = ToSet(appends) \cup {op}
    BY <2>1, <2>3, <2>4, Elements
  <2>6. Counted' = Counted \cup {p}
    BY <1>4, <2>2, <2>5 DEF PathsOf
  <2>7. OutboxPaths' = OutboxPaths /\ Refreshed' = Refreshed /\ PathsOf(failed)' = PathsOf(failed)
    BY <2>1 DEF OutboxPaths, Refreshed, PathsOf
  <2> QED
    BY <2>1, <2>6, <2>7 DEF Guarding
<1>9. ASSUME UNCHANGED <<outbox, pending, appends, refreshes, failed, pc>> PROVE GuardBuilt'
  BY <1>9 DEF Guarding, OutboxPaths, Refreshed, PathsOf, Counted
<1>10. ASSUME NEW p \in Paths, Erase(p) PROVE GuardBuilt'
  BY <1>9, <1>10 DEF Erase
<1>11. ASSUME NEW op \in basing, EnqueueDelete(op) PROVE GuardBuilt'
  BY <1>5, <1>7, <1>11 DEF EnqueueDelete, diskVars
<1>12. ASSUME NEW ok \in BOOLEAN, AppendOutbox(ok), Guarding' PROVE GuardBuilt'
  <2>1. PICK op \in S :
           /\ ToSet(appends) = {op} \cup ToSet(appends')
           /\ refreshes' = refreshes \cup {[op |-> op, ok |-> ok, seen |-> "unread"]}
           /\ outbox' = IF ok THEN Append(outbox, op) ELSE outbox
           /\ UNCHANGED <<pending, failed, pc>>
    BY <1>12, AppendShape DEF S
  <2>2. Counted = Counted' \cup {op.path} /\ op.path \in Counted
    BY <1>4, <2>1 DEF PathsOf
  <2>3. ToSet(outbox') \subseteq ToSet(outbox) \cup {op}
    BY <1>5, <2>1, Elements
  <2>4. OutboxPaths' \subseteq OutboxPaths \cup {op.path}
    BY <1>4, <2>3 DEF PathsOf
  <2>5. Guarding /\ \A s \in refreshes : s \in Own
    BY <1>12, <2>1 DEF TickOwn, Guarding, Own
  <2>6. \A s \in refreshes : s.op.path # op.path
    BY <2>2, <2>5 DEF OneEach
  <2>7. /\ [op |-> op, ok |-> ok, seen |-> "unread"].op = op
        /\ [op |-> op, ok |-> ok, seen |-> "unread"].seen # "gone"
    OBVIOUS
  <2>8. \A s \in refreshes' : s.seen = "gone" => s \in refreshes
    BY <2>1, <2>7
  <2>9. \A s \in refreshes' : s.seen = "gone" => s.op.path \notin OutboxPaths'
    BY <2>4, <2>5, <2>6, <2>8
  <2>10. Refreshed' = Refreshed \cup {op.path}
    <3>1. \A q : q \in Refreshed' <=> q \in Refreshed \/ q = op.path
      BY <1>2, <1>3, <2>1, <2>7
    <3> QED
      BY <3>1
  <2>11. OutboxPaths' \subseteq pending \cup Counted' \cup Refreshed'
    BY <2>2, <2>4, <2>5, <2>10
  <2>12. PathsOf(failed)' = PathsOf(failed)
    BY <2>1 DEF PathsOf
  <2> QED
    BY <2>1, <2>2, <2>5, <2>9, <2>10, <2>11, <2>12 DEF Guarding
<1>13. ASSUME NEW s \in refreshes, ReadListing(s) PROVE GuardBuilt'
  <2>1. PICK t : /\ t.op = s.op
                 /\ t.seen = "gone" => s.op.path \notin OutboxPaths
                 /\ refreshes' = (refreshes \ {s}) \cup {t}
                 /\ UNCHANGED <<outbox, pending, appends, failed, pc>>
    BY <1>13, ListingShape DEF diskVars
  <2>2. /\ OutboxPaths' = OutboxPaths /\ Counted' = Counted
        /\ PathsOf(failed)' = PathsOf(failed) /\ Guarding' = Guarding
    BY <2>1 DEF OutboxPaths, Counted, PathsOf, Guarding
  <2>3. Refreshed' = Refreshed
    <3>1. \A q : q \in Refreshed' <=> q \in Refreshed
      BY <1>2, <1>3, <2>1
    <3> QED
      BY <3>1
  <2>4. Guarding => \A x \in refreshes' : x.seen = "gone" => x.op.path \notin OutboxPaths
    BY <2>1
  <2> QED
    BY <2>1, <2>2, <2>3, <2>4
<1>14. ASSUME NEW s \in refreshes, RefreshPending(s), Guarding' PROVE GuardBuilt'
  <2> DEFINE p == s.op.path
  <2>1. /\ s.ok \in BOOLEAN /\ s.seen \in {"listed", "gone"}
        /\ refreshes' = refreshes \ {s}
        /\ UNCHANGED <<outbox, appends>>
        /\ pc' = pc
        /\ \/ s.op.id = 0 /\ failed' = failed
           \/ s.op.id # 0 /\ s.ok /\ failed' = {f \in failed : f.path # p}
           \/ s.op.id # 0 /\ ~s.ok /\ failed' = {f \in failed : f.path # p} \cup {s.op}
        /\ s.seen = "listed" => pending' = pending \cup {p}
        /\ s.seen = "gone" => pending \ {p} \subseteq pending'
        /\ s.op.id # 0 /\ ~s.ok => p \in pending'
    BY <1>6, <1>14, RefreshShape DEF diskVars
  <2>2. Guarding /\ s \in Own /\ s.op.id # 0
    BY <1>14, <2>1 DEF TickOwn, Guarding, Own
  <2>3. OutboxPaths' = OutboxPaths /\ Counted' = Counted
    BY <2>1 DEF OutboxPaths, Counted
  <2>4. p \notin Counted /\ \A t \in refreshes' : t.op.path # p
    <3>1. \A t \in refreshes : t \in Own
      BY <2>2 DEF TickOwn, Guarding, Own
    <3> QED
      BY <2>1, <2>2, <3>1 DEF OneEach
  <2>5. Refreshed = Refreshed' \cup {p}
    BY <1>2, <1>3, <2>1
  <2>6. \A q \in PathsOf(failed') : (q = p /\ p \in pending') \/ (q # p /\ q \in PathsOf(failed))
    BY <2>1, <2>2 DEF PathsOf
  <2>7. pending \ {p} \subseteq pending' /\ (s.seen = "listed" => p \in pending')
    BY <2>1
  <2>8. s.seen = "gone" => p \notin OutboxPaths
    BY <2>2
  <2>9. Guarding' = Guarding /\ (pc' \notin {"list", "rebuild"} => pc \notin {"list", "rebuild"})
    BY <2>1 DEF Guarding
  <2> HIDE DEF p
  <2>10. OutboxPaths' \subseteq pending' \cup Counted' \cup Refreshed'
    BY <2>1, <2>2, <2>3, <2>5, <2>7, <2>8
  <2>11. pc' \notin {"list", "rebuild"} => Counted' \cup PathsOf(failed)' \subseteq pending' \cup Refreshed'
    BY <2>2, <2>3, <2>4, <2>5, <2>6, <2>7, <2>9
  <2>12. \A x \in refreshes' : x.seen = "gone" => x.op.path \notin OutboxPaths'
    BY <2>1, <2>2, <2>3
  <2> QED
    BY <2>10, <2>11, <2>12
<1>15. ASSUME RefreshProcessed \/ TickFails \/ Crash PROVE ~Guarding'
  BY <1>6, <1>15 DEF RefreshProcessed, TickFails, Crash, Guarding
<1>16. ASSUME OutboxEmptyOrAgain, Guarding' PROVE GuardBuilt'
  <2>1. UNCHANGED outbox /\ outbox = <<>> /\ pc' = "list"
    BY <1>16 DEF OutboxEmptyOrAgain, Guarding, diskVars
  <2>2. OutboxPaths' = {}
    <3>1. ToSet(outbox') = {}
      BY <2>1 DEF ToSet
    <3> QED
      BY <1>4, <3>1 DEF PathsOf
  <2> QED
    BY <2>1, <2>2
<1>17. ASSUME ListForRebuild PROVE GuardBuilt'
  <2>1. UNCHANGED <<outbox, pending, appends, refreshes, failed>> /\ pc = "list" /\ pc' = "rebuild"
    BY <1>17 DEF ListForRebuild, diskVars, queueVars
  <2> QED
    BY <2>1 DEF Guarding, OutboxPaths, Refreshed, PathsOf, Counted
<1>18. ASSUME Rebuild PROVE GuardBuilt'
  <2>1. /\ UNCHANGED <<outbox, appends, refreshes, failed>> /\ pc = "rebuild" /\ pc' = "fetch"
        /\ pending' = pending \cup batch \cup Counted \cup PathsOf(failed)
    BY <1>18 DEF Rebuild, diskVars, queueVars
  <2>2. /\ OutboxPaths' = OutboxPaths /\ Counted' = Counted /\ Refreshed' = Refreshed
        /\ PathsOf(failed)' = PathsOf(failed) /\ Guarding
    BY <2>1 DEF Guarding, OutboxPaths, Refreshed, PathsOf, Counted
  <2> QED
    BY <2>1, <2>2
<1>19. ASSUME UNCHANGED <<outbox, pending, appends, refreshes, failed>>,
              Guarding /\ pc \notin {"list", "rebuild"}
       PROVE  GuardBuilt'
  BY <1>19 DEF OutboxPaths, Refreshed, PathsOf, Counted
<1>20. ASSUME Fetch PROVE GuardBuilt'
  BY <1>19, <1>20 DEF Fetch, FetchAbove, queueVars, Guarding
<1>21. ASSUME RemoteChange PROVE GuardBuilt'
  BY <1>9, <1>21 DEF RemoteChange, queueVars, diskVars
<1>22. ASSUME NEW line \in inbox,
              \/ DropLine(line) \/ Applying(line) \/ Download(line) \/ Advance(line)
              \/ RewriteInbox(line) \/ AdvanceUnsaved(line)
       PROVE  GuardBuilt'
  <2>1. UNCHANGED <<outbox, pending, appends, refreshes, failed>>
    BY <1>22 DEF DropLine, Applying, ApplyDelete, WriteBody, WriteUnless, Download, Advance, AdvanceTo,
              RewriteInbox, AdvanceUnsaved, queueVars, diskVars
  <2>2. pc \in {"apply", "write", "advance", "rewrite"}
    BY <1>22 DEF DropLine, Applying, ApplyDelete, WriteBody, WriteUnless, Download, Advance, AdvanceTo,
              RewriteInbox, AdvanceUnsaved
  <2> QED
    BY <1>19, <2>1, <2>2 DEF Guarding
<1>23. ASSUME \/ StartTick \/ RetryFailed \/ Hydrate \/ DrainSnapshot \/ NextPut \/ NextDelete \/ ReadBody
              \/ Push \/ Acknowledge \/ DrainEnds \/ EndTick
       PROVE  ~Guarding'
  BY <1>6, <1>23 DEF StartTick, RetryFailed, Hydrate, DrainSnapshot, NextPut, NextDelete, ReadBody,
       Push, Send, Acknowledge, Strike, DrainEnds, EndTick, Guarding
<1>24. Elsewhere => GuardBuilt'
  BY <1>1, <1>16, <1>17, <1>18, <1>20, <1>21, <1>22, <1>23 DEF Elsewhere
<1> QED
  BY <1>1, <1>8, <1>10, <1>11, <1>12, <1>13, <1>14, <1>15, <1>24, Steps

(* The three together, from the start on.                                  *)
THEOREM GInvHolds == Prompt => (Spec => []GInv)
<1> SUFFICES ASSUME Prompt PROVE Spec => []GInv
  OBVIOUS
<1>1. Init => GInv
  <2> SUFFICES ASSUME Init PROVE GInv
    OBVIOUS
  <2>1. refreshes = {} /\ basing = {} /\ appends = <<>> /\ pc = "idle"
    BY DEF Init
  <2>2. Own = {} /\ PathsOf(basing) = {} /\ Distinct(appends)
    BY <2>1 DEF Own, PathsOf, Distinct
  <2>3. OneEach
    BY <2>1, <2>2 DEF OneEach
  <2> QED
    BY <2>1, <2>3 DEF GInv, TickOwn, GuardBuilt, Guarding
<1>2. IInv /\ GInv /\ [Next]_vars => GInv'
  <2>1. ASSUME GInv, UNCHANGED vars PROVE GInv'
    <3>1. UNCHANGED <<outbox, pending, basing, appends, refreshes, failed, pc, wait, todo>>
      BY <2>1 DEF vars, diskVars, queueVars, tickVars
    <3>2. OneEach'
      BY <2>1, <3>1 DEF GInv, OneEach, Distinct, Own, Counted
    <3>3. TickOwn' /\ GuardBuilt'
      BY <2>1, <3>1 DEF GInv, TickOwn, GuardBuilt, Guarding, OutboxPaths, Refreshed, PathsOf, Counted
    <3> QED
      BY <3>2, <3>3 DEF GInv
  <2> QED
    BY <2>1, OneEachKept, TickOwnKept, GuardBuiltKept DEF GInv
<1> QED
  BY <1>1, <1>2, IInvHolds, PTL DEF Spec

(* What a step that applies an inbound line does to the vault.             *)
LEMMA AppliesOnce ==
  ASSUME Prompt, GInv, NEW line \in inbox, Applying(line)
  PROVE  /\ Outgoing \subseteq pending
         /\ \A p \in Paths \ Above(line.path) : p \in pending => disk'[p] = disk[p]
<1>1. basing = {} /\ refreshes = {} /\ pc \in {"apply", "write"}
  BY DEF Applying, ApplyDelete, WriteBody, WriteUnless, Undisturbed
<1>2. OutboxPaths \subseteq pending /\ Counted \cup PathsOf(failed) \subseteq pending
  <2>1. Refreshed = {}
    BY <1>1 DEF Refreshed, PathsOf
  <2> QED
    BY <1>1, <2>1 DEF GInv, GuardBuilt, Guarding
<1>3. Outgoing \subseteq pending
  BY <1>1, <1>2 DEF Outgoing, Volatile, PathsOf, Counted
<1>4. ASSUME ApplyDelete(line), NEW p \in Paths, p \in pending PROVE disk'[p] = disk[p]
  <2>1. ~Related(p, line.path)
    BY <1>4 DEF ApplyDelete, Deferred
  <2>2. p \notin {line.path} \cup Below(line.path)
    BY <2>1 DEF Related, Below
  <2> QED
    BY <1>4, <2>2 DEF ApplyDelete
<1>5. ASSUME WriteBody(line), NEW p \in Paths \ Above(line.path), p \in pending PROVE disk'[p] = disk[p]
  <2>1. CASE line.path \in pending
    BY <1>5, <2>1 DEF WriteBody, WriteUnless
  <2>2. CASE p # line.path
    BY <1>5, <2>2 DEF WriteBody, WriteUnless
  <2> QED
    BY <1>5, <2>1, <2>2
<1> QED
  BY <1>3, <1>4, <1>5 DEF Applying

(* The one path with a local change that engine.ts lets an inbound change  *)
(* touch is a folder of the new file: the download has been checked        *)
(* against the pending paths above and below it before, not after.         *)
THEOREM OnlyFoldersOverwritten ==
  Prompt =>
    (Spec => [][\A line \in inbox : Applying(line) =>
                  \A p \in Outgoing \ Above(line.path) : disk'[p] = disk[p]]_vars)
<1> SUFFICES ASSUME Prompt
             PROVE  Spec => [][\A line \in inbox : Applying(line) =>
                               \A p \in Outgoing \ Above(line.path) : disk'[p] = disk[p]]_vars
  OBVIOUS
<1>1. IInv /\ GInv => [\A line \in inbox : Applying(line) =>
                       \A p \in Outgoing \ Above(line.path) : disk'[p] = disk[p]]_vars
  <2> SUFFICES ASSUME IInv, GInv, NEW line \in inbox, Applying(line),
                      NEW p \in Outgoing, p \notin Above(line.path)
               PROVE  disk'[p] = disk[p]
    OBVIOUS
  <2>1. pending \subseteq Paths
    BY DEF IInv, Typed, Plain
  <2> QED
    BY <2>1, AppliesOnce
<1> QED
  BY <1>1, IInvHolds, GInvHolds, PTL

(* README, "Pending local paths are not overwritten by inbound pulls":     *)
(* inbox.ts leaves every path alone whose change is in the outbox, waits   *)
(* for it or failed to get there, in a vault whose paths do not nest, when *)
(* the short reads of local files end before the tick's next answer.       *)
THEOREM PendingNotOverwrittenHolds == Prompt /\ Under = {} => (Spec => PendingNotOverwritten)
<1> SUFFICES ASSUME Prompt, Under = {} PROVE Spec => PendingNotOverwritten
  OBVIOUS
<1>1. [\A line \in inbox : Applying(line) => \A p \in Outgoing \ Above(line.path) : disk'[p] = disk[p]]_vars
      => [(\E line \in inbox : Applying(line)) => \A p \in Outgoing : disk'[p] = disk[p]]_vars
  BY DEF Above
<1> QED
  BY <1>1, OnlyFoldersOverwritten, PTL DEF PendingNotOverwritten

-----------------------------------------------------------------------------
(* No unsent edit is lost.  What the vault holds of the user's and the     *)
(* server has not answered for is carried by a line of the outbox or by an *)
(* enqueue that is on its way there or failed.                             *)

Unsent(p) == disk[p] \in 1 .. edits /\ disk[p] \notin sent /\ p \notin lost
CarriedBy(op, p) == op.op = "put" /\ op.path = p /\ op.id = disk[p]
Running == ToSet(appends) \cup basing \cup {s.op : s \in Own}
Carriers == ToSet(outbox) \cup Volatile

Carried == \A p \in Paths : Unsent(p) => \E op \in Carriers : CarriedBy(op, p)

(* The enqueue on its way is the one of the path's last change: no failure *)
(* that its success removes is of a later one.                             *)
Current == \A op \in Running : Unsent(op.path) => CarriedBy(op, op.path)
OldFailures == \A f \in failed, op \in Running : f.path = op.path => f.id # op.id

(* What comes back from the server has been there before. *)
Later == (edits + 1) .. MaxEdits
Past == edits <= MaxEdits /\ (\A p \in Paths : disk[p] \notin Later) /\ body \notin Later /\ sent \cap Later = {}
Echo ==
  /\ \A p \in Paths : files[p].content \in 1 .. MaxEdits => files[p].content \in sent
  /\ pc = "write" /\ body \in 1 .. MaxEdits => body \in sent

(* A line that carries an unsent edit is not struck out. *)
Sending ==
  pc \in {"push", "ack"} /\ Head(todo).op = "put" /\ Unsent(Head(todo).path)
      /\ disk[Head(todo).path] = Head(todo).id
    => pc = "push" /\ body = Head(todo).id

UInv == Carried /\ Current /\ OldFailures /\ Past /\ Echo /\ Sending

(* The retry of one failed enqueue drops another one of the same path.     *)
Forgets ==
  /\ pc = "retry" /\ todo # <<>>
  /\ \E f \in failed : f.path = Head(todo).path /\ f # Head(todo)
  /\ RetryFailed

(* Only saves, deletions and inbound changes change the vault.             *)
LEMMA VaultSteps ==
  ASSUME Next
  PROVE  \/ \E p \in Paths : Save(p) \/ Erase(p)
         \/ edits' = edits /\ \E line \in inbox : Applying(line)
         \/ edits' = edits /\ disk' = disk
<1>1. ASSUME NEW line \in inbox,
             \/ DropLine(line) \/ Download(line) \/ Advance(line) \/ RewriteInbox(line) \/ AdvanceUnsaved(line)
      PROVE  disk' = disk
  BY <1>1 DEF DropLine, Download, Advance, AdvanceTo, RewriteInbox, AdvanceUnsaved, diskVars
<1>2. \/ StartTick \/ RetryFailed \/ Hydrate \/ DrainSnapshot \/ NextPut \/ NextDelete \/ ReadBody
      \/ Push \/ Acknowledge \/ RefreshProcessed \/ DrainEnds \/ OutboxEmptyOrAgain
      \/ ListForRebuild \/ Rebuild \/ Fetch \/ EndTick
      => disk' = disk
  BY DEF StartTick, RetryFailed, Hydrate, DrainSnapshot, NextPut, NextDelete, ReadBody, Push, Send,
         Acknowledge, Strike, RefreshProcessed, DrainEnds, OutboxEmptyOrAgain, ListForRebuild, Rebuild,
         Fetch, FetchAbove, EndTick, diskVars
<1>3. TickFails \/ Crash \/ RemoteChange \/ Enqueueing \/ AppendOutbox(FALSE) => disk' = disk
  BY DEF TickFails, Crash, RemoteChange, Enqueueing, AppendOutbox, EnqueueDelete, ReadListing,
         RefreshPending, diskVars
<1>4. Ticking => disk' = disk \/ \E line \in inbox : Applying(line)
  BY <1>1, <1>2 DEF Ticking
<1> QED
  BY <1>1, <1>3, <1>4, EditsKept DEF Next

(* What was sent and what was lost stays so.                               *)
LEMMA HistoryGrows ==
  ASSUME Next
  PROVE  sent \subseteq sent' /\ lost \subseteq lost'
<1>1. ASSUME NEW line \in inbox,
             \/ DropLine(line) \/ Applying(line) \/ Download(line) \/ Advance(line)
             \/ RewriteInbox(line) \/ AdvanceUnsaved(line)
      PROVE  UNCHANGED <<sent, lost>>
  BY <1>1 DEF DropLine, Applying, ApplyDelete, WriteBody, WriteUnless, Download, Advance, AdvanceTo,
              RewriteInbox, AdvanceUnsaved, ghosts
<1>2. \/ StartTick \/ RetryFailed \/ Hydrate \/ DrainSnapshot \/ NextPut \/ NextDelete \/ ReadBody
      \/ Acknowledge \/ RefreshProcessed \/ DrainEnds \/ OutboxEmptyOrAgain
      \/ ListForRebuild \/ Rebuild \/ Fetch \/ EndTick
      => UNCHANGED <<sent, lost>>
  BY DEF StartTick, RetryFailed, Hydrate, DrainSnapshot, NextPut, NextDelete, ReadBody,
         Acknowledge, Strike, RefreshProcessed, DrainEnds, OutboxEmptyOrAgain, ListForRebuild, Rebuild,
         Fetch, FetchAbove, EndTick, ghosts
<1>3. TickFails \/ RemoteChange \/ Enqueueing \/ AppendOutbox(FALSE) => UNCHANGED <<sent, lost>>
  BY DEF TickFails, RemoteChange, Enqueueing, AppendOutbox, EnqueueDelete, ReadListing,
         RefreshPending, ghosts
<1>4. Push => sent \subseteq sent' /\ lost' = lost
  BY DEF Push, Send
<1>5. Crash => sent' = sent /\ lost \subseteq lost'
  BY DEF Crash
<1>6. ASSUME NEW p \in Paths, Save(p) \/ Erase(p) PROVE UNCHANGED <<sent, lost>>
  BY <1>6 DEF Save, Erase
<1>7. ASSUME Ticking PROVE sent \subseteq sent' /\ lost \subseteq lost'
  BY <1>1, <1>2, <1>4, <1>7 DEF Ticking
<1> QED
  BY <1>1, <1>3, <1>5, <1>6, <1>7 DEF Next

(* What is unsent after a step was so before, and the same, unless it has  *)
(* been saved just now.                                                    *)
LEMMA UnsentBefore ==
  ASSUME IInv, Past, Echo, Next, NEW p \in Paths, Unsent(p)'
  PROVE  Save(p) \/ (Unsent(p) /\ disk'[p] = disk[p])
<1>1. /\ edits \in Nat /\ edits <= MaxEdits /\ MaxEdits \in Nat
      /\ disk \in [Paths -> Contents \cup {NoContent}]
      /\ \A q \in Paths : disk[q] \in 1 .. MaxEdits => disk[q] \in 1 .. edits
  <2>1. edits \in Nat /\ disk \in [Paths -> Contents \cup {NoContent}]
    BY DEF IInv, Typed, Plain
  <2>2. edits <= MaxEdits /\ MaxEdits \in Nat
    BY Bounds DEF Past
  <2>3. ASSUME NEW q \in Paths, disk[q] \in 1 .. MaxEdits PROVE disk[q] \in 1 .. edits
    <3>1. disk[q] \notin (edits + 1) .. MaxEdits
      BY DEF Past, Later
    <3> QED
      BY <2>1, <2>2, <2>3, <3>1
  <2> QED
    BY <2>1, <2>2, <2>3
<1>2. NoContent \notin 1 .. MaxEdits
  BY Numbered, NoContentIsNoContent
<1>3. /\ disk'[p] \in 1 .. edits' /\ disk'[p] \notin sent' /\ p \notin lost'
      /\ disk'[p] \notin sent /\ p \notin lost
  BY HistoryGrows DEF Unsent
<1>4. ASSUME NEW q \in Paths, Save(q) \/ Erase(q) PROVE Save(p) \/ (Unsent(p) /\ disk'[p] = disk[p])
  <2>1. edits' = edits + 1 /\ edits < MaxEdits
    BY <1>4 DEF Save, Erase
  <2>2. disk'[p] \in 1 .. MaxEdits
    BY <1>1, <1>3, <2>1
  <2>3. CASE p # q
    <3>1. disk'[p] = disk[p]
      BY <1>1, <1>4, <2>3 DEF Save, Erase
    <3>2. disk[p] \in 1 .. edits
      BY <1>1, <2>2, <3>1
    <3>3. disk[p] \notin sent /\ p \notin lost
      BY <1>3, <3>1
    <3> QED
      BY <3>1, <3>2, <3>3 DEF Unsent
  <2>4. CASE p = q /\ Erase(q)
    <3>1. disk'[p] = NoContent
      BY <1>1, <2>4 DEF Erase
    <3> QED
      BY <1>2, <2>2, <3>1
  <2> QED
    BY <1>4, <2>3, <2>4
<1>5. ASSUME edits' = edits, NEW line \in inbox, Applying(line)
      PROVE  Unsent(p) /\ disk'[p] = disk[p]
  <2>1. disk'[p] \in 1 .. MaxEdits
    BY <1>1, <1>3, <1>5
  <2>2. disk'[p] \in {disk[p], NoContent} \/ (disk'[p] = body /\ pc = "write")
    BY <1>1, <1>5 DEF Applying, ApplyDelete, WriteBody, WriteUnless
  <2>3. disk'[p] = disk[p]
    BY <1>2, <1>3, <2>1, <2>2 DEF Echo
  <2> QED
    BY <1>3, <1>5, <2>3 DEF Unsent
<1>6. ASSUME edits' = edits, disk' = disk PROVE Unsent(p) /\ disk'[p] = disk[p]
  BY <1>3, <1>6 DEF Unsent
<1> QED
  BY <1>4, <1>5, <1>6, VaultSteps

(* What a store operation leaves in a row.                                 *)
LEMMA RowContents ==
  ASSUME NEW t \in Table, NEW p \in Paths, NEW q \in Paths
  PROVE  /\ \A v \in Contents : Uploaded(t, p, v)[q].content \in {t[q].content, NoContent, v}
         /\ \A base : Deleted(t, p, base)[q].content \in {t[q].content, NoContent}
<1>1. ASSUME NEW v \in Contents PROVE Uploaded(t, p, v)[q].content \in {t[q].content, NoContent, v}
  <2> DEFINE u == Uploaded(t, p, v)
  <2>1. u[q] = t[q] \/ u[q] = Tombstone(u[q].rev) \/ u[q] = FileRow(u[q].rev, v)
    BY Uploading
  <2> HIDE DEF u
  <2>2. u[q].content \in {t[q].content, NoContent, v}
    BY <2>1 DEF Tombstone, FileRow
  <2> QED
    BY <2>2 DEF u
<1>2. ASSUME NEW base PROVE Deleted(t, p, base)[q].content \in {t[q].content, NoContent}
  <2> DEFINE d == Deleted(t, p, base)
             gone == IF Late(t, p, base) = {} THEN Seen(t, p, base) \cup {p} ELSE Seen(t, p, base)
  <2>1. q \in gone => d[q] = Tombstone(d[q].rev)
    BY Deleting
  <2>2. q \notin gone => d[q] = t[q]
    BY Deleting
  <2> HIDE DEF d, gone
  <2>3. d[q].content \in {t[q].content, NoContent}
    BY <2>1, <2>2 DEF Tombstone
  <2> QED
    BY <2>3 DEF d
<1> QED
  BY <1>1, <1>2

(* Where the bytes in a row come from.                                     *)
LEMMA ContentSteps ==
  ASSUME IInv, Next, NEW q \in Paths
  PROVE  \/ files'[q].content \in {files[q].content, NoContent} \cup {-n : n \in 1 .. MaxRemote}
         \/ files'[q].content \in sent'
<1>1. CASE UNCHANGED files
  BY <1>1
<1>2. CASE Push
  <2> DEFINE op == Head(todo)
  <2>1. /\ pc = "push"
        /\ \/ UNCHANGED files
           \/ op.op = "put" /\ files' = Uploaded(files, op.path, body) /\ sent' = sent \cup {body}
           \/ files' = Deleted(files, op.path, op.base)
    BY <1>2 DEF Push, Send
  <2>2. todo # <<>> /\ (op.op = "put" => body \in Contents) /\ todo \in Seq(OpsAt(Tip(files), edits))
    BY <2>1 DEF IInv, Typed, InHand, Queues
  <2>3. op \in OpsAt(Tip(files), edits)
    BY <2>2
  <2>4. op.path \in Paths /\ files \in Table
    BY <2>3 DEF OpsAt, IInv
  <2> HIDE DEF op
  <2>5. CASE op.op = "put" /\ files' = Uploaded(files, op.path, body) /\ sent' = sent \cup {body}
    <3>1. files'[q].content \in {files[q].content, NoContent, body}
      BY <2>2, <2>4, <2>5, RowContents
    <3> QED
      BY <2>5, <3>1
  <2>6. CASE files' = Deleted(files, op.path, op.base)
    BY <2>4, <2>6, RowContents
  <2> QED
    BY <1>1, <2>1, <2>5, <2>6
<1>3. CASE RemoteChange
  <2>1. remotes < MaxRemote /\ remotes \in Nat
    BY <1>3 DEF RemoteChange, IInv, Typed, Plain
  <2>2. remotes + 1 \in 1 .. MaxRemote /\ files \in Table
    BY <2>1, Bounds DEF IInv
  <2>3. -(remotes + 1) \in Contents /\ -(remotes + 1) \in {-n : n \in 1 .. MaxRemote}
    BY <2>2, Numbered
  <2>4. PICK p \in Paths :
             \/ files' = Uploaded(files, p, -(remotes + 1))
             \/ \E base \in Reached(files) \cup {NoBase} : files' = Deleted(files, p, base)
    BY <1>3 DEF RemoteChange
  <2>5. CASE files' = Uploaded(files, p, -(remotes + 1))
    <3>1. files'[q].content \in {files[q].content, NoContent, -(remotes + 1)}
      BY <2>2, <2>3, <2>5, RowContents
    <3> QED
      BY <2>3, <3>1
  <2>6. ASSUME NEW base, files' = Deleted(files, p, base)
        PROVE  files'[q].content \in {files[q].content, NoContent}
    BY <2>2, <2>6, RowContents
  <2> QED
    BY <2>4, <2>5, <2>6
<1> QED
  BY <1>1, <1>2, <1>3, ServerChanges

(* Where the bytes in hand come from, and that a push notes what it sends. *)
LEMMA BodySteps ==
  ASSUME IInv, Next
  PROVE  /\ \/ body' \in {body, NoContent} /\ (pc' = "write" => pc = "write")
            \/ pc' # "write" /\ \E p \in Paths : body' = disk[p]
            \/ \E p \in Paths : body' = files[p].content
         /\ sent' = sent \/ (sent' = sent \cup {body} /\ body' = NoContent)
<1>1. ASSUME NEW p \in Paths, Save(p) \/ Erase(p) PROVE UNCHANGED <<body, pc, sent>>
  BY <1>1 DEF Save, Erase, tickVars
<1>2. Idle => body' = NoContent /\ pc' = "idle"
  BY DEF Idle
<1>3. ASSUME Enqueueing \/ AppendOutbox(FALSE)
      PROVE  sent' = sent /\ (UNCHANGED <<body, pc>> \/ Idle)
  <2>1. ASSUME NEW op, NEW ok, NEW pend, Finish(op, ok, pend) PROVE UNCHANGED <<body, pc>> \/ Idle
    BY <2>1 DEF Finish, tickVars
  <2>2. ASSUME NEW ok \in BOOLEAN, AppendOutbox(ok) PROVE sent' = sent /\ (UNCHANGED <<body, pc>> \/ Idle)
    BY <2>1, <2>2 DEF AppendOutbox, tickVars
  <2>3. ASSUME NEW s \in refreshes, RefreshPending(s) PROVE sent' = sent /\ (UNCHANGED <<body, pc>> \/ Idle)
    BY <2>1, <2>3 DEF RefreshPending, tickVars, ghosts
  <2>4. ASSUME NEW s \in refreshes, ReadListing(s) PROVE UNCHANGED <<body, pc, sent>>
    BY <2>4 DEF ReadListing, tickVars, ghosts
  <2>5. ASSUME NEW op \in basing, EnqueueDelete(op) PROVE UNCHANGED <<body, pc, sent>>
    BY <2>5 DEF EnqueueDelete, tickVars, ghosts
  <2> QED
    BY <1>3, <2>2, <2>3, <2>4, <2>5 DEF Enqueueing
<1>4. TickFails \/ Crash => sent' = sent /\ Idle
  BY DEF TickFails, Crash
<1>5. RemoteChange => UNCHANGED <<body, pc, sent>>
  BY DEF RemoteChange, tickVars
<1>6. ASSUME ReadBody
      PROVE  sent' = sent /\ (Idle \/ (pc' # "write" /\ \E p \in Paths : body' = disk[p]))
  <2>1. sent' = sent /\ pc = "read" /\ (Idle \/ (body' = disk[Head(todo).path] /\ pc' = "push"))
    BY <1>6 DEF ReadBody, ghosts
  <2>2. todo # <<>> /\ todo \in Seq(OpsAt(Tip(files), edits))
    BY <2>1 DEF IInv, Typed, InHand, Queues
  <2>3. Head(todo) \in OpsAt(Tip(files), edits)
    BY <2>2
  <2>4. Head(todo).path \in Paths
    BY <2>3 DEF OpsAt
  <2> QED
    BY <2>1, <2>4
<1>7. ASSUME NEW line \in inbox, Download(line)
      PROVE  sent' = sent /\ \E p \in Paths : body' = files[p].content
  <2>1. line.path \in Paths
    BY DEF IInv, Typed, Cursor, LinesAt
  <2> QED
    BY <1>7, <2>1 DEF Download, ghosts
<1>8. ASSUME NEW line \in inbox,
             DropLine(line) \/ Applying(line) \/ Advance(line) \/ RewriteInbox(line) \/ AdvanceUnsaved(line)
      PROVE  sent' = sent /\ body' \in {body, NoContent} /\ pc' # "write"
  BY <1>8 DEF DropLine, Applying, ApplyDelete, WriteBody, WriteUnless, Advance, AdvanceTo,
              RewriteInbox, AdvanceUnsaved, tickVars, ghosts, Idle
<1>9. \/ StartTick \/ RetryFailed \/ Hydrate \/ DrainSnapshot \/ NextPut \/ NextDelete
      \/ Acknowledge \/ DrainEnds \/ OutboxEmptyOrAgain
      \/ ListForRebuild \/ Rebuild \/ Fetch \/ EndTick
      => sent' = sent /\ body' \in {body, NoContent} /\ pc' # "write"
  BY DEF StartTick, RetryFailed, Hydrate, DrainSnapshot, NextPut, NextDelete, Acknowledge,
         Strike, DrainEnds, OutboxEmptyOrAgain, ListForRebuild, Rebuild, Fetch,
         FetchAbove, EndTick, tickVars, ghosts, Idle
<1>10. RefreshProcessed => UNCHANGED <<body, pc, sent>>
  BY DEF RefreshProcessed, ghosts
<1>11. Push => (sent' = sent \/ sent' = sent \cup {body}) /\ body' = NoContent /\ pc' # "write"
  BY DEF Push, Send
<1> QED
  BY <1>1, <1>2, <1>3, <1>4, <1>5, <1>6, <1>7, <1>8, <1>9, <1>10, <1>11 DEF Next, Ticking

(* So nothing comes back before it was sent, nor before it was written.    *)
LEMMA PastAndEchoKept ==
  ASSUME IInv, Past, Echo, Next
  PROVE  Past' /\ Echo'
<1>1. /\ edits \in Nat /\ MaxEdits \in Nat /\ edits <= MaxEdits
      /\ disk \in [Paths -> Contents \cup {NoContent}]
  BY Bounds DEF IInv, Typed, Plain, Past
<1>2. NoContent \notin 1 .. MaxEdits /\ \A n \in 1 .. MaxRemote : -n \notin 1 .. MaxEdits
  <2>1. \A n \in 1 .. MaxRemote : -n \notin 1 .. MaxEdits
    BY Bounds
  <2> QED
    BY <2>1, Numbered, NoContentIsNoContent
<1>3. sent \subseteq sent'
  BY HistoryGrows
<1>4. /\ edits' \in Nat /\ edits' <= MaxEdits
      /\ \A x : x \in Later' => x \in Later /\ x \in 1 .. MaxEdits
      /\ \A p \in Paths : disk'[p] \notin Later'
  <2>1. ASSUME NEW q \in Paths, Save(q) \/ Erase(q)
        PROVE  /\ edits' = edits + 1 /\ edits < MaxEdits
               /\ \A p \in Paths : disk'[p] = disk[p] \/ disk'[p] = NoContent \/ disk'[p] = edits + 1
    BY <1>1, <2>1 DEF Save, Erase
  <2>2. ASSUME NEW line \in inbox, Applying(line)
        PROVE  \A p \in Paths : disk'[p] = disk[p] \/ disk'[p] = NoContent \/ disk'[p] = body
    BY <1>1, <2>2 DEF Applying, ApplyDelete, WriteBody, WriteUnless
  <2>3. edits' = edits \/ (edits' = edits + 1 /\ edits < MaxEdits)
    BY <2>1, VaultSteps
  <2>4. edits' \in Nat /\ edits' <= MaxEdits /\ \A x : x \in Later' => x \in Later /\ x \in 1 .. MaxEdits
    BY <1>1, <2>3 DEF Later
  <2>5. ASSUME NEW p \in Paths
        PROVE  \/ disk'[p] = disk[p] \/ disk'[p] = NoContent \/ disk'[p] = body
               \/ disk'[p] = edits + 1 /\ edits' = edits + 1
    BY <2>1, <2>2, VaultSteps
  <2>6. edits' = edits + 1 => edits + 1 \notin Later'
    BY <1>1 DEF Later
  <2>7. NoContent \notin Later'
    BY <1>2, <2>4
  <2>8. \A p \in Paths : disk'[p] \notin Later'
    <3> SUFFICES ASSUME NEW p \in Paths, disk'[p] \in Later' PROVE FALSE
      OBVIOUS
    <3>1. disk'[p] \in Later
      BY <2>4
    <3>2. disk[p] \notin Later /\ body \notin Later
      BY DEF Past
    <3> QED
      BY <2>5, <2>6, <2>7, <3>1, <3>2
  <2> QED
    BY <2>4, <2>8
<1>5. \A p \in Paths : disk[p] \notin Later /\ files[p].content \notin Later
  <2>1. Later \subseteq 1 .. MaxEdits
    BY <1>1 DEF Later
  <2> QED
    BY <2>1 DEF Past, Echo
<1>6. body' \notin Later'
  <2> SUFFICES ASSUME body' \in Later' PROVE FALSE
    OBVIOUS
  <2>1. body' \in Later /\ body' # NoContent
    BY <1>2, <1>4
  <2> QED
    BY <1>5, <2>1, BodySteps DEF Past
<1>7. sent' \cap Later' = {}
  <2>1. sent' \subseteq sent \cup {body}
    BY BodySteps
  <2> QED
    BY <1>4, <2>1 DEF Past
<1>8. ASSUME NEW p \in Paths, files'[p].content \in 1 .. MaxEdits PROVE files'[p].content \in sent'
  <2>1. \/ files'[p].content \in {files[p].content, NoContent} \cup {-n : n \in 1 .. MaxRemote}
        \/ files'[p].content \in sent'
    BY ContentSteps
  <2>2. files'[p].content \notin {NoContent} \cup {-n : n \in 1 .. MaxRemote}
    BY <1>2, <1>8
  <2>3. files'[p].content = files[p].content \/ files'[p].content \in sent'
    BY <2>1, <2>2
  <2> QED
    BY <1>3, <1>8, <2>3 DEF Echo
<1>9. ASSUME pc' = "write", body' \in 1 .. MaxEdits PROVE body' \in sent'
  <2>1. body' # NoContent
    BY <1>2, <1>9
  <2>2. (body' = body /\ pc = "write") \/ \E p \in Paths : body' = files[p].content
    BY <1>9, <2>1, BodySteps
  <2> QED
    BY <1>3, <1>9, <2>2 DEF Echo
<1>10. Past'
  BY <1>4, <1>6, <1>7 DEF Past
<1>11. Echo'
  BY <1>8, <1>9 DEF Echo
<1> QED
  BY <1>10, <1>11

(* The steps that are nobody's enqueue and no retry or acknowledgement     *)
(* leave every queue as it is.                                             *)
LEMMA QueuesUnchanged ==
  ASSUME Elsewhere
  PROVE  RetryFailed \/ Acknowledge \/ UNCHANGED <<outbox, basing, appends, refreshes, failed>>
<1>1. ASSUME NEW line \in inbox,
             \/ DropLine(line) \/ Applying(line) \/ Download(line) \/ Advance(line)
             \/ RewriteInbox(line) \/ AdvanceUnsaved(line)
      PROVE  UNCHANGED <<outbox, failed>>
  BY <1>1 DEF DropLine, Applying, ApplyDelete, WriteBody, WriteUnless, Download, Advance, AdvanceTo,
              RewriteInbox, AdvanceUnsaved, queueVars, diskVars
<1>2. \/ StartTick \/ Hydrate \/ DrainSnapshot \/ NextPut \/ NextDelete \/ ReadBody \/ Push
      => UNCHANGED <<outbox, failed>>
  BY DEF StartTick, Hydrate, DrainSnapshot, NextPut, NextDelete, ReadBody, Push, Send, queueVars, diskVars
<1>3. \/ DrainEnds \/ OutboxEmptyOrAgain \/ ListForRebuild \/ Rebuild \/ Fetch \/ EndTick \/ RemoteChange
      => UNCHANGED <<outbox, failed>>
  BY DEF DrainEnds, OutboxEmptyOrAgain, ListForRebuild, Rebuild, Fetch, FetchAbove, EndTick,
         RemoteChange, queueVars, diskVars
<1>4. RetryFailed \/ Acknowledge \/ UNCHANGED <<outbox, failed>>
  BY <1>1, <1>2, <1>3 DEF Elsewhere
<1> QED
  BY <1>4, ElsewhereUnchanged

(* How a carrier ceases to be one: in a crash, struck out of the outbox,   *)
(* or as a failed enqueue whose path has another one that did not fail or  *)
(* is newer.                                                               *)
LEMMA CarrierLeaves ==
  ASSUME IInv, OneEach, Next, NEW op \in Carriers, op.id # 0
  PROVE  \/ op \in Carriers'
         \/ Crash /\ op \in Volatile
         \/ Acknowledge /\ op = Head(todo)
         \/ RetryFailed /\ op \in failed /\ op.path = Head(todo).path /\ op # Head(todo)
         \/ \E s \in Own : RefreshPending(s) /\ op \in failed /\ op.path = s.op.path
<1> DEFINE S == OpsAt(Tip(files), edits)
<1>1. /\ outbox \in Seq(S) /\ appends \in Seq(S) /\ basing \subseteq S /\ failed \subseteq S
      /\ todo \in Seq(S)
  BY DEF IInv, Typed, Queues
<1> HIDE DEF S
<1>3. \/ op \in ToSet(outbox) \/ op \in ToSet(appends) \/ op \in basing \/ op \in failed
      \/ \E s \in refreshes : ~s.ok /\ s.op = op
  BY DEF Carriers, Volatile
<1>4. \A x : \/ x \in ToSet(outbox)' \/ x \in ToSet(appends)' \/ x \in basing' \/ x \in failed'
             \/ \E s \in refreshes' : ~s.ok /\ s.op = x
             => x \in Carriers'
  BY DEF Carriers, Volatile
<1>5. ASSUME NEW q \in Paths, Save(q) PROVE op \in Carriers'
  <2> DEFINE new == Op("put", q, NoBase)
             T == S \cup {new}
  <2>1. appends' = Append(appends, new) /\ UNCHANGED <<outbox, basing, refreshes, failed>>
    BY <1>5 DEF Save
  <2>2. appends \in Seq(T)
    BY <1>1
  <2> HIDE DEF new
  <2>3. new \in T
    OBVIOUS
  <2> HIDE DEF T
  <2>4. ToSet(appends)' = ToSet(appends) \cup {new}
    BY <2>1, <2>2, <2>3, Elements
  <2>5. ToSet(outbox)' = ToSet(outbox)
    BY <2>1
  <2> QED
    BY <1>3, <1>4, <2>1, <2>4, <2>5
<1>6. ASSUME NEW q \in Paths, Erase(q) PROVE op \in Carriers'
  <2>1. basing \subseteq basing' /\ UNCHANGED <<outbox, appends, refreshes, failed>>
    BY <1>6 DEF Erase
  <2> QED
    BY <1>3, <1>4, <2>1
<1>7. ASSUME NEW o \in basing, EnqueueDelete(o) PROVE op \in Carriers'
  <2>1. /\ appends' = Append(appends, o) /\ basing' = basing \ {o}
        /\ UNCHANGED <<outbox, refreshes, failed>>
    BY <1>7 DEF EnqueueDelete, diskVars
  <2>2. o \in S
    BY <1>1
  <2>3. ToSet(appends)' = ToSet(appends) \cup {o}
    BY <1>1, <2>1, <2>2, Elements
  <2>4. ToSet(outbox)' = ToSet(outbox)
    BY <2>1
  <2> QED
    BY <1>3, <1>4, <2>1, <2>3, <2>4
<1>8. ASSUME NEW ok \in BOOLEAN, AppendOutbox(ok) PROVE op \in Carriers'
  <2>1. PICK o \in S :
           /\ ToSet(appends) = {o} \cup ToSet(appends')
           /\ refreshes' = refreshes \cup {[op |-> o, ok |-> ok, seen |-> "unread"]}
           /\ outbox' = IF ok THEN Append(outbox, o) ELSE outbox
           /\ UNCHANGED <<basing, failed>>
    BY <1>8, AppendShape DEF S
  <2>2. ToSet(outbox)' = IF ok THEN ToSet(outbox) \cup {o} ELSE ToSet(outbox)
    <3>1. ToSet(Append(outbox, o)) = ToSet(outbox) \cup {o}
      BY <1>1, Elements
    <3> QED
      BY <2>1, <3>1
  <2>3. ~ok => \E s \in refreshes' : ~s.ok /\ s.op = o
    <3> DEFINE r == [op |-> o, ok |-> ok, seen |-> "unread"]
    <3>1. r \in refreshes' /\ r.ok = ok /\ r.op = o
      BY <2>1
    <3> QED
      BY <3>1
  <2> QED
    BY <1>3, <1>4, <2>1, <2>2, <2>3
<1>9. ASSUME NEW s \in refreshes, ReadListing(s) PROVE op \in Carriers'
  <2>1. PICK t : /\ t.op = s.op /\ t.ok = s.ok
                 /\ refreshes' = (refreshes \ {s}) \cup {t}
                 /\ UNCHANGED <<outbox, basing, appends, failed>>
    BY <1>9, ListingShape DEF diskVars
  <2>2. (\E x \in refreshes : ~x.ok /\ x.op = op) => \E x \in refreshes' : ~x.ok /\ x.op = op
    BY <2>1
  <2> QED
    BY <1>3, <1>4, <2>1, <2>2
<1>10. ASSUME NEW s \in refreshes, RefreshPending(s)
       PROVE  op \in Carriers' \/ (s \in Own /\ op \in failed /\ op.path = s.op.path)
  <2>1. /\ refreshes' = refreshes \ {s} /\ UNCHANGED <<outbox, basing, appends>>
        /\ \/ s.op.id = 0 /\ failed' = failed
           \/ s.op.id # 0 /\ s.ok /\ failed' = {f \in failed : f.path # s.op.path}
           \/ s.op.id # 0 /\ ~s.ok /\ failed' = {f \in failed : f.path # s.op.path} \cup {s.op}
    BY <1>10, RefreshShape DEF diskVars
  <2>2. CASE op \in failed
    BY <1>4, <2>1, <2>2 DEF Own
  <2>3. ASSUME NEW x \in refreshes, ~x.ok, x.op = op PROVE op \in Carriers'
    <3>1. CASE x = s
      BY <1>4, <2>1, <2>3, <3>1
    <3>2. CASE x # s
      BY <1>4, <2>1, <2>3, <3>2
    <3> QED
      BY <3>1, <3>2
  <2> QED
    BY <1>3, <1>4, <2>1, <2>2, <2>3
<1>11. ASSUME RefreshProcessed PROVE op \in Carriers'
  <2>1. UNCHANGED <<outbox, basing, appends, failed>> /\ refreshes \subseteq refreshes'
    BY <1>11 DEF RefreshProcessed, diskVars
  <2> QED
    BY <1>3, <1>4, <2>1
<1>12. ASSUME TickFails PROVE op \in Carriers'
  <2>1. /\ UNCHANGED <<outbox, basing, appends, failed>>
        /\ refreshes' = {s \in refreshes : s.op.id # 0}
    BY <1>12 DEF TickFails, diskVars
  <2> QED
    BY <1>3, <1>4, <2>1
<1>13. ASSUME Crash PROVE op \in Carriers' \/ op \in Volatile
  <2>1. outbox' = outbox
    BY <1>13 DEF Crash
  <2> QED
    BY <1>4, <2>1 DEF Carriers
<1>14. ASSUME RetryFailed
       PROVE  op \in Carriers' \/ (op \in failed /\ op.path = Head(todo).path /\ op # Head(todo))
  <2>1. /\ pc = "retry" /\ todo # <<>> /\ outbox' = Append(outbox, Head(todo))
        /\ failed' = {f \in failed : f.path # Head(todo).path}
        /\ UNCHANGED <<basing, appends, refreshes>>
    BY <1>14 DEF RetryFailed
  <2>2. Head(todo) \in S
    BY <1>1, <2>1, Elements
  <2>3. ToSet(outbox)' = ToSet(outbox) \cup {Head(todo)}
    BY <1>1, <2>1, <2>2, Elements
  <2> QED
    BY <1>3, <1>4, <2>1, <2>3
<1>15. ASSUME Acknowledge PROVE op \in Carriers' \/ op = Head(todo)
  <2>1. /\ pc = "ack" /\ outbox' = RemoveFirst(outbox, Head(todo))
        /\ UNCHANGED <<basing, appends, refreshes, failed>>
    BY <1>15 DEF Acknowledge, Strike, queueVars
  <2>2. ToSet(outbox) \ {Head(todo)} \subseteq ToSet(outbox')
    BY <1>1, <2>1, RemovesOne
  <2> QED
    BY <1>3, <1>4, <2>1, <2>2
<1>16. ASSUME UNCHANGED <<outbox, basing, appends, refreshes, failed>> PROVE op \in Carriers'
  BY <1>3, <1>4, <1>16
<1>17. Elsewhere => \/ op \in Carriers'
                    \/ Acknowledge /\ op = Head(todo)
                    \/ RetryFailed /\ op \in failed /\ op.path = Head(todo).path /\ op # Head(todo)
  BY <1>14, <1>15, <1>16, QueuesUnchanged
<1> QED
  BY <1>5, <1>6, <1>7, <1>8, <1>9, <1>10, <1>11, <1>12, <1>13, <1>17, Steps

(* A carrier of an unsent edit stays one while the edit is unsent.         *)
LEMMA CarrierStays ==
  ASSUME IInv, OneEach, Current, OldFailures, Sending, Next, ~Forgets,
         NEW p \in Paths, Unsent(p), p \notin lost', NEW op \in Carriers, CarriedBy(op, p)
  PROVE  op \in Carriers'
<1>1. op.op = "put" /\ op.path = p /\ op.id = disk[p] /\ op.id # 0
  <2>1. edits \in Nat
    BY DEF IInv, Typed, Plain
  <2> QED
    BY <2>1 DEF CarriedBy, Unsent
<1>2. ~(Crash /\ op \in Volatile)
  BY <1>1 DEF Crash, PathsOf
<1>3. ~(Acknowledge /\ op = Head(todo))
  BY <1>1 DEF Acknowledge, Strike, Sending
<1>4. ~(RetryFailed /\ op \in failed /\ op.path = Head(todo).path /\ op # Head(todo))
  BY DEF RetryFailed, Forgets
<1>5. ASSUME NEW s \in Own, op \in failed, op.path = s.op.path PROVE FALSE
  <2>1. s.op \in Running
    BY DEF Running
  <2>2. CarriedBy(s.op, p)
    BY <1>1, <1>5, <2>1 DEF Current
  <2>3. s.op.id = op.id
    BY <1>1, <2>2 DEF CarriedBy
  <2> QED
    BY <1>5, <2>1, <2>3 DEF OldFailures
<1> QED
  BY <1>1, <1>2, <1>3, <1>4, <1>5, CarrierLeaves

(* Who is on their way after a step.                                       *)
LEMMA RunningSteps ==
  ASSUME IInv, OneEach, Next, NEW op \in Running'
  PROVE  \/ op \in Running
         \/ \E p \in Paths : /\ op.path = p /\ op.id = edits + 1
                             /\ Erase(p) \/ (Save(p) /\ op.op = "put")
<1> DEFINE S == OpsAt(Tip(files), edits)
<1>1. appends \in Seq(S) /\ basing \subseteq S
  BY DEF IInv, Typed, Queues
<1> HIDE DEF S
<1>2. op \in ToSet(appends)' \/ op \in basing' \/ \E s \in refreshes' : s.op.id # 0 /\ s.op = op
  BY DEF Running, Own
<1>3. \A x : x \in ToSet(appends) \/ x \in basing \/ (\E s \in refreshes : s.op.id # 0 /\ s.op = x)
           => x \in Running
  BY DEF Running, Own
<1>4. ASSUME NEW p \in Paths, Save(p)
      PROVE  op \in Running \/ (op.path = p /\ op.id = edits + 1 /\ op.op = "put")
  <2> DEFINE new == Op("put", p, NoBase)
             T == S \cup {new}
  <2>1. appends' = Append(appends, new) /\ UNCHANGED <<basing, refreshes>>
    BY <1>4 DEF Save
  <2>2. appends \in Seq(T)
    BY <1>1
  <2>3. new.path = p /\ new.id = edits + 1 /\ new.op = "put"
    BY DEF Op
  <2> HIDE DEF new
  <2>4. new \in T
    OBVIOUS
  <2> HIDE DEF T
  <2>5. ToSet(appends)' = ToSet(appends) \cup {new}
    BY <2>1, <2>2, <2>4, Elements
  <2> QED
    BY <1>2, <1>3, <2>1, <2>3, <2>5
<1>5. ASSUME NEW p \in Paths, Erase(p)
      PROVE  op \in Running \/ (op.path = p /\ op.id = edits + 1)
  <2> DEFINE new == Op("delete", p, revision)
  <2>1. basing' = basing \cup {new} /\ UNCHANGED <<appends, refreshes>>
    BY <1>5 DEF Erase
  <2>2. new.path = p /\ new.id = edits + 1
    BY DEF Op
  <2> HIDE DEF new
  <2> QED
    BY <1>2, <1>3, <2>1, <2>2
<1>6. ASSUME NEW o \in basing, EnqueueDelete(o) PROVE op \in Running
  <2>1. appends' = Append(appends, o) /\ basing' = basing \ {o} /\ UNCHANGED refreshes
    BY <1>6 DEF EnqueueDelete
  <2>2. ToSet(appends)' = ToSet(appends) \cup {o}
    <3>1. o \in S
      BY <1>1
    <3> QED
      BY <1>1, <2>1, <3>1, Elements
  <2> QED
    BY <1>2, <1>3, <2>1, <2>2
<1>7. ASSUME NEW ok \in BOOLEAN, AppendOutbox(ok) PROVE op \in Running
  <2>1. PICK o \in S :
           /\ ToSet(appends) = {o} \cup ToSet(appends')
           /\ refreshes' = refreshes \cup {[op |-> o, ok |-> ok, seen |-> "unread"]}
           /\ basing' = basing
    BY <1>7, AppendShape DEF S
  <2>2. [op |-> o, ok |-> ok, seen |-> "unread"].op = o
    OBVIOUS
  <2>3. o \in Running
    BY <1>3, <2>1
  <2>4. \A s \in refreshes' : s \in refreshes \/ s.op = o
    BY <2>1, <2>2
  <2> QED
    BY <1>2, <1>3, <2>1, <2>3, <2>4
<1>8. ASSUME NEW s \in refreshes, ReadListing(s) PROVE op \in Running
  <2>1. PICK t : /\ t.op = s.op /\ refreshes' = (refreshes \ {s}) \cup {t}
                 /\ UNCHANGED <<basing, appends>>
    BY <1>8, ListingShape
  <2> QED
    BY <1>2, <1>3, <2>1
<1>9. ASSUME NEW s \in refreshes, RefreshPending(s) PROVE op \in Running
  <2>1. refreshes' = refreshes \ {s} /\ UNCHANGED <<basing, appends>>
    BY <1>9, RefreshShape
  <2> QED
    BY <1>2, <1>3, <2>1
<1>10. ASSUME RefreshProcessed PROVE op \in Running
  <2>1. PICK p : \/ UNCHANGED refreshes
                 \/ refreshes' = refreshes \cup
                        {[op |-> [path |-> p, id |-> 0], ok |-> TRUE, seen |-> "unread"]}
    BY <1>10 DEF RefreshProcessed
  <2>2. UNCHANGED <<basing, appends>>
    BY <1>10 DEF RefreshProcessed
  <2>3. [op |-> [path |-> p, id |-> 0], ok |-> TRUE, seen |-> "unread"].op.id = 0
    OBVIOUS
  <2>4. \A s \in refreshes' : s.op.id # 0 => s \in refreshes
    BY <2>1, <2>3
  <2> QED
    BY <1>2, <1>3, <2>2, <2>4
<1>11. ASSUME TickFails PROVE op \in Running
  <2>1. UNCHANGED <<basing, appends>> /\ refreshes' \subseteq refreshes
    BY <1>11 DEF TickFails
  <2> QED
    BY <1>2, <1>3, <2>1
<1>12. ASSUME Crash PROVE op \in Running
  <2>1. basing' = {} /\ appends' = <<>> /\ refreshes' = {}
    BY <1>12 DEF Crash
  <2>2. ToSet(appends)' = {}
    BY <2>1 DEF ToSet
  <2> QED
    BY <1>2, <2>1, <2>2
<1>13. ASSUME Elsewhere PROVE op \in Running
  BY <1>2, <1>3, <1>13, ElsewhereUnchanged
<1> QED
  BY <1>4, <1>5, <1>6, <1>7, <1>8, <1>9, <1>10, <1>11, <1>12, <1>13, Steps

(* What newly counts as failed was the last enqueue of its path.           *)
LEMMA FailedSteps ==
  ASSUME IInv, OneEach, Next, NEW f \in failed'
  PROVE  \/ f \in failed
         \/ \E s \in Own : f = s.op /\ refreshes' = refreshes \ {s} /\ UNCHANGED <<basing, appends>>
<1>1. ASSUME NEW p \in Paths, Save(p) \/ Erase(p) PROVE failed' = failed
  BY <1>1 DEF Save, Erase
<1>2. ASSUME NEW o \in basing, EnqueueDelete(o) PROVE failed' = failed
  BY <1>2 DEF EnqueueDelete
<1>3. ASSUME NEW ok \in BOOLEAN, AppendOutbox(ok) PROVE failed' = failed
  BY <1>3, AppendShape
<1>4. ASSUME NEW s \in refreshes, ReadListing(s) PROVE failed' = failed
  BY <1>4 DEF ReadListing
<1>5. ASSUME NEW s \in refreshes, RefreshPending(s)
      PROVE  \/ f \in failed
             \/ s \in Own /\ f = s.op /\ refreshes' = refreshes \ {s} /\ UNCHANGED <<basing, appends>>
  <2>1. /\ refreshes' = refreshes \ {s} /\ UNCHANGED <<basing, appends>>
        /\ \/ s.op.id = 0 /\ failed' = failed
           \/ s.op.id # 0 /\ s.ok /\ failed' = {g \in failed : g.path # s.op.path}
           \/ s.op.id # 0 /\ ~s.ok /\ failed' = {g \in failed : g.path # s.op.path} \cup {s.op}
    BY <1>5, RefreshShape
  <2> QED
    BY <2>1 DEF Own
<1>6. RefreshProcessed \/ TickFails => failed' = failed
  BY DEF RefreshProcessed, TickFails
<1>7. Crash => failed' = {}
  BY DEF Crash
<1>8. RetryFailed => failed' \subseteq failed
  BY DEF RetryFailed
<1>9. Acknowledge => failed' = failed
  BY DEF Acknowledge, Strike, queueVars
<1> QED
  BY <1>1, <1>2, <1>3, <1>4, <1>5, <1>6, <1>7, <1>8, <1>9, Steps, QueuesUnchanged

(* Where the tick is when it has a line in hand, and what it knows of it.  *)
LEMMA PushingSteps ==
  ASSUME IInv, OneEach, Next, pc' \in {"push", "ack"}
  PROVE  /\ todo' = todo /\ todo # <<>>
         /\ \/ pc' = pc /\ body' = body
            \/ Head(todo).op # "put"
            \/ disk' = disk /\ disk[Head(todo).path] = NoContent
            \/ disk' = disk /\ pc' = "push" /\ body' = disk[Head(todo).path]
            \/ disk' = disk /\ pc = "push" /\ body \in sent'
<1>1. Idle => pc' \notin {"push", "ack"}
  BY DEF Idle
<1>2. pc \in {"push", "ack", "read"} => todo # <<>>
  BY DEF IInv, Typed, InHand
<1>3. UNCHANGED <<pc, tickVars>> => todo' = todo /\ todo # <<>> /\ pc' = pc /\ body' = body
  BY <1>2 DEF tickVars
<1>4. ASSUME NEW p \in Paths, Save(p) \/ Erase(p) PROVE UNCHANGED <<pc, tickVars>>
  BY <1>4 DEF Save, Erase
<1>5. ASSUME NEW o \in basing, EnqueueDelete(o) PROVE UNCHANGED <<pc, tickVars>>
  BY <1>5 DEF EnqueueDelete
<1>6. ASSUME NEW ok \in BOOLEAN, AppendOutbox(ok) PROVE UNCHANGED <<pc, tickVars>>
  BY <1>6, AppendShape
<1>7. ASSUME NEW s \in refreshes, ReadListing(s) PROVE UNCHANGED <<pc, tickVars>>
  BY <1>7 DEF ReadListing
<1>8. ASSUME NEW s \in refreshes, RefreshPending(s) PROVE UNCHANGED <<pc, tickVars>>
  BY <1>1, <1>8, RefreshShape
<1>9. RefreshProcessed => pc' \notin {"push", "ack"}
  BY DEF RefreshProcessed
<1>10. TickFails \/ Crash => pc' \notin {"push", "ack"}
  BY <1>1 DEF TickFails, Crash
<1>11. RemoteChange => UNCHANGED <<pc, tickVars>>
  BY DEF RemoteChange
<1>12. ASSUME NEW line \in inbox,
              \/ DropLine(line) \/ Applying(line) \/ Download(line) \/ Advance(line)
              \/ RewriteInbox(line) \/ AdvanceUnsaved(line)
       PROVE  pc' \notin {"push", "ack"}
  BY <1>12 DEF DropLine, Applying, ApplyDelete, WriteBody, WriteUnless, Download, Advance, AdvanceTo,
              RewriteInbox, AdvanceUnsaved, Idle
<1>13. \/ StartTick \/ RetryFailed \/ Hydrate \/ DrainSnapshot \/ Acknowledge \/ DrainEnds
       \/ OutboxEmptyOrAgain \/ ListForRebuild \/ Rebuild \/ Fetch \/ EndTick
       => pc' \notin {"push", "ack"}
  BY DEF StartTick, RetryFailed, Hydrate, DrainSnapshot, Acknowledge, Strike, DrainEnds,
         OutboxEmptyOrAgain, ListForRebuild, Rebuild, Fetch, FetchAbove, EndTick, Idle
<1>14. ASSUME NextPut
       PROVE  todo' = todo /\ todo # <<>> /\ disk' = disk /\ disk[Head(todo).path] = NoContent
  BY <1>14 DEF NextPut, diskVars
<1>15. ASSUME NextDelete
       PROVE  todo' = todo /\ todo # <<>> /\ Head(todo).op # "put"
  BY <1>15 DEF NextDelete, tickVars
<1>16. ASSUME ReadBody
       PROVE  todo' = todo /\ todo # <<>> /\ disk' = disk /\ pc' = "push" /\ body' = disk[Head(todo).path]
  <2>1. pc = "read" /\ disk' = disk /\ ~Idle
    BY <1>1, <1>16 DEF ReadBody, diskVars
  <2> QED
    BY <1>2, <1>16, <2>1 DEF ReadBody
<1>17. ASSUME Push
       PROVE  /\ todo' = todo /\ todo # <<>> /\ disk' = disk /\ pc = "push"
              /\ Head(todo).op = "put" => body \in sent'
  BY <1>2, <1>17 DEF Push, Send
<1> QED
  BY <1>3, <1>4, <1>5, <1>6, <1>7, <1>8, <1>9, <1>10, <1>11, <1>12, <1>13, <1>14, <1>15, <1>16, <1>17,
     Steps DEF Elsewhere

(* A line that is struck out carries nothing that is unsent.               *)
LEMMA SendingKept ==
  ASSUME IInv, OneEach, Past, Echo, Sending, Next
  PROVE  Sending'
<1> DEFINE h == Head(todo)
<1> SUFFICES ASSUME pc' \in {"push", "ack"}, Head(todo').op = "put", Unsent(Head(todo).path)',
                    disk'[Head(todo').path] = Head(todo').id
             PROVE  pc' = "push" /\ body' = Head(todo').id
  BY DEF Sending
<1>1. todo' = todo /\ todo # <<>> /\ todo \in Seq(OpsAt(Tip(files), edits))
  BY PushingSteps DEF IInv, Typed, Queues
<1>2. h \in OpsAt(Tip(files), edits)
  BY <1>1
<1>3. h.path \in Paths /\ h.id \in 1 .. edits /\ edits \in Nat
  BY <1>2 DEF OpsAt, IInv, Typed, Plain
<1>4. h.op = "put" /\ disk'[h.path] = h.id /\ disk'[h.path] \in 1 .. edits' /\ disk'[h.path] \notin sent'
  BY <1>1 DEF Unsent
<1>5. PICK p \in Paths : p = h.path
  BY <1>3
<1>6. Unsent(p)'
  <2>1. Head(todo').path = p
    BY <1>1, <1>5
  <2>2. /\ disk'[Head(todo').path] \in 1 .. edits' /\ disk'[Head(todo').path] \notin sent'
        /\ Head(todo').path \notin lost'
    BY DEF Unsent
  <2> QED
    BY <2>1, <2>2 DEF Unsent
<1>7. Unsent(p) /\ disk'[p] = disk[p]
  <2>1. ASSUME Save(p) PROVE FALSE
    <3>1. disk'[p] = edits + 1
      BY <2>1 DEF Save, IInv, Typed, Plain
    <3> QED
      BY <1>3, <1>4, <1>5, <3>1
  <2> QED
    BY <1>6, <2>1, UnsentBefore
<1>8. disk[h.path] = h.id /\ disk'[h.path] = disk[h.path] /\ Unsent(h.path)
  BY <1>4, <1>5, <1>7
<1>9. disk[h.path] # NoContent
  <2>1. disk[h.path] \in 1 .. MaxEdits
    BY <1>3, <1>8, Bounds DEF Past
  <2> QED
    BY <2>1, Numbered, NoContentIsNoContent
<1>10. h.op = "put" /\ (pc \in {"push", "ack"} => pc = "push" /\ body = h.id)
  BY <1>4, <1>8 DEF Sending
<1> HIDE DEF h
<1>11. \/ pc' = pc /\ body' = body
       \/ pc' = "push" /\ body' = disk[h.path]
       \/ pc = "push" /\ body \in sent'
  BY <1>4, <1>9, PushingSteps DEF h
<1>12. pc' = "push" /\ body' = h.id
  BY <1>4, <1>8, <1>10, <1>11
<1> QED
  BY <1>1, <1>12 DEF h

(* The other three parts.                                                  *)
LEMMA CarriedKept ==
  ASSUME IInv, OneEach, Prompt, UInv, Next, ~Forgets
  PROVE  Carried' /\ Current' /\ OldFailures'
<1>1. /\ edits \in Nat /\ disk \in [Paths -> Contents \cup {NoContent}]
      /\ failed \subseteq OpsAt(Tip(files), edits)
  BY DEF IInv, Typed, Plain, Queues
<1>2. ASSUME NEW p \in Paths, Unsent(p)' PROVE \E op \in Carriers' : CarriedBy(op, p)'
  <2>1. CASE Save(p)
    <3>8. PICK new : new = Op("put", p, NoBase)
      OBVIOUS
    <3> DEFINE T == OpsAt(Tip(files), edits) \cup {new}
    <3>1. appends' = Append(appends, new) /\ disk'[p] = edits + 1
      BY <1>1, <2>1, <3>8 DEF Save
    <3>2. appends \in Seq(T)
      BY DEF IInv, Typed, Queues
    <3>3. new.path = p /\ new.id = edits + 1 /\ new.op = "put"
      BY <3>8 DEF Op
    <3>4. new \in T
      OBVIOUS
    <3> HIDE DEF T
    <3>5. new \in ToSet(appends)'
      BY <3>1, <3>2, <3>4, Elements
    <3>6. new \in Carriers'
      BY <3>5 DEF Carriers, Volatile
    <3>7. CarriedBy(new, p)'
      BY <3>1, <3>3 DEF CarriedBy
    <3> QED
      BY <3>6, <3>7
  <2>2. CASE Unsent(p) /\ disk'[p] = disk[p]
    <3>1. PICK op \in Carriers : CarriedBy(op, p)
      BY <2>2 DEF UInv, Carried
    <3>2. p \notin lost'
      BY <1>2 DEF Unsent
    <3>3. op \in Carriers'
      BY <2>2, <3>1, <3>2, CarrierStays DEF UInv
    <3>4. CarriedBy(op, p)'
      BY <2>2, <3>1 DEF CarriedBy
    <3> QED
      BY <3>3, <3>4
  <2> QED
    BY <1>2, <2>1, <2>2, UnsentBefore DEF UInv
<1>3. ASSUME NEW op \in Running', NEW p \in Paths, p = op.path, Unsent(p)'
      PROVE  CarriedBy(op, p)'
  <2>1. CASE op \in Running
    <3>1. ~Save(p)
      <4>1. p \in Counted \cup PathsOf({s.op : s \in refreshes}) \cup PathsOf(basing)
        BY <1>3, <2>1 DEF Running, Own, Counted, PathsOf
      <4> QED
        BY <4>1 DEF Save, Calm
    <3>2. Unsent(p) /\ disk'[p] = disk[p]
      BY <1>3, <3>1, UnsentBefore DEF UInv
    <3>3. CarriedBy(op, p)
      BY <1>3, <2>1, <3>2 DEF UInv, Current
    <3> QED
      BY <3>2, <3>3 DEF CarriedBy
  <2>2. ASSUME op.id = edits + 1, Save(p), op.op = "put" PROVE CarriedBy(op, p)'
    <3>1. disk'[p] = edits + 1
      BY <1>1, <2>2 DEF Save
    <3> QED
      BY <1>3, <2>2, <3>1 DEF CarriedBy
  <2>3. ASSUME Erase(p) PROVE FALSE
    <3>1. disk'[p] = NoContent
      BY <1>1, <2>3 DEF Erase
    <3>2. disk'[p] \in 1 .. (edits + 1) /\ edits < MaxEdits
      BY <1>3, <2>3 DEF Unsent, Erase
    <3>3. disk'[p] \in 1 .. MaxEdits
      BY <1>1, <3>2, Bounds
    <3> QED
      BY <3>1, <3>3, Numbered, NoContentIsNoContent
  <2> QED
    BY <1>3, <2>1, <2>2, <2>3, RunningSteps
<1>4. ASSUME NEW op \in Running', Unsent(op.path)' PROVE CarriedBy(op, op.path)'
  <2>1. op.path \in Paths
    <3>1. /\ appends \in Seq(OpsAt(Tip(files), edits)) /\ basing \subseteq OpsAt(Tip(files), edits)
          /\ refreshes \subseteq RefreshesAt(Tip(files), edits)
      BY DEF IInv, Typed, Queues
    <3>2. ToSet(appends) \subseteq OpsAt(Tip(files), edits)
      BY <3>1, Elements
    <3>3. \A x \in Running : x.path \in Paths
      BY <3>1, <3>2 DEF Running, Own, OpsAt, RefreshesAt
    <3> QED
      BY <1>4, <3>3, RunningSteps
  <2>2. PICK p \in Paths : p = op.path
    BY <2>1
  <2>3. Unsent(p)'
    BY <1>4, <2>2 DEF Unsent
  <2>4. CarriedBy(op, p)'
    BY <1>3, <2>2, <2>3
  <2> QED
    BY <2>2, <2>4 DEF CarriedBy
<1>5. ASSUME NEW f \in failed', NEW op \in Running', f.path = op.path PROVE f.id # op.id
  <2>1. CASE f \in failed /\ op \in Running
    BY <1>5, <2>1 DEF UInv, OldFailures
  <2>2. CASE f \in failed /\ op \notin Running
    <3>1. op.id = edits + 1
      BY <1>5, <2>2, RunningSteps
    <3>2. f.id \in 1 .. edits
      BY <1>1, <2>2 DEF OpsAt
    <3> QED
      BY <1>1, <3>1, <3>2
  <2>3. ASSUME NEW s \in Own, f = s.op, refreshes' = refreshes \ {s}, UNCHANGED <<basing, appends>>
        PROVE  FALSE
    <3>1. op \in ToSet(appends) \/ op \in basing \/ \E t \in Own : t # s /\ t.op = op
      BY <2>3 DEF Running, Own
    <3>2. s.op.path \notin Counted \cup PathsOf(basing) /\ \A t \in Own : t # s => t.op.path # s.op.path
      BY <2>3 DEF OneEach
    <3> QED
      BY <1>5, <2>3, <3>1, <3>2 DEF Counted, PathsOf
  <2> QED
    BY <2>1, <2>2, <2>3, FailedSteps
<1>6. Carried'
  BY <1>2 DEF Carried
<1>7. Current'
  BY <1>4 DEF Current
<1>8. OldFailures'
  BY <1>5 DEF OldFailures
<1> QED
  BY <1>6, <1>7, <1>8

(* Nothing is unsent at the start.                                         *)
LEMMA UInvInitially == Init => UInv
<1> SUFFICES ASSUME Init PROVE UInv
  OBVIOUS
<1>1. /\ edits = 0 /\ body = NoContent /\ sent = {} /\ appends = <<>> /\ basing = {} /\ refreshes = {}
      /\ failed = {} /\ pc = "idle" /\ disk = [p \in Paths |-> NoContent]
      /\ files = [p \in Paths |-> NoRow]
  BY DEF Init
<1>2. NoContent \notin 1 .. MaxEdits
  BY Numbered, NoContentIsNoContent
<1>3. \A p \in Paths : ~Unsent(p)
  BY <1>1 DEF Unsent
<1>4. Running = {}
  BY <1>1 DEF Running, Own, ToSet
<1>5. Later = 1 .. MaxEdits /\ edits <= MaxEdits
  BY <1>1, Bounds DEF Later
<1>6. Carried /\ Current /\ OldFailures
  BY <1>3, <1>4 DEF Carried, Current, OldFailures
<1>7. Past
  BY <1>1, <1>2, <1>5 DEF Past
<1>8. Echo
  BY <1>1, <1>2 DEF Echo, NoRow
<1>9. Sending
  BY <1>1 DEF Sending
<1> QED
  BY <1>6, <1>7, <1>8, <1>9 DEF UInv

(* No step but the one that forgets breaks it.                             *)
LEMMA UInvKept ==
  ASSUME IInv, GInv, Prompt, UInv, [Next /\ ~Forgets]_vars
  PROVE  UInv'
<1>1. CASE UNCHANGED vars
  <2>1. /\ UNCHANGED <<files, disk, outbox, basing, appends, refreshes, failed, pc, todo, body>>
        /\ UNCHANGED <<lost, sent, edits>>
    BY <1>1 DEF vars, diskVars, queueVars, tickVars, ghosts, counters
  <2>2. \A p : Unsent(p)' = Unsent(p) /\ \A op : CarriedBy(op, p)' = CarriedBy(op, p)
    BY <2>1 DEF Unsent, CarriedBy
  <2>3. Running' = Running /\ Carriers' = Carriers /\ Later' = Later
    BY <2>1 DEF Running, Own, Carriers, Volatile, Later
  <2>4. Carried' /\ OldFailures'
    BY <2>1, <2>2, <2>3 DEF UInv, Carried, OldFailures
  <2>5. Current'
    BY <2>1, <2>3 DEF UInv, Current, Unsent, CarriedBy
  <2>6. Past' /\ Echo'
    BY <2>1, <2>3 DEF UInv, Past, Echo
  <2>7. Sending'
    BY <2>1 DEF UInv, Sending, Unsent
  <2> QED
    BY <2>4, <2>5, <2>6, <2>7 DEF UInv
<1>2. CASE Next /\ ~Forgets
  BY <1>2, CarriedKept, SendingKept, PastAndEchoKept DEF UInv, GInv
<1> QED
  BY <1>1, <1>2

(* What an inbound change takes out of the vault, the server has had.      *)
LEMMA TakesOnlyWhatWasSent ==
  ASSUME IInv, GInv, UInv, Prompt, Under = {}, NEW line \in inbox, Applying(line),
         NEW p \in Paths \ lost, disk[p] \in 1 .. edits, disk'[p] # disk[p]
  PROVE  disk[p] \in sent
<1> SUFFICES ASSUME disk[p] \notin sent PROVE FALSE
  OBVIOUS
<1>1. Unsent(p)
  BY DEF Unsent
<1>2. PICK op \in Carriers : CarriedBy(op, p)
  BY <1>1 DEF UInv, Carried
<1>3. p \in Outgoing
  BY <1>2 DEF Carriers, CarriedBy, Outgoing, OutboxPaths, PathsOf
<1>4. p \in pending /\ p \in Paths \ Above(line.path)
  BY <1>3, AppliesOnce DEF Above
<1> QED
  BY <1>4, AppliesOnce

(* README, "Local edits are written to a durable outbox immediately, then  *)
(* drained over the network": unless the retry of one failed append        *)
(* forgets another one of the same path (engine.ts deletes the path's      *)
(* entry when the older of two appends succeeds), an edit that no crash    *)
(* has lost leaves the vault only after the server has answered for it.    *)
THEOREM UnsentEditKeptUnlessForgotten ==
  Prompt /\ Under = {} => (Init /\ [][Next /\ ~Forgets]_vars => UnsentEditKept)
<1> SUFFICES ASSUME Prompt, Under = {}
             PROVE  Init /\ [][Next /\ ~Forgets]_vars => UnsentEditKept
  OBVIOUS
<1>1. Init /\ [][Next /\ ~Forgets]_vars => Spec
  <2>1. [Next /\ ~Forgets]_vars => [Next]_vars
    OBVIOUS
  <2> QED
    BY <2>1, PTL DEF Spec
<1>2. IInv /\ GInv /\ UInv /\ [Next /\ ~Forgets]_vars => UInv'
  BY UInvKept
<1>3. IInv /\ GInv /\ UInv =>
        [(\E line \in inbox : Applying(line)) =>
           \A p \in Paths \ lost :
             disk[p] \in 1 .. edits /\ disk'[p] # disk[p] => disk[p] \in sent]_vars
  BY TakesOnlyWhatWasSent
<1> QED
  BY <1>1, <1>2, <1>3, UInvInitially, IInvHolds, GInvHolds, PTL DEF UnsentEditKept

-----------------------------------------------------------------------------
(* With one fault at most there is one failed append at most, wherever it  *)
(* is: among those that failed, in the look that follows an append, or in  *)
(* the list of those the tick has yet to retry.                            *)

Failing == failed \cup {s.op : s \in {x \in refreshes : ~x.ok}}
             \cup (IF pc = "retry" THEN ToSet(todo) ELSE {})

Single ==
  /\ faults \in Nat
  /\ faults = 0 => Failing = {}
  /\ \A f, g \in Failing : f = g

(* The faults are counted. *)
LEMMA FaultsSteps ==
  ASSUME Next
  PROVE  faults' = faults \/ (faults < MaxFaults /\ faults' = faults + 1)
<1>1. ASSUME NEW line \in inbox,
             \/ DropLine(line) \/ Applying(line) \/ Download(line) \/ Advance(line)
             \/ RewriteInbox(line)
      PROVE  faults' = faults
  BY <1>1 DEF DropLine, Applying, ApplyDelete, WriteBody, WriteUnless, Download, Advance, AdvanceTo,
              RewriteInbox, ghosts, counters
<1>2. \/ StartTick \/ RetryFailed \/ Hydrate \/ DrainSnapshot \/ NextPut \/ NextDelete \/ ReadBody
      \/ Push \/ Acknowledge \/ RefreshProcessed \/ DrainEnds \/ OutboxEmptyOrAgain
      \/ ListForRebuild \/ Rebuild \/ Fetch \/ EndTick
      => faults' = faults
  BY DEF StartTick, RetryFailed, Hydrate, DrainSnapshot, NextPut, NextDelete, ReadBody, Push, Send,
         Acknowledge, Strike, RefreshProcessed, DrainEnds, OutboxEmptyOrAgain, ListForRebuild, Rebuild,
         Fetch, FetchAbove, EndTick, ghosts, counters
<1>3. RemoteChange \/ Enqueueing => faults' = faults
  BY DEF RemoteChange, Enqueueing, AppendOutbox, EnqueueDelete, ReadListing, RefreshPending, ghosts,
         counters
<1>4. \/ TickFails \/ Crash \/ AppendOutbox(FALSE) \/ \E line \in inbox : AdvanceUnsaved(line)
      => faults < MaxFaults /\ faults' = faults + 1
  BY DEF TickFails, Crash, AppendOutbox, AdvanceUnsaved
<1>5. ASSUME NEW p \in Paths, Save(p) \/ Erase(p) PROVE faults' = faults
  BY <1>5 DEF Save, Erase
<1>6. Ticking => faults' = faults
  BY <1>1, <1>2 DEF Ticking
<1> QED
  BY <1>3, <1>4, <1>5, <1>6 DEF Next

(* Only a failed append adds to them.                                      *)
LEMMA FailingSteps ==
  ASSUME IInv, OneEach, Next
  PROVE  \/ Failing' \subseteq Failing
         \/ /\ faults < MaxFaults /\ faults' = faults + 1
            /\ \E op : Failing' \subseteq Failing \cup {op}
<1> DEFINE S == OpsAt(Tip(files), edits)
<1>1. failed \subseteq S /\ todo \in Seq(S) /\ IsFiniteSet(failed)
  BY DEF IInv, Typed, Queues
<1> HIDE DEF S
<1>2. \A x : x \in failed \/ (\E s \in refreshes : ~s.ok /\ s.op = x) \/ (pc = "retry" /\ x \in ToSet(todo))
             => x \in Failing
  BY DEF Failing
<1>3. ASSUME NEW x \in Failing'
      PROVE  \/ x \in failed' \/ (\E s \in refreshes' : ~s.ok /\ s.op = x)
             \/ (pc' = "retry" /\ x \in ToSet(todo'))
  BY <1>3 DEF Failing
<1>4. ASSUME UNCHANGED <<failed, refreshes>>, UNCHANGED <<pc, todo>> \/ pc' # "retry"
      PROVE  Failing' \subseteq Failing
  BY <1>2, <1>3, <1>4
<1>5. ASSUME NEW p \in Paths, Save(p) \/ Erase(p) PROVE Failing' \subseteq Failing
  BY <1>4, <1>5 DEF Save, Erase, tickVars
<1>6. ASSUME NEW op \in basing, EnqueueDelete(op) PROVE Failing' \subseteq Failing
  BY <1>4, <1>6 DEF EnqueueDelete, tickVars
<1>7. ASSUME NEW ok \in BOOLEAN, AppendOutbox(ok)
      PROVE  \/ Failing' \subseteq Failing
             \/ /\ faults < MaxFaults /\ faults' = faults + 1
                /\ \E op : Failing' \subseteq Failing \cup {op}
  <2>1. PICK op \in S : /\ refreshes' = refreshes \cup {[op |-> op, ok |-> ok, seen |-> "unread"]}
                        /\ UNCHANGED <<failed, pc, tickVars>>
    BY <1>7, AppendShape DEF S
  <2>2. \A s \in refreshes' : s \in refreshes \/ (s.op = op /\ s.ok = ok)
    BY <2>1
  <2>3. Failing' \subseteq Failing \cup {op}
    BY <1>2, <1>3, <2>1, <2>2 DEF tickVars
  <2>4. ok => Failing' \subseteq Failing
    BY <1>2, <1>3, <2>1, <2>2 DEF tickVars
  <2>5. ~ok => faults < MaxFaults /\ faults' = faults + 1
    BY <1>7 DEF AppendOutbox
  <2> QED
    BY <2>3, <2>4, <2>5
<1>8. ASSUME NEW s \in refreshes, ReadListing(s) PROVE Failing' \subseteq Failing
  <2>1. PICK t : /\ t.op = s.op /\ t.ok = s.ok
                 /\ refreshes' = (refreshes \ {s}) \cup {t}
                 /\ UNCHANGED <<failed, pc, tickVars>>
    BY <1>8, ListingShape
  <2> QED
    BY <1>2, <1>3, <2>1 DEF tickVars
<1>9. ASSUME NEW s \in refreshes, RefreshPending(s) PROVE Failing' \subseteq Failing
  <2>1. /\ refreshes' = refreshes \ {s}
        /\ UNCHANGED <<pc, tickVars>> \/ Idle
        /\ \/ failed' = failed
           \/ failed' = {f \in failed : f.path # s.op.path}
           \/ ~s.ok /\ failed' = {f \in failed : f.path # s.op.path} \cup {s.op}
    BY <1>9, RefreshShape
  <2>2. UNCHANGED <<pc, todo>> \/ pc' # "retry"
    BY <2>1 DEF Idle, tickVars
  <2> QED
    BY <1>2, <1>3, <2>1, <2>2
<1>10. ASSUME RefreshProcessed PROVE Failing' \subseteq Failing
  <2>1. PICK p : \/ UNCHANGED refreshes
                 \/ refreshes' = refreshes \cup
                        {[op |-> [path |-> p, id |-> 0], ok |-> TRUE, seen |-> "unread"]}
    BY <1>10 DEF RefreshProcessed
  <2>2. UNCHANGED <<failed, pc, todo>>
    BY <1>10 DEF RefreshProcessed
  <2>3. [op |-> [path |-> p, id |-> 0], ok |-> TRUE, seen |-> "unread"].ok
    OBVIOUS
  <2>4. \A s \in refreshes' : s \in refreshes \/ s.ok
    BY <2>1, <2>3
  <2> QED
    BY <1>2, <1>3, <2>2, <2>4
<1>11. ASSUME TickFails \/ Crash PROVE Failing' \subseteq Failing
  <2>1. failed' \subseteq failed /\ refreshes' \subseteq refreshes /\ pc' = "idle"
    BY <1>11 DEF TickFails, Crash, Idle
  <2> QED
    BY <1>2, <1>3, <2>1
<1>12. ASSUME StartTick PROVE Failing' \subseteq Failing
  <2>1. UNCHANGED <<failed, refreshes>> /\ todo' \in SetToSeqs(failed)
    BY <1>12 DEF StartTick, queueVars
  <2>2. Cardinality(failed) \in Nat
    BY <1>1, FS_CardinalityType
  <2>3. todo' \in [1 .. Cardinality(failed) -> failed]
    BY <2>1 DEF SetToSeqs
  <2>4. todo' \in Seq(failed)
    BY <2>2, <2>3
  <2>5. ToSet(todo') \subseteq failed
    BY <2>4, Elements
  <2> QED
    BY <1>2, <1>3, <2>1, <2>5
<1>13. ASSUME RetryFailed PROVE Failing' \subseteq Failing
  <2>1. /\ pc = "retry" /\ todo # <<>> /\ todo' = Tail(todo) /\ failed' \subseteq failed
        /\ refreshes' = refreshes
    BY <1>13 DEF RetryFailed
  <2>2. ToSet(Tail(todo)) \subseteq ToSet(todo)
    BY <1>1, <2>1, Elements
  <2> QED
    BY <1>2, <1>3, <2>1, <2>2
<1>14. ASSUME NEW line \in inbox,
              \/ DropLine(line) \/ Applying(line) \/ Download(line) \/ Advance(line)
              \/ RewriteInbox(line) \/ AdvanceUnsaved(line)
       PROVE  pc' # "retry"
  BY <1>14 DEF DropLine, Applying, ApplyDelete, WriteBody, WriteUnless, Download, Advance, AdvanceTo,
               RewriteInbox, AdvanceUnsaved, Idle
<1>15. \/ Hydrate \/ DrainSnapshot \/ NextPut \/ NextDelete \/ ReadBody \/ Push \/ Acknowledge
       \/ DrainEnds \/ OutboxEmptyOrAgain \/ ListForRebuild \/ Rebuild \/ Fetch \/ EndTick
       => pc' # "retry"
  BY DEF Hydrate, DrainSnapshot, NextPut, NextDelete, ReadBody, Push, Send, Acknowledge, Strike,
         DrainEnds, OutboxEmptyOrAgain, ListForRebuild, Rebuild, Fetch, FetchAbove, EndTick, Idle,
         tickVars
<1>16. RemoteChange => UNCHANGED <<pc, todo>>
  BY DEF RemoteChange, tickVars
<1>17. Elsewhere => StartTick \/ RetryFailed \/ UNCHANGED <<pc, todo>> \/ pc' # "retry"
  BY <1>14, <1>15, <1>16 DEF Elsewhere
<1>18. Acknowledge => failed' = failed
  BY DEF Acknowledge, Strike, queueVars
<1>19. Elsewhere => Failing' \subseteq Failing
  BY <1>4, <1>12, <1>13, <1>17, <1>18, QueuesUnchanged, ElsewhereUnchanged
<1> QED
  BY <1>5, <1>6, <1>7, <1>8, <1>9, <1>10, <1>11, <1>19, Steps

(* So there is never more than one, and no retry forgets another.          *)
LEMMA SingleKept ==
  ASSUME IInv, OneEach, Single, MaxFaults <= 1, [Next]_vars
  PROVE  Single'
<1>1. CASE UNCHANGED vars
  <2>1. UNCHANGED <<failed, refreshes, pc, todo, faults>>
    BY <1>1 DEF vars, queueVars, tickVars, ghosts, counters
  <2> QED
    BY <2>1 DEF Single, Failing
<1>2. CASE Next
  <2>1. faults \in Nat /\ MaxFaults \in Nat
    BY Bounds DEF Single
  <2>2. faults' \in Nat /\ (faults' = 0 => faults = 0 /\ faults' = faults)
    BY <1>2, <2>1, FaultsSteps
  <2>3. CASE Failing' \subseteq Failing
    <3>1. faults' = 0 => Failing' = {}
      BY <2>2, <2>3 DEF Single
    <3>2. \A f, g \in Failing' : f = g
      BY <2>3 DEF Single
    <3> QED
      BY <2>2, <3>1, <3>2 DEF Single
  <2>4. ASSUME faults < MaxFaults, faults' = faults + 1, NEW op, Failing' \subseteq Failing \cup {op}
        PROVE  Single'
    <3>1. faults = 0 /\ faults' # 0
      BY <2>1, <2>4
    <3>2. Failing' \subseteq {op}
      BY <2>4, <3>1 DEF Single
    <3> QED
      BY <2>2, <3>1, <3>2 DEF Single
  <2> QED
    BY <1>2, <2>3, <2>4, FailingSteps
<1> QED
  BY <1>1, <1>2

(* With one failed append there is no other one to forget.                 *)
LEMMA SingleForgetsNone ==
  ASSUME IInv, Single
  PROVE  ~Forgets
<1> SUFFICES ASSUME Forgets PROVE FALSE
  OBVIOUS
<1>1. todo \in Seq(OpsAt(Tip(files), edits)) /\ todo # <<>> /\ pc = "retry"
  BY DEF IInv, Typed, Queues, Forgets
<1>2. Head(todo) \in ToSet(todo)
  BY <1>1, Elements
<1>3. Head(todo) \in Failing /\ failed \subseteq Failing
  BY <1>1, <1>2 DEF Failing
<1> QED
  BY <1>3 DEF Forgets, Single

(* The same promise, of every behaviour in which one thing fails: one      *)
(* append, one request, one save of the cursor or one crash.               *)
THEOREM UnsentEditKeptHolds ==
  Prompt /\ Under = {} /\ MaxFaults <= 1 => (Spec => UnsentEditKept)
<1> SUFFICES ASSUME Prompt, Under = {}, MaxFaults <= 1 PROVE Spec => UnsentEditKept
  OBVIOUS
<1>1. Init => Single
  BY DEF Init, Single, Failing, ToSet
<1>2. IInv /\ GInv /\ Single /\ [Next]_vars => Single'
  BY SingleKept DEF GInv
<1>3. IInv /\ Single /\ [Next]_vars => [Next /\ ~Forgets]_vars
  BY SingleForgetsNone
<1>4. Spec => Init /\ [][Next /\ ~Forgets]_vars
  BY <1>1, <1>2, <1>3, IInvHolds, GInvHolds, PTL DEF Spec
<1> QED
  BY <1>4, UnsentEditKeptUnlessForgotten

-----------------------------------------------------------------------------
(* Nothing behind the cursor, for a user who saves but does not delete     *)
(* (a deletion can be judged by a base that is too old, as section 5 of    *)
(* this directory's README.md shows).  Wherever the server's row is not    *)
(* ahead of the cursor, the vault has its content, or a local change of    *)
(* its own that is on its way.                                             *)

Met(p) ==
  files[p].rev <= revision /\ p \notin lost \cup dead => disk[p] = files[p].content
Carries(p) == \E op \in Carriers : op.path = p
Local(p) == disk[p] # NoContent /\ Carries(p)

Covered == \A p \in Paths : Met(p) \/ Local(p)

OnlyPuts ==
  /\ basing = {}
  /\ \A op \in ToSet(outbox) \cup ToSet(todo) \cup failed \cup Running : op.op = "put"
  /\ \A s \in refreshes : s.op.id = 0 => s.ok

(* The server's table, and what a line of the inbox says of it. *)
Consistent(t) ==
  /\ Antichain(t) /\ TombstonesFirst(t) /\ RevisionsUnique(t)
  /\ \A p \in Paths : t[p].live \/ t[p].content = NoContent

Lines ==
  /\ \A line \in inbox : line.rev > 0 /\ line.rev <= files[line.path].rev
  /\ \A line \in inbox, q \in Paths : files[q].rev = line.rev => line = InboxLine(files, q)
  /\ \A line, other \in inbox : line.rev = other.rev => line = other

(* No row up to the last line is missing among the lines. *)
Inward == pc \in {"apply", "write", "advance", "rewrite"}

Whole ==
  Inward => \A line \in inbox, p \in Paths :
              revision < files[p].rev /\ files[p].rev <= line.rev => InboxLine(files, p) \in inbox

Rewriting == pc = "rewrite" => \E line \in inbox : line.rev <= revision

(* What the tick has in hand: the bytes of the row its line is about, with *)
(* no folder in the way that the cursor has passed; and, once applied, the *)
(* row in the vault.                                                       *)
Downloaded ==
  pc = "write" => \A line \in inbox : IsFirst(line) =>
    /\ files[line.path].rev = line.rev => body = files[line.path].content
    /\ \A q \in Above(line.path) : files[q].live => files[q].rev > revision
    /\ line.path \in pending => Local(line.path)

Applied ==
  pc = "advance" => \A line \in inbox :
    IsFirst(line) /\ files[line.path].rev = line.rev /\ line.path \notin lost \cup dead =>
      disk[line.path] = files[line.path].content \/ Local(line.path)

(* While the inbox is worked on, what is on its way is pending. *)
Waiting ==
  Inward => /\ OutboxPaths \cup Counted \cup PathsOf(failed) \cup Refreshed \subseteq pending
            /\ \A s \in refreshes : s.ok => s.op \in ToSet(outbox)

(* An enqueue under way is the path's last one; one that did not fail is   *)
(* in the outbox until the server has its content; and a line that is      *)
(* struck out is one whose content the server has, or has a successor.     *)
Newest ==
  \A op \in Running, x \in Carriers \cup ToSet(todo) :
    x.path = op.path => x.id <= op.id

Looking == \A s \in Own : s.ok => s.op \in ToSet(outbox) \/ Met(s.op.path)

Striking ==
  pc = "ack" => \/ Met(Head(todo).path)
                \/ \E op \in Carriers : op.path = Head(todo).path /\ op.id > Head(todo).id

CInv ==
  /\ Covered /\ OnlyPuts /\ Consistent(files) /\ Lines /\ Whole /\ Rewriting
  /\ Downloaded /\ Applied /\ Waiting /\ Newest /\ Looking /\ Striking

(* A file is live, a tombstone is not and has no bytes.                    *)
LEMMA RowsLive ==
  \A r, v : FileRow(r, v).live /\ ~Tombstone(r).live /\ Tombstone(r).content = NoContent
BY DEF FileRow, Tombstone

(* An upload keeps the table consistent.                                   *)
LEMMA UploadConsistent ==
  ASSUME NEW t \in Table, Consistent(t), NEW p \in Paths, NEW v \in Contents
  PROVE  Consistent(Uploaded(t, p, v))
<1> DEFINE u == Uploaded(t, p, v)
           hit == Conflicts(t, p)
<1>1. /\ u[p] = FileRow(u[p].rev, v) /\ u[p].rev > Tip(t)
      /\ hit \subseteq Paths \ {p}
      /\ \A q \in Paths \ (hit \cup {p}) : u[q] = t[q]
      /\ \A q \in hit : u[q] = Tombstone(u[q].rev) /\ u[q].rev > Tip(t) /\ u[q].rev < u[p].rev
      /\ \A q, w \in hit : u[q].rev = u[w].rev => q = w
  BY Uploading
<1>2. /\ Tip(t) \in Nat /\ \A q \in Paths : t[q].rev \in Nat /\ t[q].rev <= Tip(t)
      /\ \A q \in Paths : u[q].rev \in Nat
  <2>1. u \in Table
    BY Uploading
  <2> HIDE DEF u
  <2> QED
    BY <2>1, TipIsGreatest DEF Table, Row
<1>3. \A q \in Paths : q \in hit <=> t[q].live /\ (<<p, q>> \in Under \/ <<q, p>> \in Under)
  BY DEF Conflicts, Above, Below
<1> HIDE DEF u, hit
<1>4. u[p].live /\ \A q \in hit : ~u[q].live
  BY <1>1, RowsLive
<1>5. \A q \in Paths : q \notin hit /\ q # p => u[q] = t[q] /\ u[q].rev <= Tip(t)
  BY <1>1, <1>2
<1>6. Antichain(u)
  <2> SUFFICES ASSUME NEW q \in Paths, NEW w \in Paths, u[q].live, u[w].live
               PROVE  <<q, w>> \notin Under
    BY DEF Antichain
  <2>1. q \notin hit /\ w \notin hit
    BY <1>4
  <2>2. CASE q # p /\ w # p
    BY <1>5, <2>1, <2>2 DEF Consistent, Antichain
  <2>3. CASE q = p /\ w # p
    BY <1>3, <1>5, <2>1, <2>3
  <2>4. CASE q # p /\ w = p
    BY <1>3, <1>5, <2>1, <2>4
  <2>5. CASE q = p /\ w = p
    BY <2>5, UnderIsStrictOrder
  <2> QED
    BY <2>2, <2>3, <2>4, <2>5
<1>7. TombstonesFirst(u)
  <2> SUFFICES ASSUME NEW q \in Paths, NEW w \in Paths, u[q].live, ~u[w].live, <<q, w>> \in Under
               PROVE  u[w].rev < u[q].rev
    BY DEF TombstonesFirst
  <2>1. q \notin hit /\ w # p
    BY <1>4
  <2>2. CASE q # p /\ w \notin hit
    BY <1>5, <2>1, <2>2 DEF Consistent, TombstonesFirst
  <2>3. CASE q # p /\ w \in hit
    <3>1. t[q].live /\ t[w].live
      BY <1>3, <1>5, <2>1, <2>3
    <3> QED
      BY <3>1 DEF Consistent, Antichain
  <2>4. CASE q = p /\ w \notin hit
    BY <1>1, <1>2, <1>5, <2>1, <2>4
  <2>5. CASE q = p /\ w \in hit
    BY <1>1, <2>5
  <2> QED
    BY <2>2, <2>3, <2>4, <2>5
<1>8. RevisionsUnique(u)
  <2> SUFFICES ASSUME NEW q \in Paths, NEW w \in Paths, u[q].rev = u[w].rev, u[q].rev # 0 PROVE q = w
    BY DEF RevisionsUnique
  <2>1. CASE q \in hit \cup {p} /\ w \in hit \cup {p}
    BY <1>1, <1>2, <2>1
  <2>2. CASE q \notin hit \cup {p} /\ w \notin hit \cup {p}
    BY <1>5, <2>2 DEF Consistent, RevisionsUnique
  <2>3. CASE q \in hit \cup {p} /\ w \notin hit \cup {p}
    BY <1>1, <1>2, <1>5, <2>3
  <2>4. CASE q \notin hit \cup {p} /\ w \in hit \cup {p}
    BY <1>1, <1>2, <1>5, <2>4
  <2> QED
    BY <2>1, <2>2, <2>3, <2>4
<1>9. \A q \in Paths : u[q].live \/ u[q].content = NoContent
  BY <1>1, <1>5, RowsLive DEF Consistent
<1> QED
  BY <1>6, <1>7, <1>8, <1>9 DEF Consistent, u

(* So does a delete, whatever its base.                                    *)
LEMMA DeleteConsistent ==
  ASSUME NEW t \in Table, Consistent(t), NEW p \in Paths, NEW base
  PROVE  Consistent(Deleted(t, p, base))
<1> DEFINE d == Deleted(t, p, base)
           seen == Seen(t, p, base)
           late == Late(t, p, base)
           gone == IF late = {} THEN seen \cup {p} ELSE seen
<1>1. /\ \A q \in Paths \ gone : d[q] = t[q]
      /\ \A q \in gone : d[q] = Tombstone(d[q].rev) /\ d[q].rev > Tip(t)
      /\ \A q, w \in gone : d[q].rev = d[w].rev => q = w
  BY Deleting
<1>2. /\ Tip(t) \in Nat /\ \A q \in Paths : t[q].rev \in Nat /\ t[q].rev <= Tip(t)
      /\ \A q \in Paths : d[q].rev \in Nat
  <2>1. d \in Table
    BY Deleting
  <2> HIDE DEF d
  <2> QED
    BY <2>1, TipIsGreatest DEF Table, Row
<1>3. /\ gone \subseteq Paths
      /\ \A q \in gone : t[q].live \/ (q = p /\ late = {})
      /\ late = {} => \A q \in Paths : t[q].live /\ <<q, p>> \in Under => q \in gone
  BY DEF Seen, Active, Below
<1> HIDE DEF d, gone, seen, late
<1>4. \A q \in gone : ~d[q].live
  BY <1>1, RowsLive
<1>5. \A q \in Paths : q \notin gone => d[q] = t[q]
  BY <1>1
<1>6. Antichain(d)
  BY <1>4, <1>5 DEF Consistent, Antichain
<1>7. TombstonesFirst(d)
  <2> SUFFICES ASSUME NEW q \in Paths, NEW w \in Paths, d[q].live, ~d[w].live, <<q, w>> \in Under
               PROVE  d[w].rev < d[q].rev
    BY DEF TombstonesFirst
  <2>1. q \notin gone /\ t[q].live
    BY <1>4, <1>5
  <2>2. CASE w \notin gone
    BY <1>5, <2>1, <2>2 DEF Consistent, TombstonesFirst
  <2>3. CASE w \in gone
    BY <1>3, <2>1, <2>3 DEF Consistent, Antichain
  <2> QED
    BY <2>2, <2>3
<1>8. RevisionsUnique(d)
  <2> SUFFICES ASSUME NEW q \in Paths, NEW w \in Paths, d[q].rev = d[w].rev, d[q].rev # 0 PROVE q = w
    BY DEF RevisionsUnique
  <2>1. CASE q \in gone /\ w \in gone
    BY <1>1, <2>1
  <2>2. CASE q \notin gone /\ w \notin gone
    BY <1>5, <2>2 DEF Consistent, RevisionsUnique
  <2>3. CASE q \in gone /\ w \notin gone
    BY <1>1, <1>2, <1>5, <2>3
  <2>4. CASE q \notin gone /\ w \in gone
    BY <1>1, <1>2, <1>5, <2>4
  <2> QED
    BY <2>1, <2>2, <2>3, <2>4
<1>9. \A q \in Paths : d[q].live \/ d[q].content = NoContent
  BY <1>1, <1>5, RowsLive DEF Consistent
<1> QED
  BY <1>6, <1>7, <1>8, <1>9 DEF Consistent, d

(* What a change of the server does to a row.                              *)
LEMMA RowsRise ==
  ASSUME IInv, Next, Consistent(files)
  PROVE  /\ Consistent(files')
         /\ \A p \in Paths : files'[p] = files[p] \/ files'[p].rev > Tip(files)
<1>1. files \in Table
  BY DEF IInv
<1>2. ASSUME NEW p \in Paths, NEW v \in Contents, files' = Uploaded(files, p, v)
      PROVE  /\ Consistent(files')
             /\ \A q \in Paths : files'[q] = files[q] \/ files'[q].rev > Tip(files)
  <2> DEFINE u == Uploaded(files, p, v)
  <2>1. Consistent(u)
    BY <1>1, UploadConsistent
  <2>2. \A q \in Paths : u[q] = files[q] \/ u[q].rev > Tip(files)
    BY <1>1, Uploading
  <2> HIDE DEF u
  <2> QED
    BY <1>2, <2>1, <2>2 DEF u
<1>3. ASSUME NEW p \in Paths, NEW base, files' = Deleted(files, p, base)
      PROVE  /\ Consistent(files')
             /\ \A q \in Paths : files'[q] = files[q] \/ files'[q].rev > Tip(files)
  <2> DEFINE d == Deleted(files, p, base)
  <2>1. Consistent(d)
    BY <1>1, DeleteConsistent
  <2>2. \A q \in Paths : d[q] = files[q] \/ d[q].rev > Tip(files)
    BY <1>1, Deleting
  <2> HIDE DEF d
  <2> QED
    BY <1>3, <2>1, <2>2 DEF d
<1> QED
  BY <1>2, <1>3, ServerRequests

(* Steps beside the tick. *)
Outer ==
  \/ \E p \in Paths : Save(p) \/ Erase(p)
  \/ \E op \in basing : EnqueueDelete(op)
  \/ \E ok \in BOOLEAN : AppendOutbox(ok)
  \/ \E s \in refreshes : ReadListing(s) \/ RefreshPending(s)
  \/ RemoteChange

(* They leave the tick where it is, or end it.                             *)
LEMMA OuterSteps ==
  ASSUME IInv, OneEach, Outer
  PROVE  /\ UNCHANGED <<inbox, revision, saved, dead>>
         /\ UNCHANGED <<pc, tickVars>> \/ pc' = "idle"
<1>1. ASSUME NEW p \in Paths, Save(p) \/ Erase(p)
      PROVE  UNCHANGED <<inbox, revision, saved, dead, pc, tickVars>>
  BY <1>1 DEF Save, Erase
<1>2. ASSUME NEW op \in basing, EnqueueDelete(op)
      PROVE  UNCHANGED <<inbox, revision, saved, dead, pc, tickVars>>
  BY <1>2 DEF EnqueueDelete, diskVars
<1>3. ASSUME NEW ok \in BOOLEAN, AppendOutbox(ok)
      PROVE  UNCHANGED <<inbox, revision, saved, dead, pc, tickVars>>
  BY <1>3, AppendShape
<1>4. ASSUME NEW s \in refreshes, ReadListing(s)
      PROVE  UNCHANGED <<inbox, revision, saved, dead, pc, tickVars>>
  BY <1>4 DEF ReadListing, diskVars
<1>5. ASSUME NEW s \in refreshes, RefreshPending(s)
      PROVE  /\ UNCHANGED <<inbox, revision, saved, dead>>
             /\ UNCHANGED <<pc, tickVars>> \/ pc' = "idle"
  BY <1>5, RefreshShape DEF diskVars, Idle
<1>6. RemoteChange => UNCHANGED <<inbox, revision, saved, dead, pc, tickVars>>
  BY DEF RemoteChange, diskVars
<1> QED
  BY <1>1, <1>2, <1>3, <1>4, <1>5, <1>6 DEF Outer

(* Steps while the inbox is worked on. *)
Reading(line) ==
  DropLine(line) \/ Applying(line) \/ Download(line) \/ Advance(line) \/ RewriteInbox(line)

(* The tick works on the inbox after a fetch, after these, and while       *)
(* others act beside it.                                                   *)
LEMMA InwardSteps ==
  ASSUME IInv, OneEach, Next, Inward'
  PROVE  \/ Fetch
         \/ \E line \in inbox : Reading(line)
         \/ Outer /\ UNCHANGED <<pc, tickVars, inbox, revision, saved, dead>>
<1>1. \/ StartTick \/ RetryFailed \/ Hydrate \/ DrainSnapshot \/ NextPut \/ NextDelete \/ ReadBody
      \/ Push \/ Acknowledge
      => ~Inward'
  BY DEF StartTick, RetryFailed, Hydrate, DrainSnapshot, NextPut, NextDelete, ReadBody, Push, Send,
         Acknowledge, Strike, tickVars, Inward, Idle
<1>2. \/ RefreshProcessed \/ DrainEnds \/ OutboxEmptyOrAgain \/ ListForRebuild \/ Rebuild \/ EndTick
      \/ TickFails \/ Crash
      => ~Inward'
  BY DEF RefreshProcessed, DrainEnds, OutboxEmptyOrAgain, ListForRebuild, Rebuild, EndTick, TickFails,
         Crash, Inward, Idle
<1>3. ASSUME NEW line \in inbox, AdvanceUnsaved(line) PROVE ~Inward'
  BY <1>3 DEF AdvanceUnsaved, Inward, Idle
<1>4. Outer => UNCHANGED <<pc, tickVars, inbox, revision, saved, dead>>
  BY OuterSteps DEF Inward
<1>5. Ticking => Fetch \/ \E line \in inbox : Reading(line)
  BY <1>1, <1>2 DEF Ticking, Reading
<1>6. (\E p \in Paths : Save(p) \/ Erase(p)) \/ Enqueueing \/ AppendOutbox(FALSE) \/ RemoteChange => Outer
  BY DEF Enqueueing, Outer
<1> QED
  BY <1>2, <1>3, <1>4, <1>5, <1>6 DEF Next

(* What a line does to the vault, the cursor and the inbox.                *)
LEMMA ReadingSteps ==
  ASSUME NEW line \in inbox, Reading(line)
  PROVE  /\ IsFirst(line)
         /\ UNCHANGED <<files, outbox, dead, pending, basing, appends, refreshes, failed, lost, sent, edits>>
         /\ \/ /\ pc = "apply" /\ line.rev <= revision /\ pc' = "apply"
               /\ inbox' = inbox \ {line} /\ UNCHANGED <<disk, revision>>
            \/ /\ pc = "rewrite" /\ pc' = "apply"
               /\ inbox' = inbox \ {line} /\ UNCHANGED <<disk, revision>>
            \/ Applying(line) /\ UNCHANGED <<inbox, revision>>
            \/ Download(line) /\ UNCHANGED <<disk, inbox, revision>>
            \/ /\ pc = "advance" /\ pc' = "rewrite" /\ revision' = line.rev
               /\ UNCHANGED <<disk, inbox>>
<1>1. CASE DropLine(line)
  BY <1>1 DEF DropLine, queueVars, ghosts, counters
<1>2. CASE ApplyDelete(line)
  BY <1>2 DEF ApplyDelete, Applying, queueVars, ghosts, counters
<1>3. CASE WriteBody(line)
  BY <1>3 DEF WriteBody, WriteUnless, Applying, queueVars, ghosts, counters
<1>4. CASE Download(line)
  BY <1>4 DEF Download, diskVars, queueVars, ghosts, counters
<1>5. CASE Advance(line)
  BY <1>5 DEF Advance, AdvanceTo, queueVars, ghosts, counters
<1>6. CASE RewriteInbox(line)
  BY <1>6 DEF RewriteInbox, queueVars, ghosts, counters
<1> QED
  BY <1>1, <1>2, <1>3, <1>4, <1>5, <1>6 DEF Reading, Applying

(* The steps of the tick that leave vault, cursor and server as they are.  *)
LEMMA CursorSteps ==
  ASSUME IInv, OneEach, Next
  PROVE  \/ \E line \in inbox : Reading(line)
         \/ \E line \in inbox : /\ pc = "advance" /\ IsFirst(line) /\ pc' = "idle"
                                /\ revision' = line.rev
                                /\ UNCHANGED <<files, disk, outbox, inbox, dead, basing, appends,
                                               refreshes, failed, lost>>
         \/ Crash
         \/ UNCHANGED revision
<1>1. \/ StartTick \/ RetryFailed \/ Hydrate \/ DrainSnapshot \/ NextPut \/ NextDelete \/ ReadBody
      \/ Push \/ Acknowledge \/ RefreshProcessed \/ DrainEnds \/ OutboxEmptyOrAgain \/ ListForRebuild
      \/ Rebuild \/ Fetch \/ EndTick \/ TickFails
      => UNCHANGED revision
  BY DEF StartTick, RetryFailed, Hydrate, DrainSnapshot, NextPut, NextDelete, ReadBody, Push, Send,
         Acknowledge, Strike, RefreshProcessed, DrainEnds, OutboxEmptyOrAgain, ListForRebuild, Rebuild,
         Fetch, FetchAbove, EndTick, TickFails, diskVars
<1>2. ASSUME NEW line \in inbox, AdvanceUnsaved(line)
      PROVE  /\ pc = "advance" /\ IsFirst(line) /\ pc' = "idle" /\ revision' = line.rev
             /\ UNCHANGED <<files, disk, outbox, inbox, dead, basing, appends, refreshes, failed, lost>>
  BY <1>2 DEF AdvanceUnsaved, Idle, queueVars
<1>3. Outer => UNCHANGED revision
  BY OuterSteps
<1>4. (\E p \in Paths : Save(p) \/ Erase(p)) \/ Enqueueing \/ AppendOutbox(FALSE) \/ RemoteChange => Outer
  BY DEF Enqueueing, Outer
<1>5. Ticking => UNCHANGED revision \/ \E line \in inbox : Reading(line)
  BY <1>1 DEF Ticking, Reading
<1> QED
  BY <1>1, <1>2, <1>3, <1>4, <1>5 DEF Next

(* How the inbox changes.                                                  *)
LEMMA InboxSteps ==
  ASSUME IInv, OneEach, Next
  PROVE  Fetch \/ inbox' \subseteq inbox
<1>1. \/ StartTick \/ RetryFailed \/ Hydrate \/ DrainSnapshot \/ NextPut \/ NextDelete \/ ReadBody
      \/ Push \/ Acknowledge \/ RefreshProcessed \/ DrainEnds \/ OutboxEmptyOrAgain \/ ListForRebuild
      \/ Rebuild \/ EndTick \/ TickFails \/ Crash
      => inbox' = inbox
  BY DEF StartTick, RetryFailed, Hydrate, DrainSnapshot, NextPut, NextDelete, ReadBody, Push, Send,
         Acknowledge, Strike, RefreshProcessed, DrainEnds, OutboxEmptyOrAgain, ListForRebuild, Rebuild,
         EndTick, TickFails, Crash, diskVars
<1>2. ASSUME NEW line \in inbox, AdvanceUnsaved(line) PROVE inbox' = inbox
  BY <1>2 DEF AdvanceUnsaved
<1>3. Outer => inbox' = inbox
  BY OuterSteps
<1>4. (\E p \in Paths : Save(p) \/ Erase(p)) \/ Enqueueing \/ AppendOutbox(FALSE) \/ RemoteChange => Outer
  BY DEF Enqueueing, Outer
<1>5. ASSUME NEW line \in inbox, Reading(line) PROVE inbox' \subseteq inbox
  BY <1>5, ReadingSteps
<1>6. Ticking => Fetch \/ inbox' \subseteq inbox
  BY <1>1, <1>5 DEF Ticking, Reading
<1> QED
  BY <1>1, <1>2, <1>3, <1>4, <1>6 DEF Next

(* What the tick has yet to do comes from the failed enqueues or from the  *)
(* outbox.                                                                 *)
LEMMA TodoSteps ==
  ASSUME IInv, OneEach, Next
  PROVE  ToSet(todo') \subseteq ToSet(todo) \cup failed \cup ToSet(outbox)
<1> DEFINE S == OpsAt(Tip(files), edits)
<1>1. todo \in Seq(S) /\ failed \subseteq S /\ IsFiniteSet(failed)
  BY DEF IInv, Typed, Queues
<1> HIDE DEF S
<1>2. ToSet(<<>>) = {}
  BY DEF ToSet
<1>3. \/ Hydrate \/ NextPut \/ NextDelete \/ ReadBody \/ Push \/ RefreshProcessed \/ DrainEnds
      \/ OutboxEmptyOrAgain \/ ListForRebuild \/ Rebuild \/ Fetch \/ EndTick \/ TickFails \/ Crash
      => todo' = todo \/ todo' = <<>>
  BY DEF Hydrate, NextPut, NextDelete, ReadBody, Push, Send, RefreshProcessed, DrainEnds,
         OutboxEmptyOrAgain, ListForRebuild, Rebuild, Fetch, FetchAbove, EndTick, TickFails, Crash,
         Idle, tickVars
<1>4. ASSUME NEW line \in inbox, Reading(line) \/ AdvanceUnsaved(line) PROVE todo' = todo \/ todo' = <<>>
  BY <1>4 DEF Reading, DropLine, Applying, ApplyDelete, WriteBody, WriteUnless, Download, Advance,
              AdvanceTo, RewriteInbox, AdvanceUnsaved, Idle, tickVars
<1>5. ASSUME NEW p \in Paths, Save(p) \/ Erase(p) PROVE todo' = todo
  BY <1>5 DEF Save, Erase, tickVars
<1>6. ASSUME NEW op \in basing, EnqueueDelete(op) PROVE todo' = todo
  BY <1>6 DEF EnqueueDelete, tickVars
<1>7. ASSUME NEW ok \in BOOLEAN, AppendOutbox(ok) PROVE todo' = todo
  BY <1>7, AppendShape DEF tickVars
<1>8. ASSUME NEW s \in refreshes, ReadListing(s) \/ RefreshPending(s) PROVE todo' = todo \/ todo' = <<>>
  BY <1>8, RefreshShape DEF ReadListing, Idle, tickVars
<1>9. RemoteChange => todo' = todo
  BY DEF RemoteChange, tickVars
<1>10. Outer => todo' = todo \/ todo' = <<>>
  BY <1>5, <1>6, <1>7, <1>8, <1>9 DEF Outer
<1>11. ASSUME StartTick PROVE ToSet(todo') \subseteq failed
  <2>1. todo' \in SetToSeqs(failed)
    BY <1>11 DEF StartTick
  <2>2. Cardinality(failed) \in Nat
    BY <1>1, FS_CardinalityType
  <2>3. todo' \in [1 .. Cardinality(failed) -> failed]
    BY <2>1 DEF SetToSeqs
  <2>4. todo' \in Seq(failed)
    BY <2>2, <2>3
  <2> QED
    BY <2>4, Elements
<1>12. ASSUME RetryFailed \/ Acknowledge PROVE ToSet(todo') \subseteq ToSet(todo)
  <2>1. todo' = Tail(todo) /\ todo # <<>>
    BY <1>12 DEF RetryFailed, Acknowledge, Strike, IInv, Typed, InHand
  <2> QED
    BY <1>1, <2>1, Elements
<1>13. DrainSnapshot => ToSet(todo') = ToSet(outbox)
  BY DEF DrainSnapshot
<1>14. (\E p \in Paths : Save(p) \/ Erase(p)) \/ Enqueueing \/ AppendOutbox(FALSE) \/ RemoteChange => Outer
  BY DEF Enqueueing, Outer
<1>15. Ticking => \/ ToSet(todo') \subseteq ToSet(todo) \cup failed \cup ToSet(outbox)
                  \/ todo' = todo \/ todo' = <<>>
  BY <1>3, <1>4, <1>11, <1>12, <1>13 DEF Ticking, Reading
<1> QED
  BY <1>2, <1>3, <1>4, <1>10, <1>14, <1>15 DEF Next

(* Nothing is carried that was not carried before or saved just now.       *)
LEMMA CarriersBefore ==
  ASSUME IInv, OneEach, Next, NEW x \in Carriers' \cup ToSet(todo')
  PROVE  \/ x \in Carriers \cup ToSet(todo)
         \/ \E p \in Paths : /\ x.path = p /\ x.id = edits + 1
                             /\ Erase(p) \/ (Save(p) /\ x.op = "put")
<1> DEFINE S == OpsAt(Tip(files), edits)
<1>1. /\ outbox \in Seq(S) /\ appends \in Seq(S) /\ basing \subseteq S /\ failed \subseteq S
      /\ todo \in Seq(S)
  BY DEF IInv, Typed, Queues
<1> HIDE DEF S
<1>2. \A y : y \in ToSet(outbox) \/ y \in ToSet(appends) \/ y \in basing \/ y \in failed
             \/ (\E s \in refreshes : ~s.ok /\ s.op = y) \/ y \in ToSet(todo)
             => y \in Carriers \cup ToSet(todo)
  BY DEF Carriers, Volatile
<1>3. \/ x \in ToSet(outbox)' \/ x \in ToSet(appends)' \/ x \in basing' \/ x \in failed'
      \/ (\E s \in refreshes' : ~s.ok /\ s.op = x) \/ x \in ToSet(todo')
  BY DEF Carriers, Volatile
<1>4. ASSUME x \in ToSet(todo') PROVE x \in Carriers \cup ToSet(todo)
  BY <1>2, <1>4, TodoSteps
<1>5. ASSUME NEW p \in Paths, Save(p)
      PROVE  x \in Carriers \cup ToSet(todo) \/ (x.path = p /\ x.id = edits + 1 /\ x.op = "put")
  <2> DEFINE new == Op("put", p, NoBase)
             T == S \cup {new}
  <2>1. appends' = Append(appends, new) /\ UNCHANGED <<outbox, basing, refreshes, failed>>
    BY <1>5 DEF Save
  <2>2. appends \in Seq(T)
    BY <1>1
  <2>3. new.path = p /\ new.id = edits + 1 /\ new.op = "put"
    BY DEF Op
  <2> HIDE DEF new
  <2>4. new \in T
    OBVIOUS
  <2> HIDE DEF T
  <2>5. ToSet(appends)' = ToSet(appends) \cup {new}
    BY <2>1, <2>2, <2>4, Elements
  <2>6. ToSet(outbox)' = ToSet(outbox)
    BY <2>1
  <2> QED
    BY <1>2, <1>3, <1>4, <2>1, <2>3, <2>5, <2>6
<1>6. ASSUME NEW p \in Paths, Erase(p)
      PROVE  x \in Carriers \cup ToSet(todo) \/ (x.path = p /\ x.id = edits + 1)
  <2> DEFINE new == Op("delete", p, revision)
  <2>1. basing' = basing \cup {new} /\ UNCHANGED <<outbox, appends, refreshes, failed>>
    BY <1>6 DEF Erase
  <2>2. new.path = p /\ new.id = edits + 1
    BY DEF Op
  <2> HIDE DEF new
  <2>3. ToSet(outbox)' = ToSet(outbox) /\ ToSet(appends)' = ToSet(appends)
    BY <2>1
  <2> QED
    BY <1>2, <1>3, <1>4, <2>1, <2>2, <2>3
<1>7. ASSUME NEW o \in basing, EnqueueDelete(o) PROVE x \in Carriers \cup ToSet(todo)
  <2>1. /\ appends' = Append(appends, o) /\ basing' = basing \ {o}
        /\ UNCHANGED <<outbox, refreshes, failed>>
    BY <1>7 DEF EnqueueDelete, diskVars
  <2>2. ToSet(appends)' = ToSet(appends) \cup {o}
    <3>1. o \in S
      BY <1>1
    <3> QED
      BY <1>1, <2>1, <3>1, Elements
  <2>3. ToSet(outbox)' = ToSet(outbox)
    BY <2>1
  <2> QED
    BY <1>2, <1>3, <1>4, <2>1, <2>2, <2>3
<1>8. ASSUME NEW ok \in BOOLEAN, AppendOutbox(ok) PROVE x \in Carriers \cup ToSet(todo)
  <2>1. PICK o \in S :
           /\ ToSet(appends) = {o} \cup ToSet(appends')
           /\ refreshes' = refreshes \cup {[op |-> o, ok |-> ok, seen |-> "unread"]}
           /\ outbox' = IF ok THEN Append(outbox, o) ELSE outbox
           /\ UNCHANGED <<basing, failed>>
    BY <1>8, AppendShape DEF S
  <2>2. ToSet(outbox') \subseteq ToSet(outbox) \cup {o}
    <3>1. ToSet(Append(outbox, o)) = ToSet(outbox) \cup {o}
      BY <1>1, Elements
    <3> QED
      BY <2>1, <3>1
  <2>3. \A s \in refreshes' : s \in refreshes \/ s.op = o
    BY <2>1
  <2>4. o \in Carriers \cup ToSet(todo)
    BY <1>2, <2>1
  <2> QED
    BY <1>2, <1>3, <1>4, <2>1, <2>2, <2>3, <2>4
<1>9. ASSUME NEW s \in refreshes, ReadListing(s) PROVE x \in Carriers \cup ToSet(todo)
  <2>1. PICK t : /\ t.op = s.op /\ t.ok = s.ok
                 /\ refreshes' = (refreshes \ {s}) \cup {t}
                 /\ UNCHANGED <<outbox, basing, appends, failed>>
    BY <1>9, ListingShape DEF diskVars
  <2>2. ToSet(outbox)' = ToSet(outbox) /\ ToSet(appends)' = ToSet(appends)
    BY <2>1
  <2> QED
    BY <1>2, <1>3, <1>4, <2>1, <2>2
<1>10. ASSUME NEW s \in refreshes, RefreshPending(s) PROVE x \in Carriers \cup ToSet(todo)
  <2>1. /\ refreshes' = refreshes \ {s} /\ UNCHANGED <<outbox, basing, appends>>
        /\ \/ failed' = failed
           \/ failed' = {f \in failed : f.path # s.op.path}
           \/ ~s.ok /\ failed' = {f \in failed : f.path # s.op.path} \cup {s.op}
    BY <1>10, RefreshShape DEF diskVars
  <2>2. ToSet(outbox)' = ToSet(outbox) /\ ToSet(appends)' = ToSet(appends)
    BY <2>1
  <2>3. \A y \in failed' : y \in failed \/ (~s.ok /\ y = s.op)
    BY <2>1
  <2> QED
    BY <1>2, <1>3, <1>4, <2>1, <2>2, <2>3
<1>11. ASSUME RefreshProcessed PROVE x \in Carriers \cup ToSet(todo)
  <2>1. PICK p : \/ UNCHANGED refreshes
                 \/ refreshes' = refreshes \cup
                        {[op |-> [path |-> p, id |-> 0], ok |-> TRUE, seen |-> "unread"]}
    BY <1>11 DEF RefreshProcessed
  <2>2. UNCHANGED <<outbox, basing, appends, failed>>
    BY <1>11 DEF RefreshProcessed, diskVars
  <2>3. [op |-> [path |-> p, id |-> 0], ok |-> TRUE, seen |-> "unread"].ok
    OBVIOUS
  <2>4. \A s \in refreshes' : s \in refreshes \/ s.ok
    BY <2>1, <2>3
  <2>5. ToSet(outbox)' = ToSet(outbox) /\ ToSet(appends)' = ToSet(appends)
    BY <2>2
  <2> QED
    BY <1>2, <1>3, <1>4, <2>2, <2>4, <2>5
<1>12. ASSUME TickFails \/ Crash PROVE x \in Carriers \cup ToSet(todo)
  <2>1. /\ outbox' = outbox /\ basing' \subseteq basing /\ failed' \subseteq failed
        /\ refreshes' \subseteq refreshes /\ (appends' = appends \/ appends' = <<>>)
    BY <1>12 DEF TickFails, Crash, diskVars
  <2>2. ToSet(outbox)' = ToSet(outbox) /\ ToSet(appends') \subseteq ToSet(appends)
    <3>1. ToSet(<<>>) = {}
      BY DEF ToSet
    <3> QED
      BY <2>1, <3>1
  <2> QED
    BY <1>2, <1>3, <1>4, <2>1, <2>2
<1>13. ASSUME RetryFailed PROVE x \in Carriers \cup ToSet(todo)
  <2>1. /\ todo # <<>> /\ outbox' = Append(outbox, Head(todo)) /\ failed' \subseteq failed
        /\ UNCHANGED <<basing, appends, refreshes>>
    BY <1>13 DEF RetryFailed
  <2>2. Head(todo) \in S /\ Head(todo) \in ToSet(todo)
    BY <1>1, <2>1, Elements
  <2>3. ToSet(outbox)' = ToSet(outbox) \cup {Head(todo)} /\ ToSet(appends)' = ToSet(appends)
    BY <1>1, <2>1, <2>2, Elements
  <2> QED
    BY <1>2, <1>3, <1>4, <2>1, <2>2, <2>3
<1>14. ASSUME Acknowledge PROVE x \in Carriers \cup ToSet(todo)
  <2>1. /\ outbox' = RemoveFirst(outbox, Head(todo))
        /\ UNCHANGED <<basing, appends, refreshes, failed>>
    BY <1>14 DEF Acknowledge, Strike, queueVars
  <2>2. ToSet(outbox') \subseteq ToSet(outbox) /\ ToSet(appends)' = ToSet(appends)
    BY <1>1, <2>1, RemovesOne
  <2> QED
    BY <1>2, <1>3, <1>4, <2>1, <2>2
<1>15. ASSUME UNCHANGED <<outbox, basing, appends, refreshes, failed>>
       PROVE  x \in Carriers \cup ToSet(todo)
  <2>1. ToSet(outbox)' = ToSet(outbox) /\ ToSet(appends)' = ToSet(appends)
    BY <1>15
  <2> QED
    BY <1>2, <1>3, <1>4, <1>15, <2>1
<1>16. Elsewhere => x \in Carriers \cup ToSet(todo)
  BY <1>13, <1>14, <1>15, QueuesUnchanged
<1> QED
  BY <1>5, <1>6, <1>7, <1>8, <1>9, <1>10, <1>11, <1>12, <1>16, Steps

(* Only saves are on their way.                                            *)
LEMMA CarriedPuts ==
  ASSUME OnlyPuts, NEW x \in Carriers \cup ToSet(todo)
  PROVE  x.op = "put"
<1>1. \A s \in refreshes : ~s.ok => s.op \in Running
  BY DEF OnlyPuts, Running, Own
<1>2. ToSet(appends) \cup basing \subseteq Running
  BY DEF Running
<1> QED
  BY <1>1, <1>2 DEF OnlyPuts, Carriers, Volatile

(* And only saves come to be.                                              *)
LEMMA OnlyPutsKept ==
  ASSUME IInv, OneEach, OnlyPuts, LocalOps \subseteq {"put"}, Next
  PROVE  OnlyPuts'
<1>1. \A p \in Paths : ~Erase(p)
  BY DEF Erase
<1>2. ASSUME NEW x \in Running' PROVE x.op = "put"
  BY <1>1, <1>2, RunningSteps DEF OnlyPuts
<1>3. ASSUME NEW x \in Carriers' \cup ToSet(todo') PROVE x.op = "put"
  BY <1>1, <1>3, CarriersBefore, CarriedPuts
<1>4. ToSet(outbox') \cup failed' \subseteq Carriers'
  BY DEF Carriers, Volatile
<1>5. basing' = {}
  <2>1. \A p \in Paths : Save(p) => basing' = basing
    BY DEF Save
  <2>2. \A op \in basing : EnqueueDelete(op) => basing' \subseteq basing
    BY DEF EnqueueDelete
  <2>3. \A ok \in BOOLEAN : AppendOutbox(ok) => basing' = basing
    BY DEF AppendOutbox
  <2>4. \A s \in refreshes : ReadListing(s) \/ RefreshPending(s) => basing' = basing
    BY DEF ReadListing, RefreshPending
  <2>5. RefreshProcessed \/ TickFails => basing' = basing
    BY DEF RefreshProcessed, TickFails
  <2>6. Crash => basing' = {}
    BY DEF Crash
  <2> QED
    BY <1>1, <2>1, <2>2, <2>3, <2>4, <2>5, <2>6, Steps, ElsewhereUnchanged DEF OnlyPuts
<1>6. ASSUME NEW s \in refreshes', s.op.id = 0 PROVE s.ok
  <2> USE DEF OnlyPuts
  <2>1. edits \in Nat
    BY DEF IInv, Typed, Plain
  <2>2. \A p \in Paths : Save(p) => refreshes' = refreshes
    BY DEF Save
  <2>3. \A op \in basing : EnqueueDelete(op) => refreshes' = refreshes
    BY DEF EnqueueDelete
  <2>4. ASSUME NEW ok \in BOOLEAN, AppendOutbox(ok) PROVE s.ok
    <3>1. PICK o \in OpsAt(Tip(files), edits) :
             refreshes' = refreshes \cup {[op |-> o, ok |-> ok, seen |-> "unread"]}
      BY <2>4, AppendShape
    <3>2. o.id # 0
      BY <2>1 DEF OpsAt
    <3>3. [op |-> o, ok |-> ok, seen |-> "unread"].op = o
      OBVIOUS
    <3> QED
      BY <1>6, <3>1, <3>2, <3>3
  <2>5. ASSUME NEW r \in refreshes, ReadListing(r) PROVE s.ok
    <3>1. PICK t : t.op = r.op /\ t.ok = r.ok /\ refreshes' = (refreshes \ {r}) \cup {t}
      BY <2>5, ListingShape
    <3> QED
      BY <1>6, <3>1
  <2>6. ASSUME NEW r \in refreshes, RefreshPending(r) PROVE s.ok
    <3>1. refreshes' = refreshes \ {r}
      BY <2>6, RefreshShape
    <3> QED
      BY <1>6, <3>1
  <2>7. ASSUME RefreshProcessed PROVE s.ok
    <3>1. PICK p : \/ UNCHANGED refreshes
                   \/ refreshes' = refreshes \cup
                          {[op |-> [path |-> p, id |-> 0], ok |-> TRUE, seen |-> "unread"]}
      BY <2>7 DEF RefreshProcessed
    <3>2. [op |-> [path |-> p, id |-> 0], ok |-> TRUE, seen |-> "unread"].ok
      OBVIOUS
    <3> QED
      BY <1>6, <3>1, <3>2
  <2>8. TickFails \/ Crash => refreshes' \subseteq refreshes
    BY DEF TickFails, Crash
  <2> QED
    BY <1>1, <1>6, <2>2, <2>3, <2>4, <2>5, <2>6, <2>7, <2>8, Steps, ElsewhereUnchanged
<1> QED
  BY <1>2, <1>3, <1>4, <1>5, <1>6 DEF OnlyPuts

(* Every carrier is an operation of some edit.                             *)
LEMMA CarriedTypes ==
  ASSUME IInv, OnlyPuts, NEW x \in Carriers \cup ToSet(todo)
  PROVE  x.path \in Paths /\ x.id \in 1 .. edits /\ edits \in Nat
<1> DEFINE S == OpsAt(Tip(files), edits)
<1>1. /\ outbox \in Seq(S) /\ appends \in Seq(S) /\ basing \subseteq S /\ failed \subseteq S
      /\ todo \in Seq(S) /\ edits \in Nat
      /\ refreshes \subseteq RefreshesAt(Tip(files), edits)
  BY DEF IInv, Typed, Queues, Plain
<1>2. ASSUME NEW s \in refreshes, ~s.ok PROVE s.op \in S
  BY <1>1, <1>2 DEF RefreshesAt, OnlyPuts
<1> HIDE DEF S
<1>3. ToSet(outbox) \subseteq S /\ ToSet(appends) \subseteq S /\ ToSet(todo) \subseteq S
  BY <1>1, Elements
<1>4. x \in S
  BY <1>1, <1>2, <1>3 DEF Carriers, Volatile
<1> QED
  BY <1>1, <1>4 DEF S, OpsAt

(* A save while nothing of its path is on its way is the newest.           *)
LEMMA NewestKept ==
  ASSUME IInv, OneEach, OnlyPuts, Prompt, LocalOps \subseteq {"put"}, Newest, Next
  PROVE  Newest'
<1> SUFFICES ASSUME NEW op \in Running', NEW x \in Carriers' \cup ToSet(todo'), x.path = op.path
             PROVE  x.id <= op.id
  BY DEF Newest
<1>1. \A p \in Paths : ~Erase(p)
  BY DEF Erase
<1>2. edits \in Nat
  BY DEF IInv, Typed, Plain
<1>3. x \in Carriers \cup ToSet(todo) => x.id \in 1 .. edits
  BY CarriedTypes
<1>4. x \in Carriers \cup ToSet(todo) \/ (x.id = edits + 1 /\ Save(x.path) /\ x.path \in Paths)
  BY <1>1, CarriersBefore
<1>5. op \in Running \/ op.id = edits + 1
  BY <1>1, RunningSteps
<1>6. ASSUME NEW p \in Paths, Save(p), op \in Running PROVE op.path # p
  <2>1. p \notin Counted \cup PathsOf({s.op : s \in refreshes}) \cup PathsOf(basing)
    BY <1>6 DEF Save, Calm
  <2> QED
    BY <1>6, <2>1 DEF Running, Own, Counted, PathsOf
<1>7. CASE op \in Running /\ x \in Carriers \cup ToSet(todo)
  BY <1>7 DEF Newest
<1>8. CASE op \in Running /\ x \notin Carriers \cup ToSet(todo)
  BY <1>4, <1>6, <1>8
<1>9. CASE op.id = edits + 1
  BY <1>2, <1>3, <1>4, <1>9
<1> QED
  BY <1>5, <1>7, <1>8, <1>9

(* A dead-letter entry stays.                                              *)
LEMMA DeadGrows ==
  ASSUME IInv, OneEach, Next
  PROVE  dead \subseteq dead'
<1>1. ASSUME NEW line \in inbox, Reading(line) \/ AdvanceUnsaved(line) PROVE UNCHANGED dead
  BY <1>1 DEF Reading, DropLine, Applying, ApplyDelete, WriteBody, WriteUnless, Download, Advance,
              AdvanceTo, RewriteInbox, AdvanceUnsaved, diskVars
<1>2. \/ StartTick \/ RetryFailed \/ Hydrate \/ DrainSnapshot \/ NextPut \/ NextDelete \/ ReadBody
      \/ Acknowledge \/ RefreshProcessed \/ DrainEnds \/ OutboxEmptyOrAgain \/ ListForRebuild
      \/ Rebuild \/ Fetch \/ EndTick \/ TickFails \/ Crash
      => UNCHANGED dead
  BY DEF StartTick, RetryFailed, Hydrate, DrainSnapshot, NextPut, NextDelete, ReadBody, Acknowledge,
         Strike, RefreshProcessed, DrainEnds, OutboxEmptyOrAgain, ListForRebuild, Rebuild, Fetch,
         FetchAbove, EndTick, TickFails, Crash, diskVars
<1>3. Push => dead \subseteq dead'
  BY DEF Push, Send
<1>4. Outer => UNCHANGED dead
  BY OuterSteps
<1>5. (\E p \in Paths : Save(p) \/ Erase(p)) \/ Enqueueing \/ AppendOutbox(FALSE) \/ RemoteChange => Outer
  BY DEF Enqueueing, Outer
<1>6. Ticking => dead \subseteq dead'
  BY <1>1, <1>2, <1>3 DEF Ticking, Reading
<1> QED
  BY <1>1, <1>2, <1>4, <1>5, <1>6 DEF Next

(* Where vault and cursor stay, what has been met stays so: a row that the *)
(* server changes gets ahead of the cursor.                                *)
LEMMA MetStays ==
  ASSUME IInv, OneEach, Consistent(files), Next, NEW p \in Paths, Met(p), disk'[p] = disk[p],
         revision' <= revision
  PROVE  Met(p)'
<1>1. /\ files'[p] = files[p] \/ files'[p].rev > Tip(files)
      /\ lost \subseteq lost' /\ dead \subseteq dead'
  BY RowsRise, HistoryGrows, DeadGrows
<1>2. Tip(files) \in Nat /\ revision \in Nat /\ revision <= Tip(files)
  BY TipIsGreatest DEF IInv, Typed, Cursor
<1>3. files'[p].rev \in Nat /\ revision' \in Nat
  <2>1. files' \in Table
    BY ServerSteps
  <2>2. IInv'
    BY IInvKept
  <2>3. revision' \in 0 .. Tip(files)' /\ Tip(files)' \in Nat
    BY <2>1, <2>2, TipIsGreatest DEF IInv, Typed, Cursor
  <2> QED
    BY <2>1, <2>3 DEF Table, Row
<1>4. CASE files'[p] = files[p]
  BY <1>1, <1>2, <1>3, <1>4 DEF Met
<1>5. CASE files'[p].rev > Tip(files)
  BY <1>2, <1>3, <1>5 DEF Met
<1> QED
  BY <1>1, <1>4, <1>5

(* What has just been saved is the vault's own.                            *)
LEMMA SavedIsLocal ==
  ASSUME IInv, NEW p \in Paths, Save(p)
  PROVE  /\ Local(p)'
         /\ \E op \in Carriers' : op.path = p /\ op.id = edits + 1
<1> DEFINE new == Op("put", p, NoBase)
           S == OpsAt(Tip(files), edits)
           T == S \cup {new}
<1>1. /\ appends' = Append(appends, new) /\ disk' = [disk EXCEPT ![p] = edits + 1]
      /\ edits < MaxEdits
  BY DEF Save
<1>2. appends \in Seq(S) /\ edits \in Nat /\ disk \in [Paths -> Contents \cup {NoContent}]
  BY DEF IInv, Typed, Queues, Plain
<1>3. new.path = p /\ new.id = edits + 1
  BY DEF Op
<1> HIDE DEF new, S
<1>4. appends \in Seq(T) /\ new \in T
  BY <1>2
<1> HIDE DEF T
<1>5. new \in ToSet(appends')
  BY <1>1, <1>4, Elements
<1>6. new \in Carriers'
  BY <1>5 DEF Carriers, Volatile
<1>7. disk'[p] = edits + 1 /\ edits + 1 \in 1 .. MaxEdits
  BY <1>1, <1>2, Bounds
<1>8. disk'[p] # NoContent
  BY <1>7, Numbered, NoContentIsNoContent
<1> QED
  BY <1>3, <1>6, <1>8 DEF Local, Carries

(* A path that is carried stays so until the server has its content or the *)
(* change is lost; while the inbox is worked on, it stays so.              *)
LEMMA PathStays ==
  ASSUME IInv, OneEach, CInv, Next, NEW p \in Paths, Carries(p)
  PROVE  \/ Carries(p)'
         \/ p \in lost' /\ Crash
         \/ ~Inward /\ Met(p)'
<1>1. PICK op \in Carriers : op.path = p
  BY DEF Carries
<1>2. \A x \in Carriers : x.id # 0
  BY CarriedTypes DEF CInv
<1>3. \A x \in Carriers' : x.path = p => Carries(p)'
  BY DEF Carries
<1>4. Crash /\ op \in Volatile => p \in lost'
  BY <1>1 DEF Crash, PathsOf
<1>5. ASSUME RetryFailed, op.path = Head(todo).path PROVE Carries(p)'
  <2> DEFINE S == OpsAt(Tip(files), edits)
  <2>1. outbox \in Seq(S) /\ todo \in Seq(S) /\ todo # <<>> /\ outbox' = Append(outbox, Head(todo))
    BY <1>5 DEF RetryFailed, IInv, Typed, Queues
  <2> HIDE DEF S
  <2>2. Head(todo) \in ToSet(outbox')
    BY <2>1, Elements
  <2> QED
    BY <1>1, <1>3, <1>5, <2>2 DEF Carriers
<1>6. ASSUME NEW s \in Own, RefreshPending(s), op.path = s.op.path
      PROVE  Carries(p)' \/ (~Inward /\ Met(p)')
  <2>1. s \in refreshes /\ s.op.id # 0 /\ s.ok \in BOOLEAN
    BY <1>6, RefreshShape DEF Own
  <2>2. ~s.ok => s.op \in failed'
    BY <1>6, <2>1, RefreshShape
  <2>3. UNCHANGED <<files, disk, outbox, revision, dead, lost>>
    BY <1>6 DEF RefreshPending, diskVars, ghosts
  <2>4. s.ok => s.op \in ToSet(outbox) \/ (~Inward /\ Met(p))
    BY <1>1, <1>6, <2>1 DEF CInv, Waiting, Looking
  <2>5. Met(p) => Met(p)'
    BY <2>3 DEF Met
  <2>6. s.op \in failed' \cup ToSet(outbox') => Carries(p)'
    BY <1>1, <1>3, <1>6 DEF Carriers, Volatile
  <2> QED
    BY <2>1, <2>2, <2>3, <2>4, <2>5, <2>6
<1>7. ASSUME Acknowledge, op = Head(todo)
      PROVE  Carries(p)' \/ (~Inward /\ Met(p)')
  <2>1. /\ pc = "ack" /\ pc' = "next"
        /\ UNCHANGED <<files, disk, revision, dead, lost, refreshes>>
    BY <1>7 DEF Acknowledge, Strike, queueVars, ghosts
  <2>2. CASE Met(p)
    BY <2>1, <2>2 DEF Met, Inward
  <2>3. ASSUME NEW x \in Carriers, x.path = p, x.id > op.id PROVE Carries(p)'
    <3>1. x # op
      <4>1. op.id \in 1 .. edits /\ edits \in Nat
        BY CarriedTypes DEF CInv
      <4> QED
        BY <2>3, <4>1
    <3>2. ~Crash /\ ~RetryFailed
      BY <2>1 DEF Crash, Idle, RetryFailed
    <3>3. \A s \in Own : ~RefreshPending(s)
      BY <2>1 DEF RefreshPending, Own
    <3>4. x \in Carriers'
      BY <1>2, <1>7, <3>1, <3>2, <3>3, CarrierLeaves
    <3> QED
      BY <1>3, <2>3, <3>4
  <2> QED
    BY <1>1, <1>7, <2>1, <2>2, <2>3 DEF CInv, Striking
<1> QED
  BY <1>1, <1>2, <1>3, <1>4, <1>5, <1>6, <1>7, CarrierLeaves

(* A line of the inbox is about the row it was read from, or an older one. *)
LEMMA LinesKept ==
  ASSUME IInv, OneEach, Consistent(files), Lines, Next
  PROVE  Lines'
<1>1. /\ Tip(files) \in Nat /\ revision \in Nat
      /\ \A q \in Paths : files[q].rev \in Nat /\ files[q].rev <= Tip(files)
      /\ \A q \in Paths : files'[q].rev \in Nat
      /\ \A line \in inbox : line.rev \in Nat /\ line.path \in Paths
  <2>1. files \in Table /\ files' \in Table /\ inbox \subseteq LinesAt(Tip(files))
    BY ServerSteps DEF IInv, Typed, Cursor
  <2>2. Tip(files) \in Nat /\ revision \in Nat
    BY <2>1, TipIsGreatest DEF IInv, Typed, Cursor
  <2>3. \A line \in inbox : line.rev \in Nat /\ line.path \in Paths
    BY <2>1, <2>2 DEF LinesAt
  <2> QED
    BY <2>1, <2>2, <2>3, TipIsGreatest DEF Table, Row
<1>2. \A q \in Paths : files'[q] = files[q] \/ files'[q].rev > Tip(files)
  BY RowsRise
<1>3. CASE inbox' \subseteq inbox
  <2>1. ASSUME NEW line \in inbox' PROVE line.rev > 0 /\ line.rev <= files'[line.path].rev
    <3>1. line.path \in Paths /\ line.rev > 0 /\ line.rev <= files[line.path].rev
      BY <1>1, <1>3, <2>1 DEF Lines
    <3> QED
      BY <1>1, <1>2, <1>3, <3>1
  <2>2. ASSUME NEW line \in inbox', NEW q \in Paths, files'[q].rev = line.rev
        PROVE  line = InboxLine(files', q)
    <3>1. line \in inbox /\ line.path \in Paths /\ line.rev <= files[line.path].rev
      BY <1>1, <1>3 DEF Lines
    <3>2. files'[q] = files[q]
      BY <1>1, <1>2, <2>2, <3>1
    <3>3. line = InboxLine(files, q)
      BY <2>2, <3>1, <3>2 DEF Lines
    <3> QED
      BY <3>2, <3>3 DEF InboxLine
  <2>3. \A line, other \in inbox' : line.rev = other.rev => line = other
    BY <1>3 DEF Lines
  <2> QED
    BY <2>1, <2>2, <2>3 DEF Lines
<1>4. CASE Fetch
  <2>1. inbox' = inbox \cup InboxLines(files, revision) /\ files' = files
    BY <1>4 DEF Fetch, FetchAbove
  <2>2. \A line \in inbox' : \/ line \in inbox
                             \/ \E q \in Paths : line = InboxLine(files, q) /\ files[q].rev > revision
    BY <2>1 DEF InboxLines, Inbox
  <2>3. \A q \in Paths : InboxLine(files, q).rev = files[q].rev /\ InboxLine(files, q).path = q
    BY DEF InboxLine
  <2>4. \A line \in inbox' : line.rev > 0 /\ line.rev <= files[line.path].rev
    BY <1>1, <2>2, <2>3 DEF Lines
  <2>5. \A q, w \in Paths : files[q].rev = files[w].rev /\ files[q].rev > revision => q = w
    BY <1>1 DEF Consistent, RevisionsUnique
  <2>6. \A line \in inbox', q \in Paths : files[q].rev = line.rev => line = InboxLine(files, q)
    BY <2>2, <2>3, <2>5 DEF Lines
  <2>7. \A line, other \in inbox' : line.rev = other.rev => line = other
    <3> SUFFICES ASSUME NEW line \in inbox', NEW other \in inbox', line.rev = other.rev
                 PROVE  line = other
      OBVIOUS
    <3>1. CASE line \in inbox /\ other \in inbox
      BY <3>1 DEF Lines
    <3>2. CASE line \notin inbox
      BY <2>2, <2>3, <2>6, <3>2
    <3>3. CASE other \notin inbox
      BY <2>2, <2>3, <2>6, <3>3
    <3> QED
      BY <3>1, <3>2, <3>3
  <2> QED
    BY <2>1, <2>4, <2>6, <2>7 DEF Lines
<1> QED
  BY <1>3, <1>4, InboxSteps

(* The lines still cover the rows between the cursor and each of them.     *)
LEMMA WholeKept ==
  ASSUME IInv, OneEach, Consistent(files), Lines, Whole, Rewriting, Next
  PROVE  Whole'
<1> SUFFICES ASSUME Inward', NEW line \in inbox', NEW p \in Paths,
                    revision' < files'[p].rev, files'[p].rev <= line.rev
             PROVE  InboxLine(files', p) \in inbox'
  BY DEF Whole
<1>1. /\ Tip(files) \in Nat /\ revision \in Nat
      /\ \A q \in Paths : files[q].rev \in Nat /\ files[q].rev <= Tip(files)
      /\ \A other \in inbox : other.rev \in Nat /\ other.path \in Paths
      /\ files'[p].rev \in Nat
  <2>1. files \in Table /\ files' \in Table /\ inbox \subseteq LinesAt(Tip(files))
    BY ServerSteps DEF IInv, Typed, Cursor
  <2>2. Tip(files) \in Nat /\ revision \in Nat
    BY <2>1, TipIsGreatest DEF IInv, Typed, Cursor
  <2>3. \A other \in inbox : other.rev \in Nat /\ other.path \in Paths
    BY <2>1, <2>2 DEF LinesAt
  <2> QED
    BY <2>1, <2>2, <2>3, TipIsGreatest DEF Table, Row
<1>2. InboxLine(files, p).rev = files[p].rev
  BY DEF InboxLine
<1>3. CASE Fetch
  <2>1. /\ inbox' = inbox \cup InboxLines(files, revision)
        /\ UNCHANGED <<files, revision>>
    BY <1>3 DEF Fetch, FetchAbove
  <2> QED
    BY <2>1 DEF InboxLines, Inbox
<1>4. ASSUME NEW first \in inbox, Reading(first) PROVE InboxLine(files', p) \in inbox'
  <2>1. IsFirst(first) /\ UNCHANGED files /\ Inward
    BY <1>4, ReadingSteps DEF Inward, Applying, ApplyDelete, WriteBody, WriteUnless, Download
  <2>2. CASE inbox' = inbox \ {first} /\ UNCHANGED revision
    <3>1. first.rev <= revision
      BY <1>1, <1>4, <2>1, <2>2, ReadingSteps
         DEF Rewriting, IsFirst, Applying, ApplyDelete, WriteBody, WriteUnless, Download
    <3>2. InboxLine(files, p) \in inbox
      BY <2>1, <2>2 DEF Whole
    <3>3. InboxLine(files, p) # first
      BY <1>1, <1>2, <2>1, <2>2, <3>1
    <3> QED
      BY <2>1, <2>2, <3>2, <3>3
  <2>3. CASE UNCHANGED <<inbox, revision>>
    BY <2>1, <2>3 DEF Whole
  <2>4. CASE pc = "advance" /\ revision' = first.rev /\ UNCHANGED inbox
    <3>1. first.rev > revision
      BY <2>4 DEF IInv, Typed, InHand
    <3>2. revision < files[p].rev
      BY <1>1, <2>1, <2>4, <3>1
    <3> QED
      BY <2>1, <2>4, <3>2 DEF Whole
  <2> QED
    BY <1>4, <2>2, <2>3, <2>4, ReadingSteps
<1>5. ASSUME UNCHANGED <<pc, inbox, revision>> PROVE InboxLine(files', p) \in inbox'
  <2>1. Inward /\ line \in inbox
    BY <1>5 DEF Inward
  <2>2. line.rev <= Tip(files) /\ line.rev \in Nat
    BY <1>1, <2>1 DEF Lines
  <2>3. files'[p] = files[p]
    BY <1>1, <2>2, RowsRise
  <2>4. InboxLine(files, p) \in inbox
    BY <1>5, <2>1, <2>3 DEF Whole
  <2> QED
    BY <1>5, <2>3, <2>4 DEF InboxLine
<1> QED
  BY <1>3, <1>4, <1>5, InwardSteps

(* What is rewritten is a line that the cursor has reached.                *)
LEMMA RewritingKept ==
  ASSUME IInv, OneEach, Rewriting, Next
  PROVE  Rewriting'
<1> SUFFICES ASSUME pc' = "rewrite" PROVE \E line \in inbox' : line.rev <= revision'
  BY DEF Rewriting
<1>1. Inward'
  BY DEF Inward
<1>2. ~Fetch
  BY DEF Fetch, FetchAbove
<1>3. ASSUME NEW line \in inbox, Reading(line) PROVE line \in inbox' /\ line.rev <= revision'
  <2>1. ~Applying(line) /\ ~Download(line)
    BY DEF Applying, ApplyDelete, WriteBody, WriteUnless, Download, Idle
  <2>2. inbox' = inbox /\ revision' = line.rev
    BY <1>3, <2>1, ReadingSteps
  <2>3. line.rev \in Nat
    BY TipIsGreatest DEF IInv, Typed, Cursor, LinesAt
  <2> QED
    BY <2>2, <2>3
<1>4. UNCHANGED <<pc, inbox, revision>> => \E line \in inbox' : line.rev <= revision'
  BY DEF Rewriting
<1> QED
  BY <1>1, <1>2, <1>3, <1>4, InwardSteps

(* While the inbox is worked on, the vault's own changes stay its own.     *)
LEMMA LocalStays ==
  ASSUME IInv, OneEach, CInv, Next, Inward, pc' # "idle", NEW p \in Paths, Local(p),
         disk'[p] = disk[p] \/ Save(p)
  PROVE  Local(p)'
<1>1. ~Crash
  BY DEF Crash, Idle
<1>2. Carries(p)'
  BY <1>1, PathStays DEF Local
<1>3. CASE Save(p)
  BY <1>3, SavedIsLocal
<1>4. CASE disk'[p] = disk[p]
  BY <1>2, <1>4 DEF Local
<1> QED
  BY <1>3, <1>4

(* Beside the tick, only a save changes the vault.                         *)
LEMMA OuterVault ==
  ASSUME LocalOps \subseteq {"put"}, Next, UNCHANGED pc, NEW p \in Paths, IInv
  PROVE  disk'[p] = disk[p] \/ Save(p)
<1>1. \A q \in Paths : ~Erase(q)
  BY DEF Erase
<1>2. \A line \in inbox : ~Applying(line)
  BY DEF Applying, ApplyDelete, WriteBody, WriteUnless, Idle
<1>3. disk \in [Paths -> Contents \cup {NoContent}]
  BY DEF IInv, Typed, Plain
<1>4. ASSUME NEW q \in Paths, Save(q) PROVE disk'[p] = disk[p] \/ Save(p)
  BY <1>3, <1>4 DEF Save
<1> QED
  BY <1>1, <1>2, <1>4, VaultSteps

(* What is pending stays so while the inbox is worked on: a path that is   *)
(* no longer listed would have had its append in the outbox.               *)
LEMMA WaitingKept ==
  ASSUME IInv, GInv, OnlyPuts, Prompt, LocalOps \subseteq {"put"}, Waiting, Next, Inward'
  PROVE  /\ Waiting'
         /\ Outer => /\ pending \subseteq pending'
                     /\ \A p \in pending' : p \in pending \/ Save(p)
<1> DEFINE S == OpsAt(Tip(files), edits)
<1>1. /\ appends \in Seq(S) /\ outbox \in Seq(S)
  BY DEF IInv, Typed, Queues
<1> HIDE DEF S
<1>2. /\ Counted = PathsOf(ToSet(appends)) /\ Counted' = PathsOf(ToSet(appends'))
      /\ OutboxPaths = PathsOf(ToSet(outbox)) /\ OutboxPaths' = PathsOf(ToSet(outbox'))
      /\ Refreshed = PathsOf({s.op : s \in refreshes})
      /\ Refreshed' = PathsOf({s.op : s \in refreshes'})
  BY DEF Counted, OutboxPaths, Refreshed
<1>3. OneEach /\ TickOwn /\ GuardBuilt
  BY DEF GInv
<1>4. ASSUME Fetch PROVE Waiting' /\ ~Outer
  <2>1. /\ pc = "fetch" /\ pc' = "apply" /\ refreshes = {} /\ basing = {}
        /\ UNCHANGED <<outbox, pending, appends, refreshes, failed>>
    BY <1>4 DEF Fetch, FetchAbove, queueVars, Undisturbed
  <2>2. Refreshed = {}
    BY <2>1 DEF Refreshed, PathsOf
  <2>3. OutboxPaths \cup Counted \cup PathsOf(failed) \subseteq pending
    BY <1>3, <2>1, <2>2 DEF GuardBuilt, Guarding
  <2>4. Waiting'
    BY <1>2, <2>1, <2>2, <2>3 DEF Waiting, PathsOf
  <2>5. ~Outer
    BY <1>3, <2>1, OuterSteps
  <2> QED
    BY <2>4, <2>5
<1>5. ASSUME NEW line \in inbox, Reading(line), ~Outer PROVE Waiting'
  <2>1. UNCHANGED <<outbox, pending, appends, refreshes, failed>> /\ Inward
    BY <1>5, ReadingSteps DEF Inward, Applying, ApplyDelete, WriteBody, WriteUnless, Download
  <2> QED
    BY <1>2, <2>1 DEF Waiting, PathsOf
<1>6. ASSUME Outer, UNCHANGED pc
      PROVE  Waiting' /\ pending \subseteq pending' /\ \A p \in pending' : p \in pending \/ Save(p)
  <2>1. /\ Inward /\ Guarding
        /\ OutboxPaths \cup Counted \cup PathsOf(failed) \cup Refreshed \subseteq pending
        /\ \A s \in refreshes : s.ok => s.op \in ToSet(outbox)
    <3>1. Inward
      BY <1>6 DEF Inward
    <3> QED
      BY <3>1 DEF Inward, Guarding, Waiting
  <2>2. ASSUME NEW p \in Paths, Save(p)
        PROVE  Waiting' /\ pending' = pending \cup {p}
    <3> DEFINE new == Op("put", p, NoBase)
               T == S \cup {new}
    <3>1. /\ appends' = Append(appends, new) /\ pending' = pending \cup {p}
          /\ UNCHANGED <<outbox, refreshes, failed>>
      BY <2>2 DEF Save
    <3>2. new.path = p
      BY DEF Op
    <3> HIDE DEF new
    <3>3. appends \in Seq(T) /\ new \in T
      BY <1>1
    <3> HIDE DEF T
    <3>4. ToSet(appends') = ToSet(appends) \cup {new}
      BY <3>1, <3>3, Elements
    <3>5. Counted' = Counted \cup {p}
      BY <1>2, <3>2, <3>4 DEF PathsOf
    <3>6. OutboxPaths' = OutboxPaths /\ Refreshed' = Refreshed /\ PathsOf(failed)' = PathsOf(failed)
      BY <1>2, <3>1 DEF PathsOf
    <3> QED
      BY <2>1, <3>1, <3>5, <3>6 DEF Waiting
  <2>3. \A p \in Paths : ~Erase(p)
    BY DEF Erase
  <2>4. \A op \in basing : ~EnqueueDelete(op)
    BY DEF OnlyPuts
  <2>5. ASSUME NEW ok \in BOOLEAN, AppendOutbox(ok) PROVE Waiting' /\ pending' = pending
    <3>1. PICK op \in S :
             /\ ToSet(appends) = {op} \cup ToSet(appends')
             /\ refreshes' = refreshes \cup {[op |-> op, ok |-> ok, seen |-> "unread"]}
             /\ outbox' = IF ok THEN Append(outbox, op) ELSE outbox
             /\ UNCHANGED <<pending, failed>>
      BY <1>3, <2>5, AppendShape DEF S
    <3>2. Counted = Counted' \cup {op.path}
      BY <1>2, <3>1 DEF PathsOf
    <3>3. ToSet(outbox') = IF ok THEN ToSet(outbox) \cup {op} ELSE ToSet(outbox)
      <4>1. ToSet(Append(outbox, op)) = ToSet(outbox) \cup {op}
        BY <1>1, Elements
      <4> QED
        BY <3>1, <4>1
    <3>4. OutboxPaths' \subseteq OutboxPaths \cup {op.path}
      BY <1>2, <3>3 DEF PathsOf
    <3> DEFINE r == [op |-> op, ok |-> ok, seen |-> "unread"]
    <3>5. r.op = op /\ r.ok = ok
      OBVIOUS
    <3>6. \A s \in refreshes' : s \in refreshes \/ s = r
      BY <3>1
    <3> HIDE DEF r
    <3>7. Refreshed' \subseteq Refreshed \cup {op.path}
      BY <1>2, <3>5, <3>6 DEF PathsOf
    <3>8. \A s \in refreshes' : s.ok => s.op \in ToSet(outbox')
      BY <2>1, <3>3, <3>5, <3>6
    <3>9. PathsOf(failed)' = PathsOf(failed)
      BY <3>1 DEF PathsOf
    <3> QED
      BY <2>1, <3>1, <3>2, <3>4, <3>7, <3>8, <3>9 DEF Waiting
  <2>6. ASSUME NEW s \in refreshes, ReadListing(s) PROVE Waiting' /\ pending' = pending
    <3>1. PICK t : /\ t.op = s.op /\ t.ok = s.ok
                   /\ refreshes' = (refreshes \ {s}) \cup {t}
                   /\ UNCHANGED <<outbox, pending, appends, failed>>
      BY <2>6, ListingShape DEF diskVars
    <3>2. OutboxPaths' = OutboxPaths /\ Counted' = Counted /\ PathsOf(failed)' = PathsOf(failed)
      BY <1>2, <3>1 DEF PathsOf
    <3>3. Refreshed' \subseteq Refreshed
      BY <1>2, <3>1 DEF PathsOf
    <3>4. \A x \in refreshes' : x.ok => x.op \in ToSet(outbox')
      BY <2>1, <3>1
    <3> QED
      BY <2>1, <3>1, <3>2, <3>3, <3>4 DEF Waiting
  <2>7. ASSUME NEW s \in refreshes, RefreshPending(s)
        PROVE  Waiting' /\ pending' = pending
    <3> DEFINE p == s.op.path
    <3>1. /\ s.ok \in BOOLEAN /\ s.seen \in {"listed", "gone"}
          /\ refreshes' = refreshes \ {s}
          /\ UNCHANGED <<outbox, appends>>
          /\ \A f \in failed' : f \in failed \/ f.path = p
          /\ s.seen = "listed" => pending' = pending \cup {p}
          /\ s.seen = "gone" => pending \ {p} \subseteq pending'
          /\ s.op.id # 0 /\ ~s.ok => p \in pending'
      BY <2>7, RefreshShape DEF diskVars
    <3>2. p \in pending
      BY <1>2, <2>1 DEF PathsOf
    <3>3. s.ok => p \in OutboxPaths
      BY <1>2, <2>1 DEF PathsOf
    <3>4. s.seen = "gone" => p \notin OutboxPaths
      BY <1>3, <2>1 DEF GuardBuilt
    <3>5. s.seen = "gone" => s.op.id # 0 /\ ~s.ok
      BY <3>3, <3>4 DEF OnlyPuts
    <3>6. pending' \subseteq pending \cup {p}
      BY <2>7 DEF RefreshPending, Finish
    <3> HIDE DEF p
    <3>7. pending' = pending
      BY <3>1, <3>2, <3>5, <3>6
    <3>8. OutboxPaths' = OutboxPaths /\ Counted' = Counted
      BY <1>2, <3>1 DEF PathsOf
    <3>9. Refreshed' \subseteq Refreshed
      BY <1>2, <3>1 DEF PathsOf
    <3>10. PathsOf(failed') \subseteq PathsOf(failed) \cup {p}
      BY <3>1 DEF PathsOf
    <3>11. \A x \in refreshes' : x.ok => x.op \in ToSet(outbox')
      BY <2>1, <3>1
    <3> QED
      BY <2>1, <3>2, <3>7, <3>8, <3>9, <3>10, <3>11 DEF Waiting
  <2>8. ASSUME RemoteChange PROVE Waiting' /\ pending' = pending
    <3>1. UNCHANGED <<outbox, pending, appends, refreshes, failed>>
      BY <2>8 DEF RemoteChange, diskVars, queueVars
    <3> QED
      BY <1>2, <2>1, <3>1 DEF Waiting, PathsOf
  <2> QED
    BY <1>6, <2>2, <2>3, <2>4, <2>5, <2>6, <2>7, <2>8 DEF Outer
<1>7. Outer => UNCHANGED pc
  BY <1>3, OuterSteps DEF Inward, tickVars
<1> QED
  BY <1>3, <1>4, <1>5, <1>6, <1>7, InwardSteps

(* A row that a line is about stays as it is while it has that revision.   *)
LEMMA RowOfLine ==
  ASSUME IInv, Consistent(files), Lines, Next, NEW line \in inbox
  PROVE  /\ line.path \in Paths /\ line.rev <= files[line.path].rev
         /\ \A q \in Paths : files'[q].rev = line.rev => files'[q] = files[q]
         /\ \A other \in inbox : IsFirst(line) /\ IsFirst(other) => line = other
<1>1. /\ Tip(files) \in Nat /\ revision \in Nat /\ revision <= Tip(files)
      /\ \A q \in Paths : files[q].rev \in Nat /\ files[q].rev <= Tip(files)
      /\ \A q \in Paths : files'[q].rev \in Nat
      /\ \A other \in inbox : other.rev \in Nat /\ other.path \in Paths
  <2>1. files \in Table /\ files' \in Table /\ inbox \subseteq LinesAt(Tip(files))
    BY ServerSteps DEF IInv, Typed, Cursor
  <2>2. Tip(files) \in Nat /\ revision \in Nat /\ revision <= Tip(files)
    BY <2>1, TipIsGreatest DEF IInv, Typed, Cursor
  <2>3. \A other \in inbox : other.rev \in Nat /\ other.path \in Paths
    BY <2>1, <2>2 DEF LinesAt
  <2> QED
    BY <2>1, <2>2, <2>3, TipIsGreatest DEF Table, Row
<1>2. \A q \in Paths : files'[q] = files[q] \/ files'[q].rev > Tip(files)
  BY RowsRise
<1>3. line.rev <= files[line.path].rev
  BY DEF Lines
<1>4. \A other \in inbox : IsFirst(line) /\ IsFirst(other) => line = other
  <2> SUFFICES ASSUME NEW other \in inbox, IsFirst(line), IsFirst(other) PROVE line = other
    OBVIOUS
  <2>1. line.rev = other.rev
    BY <1>1 DEF IsFirst
  <2> QED
    BY <2>1 DEF Lines
<1> QED
  BY <1>1, <1>2, <1>3, <1>4

(* The download has the row of its line, or a newer one.                   *)
LEMMA DownloadedKept ==
  ASSUME IInv, GInv, CInv, Prompt, LocalOps \subseteq {"put"}, Next
  PROVE  Downloaded'
<1> SUFFICES ASSUME pc' = "write", NEW line \in inbox', IsFirst(line)'
             PROVE  /\ files'[line.path].rev = line.rev => body' = files'[line.path].content
                    /\ \A q \in Above(line.path) : files'[q].live => files'[q].rev > revision'
                    /\ line.path \in pending' => Local(line.path)'
  BY DEF Downloaded
<1>1. Inward' /\ pc' # "idle"
  BY DEF Inward
<1>2. OneEach /\ Consistent(files) /\ Lines
  BY DEF GInv, CInv
<1>3. ~Fetch
  BY DEF Fetch, FetchAbove
<1>4. ASSUME NEW first \in inbox, Reading(first)
      PROVE  /\ files'[line.path].rev = line.rev => body' = files'[line.path].content
             /\ \A q \in Above(line.path) : files'[q].live => files'[q].rev > revision'
             /\ line.path \in pending' => Local(line.path)'
  <2>1. ~Applying(first)
    BY DEF Applying, ApplyDelete, WriteBody, WriteUnless, Idle
  <2>2. IsFirst(first) /\ Download(first) /\ UNCHANGED <<files, pending, inbox, revision>>
    BY <1>4, <2>1, ReadingSteps DEF Applying
  <2>3. /\ body' = files[first.path].content /\ files[first.path].live /\ ~Deferred(first)
    BY <2>2 DEF Download
  <2>4. line \in inbox /\ IsFirst(line)
    BY <2>2 DEF IsFirst
  <2>5. line = first /\ line.path \in Paths
    BY <1>2, <2>2, <2>4, RowOfLine
  <2>6. line.path \notin pending
    BY <2>3, <2>5 DEF Deferred, Related
  <2>7. \A q \in Above(line.path) : ~files[q].live
    BY <1>2, <2>3, <2>5 DEF Consistent, Antichain, Above
  <2> QED
    BY <2>2, <2>3, <2>5, <2>6, <2>7
<1>5. ASSUME Outer, UNCHANGED <<pc, tickVars, inbox, revision>>
      PROVE  /\ files'[line.path].rev = line.rev => body' = files'[line.path].content
             /\ \A q \in Above(line.path) : files'[q].live => files'[q].rev > revision'
             /\ line.path \in pending' => Local(line.path)'
  <2>1. line \in inbox /\ IsFirst(line) /\ pc = "write" /\ Inward /\ body' = body
    BY <1>5 DEF IsFirst, Inward, tickVars
  <2>2. /\ files[line.path].rev = line.rev => body = files[line.path].content
        /\ \A q \in Above(line.path) : files[q].live => files[q].rev > revision
        /\ line.path \in pending => Local(line.path)
    BY <2>1 DEF CInv, Downloaded
  <2>3. /\ line.path \in Paths
        /\ files'[line.path].rev = line.rev => files'[line.path] = files[line.path]
    BY <1>2, <2>1, RowOfLine
  <2>4. ASSUME NEW q \in Above(line.path), files'[q].live PROVE files'[q].rev > revision
    <3>1. q \in Paths
      BY DEF Above
    <3>2. files'[q] = files[q] \/ files'[q].rev > Tip(files)
      BY <1>2, <3>1, RowsRise
    <3>3. Tip(files) \in Nat /\ revision \in Nat /\ revision <= Tip(files)
      BY TipIsGreatest DEF IInv, Typed, Cursor
    <3>4. files'[q].rev \in Nat
      BY <3>1, ServerSteps DEF Table, Row
    <3>5. CASE files'[q] = files[q]
      BY <2>2, <2>4, <3>5
    <3>6. CASE files'[q].rev > Tip(files)
      BY <3>3, <3>4, <3>6
    <3> QED
      BY <3>2, <3>5, <3>6
  <2>5. line.path \in pending' => Local(line.path)'
    <3>1. line.path \in pending' => line.path \in pending \/ Save(line.path)
      BY <1>1, <1>5, WaitingKept DEF CInv
    <3>2. disk'[line.path] = disk[line.path] \/ Save(line.path)
      BY <1>5, <2>3, OuterVault
    <3>3. Save(line.path) => Local(line.path)'
      BY <2>3, SavedIsLocal
    <3>4. Local(line.path) => Local(line.path)'
      BY <1>1, <1>2, <2>1, <2>3, <3>2, LocalStays
    <3> QED
      BY <2>2, <3>1, <3>3, <3>4
  <2> QED
    BY <1>5, <2>1, <2>2, <2>3, <2>4, <2>5
<1> QED
  BY <1>1, <1>2, <1>3, <1>4, <1>5, InwardSteps

(* What the cursor is about to pass has been applied.                      *)
LEMMA AppliedKept ==
  ASSUME IInv, GInv, CInv, Prompt, LocalOps \subseteq {"put"}, Next
  PROVE  Applied'
<1> SUFFICES ASSUME pc' = "advance", NEW line \in inbox', IsFirst(line)',
                    files'[line.path].rev = line.rev, line.path \notin lost' \cup dead'
             PROVE  disk'[line.path] = files'[line.path].content \/ Local(line.path)'
  BY DEF Applied
<1>1. Inward' /\ pc' # "idle"
  BY DEF Inward
<1>2. OneEach /\ Consistent(files) /\ Lines
  BY DEF GInv, CInv
<1>3. ~Fetch
  BY DEF Fetch, FetchAbove
<1>4. line.path \notin lost \cup dead
  BY <1>2, HistoryGrows, DeadGrows
<1>5. ASSUME NEW first \in inbox, Reading(first)
      PROVE  disk'[line.path] = files'[line.path].content \/ Local(line.path)'
  <2>1. /\ IsFirst(first) /\ UNCHANGED <<files, inbox>>
        /\ Applying(first) \/ Download(first)
    BY <1>5, ReadingSteps
  <2>2. line \in inbox /\ IsFirst(line)
    BY <2>1 DEF IsFirst
  <2>3. line = first /\ line.path \in Paths
    BY <1>2, <2>1, <2>2, RowOfLine
  <2>4. line = InboxLine(files, line.path)
    BY <1>2, <2>1, <2>2, <2>3 DEF Lines
  <2>5. CASE ApplyDelete(first)
    <3>1. line.op = "delete"
      BY <2>3, <2>5 DEF ApplyDelete
    <3>2. ~files[line.path].live
      BY <2>4, <3>1 DEF InboxLine
    <3>3. files[line.path].content = NoContent
      BY <1>2, <2>3, <3>2 DEF Consistent
    <3>4. disk'[line.path] = NoContent
      BY <2>3, <2>5 DEF ApplyDelete
    <3> QED
      BY <2>1, <3>3, <3>4
  <2>6. CASE WriteBody(first)
    <3>1. pc = "write" /\ Inward
      BY <2>6 DEF WriteBody, WriteUnless, Inward
    <3>2. /\ files[line.path].rev = line.rev => body = files[line.path].content
          /\ line.path \in pending => Local(line.path)
      BY <2>2, <3>1 DEF CInv, Downloaded
    <3>3. CASE line.path \in pending
      <4>1. disk' = disk
        BY <2>3, <2>6, <3>3 DEF WriteBody, WriteUnless
      <4> QED
        BY <1>1, <1>2, <2>3, <3>1, <3>2, <3>3, <4>1, LocalStays
    <3>4. CASE line.path \notin pending
      <4>1. disk'[line.path] = body
        BY <2>3, <2>6, <3>4 DEF WriteBody, WriteUnless, Idle
      <4> QED
        BY <2>1, <3>2, <4>1
    <3> QED
      BY <3>3, <3>4
  <2>7. CASE Download(first)
    <3>1. line.op = "put" /\ ~files[line.path].live
      BY <2>3, <2>7 DEF Download
    <3> QED
      BY <2>4, <3>1 DEF InboxLine
  <2> QED
    BY <2>1, <2>5, <2>6, <2>7 DEF Applying
<1>6. ASSUME Outer, UNCHANGED <<pc, inbox>>
      PROVE  disk'[line.path] = files'[line.path].content \/ Local(line.path)'
  <2>1. line \in inbox /\ IsFirst(line) /\ pc = "advance" /\ Inward
    BY <1>6 DEF IsFirst, Inward
  <2>2. line.path \in Paths /\ files'[line.path] = files[line.path]
    BY <1>2, <2>1, RowOfLine
  <2>3. disk[line.path] = files[line.path].content \/ Local(line.path)
    BY <1>4, <2>1, <2>2 DEF CInv, Applied
  <2>4. disk'[line.path] = disk[line.path] \/ Save(line.path)
    BY <1>6, <2>2, OuterVault
  <2>5. Save(line.path) => Local(line.path)'
    BY <2>2, SavedIsLocal
  <2>6. Local(line.path) => Local(line.path)'
    BY <1>1, <1>2, <2>1, <2>2, <2>4, LocalStays
  <2> QED
    BY <2>2, <2>3, <2>4, <2>5, <2>6
<1> QED
  BY <1>1, <1>2, <1>3, <1>5, <1>6, InwardSteps

(* Lines leave the outbox only when they are struck out.                   *)
LEMMA OutboxSteps ==
  ASSUME IInv, OneEach, Next
  PROVE  \/ ToSet(outbox) \subseteq ToSet(outbox')
         \/ Acknowledge /\ ToSet(outbox) \ {Head(todo)} \subseteq ToSet(outbox')
<1> DEFINE S == OpsAt(Tip(files), edits)
<1>1. outbox \in Seq(S) /\ todo \in Seq(S)
  BY DEF IInv, Typed, Queues
<1> HIDE DEF S
<1>2. \A p \in Paths : Save(p) \/ Erase(p) => outbox' = outbox
  BY DEF Save, Erase
<1>3. \A op \in basing : EnqueueDelete(op) => outbox' = outbox
  BY DEF EnqueueDelete, diskVars
<1>4. ASSUME NEW ok \in BOOLEAN, AppendOutbox(ok) PROVE ToSet(outbox) \subseteq ToSet(outbox')
  <2>1. PICK op \in S : outbox' = IF ok THEN Append(outbox, op) ELSE outbox
    BY <1>4, AppendShape DEF S
  <2>2. ToSet(Append(outbox, op)) = ToSet(outbox) \cup {op}
    BY <1>1, Elements
  <2> QED
    BY <2>1, <2>2
<1>5. \A s \in refreshes : ReadListing(s) \/ RefreshPending(s) => outbox' = outbox
  BY DEF ReadListing, RefreshPending, diskVars
<1>6. RefreshProcessed \/ TickFails \/ Crash => outbox' = outbox
  BY DEF RefreshProcessed, TickFails, Crash, diskVars
<1>7. ASSUME RetryFailed PROVE ToSet(outbox) \subseteq ToSet(outbox')
  <2>1. todo # <<>> /\ outbox' = Append(outbox, Head(todo))
    BY <1>7 DEF RetryFailed
  <2>2. Head(todo) \in S
    BY <1>1, <2>1, Elements
  <2> QED
    BY <1>1, <2>1, <2>2, Elements
<1>8. Acknowledge => ToSet(outbox) \ {Head(todo)} \subseteq ToSet(outbox')
  BY <1>1, RemovesOne DEF Acknowledge, Strike
<1> QED
  BY <1>2, <1>3, <1>4, <1>5, <1>6, <1>7, <1>8, Steps, QueuesUnchanged

(* An enqueue that ends now began before, or has just been appended.       *)
LEMMA OwnSteps ==
  ASSUME IInv, OneEach, Next, NEW s \in Own', s.ok
  PROVE  s.op \in ToSet(outbox') \/ \E t \in Own : t.op = s.op /\ t.ok
<1> DEFINE S == OpsAt(Tip(files), edits)
<1>1. outbox \in Seq(S)
  BY DEF IInv, Typed, Queues
<1> HIDE DEF S
<1>2. s \in refreshes' /\ s.op.id # 0
  BY DEF Own
<1>3. s \in refreshes => s \in Own
  BY <1>2 DEF Own
<1>4. \A p \in Paths : Save(p) \/ Erase(p) => refreshes' = refreshes
  BY DEF Save, Erase
<1>5. \A op \in basing : EnqueueDelete(op) => refreshes' = refreshes
  BY DEF EnqueueDelete
<1>6. ASSUME NEW ok \in BOOLEAN, AppendOutbox(ok) PROVE s \in refreshes \/ s.op \in ToSet(outbox')
  <2>1. PICK op \in S :
           /\ outbox' = IF ok THEN Append(outbox, op) ELSE outbox
           /\ refreshes' = refreshes \cup {[op |-> op, ok |-> ok, seen |-> "unread"]}
    BY <1>6, AppendShape DEF S
  <2>2. op \in ToSet(Append(outbox, op))
    BY <1>1, Elements
  <2> QED
    BY <1>2, <2>1, <2>2
<1>7. ASSUME NEW r \in refreshes, ReadListing(r) PROVE \E t \in Own : t.op = s.op /\ t.ok
  <2>1. PICK t : t.op = r.op /\ t.ok = r.ok /\ refreshes' = (refreshes \ {r}) \cup {t}
    BY <1>7, ListingShape
  <2> QED
    BY <1>2, <2>1 DEF Own
<1>8. ASSUME NEW r \in refreshes, RefreshPending(r) PROVE s \in refreshes
  <2>1. refreshes' = refreshes \ {r}
    BY <1>8, RefreshShape
  <2> QED
    BY <1>2, <2>1
<1>9. ASSUME RefreshProcessed PROVE s \in refreshes
  <2>1. PICK p : \/ UNCHANGED refreshes
                 \/ refreshes' = refreshes \cup
                        {[op |-> [path |-> p, id |-> 0], ok |-> TRUE, seen |-> "unread"]}
    BY <1>9 DEF RefreshProcessed
  <2>2. [op |-> [path |-> p, id |-> 0], ok |-> TRUE, seen |-> "unread"].op.id = 0
    OBVIOUS
  <2> QED
    BY <1>2, <2>1, <2>2
<1>10. TickFails \/ Crash => s \in refreshes
  BY <1>2 DEF TickFails, Crash
<1> QED
  BY <1>2, <1>3, <1>4, <1>5, <1>6, <1>7, <1>8, <1>9, <1>10, Steps, ElsewhereUnchanged

(* Away from the inbox, the vault changes by a save and the cursor goes    *)
(* nowhere but back.                                                       *)
LEMMA AwaySteps ==
  ASSUME IInv, OneEach, LocalOps \subseteq {"put"}, Next, ~Inward, NEW p \in Paths
  PROVE  /\ disk'[p] = disk[p] \/ Save(p)
         /\ revision' <= revision
<1>1. \A line \in inbox : ~Applying(line) /\ ~Reading(line)
  BY DEF Reading, DropLine, Applying, ApplyDelete, WriteBody, WriteUnless, Download, Advance, AdvanceTo,
         RewriteInbox, Inward
<1>2. disk \in [Paths -> Contents \cup {NoContent}]
  BY DEF IInv, Typed, Plain
<1>3. \A q \in Paths : Save(q) => disk'[p] = disk[p] \/ Save(p)
  BY <1>2 DEF Save
<1>4. \A q \in Paths : ~Erase(q)
  BY DEF Erase
<1>5. revision \in Nat /\ saved \in Nat /\ saved <= revision
  BY TipIsGreatest DEF IInv, Typed, Cursor
<1>6. Crash => revision' = saved
  BY DEF Crash
<1> QED
  BY <1>1, <1>3, <1>4, <1>5, <1>6, VaultSteps, CursorSteps DEF Inward

(* The end of an append finds it in the outbox, or the server up to date.  *)
LEMMA LookingKept ==
  ASSUME IInv, OneEach, Prompt, LocalOps \subseteq {"put"}, CInv, Next
  PROVE  Looking'
<1> SUFFICES ASSUME NEW s \in Own', s.ok PROVE s.op \in ToSet(outbox') \/ Met(s.op.path)'
  BY DEF Looking
<1>1. CASE s.op \in ToSet(outbox')
  BY <1>1
<1>2. ASSUME NEW t \in Own, t.ok, t.op = s.op PROVE s.op \in ToSet(outbox') \/ Met(s.op.path)'
  <2> DEFINE op == t.op
             p == t.op.path
  <2>1. p \in Paths /\ t \in refreshes /\ op \in Running
    <3>1. t \in RefreshesAt(Tip(files), edits) /\ t.op.id # 0
      BY DEF IInv, Typed, Queues, Own
    <3> QED
      BY <3>1 DEF RefreshesAt, OpsAt, Own, Running
  <2>2. op \in ToSet(outbox) \/ (~Inward /\ Met(p))
    BY <1>2, <2>1 DEF CInv, Waiting, Looking
  <2>3. ~Save(p)
    BY <2>1 DEF Save, Calm, PathsOf
  <2>4. ~Inward /\ Met(p) => Met(p)'
    BY <2>1, <2>3, AwaySteps, MetStays DEF CInv
  <2>5. ASSUME Acknowledge, op = Head(todo), op \in ToSet(outbox) PROVE Met(p)'
    <3>1. pc = "ack" /\ ~Inward
      BY <2>5 DEF Acknowledge, Strike, Inward
    <3>2. ASSUME NEW x \in Carriers, x.path = p, x.id > op.id PROVE FALSE
      <4>1. x.id <= op.id
        BY <2>1, <3>2 DEF CInv, Newest
      <4>2. x.id \in 1 .. edits /\ op.id \in 1 .. edits /\ edits \in Nat
        BY <2>5, CarriedTypes DEF CInv, Carriers
      <4> QED
        BY <3>2, <4>1, <4>2
    <3>3. Met(p)
      BY <2>5, <3>1, <3>2 DEF CInv, Striking
    <3> QED
      BY <2>4, <3>1, <3>3
  <2> HIDE DEF op, p
  <2>6. op \in ToSet(outbox') \/ Met(p)'
    BY <2>2, <2>4, <2>5, OutboxSteps
  <2> QED
    BY <1>2, <2>6 DEF op, p
<1> QED
  BY <1>1, <1>2, OwnSteps

(* How a line comes to be struck out.                                      *)
LEMMA StrikingSteps ==
  ASSUME IInv, OneEach, Next, pc' = "ack"
  PROVE  NextPut \/ Push \/ (Outer /\ UNCHANGED <<pc, tickVars>>)
<1>1. \/ StartTick \/ RetryFailed \/ Hydrate \/ DrainSnapshot \/ NextDelete \/ ReadBody \/ Acknowledge
      \/ RefreshProcessed \/ DrainEnds \/ OutboxEmptyOrAgain \/ ListForRebuild \/ Rebuild \/ Fetch
      \/ EndTick \/ TickFails \/ Crash
      => FALSE
  BY DEF StartTick, RetryFailed, Hydrate, DrainSnapshot, NextDelete, ReadBody, Acknowledge, Strike,
         RefreshProcessed, DrainEnds, OutboxEmptyOrAgain, ListForRebuild, Rebuild, Fetch, FetchAbove,
         EndTick, TickFails, Crash, Idle
<1>2. ASSUME NEW line \in inbox, Reading(line) \/ AdvanceUnsaved(line) PROVE FALSE
  BY <1>2 DEF Reading, DropLine, Applying, ApplyDelete, WriteBody, WriteUnless, Download, Advance,
              AdvanceTo, RewriteInbox, AdvanceUnsaved, Idle
<1>3. Outer => UNCHANGED <<pc, tickVars>>
  BY OuterSteps
<1>4. (\E p \in Paths : Save(p) \/ Erase(p)) \/ Enqueueing \/ AppendOutbox(FALSE) \/ RemoteChange => Outer
  BY DEF Enqueueing, Outer
<1>5. Ticking => NextPut \/ Push
  BY <1>1, <1>2 DEF Ticking, Reading
<1> QED
  BY <1>1, <1>2, <1>3, <1>4, <1>5 DEF Next

(* A line that is struck out has been answered, or has a successor.        *)
LEMMA StrikingKept ==
  ASSUME IInv, OneEach, Prompt, LocalOps \subseteq {"put"}, CInv, Next
  PROVE  Striking'
<1> DEFINE h == Head(todo)
<1> SUFFICES ASSUME pc' = "ack"
             PROVE  \/ Met(Head(todo).path)'
                    \/ \E op \in Carriers' : op.path = Head(todo').path /\ op.id > Head(todo').id
  BY DEF Striking
<1>1. todo' = todo /\ todo # <<>> /\ todo \in Seq(OpsAt(Tip(files), edits))
  BY PushingSteps DEF IInv, Typed, Queues
<1>2. h \in OpsAt(Tip(files), edits) /\ h \in ToSet(todo)
  BY <1>1, Elements
<1>3. h.path \in Paths /\ h.id \in 1 .. edits /\ edits \in Nat /\ h.op = "put"
  BY <1>2, CarriedTypes, CarriedPuts DEF CInv
<1>4. Head(todo') = h
  BY <1>1
<1>5. PICK p \in Paths : p = h.path
  BY <1>3
<1> SUFFICES Met(p)' \/ \E op \in Carriers' : op.path = p /\ op.id > h.id
  <2>1. Head(todo').path = p
    BY <1>4, <1>5
  <2>2. Met(p)' => Met(Head(todo).path)'
    BY <2>1 DEF Met
  <2> QED
    BY <1>4, <1>5, <2>2
<1> HIDE DEF h
<1>6. ASSUME NextPut PROVE Met(p)'
  <2>1. disk[p] = NoContent /\ UNCHANGED <<files, disk, revision, lost, dead>>
    BY <1>5, <1>6 DEF NextPut, diskVars, ghosts, h
  <2>2. Met(p)
    BY <2>1 DEF CInv, Covered, Local
  <2> QED
    BY <2>1, <2>2 DEF Met
<1>7. ASSUME Push PROVE Met(p)'
  <2>1. /\ pc = "push" /\ revision' = revision
        /\ \/ p \in dead'
           \/ files' = Uploaded(files, p, body)
    BY <1>3, <1>5, <1>7 DEF Push, Send, h
  <2>2. body \in Contents
    BY <1>3, <2>1 DEF IInv, Typed, InHand, h
  <2>3. CASE p \in dead'
    BY <2>3 DEF Met
  <2>4. CASE files' = Uploaded(files, p, body)
    <3> DEFINE u == Uploaded(files, p, body)
    <3>1. files \in Table /\ u \in Table /\ u[p].rev > Tip(files)
      BY <2>2, Uploading DEF IInv
    <3>2. Tip(files) \in Nat /\ revision \in Nat /\ revision <= Tip(files)
      BY <3>1, TipIsGreatest DEF IInv, Typed, Cursor
    <3> HIDE DEF u
    <3>3. u[p].rev \in Nat
      BY <3>1 DEF Table, Row
    <3>4. ~(u[p].rev <= revision)
      BY <3>1, <3>2, <3>3
    <3>5. files' = u
      BY <2>4 DEF u
    <3> QED
      BY <2>1, <3>4, <3>5 DEF Met
  <2> QED
    BY <2>1, <2>3, <2>4
<1>8. ASSUME Outer, UNCHANGED <<pc, tickVars>>
      PROVE  Met(p)' \/ \E op \in Carriers' : op.path = p /\ op.id > h.id
  <2>1. pc = "ack" /\ ~Inward
    BY <1>8 DEF Inward
  <2>2. CASE Save(p)
    BY <1>3, <2>2, SavedIsLocal
  <2>3. CASE Met(p) /\ ~Save(p)
    BY <2>1, <2>3, AwaySteps, MetStays DEF CInv
  <2>4. ASSUME NEW x \in Carriers, x.path = p, x.id > h.id, ~Save(p)
        PROVE  Met(p)' \/ \E op \in Carriers' : op.path = p /\ op.id > h.id
    <3>1. x.id \in 1 .. edits /\ x.id # 0
      BY CarriedTypes DEF CInv
    <3>2. ~Crash /\ ~Acknowledge /\ ~RetryFailed
      BY <2>1 DEF Crash, Idle, Acknowledge, Strike, RetryFailed
    <3>3. ASSUME NEW s \in Own, RefreshPending(s), p = s.op.path
          PROVE  Met(p)' \/ \E op \in Carriers' : op.path = p /\ op.id > h.id
      <4>1. s \in refreshes /\ s.op.id # 0 /\ s.ok \in BOOLEAN /\ s.op \in OpsAt(Tip(files), edits)
        BY <3>3, RefreshShape DEF Own
      <4>2. ~s.ok => s.op \in failed'
        BY <3>3, <4>1, RefreshShape
      <4>3. outbox' = outbox
        BY <3>3 DEF RefreshPending, diskVars
      <4>4. s.op.id > h.id
        <5>1. s.op \in Running
          BY DEF Running
        <5>2. x.id <= s.op.id
          BY <2>4, <3>3, <5>1 DEF CInv, Newest
        <5>3. s.op.id \in 1 .. edits
          BY <4>1 DEF OpsAt
        <5> QED
          BY <1>3, <2>4, <3>1, <5>2, <5>3
      <4>5. s.op \in failed' \cup ToSet(outbox') => s.op \in Carriers'
        BY DEF Carriers, Volatile
      <4>6. CASE ~s.ok
        BY <3>3, <4>2, <4>4, <4>5, <4>6
      <4>7. CASE s.ok
        <5>1. s.op \in ToSet(outbox) \/ Met(p)
          BY <3>3, <4>7 DEF CInv, Looking
        <5> QED
          BY <2>3, <2>4, <3>3, <4>3, <4>4, <4>5, <5>1
      <4> QED
        BY <4>1, <4>6, <4>7
    <3>4. x \in Carriers' => \E op \in Carriers' : op.path = p /\ op.id > h.id
      BY <2>4
    <3> QED
      BY <2>4, <3>1, <3>2, <3>3, <3>4, CarrierLeaves
  <2> QED
    BY <1>5, <2>1, <2>2, <2>3, <2>4 DEF CInv, Striking, h
<1> QED
  BY <1>6, <1>7, <1>8, StrikingSteps

(* The cursor passes a row with the vault.                                 *)
LEMMA CoveredByAdvance ==
  ASSUME IInv, OneEach, CInv, Next, NEW line \in inbox, IsFirst(line), pc = "advance",
         revision' = line.rev, UNCHANGED <<files, disk, lost, dead>>, NEW p \in Paths
  PROVE  Met(p) => Met(p)' \/ Local(p)
<1>1. /\ revision \in Nat /\ line.rev \in Nat /\ line.rev > revision
      /\ files[p].rev \in Nat
  <2>1. files \in Table /\ inbox \subseteq LinesAt(Tip(files))
    BY DEF IInv, Typed, Cursor
  <2> QED
    BY <2>1, TipIsGreatest DEF Table, Row, LinesAt, IInv, Typed, Cursor, InHand
<1>2. CASE files[p].rev <= revision
  BY <1>1, <1>2 DEF Met
<1>3. CASE files[p].rev > line.rev
  BY <1>1, <1>3 DEF Met
<1>4. CASE revision < files[p].rev /\ files[p].rev <= line.rev
  <2>1. InboxLine(files, p) \in inbox
    BY <1>4 DEF CInv, Whole, Inward
  <2>2. InboxLine(files, p).rev = files[p].rev /\ InboxLine(files, p).path = p
    BY DEF InboxLine
  <2>3. files[p].rev = line.rev
    BY <1>1, <1>4, <2>1, <2>2 DEF IsFirst
  <2>4. line = InboxLine(files, p)
    BY <2>3 DEF CInv, Lines
  <2>5. p \notin lost \cup dead => disk[p] = files[p].content \/ Local(p)
    BY <2>2, <2>3, <2>4 DEF CInv, Applied
  <2> QED
    BY <2>5 DEF Met
<1> QED
  BY <1>1, <1>2, <1>3, <1>4

(* What an inbound change does to the vault does not undo what the cursor  *)
(* has passed: what it removes is gone on the server, too.                 *)
LEMMA CoveredByApplying ==
  ASSUME IInv, CInv, NEW line \in inbox, Applying(line), NEW p \in Paths
  PROVE  /\ UNCHANGED <<files, revision, lost, dead>>
         /\ disk'[p] = disk[p] \/ Met(p)'
<1>1. UNCHANGED <<files, revision, lost, dead>> /\ IsFirst(line)
  BY ReadingSteps DEF Reading, Applying, ApplyDelete, WriteBody, WriteUnless
<1>2. /\ revision \in Nat /\ line.rev \in Nat /\ line.rev > revision /\ line.path \in Paths
      /\ \A q \in Paths : files[q].rev \in Nat
      /\ line.rev <= files[line.path].rev
  <2>1. files \in Table /\ inbox \subseteq LinesAt(Tip(files))
    BY DEF IInv, Typed, Cursor
  <2>2. line.rev > revision
    BY DEF IInv, Typed, InHand, Applying, ApplyDelete, WriteBody, WriteUnless
  <2>3. line.rev <= files[line.path].rev
    BY DEF CInv, Lines
  <2> QED
    BY <2>1, <2>2, <2>3, TipIsGreatest DEF Table, Row, LinesAt, IInv, Typed, Cursor
<1>3. ASSUME files[p].live => files[p].rev > revision, disk'[p] = NoContent PROVE Met(p)'
  BY <1>1, <1>2, <1>3 DEF Met, CInv, Consistent
<1>4. ASSUME p = line.path PROVE Met(p)'
  BY <1>1, <1>2, <1>4 DEF Met
<1>5. CASE ApplyDelete(line)
  <2>1. disk'[p] = IF p \in {line.path} \cup Below(line.path) THEN NoContent ELSE disk[p]
    BY <1>5 DEF ApplyDelete
  <2>2. ASSUME p \in Below(line.path), files[p].live PROVE files[p].rev > revision
    <3>1. <<p, line.path>> \in Under
      BY <2>2 DEF Below
    <3>2. ~files[line.path].live
      BY <1>2, <2>2, <3>1 DEF CInv, Consistent, Antichain
    <3>3. files[line.path].rev < files[p].rev
      BY <1>2, <2>2, <3>1, <3>2 DEF CInv, Consistent, TombstonesFirst
    <3> QED
      BY <1>2, <3>3
  <2> QED
    BY <1>1, <1>3, <1>4, <2>1, <2>2
<1>6. CASE WriteBody(line)
  <2>1. \/ disk'[p] = disk[p] \/ p = line.path
        \/ p \in Above(line.path) /\ disk'[p] = NoContent
    BY <1>6 DEF WriteBody, WriteUnless
  <2>2. p \in Above(line.path) /\ files[p].live => files[p].rev > revision
    BY <1>1, <1>6 DEF CInv, Downloaded, WriteBody, WriteUnless
  <2> QED
    BY <1>1, <1>3, <1>4, <2>1, <2>2
<1> QED
  BY <1>1, <1>5, <1>6 DEF Applying

(* Every row up to the cursor is in the vault, or is about to be replaced. *)
LEMMA CoveredKept ==
  ASSUME IInv, OneEach, CInv, LocalOps \subseteq {"put"}, Next
  PROVE  Covered'
<1> SUFFICES ASSUME NEW p \in Paths PROVE Met(p)' \/ Local(p)'
  BY DEF Covered
<1>1. Met(p) \/ Local(p)
  BY DEF CInv, Covered
<1>2. p \in lost' => Met(p)'
  BY DEF Met
<1>3. ASSUME Local(p), disk'[p] = disk[p] PROVE Met(p)' \/ Local(p)'
  <2>1. Carries(p)' => Local(p)'
    BY <1>3 DEF Local
  <2> QED
    BY <1>2, <1>3, <2>1, PathStays DEF Local
<1>4. ASSUME disk'[p] = disk[p], revision' <= revision PROVE Met(p)' \/ Local(p)'
  BY <1>1, <1>3, <1>4, MetStays DEF CInv
<1>5. CASE Save(p)
  BY <1>5, SavedIsLocal
<1>6. ASSUME NEW line \in inbox, IsFirst(line), pc = "advance", revision' = line.rev,
             UNCHANGED <<files, disk, lost, dead>>
      PROVE  Met(p)' \/ Local(p)'
  BY <1>1, <1>3, <1>6, CoveredByAdvance
<1>7. ASSUME NEW line \in inbox, Reading(line) PROVE Met(p)' \/ Local(p)'
  <2>1. IsFirst(line) /\ UNCHANGED <<files, lost, dead>>
    BY <1>7, ReadingSteps
  <2>2. revision \in Nat
    BY TipIsGreatest DEF IInv, Typed, Cursor
  <2>3. CASE UNCHANGED <<disk, revision>>
    BY <1>4, <2>2, <2>3
  <2>4. CASE Applying(line)
    <3>1. revision' = revision /\ (disk'[p] = disk[p] \/ Met(p)')
      BY <2>4, CoveredByApplying
    <3> QED
      BY <1>4, <2>2, <3>1
  <2>5. CASE pc = "advance" /\ revision' = line.rev /\ UNCHANGED disk
    BY <1>6, <2>1, <2>5
  <2> QED
    BY <1>7, <2>3, <2>4, <2>5, ReadingSteps
<1>8. CASE ~Inward /\ ~Save(p)
  BY <1>4, <1>8, AwaySteps
<1>9. CASE Inward /\ ~(\E line \in inbox : Reading(line)) /\ ~Save(p)
  <2>1. disk'[p] = disk[p]
    <3>1. \A line \in inbox : ~Applying(line)
      BY <1>9 DEF Reading
    <3>2. disk \in [Paths -> Contents \cup {NoContent}]
      BY DEF IInv, Typed, Plain
    <3>3. \A q \in Paths : ~Erase(q) /\ (Save(q) => disk'[p] = disk[p] \/ Save(p))
      BY <3>2 DEF Erase, Save
    <3> QED
      BY <1>9, <3>1, <3>3, VaultSteps
  <2>2. revision \in Nat /\ saved \in Nat /\ saved <= revision
    BY TipIsGreatest DEF IInv, Typed, Cursor
  <2>3. Crash => revision' = saved
    BY DEF Crash
  <2>4. CASE revision' <= revision
    BY <1>4, <2>1, <2>4
  <2> QED
    BY <1>6, <1>9, <2>2, <2>3, <2>4, CursorSteps
<1> QED
  BY <1>5, <1>7, <1>8, <1>9

(* The invariant at the start.                                             *)
LEMMA CInvInitially == Init => CInv
<1> SUFFICES ASSUME Init PROVE CInv
  OBVIOUS
<1>1. /\ \A p \in Paths : files[p] = NoRow /\ disk[p] = NoContent
      /\ ToSet(outbox) = {} /\ ToSet(appends) = {} /\ ToSet(todo) = {}
      /\ inbox = {} /\ basing = {} /\ refreshes = {} /\ failed = {} /\ pc = "idle"
  BY DEF Init, ToSet
<1>2. Carriers = {} /\ Running = {} /\ Own = {}
  BY <1>1 DEF Carriers, Volatile, Running, Own
<1>3. \A p \in Paths : files[p].rev = 0 /\ ~files[p].live /\ files[p].content = NoContent
  BY <1>1 DEF NoRow
<1>4. Covered
  BY <1>1, <1>3 DEF Covered, Met
<1>5. Consistent(files)
  BY <1>3 DEF Consistent, Antichain, TombstonesFirst, RevisionsUnique
<1>6. OnlyPuts /\ Newest /\ Looking
  BY <1>1, <1>2 DEF OnlyPuts, Newest, Looking
<1>7. Lines /\ Whole /\ Rewriting /\ Downloaded /\ Applied /\ Waiting /\ Striking
  BY <1>1 DEF Lines, Whole, Rewriting, Downloaded, Applied, Waiting, Striking, Inward
<1> QED
  BY <1>4, <1>5, <1>6, <1>7 DEF CInv

(* Every step keeps it.                                                    *)
LEMMA CInvKept ==
  ASSUME IInv, GInv, Prompt, LocalOps \subseteq {"put"}, CInv, [Next]_vars
  PROVE  CInv'
<1>1. CASE Next
  <2>1. OneEach /\ Consistent(files) /\ Lines /\ Whole /\ Rewriting /\ OnlyPuts /\ Waiting /\ Newest
    BY DEF GInv, CInv
  <2>2. Consistent(files)'
    BY <1>1, <2>1, RowsRise
  <2>3. Covered' /\ OnlyPuts' /\ Newest'
    BY <1>1, <2>1, CoveredKept, OnlyPutsKept, NewestKept
  <2>4. Lines' /\ Whole' /\ Rewriting'
    BY <1>1, <2>1, LinesKept, WholeKept, RewritingKept
  <2>5. Downloaded' /\ Applied'
    BY <1>1, DownloadedKept, AppliedKept
  <2>6. Waiting'
    <3>1. CASE Inward'
      BY <1>1, <2>1, <3>1, WaitingKept
    <3>2. CASE ~Inward'
      BY <3>2 DEF Waiting
    <3> QED
      BY <3>1, <3>2
  <2>7. Looking' /\ Striking'
    BY <1>1, <2>1, LookingKept, StrikingKept
  <2> QED
    BY <2>2, <2>3, <2>4, <2>5, <2>6, <2>7 DEF CInv
<1>2. CASE UNCHANGED vars
  <2>1. UNCHANGED <<files, disk, outbox, inbox, revision, dead, pending, basing, appends, refreshes,
                    failed, pc, todo, body, lost>>
    BY <1>2 DEF vars, diskVars, queueVars, tickVars, ghosts
  <2>2. Carriers' = Carriers /\ Running' = Running /\ Own' = Own
    BY <2>1 DEF Carriers, Volatile, Running, Own
  <2>3. Covered'
    BY <2>1, <2>2 DEF CInv, Covered, Met, Local, Carries
  <2>4. OnlyPuts' /\ Newest'
    BY <2>1, <2>2 DEF CInv, OnlyPuts, Newest
  <2>5. Consistent(files)' /\ Lines' /\ Rewriting'
    BY <2>1 DEF CInv, Lines, Rewriting
  <2>6. Whole'
    BY <2>1 DEF CInv, Whole, Inward
  <2>7. Downloaded' /\ Applied'
    BY <2>1, <2>2 DEF CInv, Downloaded, Applied, IsFirst, Local, Carries
  <2>8. Waiting' /\ Looking' /\ Striking'
    BY <2>1, <2>2 DEF CInv, Waiting, Inward, OutboxPaths, Counted, Refreshed, PathsOf, Looking,
                      Striking, Met
  <2> QED
    BY <2>3, <2>4, <2>5, <2>6, <2>7, <2>8 DEF CInv
<1> QED
  BY <1>1, <1>2

(* engine.ts:96, "The revision cursor advances only when inbox lines are   *)
(* applied": engine.ts and inbox.ts pass no change of the server that the  *)
(* vault did not take, whatever crashes, failures and nested paths there   *)
(* are, when the user saves but does not delete and the short reads of     *)
(* local files end before the tick's next answer.                          *)
THEOREM NothingBehindCursorHolds ==
  Prompt /\ LocalOps \subseteq {"put"} => (Spec => []NothingBehindCursor)
<1> SUFFICES ASSUME Prompt, LocalOps \subseteq {"put"} PROVE Spec => []NothingBehindCursor
  OBVIOUS
<1>1. IInv /\ GInv /\ CInv /\ [Next]_vars => CInv'
  BY CInvKept
<1>2. CInv => NothingBehindCursor
  <2> SUFFICES ASSUME CInv, NEW p \in Paths \ (Outgoing \cup lost \cup dead), files[p].rev <= revision
               PROVE  disk[p] = files[p].content
    BY DEF NothingBehindCursor
  <2>1. ~Carries(p)
    BY DEF Carries, Carriers, Outgoing, OutboxPaths, PathsOf
  <2> QED
    BY <2>1 DEF CInv, Covered, Met, Local
<1> QED
  BY <1>1, <1>2, CInvInitially, IInvHolds, GInvHolds, PTL DEF Spec
=============================================================================
