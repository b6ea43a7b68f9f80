--------------------------- MODULE MassPushProofs ---------------------------
(* Whose word turns the guard off, for every limit, window and number of   *)
(* paths, changes, failures and crashes.                                   *)
EXTENDS MassPush, TLAPS, FiniteSetTheorems, FunctionTheorems, WellFoundedInduction

(* An approval that a person has given is in the file until it is consumed *)
(* and in the guard until its batch is out.                                *)
IInv ==
  /\ approved \in BOOLEAN /\ file \in BOOLEAN /\ granted \in BOOLEAN
  /\ file => granted
  /\ approved => granted

(* Nothing is approved at the start. *)
LEMMA InitInv == Init => IInv
BY DEF Init, IInv

(* A check, tripped or not, only moves the approval into the guard. *)
LEMMA CheckedInv ==
  ASSUME IInv, NEW d, NEW p, Checked(d, p), granted' = granted
  PROVE  IInv'
BY DEF IInv, Checked, ConsumeApproval

(* Every step keeps the invariant. *)
LEMMA StepInv == IInv /\ [Next]_vars => IInv'
<1> SUFFICES ASSUME IInv, [Next]_vars PROVE IInv'
  OBVIOUS
<1>1. ASSUME NEW op \in Op, Change(op) PROVE IInv'
  BY <1>1 DEF IInv, Change, guard, history
<1>2. CASE Tick
  BY <1>2 DEF IInv, Tick, guard, history
<1>3. CASE Approve
  BY <1>3 DEF IInv, Approve, guard
<1>4. CASE Start
  BY <1>4 DEF IInv, Start, guard, history
<1>5. CASE Resume
  <2>1. PICK d, p : Checked(d, p)
    BY <1>5 DEF Resume
  <2>2. granted' = granted
    BY <1>5 DEF Resume, history
  <2> QED
    BY <2>1, <2>2, CheckedInv
<1>6. CASE Adopt
  BY <1>6 DEF IInv, Adopt, guard, history
<1>7. CASE Seed
  BY <1>7 DEF IInv, Seed
<1>8. CASE StartTick
  <2>1. granted' = granted
    BY <1>8 DEF StartTick, history
  <2>2. CASE outbox = <<>>
    BY <1>8, <2>1, <2>2 DEF IInv, StartTick, guard
  <2>3. CASE outbox # <<>>
    BY <1>8, <2>1, <2>3, CheckedInv DEF StartTick
  <2> QED
    BY <2>2, <2>3
<1>9. CASE Push
  BY <1>9 DEF IInv, Push
<1>10. CASE Drop
  BY <1>10 DEF IInv, Drop, guard, history
<1>11. CASE PushFails
  BY <1>11 DEF IInv, PushFails, guard, history
<1>12. CASE EndDrain
  <2>1. approved' = FALSE
    BY <1>12 DEF EndDrain, Emptied, guard, IInv
  <2> QED
    BY <1>12, <2>1 DEF IInv, EndDrain
<1>13. CASE Crash
  BY <1>13 DEF IInv, Crash
<1>14. CASE UNCHANGED vars
  BY <1>14 DEF IInv, vars, guard, history
<1> QED
  BY <1>1, <1>2, <1>3, <1>4, <1>5, <1>6, <1>7, <1>8, <1>9, <1>10, <1>11, <1>12, <1>13, <1>14
  DEF Next, Running

(* An approval in the guard or in the file is one that a person has given  *)
(* and that has not covered its batch (consume_approval and                *)
(* outbox_emptied).                                                        *)
THEOREM ApprovalInvariant == Spec => []IInv
BY InitInv, StepInv, PTL DEF Spec

(* The guard is off only for what a person has approved since the last     *)
(* batch.                                                                  *)
THEOREM OnlyAPersonApprovesHolds == Spec => []OnlyAPersonApproves
<1>1. IInv => OnlyAPersonApproves
  BY DEF IInv, OnlyAPersonApproves
<1> QED
  BY <1>1, ApprovalInvariant, PTL
-----------------------------------------------------------------------------
(* The limits.  What the guard remembers covers every push of the last     *)
(* Window that nobody approved, and while a batch goes out unapproved what *)
(* is remembered and what still waits keep to the limits together.         *)

Stamp == [op : {"put", "delete"}, path : Paths, at : Nat]

Typed ==
  /\ outbox \in Seq(Op) /\ offline \subseteq Op
  /\ recent \in Seq(Stamp) /\ pushed \in Seq(Stamp)
  /\ now \in Nat /\ earlier \in Nat

PutPaths(s) == {s[i].path : i \in {k \in DOMAIN s : s[k].op = "put"}}

(* The guard forgets from the front only, so that what it still has of the *)
(* unapproved pushes of this run is at the end of its list.                *)
Recorded ==
  ~granted =>
    \A j \in earlier + 1 .. Len(pushed) :
      now - pushed[j].at <= Window =>
        /\ j + Len(recent) - Len(pushed) \in DOMAIN recent
        /\ recent[j + Len(recent) - Len(pushed)] = pushed[j]

KeepsTo(old, waiting) ==
  /\ CountOf(old, "delete") + CountOf(waiting, "delete") <= MaxDeletes
  /\ Cardinality(PutPaths(old) \cup PutPaths(waiting)) <= MaxPuts

Draining ==
  pc = "drain" /\ ~granted /\ outbox # <<>> => KeepsTo(recent, outbox)

LInv == Typed /\ Recorded /\ Draining /\ WithinLimits

(* Every set of natural numbers that is not empty has a least one.         *)
LEMMA Least ==
  ASSUME NEW S \in SUBSET Nat, S # {}
  PROVE  \E m \in S : \A n \in S : m <= n
<1> DEFINE R == {ss \in Nat \X Nat : ss[1] < ss[2]}
<1>1. IsWellFoundedOn(R, Nat)
  BY NatLessThanWellFounded DEF OpToRel
<1> HIDE DEF R
<1>2. PICK m \in S : \A n \in S : <<n, m>> \notin R
  BY <1>1, WFMin
<1>3. m \in Nat
  BY <1>2
<1>4. ASSUME NEW n \in S PROVE m <= n
  <2>1. n \in Nat /\ <<n, m>> \notin R
    BY <1>2, <1>4
  <2>2. ~(n < m)
    BY <1>3, <2>1 DEF R
  <2> QED
    BY <1>3, <2>1, <2>2
<1> QED
  BY <1>2, <1>4

(* Every bounded one has a greatest.                                       *)
LEMMA Greatest ==
  ASSUME NEW S \in SUBSET Nat, S # {}, NEW b \in Nat, \A s \in S : s <= b
  PROVE  \E m \in S : \A n \in S : n <= m
<1> DEFINE T == {b - s : s \in S}
<1>1. T \in SUBSET Nat /\ T # {}
  <2>1. \A s \in S : b - s \in Nat
    OBVIOUS
  <2> QED
    BY <2>1
<1>2. PICK t \in T : \A u \in T : t <= u
  <2> HIDE DEF T
  <2> QED
    BY <1>1, Least
<1>3. PICK m \in S : t = b - m
  BY <1>2
<1>4. ASSUME NEW n \in S PROVE n <= m
  <2>1. b - m <= b - n
    BY <1>2, <1>3, <1>4
  <2> QED
    BY <2>1, <1>3, <1>4
<1> QED
  BY <1>3, <1>4

(* Min is the least number of its set.                                     *)
LEMMA MinLeast ==
  ASSUME NEW S \in SUBSET Nat, S # {}
  PROVE  Min(S) \in S /\ \A n \in S : Min(S) <= n
BY Least DEF Min

(* What check leaves of the list is its end, and nothing of the window is  *)
(* lost.                                                                   *)
LEMMA WithinSuffix ==
  ASSUME NEW s \in Seq(Stamp), NEW t \in Nat
  PROVE  /\ Within(s, t) \in Seq(Stamp)
         /\ \A i \in DOMAIN s : t - s[i].at <= Window =>
              /\ i + Len(Within(s, t)) - Len(s) \in DOMAIN Within(s, t)
              /\ Within(s, t)[i + Len(Within(s, t)) - Len(s)] = s[i]
<1> DEFINE fresh == {i \in DOMAIN s : t - s[i].at <= Window}
<1>1. CASE fresh = {}
  BY <1>1 DEF Within
<1>2. CASE fresh # {}
  <2> DEFINE m == Min(fresh)
  <2>1. fresh \in SUBSET Nat /\ fresh \subseteq 1 .. Len(s) /\ Len(s) \in Nat
    OBVIOUS
  <2>2. m \in fresh /\ \A i \in fresh : m <= i
    <3> HIDE DEF fresh
    <3> QED
      BY <1>2, <2>1, MinLeast
  <2>3. m \in 1 .. Len(s)
    BY <2>1, <2>2
  <2>4. Within(s, t) = SubSeq(s, m, Len(s))
    BY <1>2 DEF Within
  <2> HIDE DEF m, fresh
  <2>5. /\ SubSeq(s, m, Len(s)) \in Seq(Stamp)
        /\ Len(SubSeq(s, m, Len(s))) = Len(s) - m + 1
        /\ \A i \in 1 .. Len(s) - m + 1 : SubSeq(s, m, Len(s))[i] = s[m + i - 1]
    BY <2>3
  <2>6. ASSUME NEW i \in fresh
        PROVE  /\ i + Len(Within(s, t)) - Len(s) \in DOMAIN Within(s, t)
               /\ Within(s, t)[i + Len(Within(s, t)) - Len(s)] = s[i]
    <3>1. i \in m .. Len(s)
      BY <2>1, <2>2
    <3>2. i + Len(Within(s, t)) - Len(s) = i - m + 1
      BY <2>1, <2>3, <2>4, <2>5, <3>1
    <3>3. i - m + 1 \in 1 .. Len(s) - m + 1 /\ m + (i - m + 1) - 1 = i
      BY <2>1, <2>3, <3>1
    <3> QED
      BY <2>4, <2>5, <3>2, <3>3
  <2> QED
    BY <2>4, <2>5, <2>6 DEF fresh
<1> QED
  BY <1>1, <1>2

Entry == Op \cup Stamp
OfKind(s, kind) == {i \in DOMAIN s : s[i].op = kind}

(* What the model counts is a number.                                      *)
LEMMA CountType ==
  ASSUME NEW s \in Seq(Entry), NEW kind
  PROVE  /\ OfKind(s, kind) \subseteq 1 .. Len(s) /\ IsFiniteSet(OfKind(s, kind))
         /\ CountOf(s, kind) = Cardinality(OfKind(s, kind))
         /\ CountOf(s, kind) \in Nat
<1>1. OfKind(s, kind) \subseteq 1 .. Len(s) /\ Len(s) \in Nat
  BY DEF OfKind
<1>2. IsFiniteSet(1 .. Len(s))
  <2>1. 1 \in Int /\ Len(s) \in Int
    BY <1>1
  <2> QED
    BY <2>1, FS_Interval
<1>3. IsFiniteSet(OfKind(s, kind))
  BY <1>1, <1>2, FS_Subset
<1>4. CountOf(s, kind) = Cardinality(OfKind(s, kind))
  BY DEF CountOf, OfKind
<1> QED
  BY <1>1, <1>3, <1>4, FS_CardinalityType

(* One operation more at the end.                                          *)
LEMMA CountAppend ==
  ASSUME NEW s \in Seq(Entry), NEW e \in Entry, NEW kind
  PROVE  CountOf(Append(s, e), kind) = CountOf(s, kind) + (IF e.op = kind THEN 1 ELSE 0)
<1> DEFINE t == Append(s, e)
<1>1. /\ t \in Seq(Entry) /\ DOMAIN t = 1 .. Len(s) + 1 /\ DOMAIN s = 1 .. Len(s)
      /\ \A i \in 1 .. Len(s) : t[i] = s[i]
      /\ t[Len(s) + 1] = e /\ Len(s) \in Nat
  OBVIOUS
<1> HIDE DEF t
<1>2. /\ OfKind(s, kind) \subseteq 1 .. Len(s) /\ IsFiniteSet(OfKind(s, kind))
      /\ CountOf(s, kind) = Cardinality(OfKind(s, kind)) /\ CountOf(s, kind) \in Nat
  BY CountType
<1>3. CountOf(t, kind) = Cardinality(OfKind(t, kind))
  BY <1>1, CountType
<1>4. CASE e.op = kind
  <2>1. OfKind(t, kind) = OfKind(s, kind) \cup {Len(s) + 1}
    BY <1>1, <1>4 DEF OfKind
  <2>2. Len(s) + 1 \notin OfKind(s, kind)
    BY <1>1, <1>2
  <2>3. Cardinality(OfKind(t, kind)) = Cardinality(OfKind(s, kind)) + 1
    BY <1>2, <2>1, <2>2, FS_AddElement
  <2> QED
    BY <1>2, <1>3, <1>4, <2>3 DEF t
<1>5. CASE e.op # kind
  <2>1. OfKind(t, kind) = OfKind(s, kind)
    BY <1>1, <1>5 DEF OfKind
  <2> QED
    BY <1>2, <1>3, <1>5, <2>1 DEF t
<1> QED
  BY <1>4, <1>5

(* One less at the front.                                                  *)
LEMMA CountTail ==
  ASSUME NEW s \in Seq(Entry), s # <<>>, NEW kind
  PROVE  CountOf(s, kind) = CountOf(Tail(s), kind) + (IF Head(s).op = kind THEN 1 ELSE 0)
<1> DEFINE t == Tail(s)
           rest == OfKind(s, kind) \ {1}
           f == [i \in OfKind(t, kind) |-> i + 1]
<1>1. /\ t \in Seq(Entry) /\ Len(s) \in Nat \ {0} /\ Len(t) = Len(s) - 1
      /\ DOMAIN t = 1 .. Len(s) - 1 /\ DOMAIN s = 1 .. Len(s)
      /\ \A i \in 1 .. Len(s) - 1 : t[i] = s[i + 1]
      /\ Head(s) = s[1]
  OBVIOUS
<1> HIDE DEF t
<1>2. f \in Bijection(OfKind(t, kind), rest)
  <2>1. f \in [OfKind(t, kind) -> rest]
    BY <1>1 DEF OfKind
  <2>2. \A a, b \in OfKind(t, kind) : f[a] = f[b] => a = b
    BY <1>1 DEF OfKind
  <2>3. ASSUME NEW j \in rest PROVE \E i \in OfKind(t, kind) : f[i] = j
    <3>1. j - 1 \in OfKind(t, kind) /\ (j - 1) + 1 = j
      BY <1>1, <2>3 DEF OfKind
    <3> QED
      BY <3>1
  <2> QED
    BY <2>1, <2>2, <2>3, Fun_IsBij
<1>3. Cardinality(rest) = Cardinality(OfKind(t, kind))
  <2>1. IsFiniteSet(OfKind(t, kind))
    BY <1>1, CountType
  <2>2. ExistsBijection(OfKind(t, kind), rest)
    BY <1>2 DEF ExistsBijection
  <2> QED
    BY <2>1, <2>2, FS_Bijection
<1>4. Cardinality(rest) = Cardinality(OfKind(s, kind)) - (IF Head(s).op = kind THEN 1 ELSE 0)
  <2>1. 1 \in OfKind(s, kind) <=> Head(s).op = kind
    BY <1>1 DEF OfKind
  <2>2. IsFiniteSet(OfKind(s, kind)) /\ CountOf(s, kind) \in Nat
    BY CountType
  <2> HIDE DEF rest
  <2>3. Cardinality(rest) = IF 1 \in OfKind(s, kind) THEN Cardinality(OfKind(s, kind)) - 1
                            ELSE Cardinality(OfKind(s, kind))
    BY <2>2, FS_RemoveElement DEF rest
  <2> QED
    BY <2>1, <2>2, <2>3, CountType
<1>5. CountOf(t, kind) = Cardinality(OfKind(t, kind)) /\ CountOf(t, kind) \in Nat
  BY <1>1, CountType
<1>6. CountOf(s, kind) = Cardinality(OfKind(s, kind)) /\ CountOf(s, kind) \in Nat
  BY CountType
<1> QED
  <2> HIDE DEF rest
  <2>1. CountOf(t, kind) = CountOf(s, kind) - (IF Head(s).op = kind THEN 1 ELSE 0)
    BY <1>3, <1>4, <1>5, <1>6
  <2> QED
    BY <2>1, <1>5, <1>6 DEF t

(* The paths of the puts are some of the paths. *)
LEMMA PutPathsType ==
  ASSUME NEW s \in Seq(Entry)
  PROVE  PutPaths(s) \subseteq Paths /\ IsFiniteSet(PutPaths(s))
<1>1. PutPaths(s) \subseteq Paths
  BY DEF PutPaths, Entry, Op, Stamp
<1> QED
  BY <1>1, Limits, FS_Subset

(* A put at the end adds its path. *)
LEMMA PutPathsAppend ==
  ASSUME NEW s \in Seq(Entry), NEW e \in Entry
  PROVE  PutPaths(Append(s, e)) = PutPaths(s) \cup (IF e.op = "put" THEN {e.path} ELSE {})
<1> DEFINE t == Append(s, e)
<1>1. /\ DOMAIN t = 1 .. Len(s) + 1 /\ DOMAIN s = 1 .. Len(s)
      /\ \A i \in 1 .. Len(s) : t[i] = s[i]
      /\ t[Len(s) + 1] = e /\ Len(s) \in Nat
  OBVIOUS
<1> HIDE DEF t
<1>2. PutPaths(t) = PutPaths(s) \cup (IF e.op = "put" THEN {e.path} ELSE {})
  BY <1>1 DEF PutPaths
<1> QED
  BY <1>2 DEF t

(* A put at the front had its path. *)
LEMMA PutPathsTail ==
  ASSUME NEW s \in Seq(Entry), s # <<>>
  PROVE  PutPaths(s) = PutPaths(Tail(s)) \cup (IF Head(s).op = "put" THEN {Head(s).path} ELSE {})
<1> DEFINE t == Tail(s)
           put == IF Head(s).op = "put" THEN {Head(s).path} ELSE {}
<1>1. /\ Len(s) \in Nat \ {0}
      /\ DOMAIN t = 1 .. Len(s) - 1 /\ DOMAIN s = 1 .. Len(s)
      /\ \A i \in 1 .. Len(s) - 1 : t[i] = s[i + 1]
      /\ Head(s) = s[1]
  OBVIOUS
<1> HIDE DEF t
<1>2. ASSUME NEW p \in PutPaths(s) PROVE p \in PutPaths(t) \cup put
  <2>1. PICK i \in 1 .. Len(s) : s[i].op = "put" /\ p = s[i].path
    BY <1>1, <1>2 DEF PutPaths
  <2>2. CASE i = 1
    BY <1>1, <2>1, <2>2
  <2>3. CASE i # 1
    <3>1. i - 1 \in DOMAIN t /\ t[i - 1] = s[i]
      BY <1>1, <2>1, <2>3
    <3> QED
      BY <2>1, <3>1 DEF PutPaths
  <2> QED
    BY <2>2, <2>3
<1>3. ASSUME NEW p \in PutPaths(t) \cup put PROVE p \in PutPaths(s)
  <2>1. CASE p \in PutPaths(t)
    <3>1. PICK i \in 1 .. Len(s) - 1 : t[i].op = "put" /\ p = t[i].path
      BY <1>1, <2>1 DEF PutPaths
    <3>2. i + 1 \in DOMAIN s /\ t[i] = s[i + 1]
      BY <1>1
    <3> QED
      BY <3>1, <3>2 DEF PutPaths
  <2>2. CASE p \in put
    <3>1. 1 \in DOMAIN s /\ s[1].op = "put" /\ p = s[1].path
      BY <1>1, <2>2
    <3> QED
      BY <3>1 DEF PutPaths
  <2> QED
    BY <1>3, <2>1, <2>2
<1> HIDE DEF put
<1>4. PutPaths(s) = PutPaths(t) \cup put
  BY <1>2, <1>3
<1> QED
  BY <1>4 DEF t, put

(* There are no more paths of puts than puts. *)
LEMMA PathsOfPuts ==
  ASSUME NEW s \in Seq(Entry), NEW I \in SUBSET OfKind(s, "put"),
         \A p \in PutPaths(s) : \E i \in I : s[i].path = p
  PROVE  Cardinality(PutPaths(s)) <= Cardinality(I)
<1> DEFINE f == [i \in I |-> s[i].path]
<1>1. IsFiniteSet(I) /\ IsFiniteSet(PutPaths(s))
  BY CountType, FS_Subset, PutPathsType
<1>2. f \in [I -> PutPaths(s)]
  BY DEF OfKind, PutPaths
<1>3. \A p \in PutPaths(s) : \E i \in I : f[i] = p
  OBVIOUS
<1>4. f \in Surjection(I, PutPaths(s))
  <2> HIDE DEF f
  <2> QED
    BY <1>2, <1>3 DEF Surjection
<1> HIDE DEF f
<1> QED
  BY <1>1, <1>4, FS_Surjection

(* Coalescing leaves every delete, and of every path with a put one.       *)
LEMMA WaitingCovers ==
  ASSUME Typed
  PROVE  /\ Waiting("delete") = CountOf(outbox, "delete")
         /\ Cardinality(PutPaths(outbox)) <= Waiting("put")
         /\ Waiting("put") \in Nat
<1> DEFINE I == {i \in Coalesced(outbox) : outbox[i].op = "put"}
<1>1. outbox \in Seq(Entry) /\ outbox \in Seq(Op) /\ DOMAIN outbox = 1 .. Len(outbox) /\ Len(outbox) \in Nat
  BY DEF Typed, Entry
<1>2. Waiting("delete") = CountOf(outbox, "delete")
  <2>1. {i \in Coalesced(outbox) : outbox[i].op = "delete"}
         = {i \in DOMAIN outbox : outbox[i].op = "delete"}
    BY DEF Coalesced
  <2> QED
    BY <2>1 DEF Waiting, CountOf
<1>3. I \subseteq OfKind(outbox, "put")
  BY DEF Coalesced, OfKind
<1>4. ASSUME NEW p \in PutPaths(outbox) PROVE \E i \in I : outbox[i].path = p
  <2> DEFINE J == {i \in DOMAIN outbox : outbox[i].op = "put" /\ outbox[i].path = p}
  <2>1. J \in SUBSET Nat /\ J # {} /\ \A j \in J : j <= Len(outbox)
    BY <1>1, <1>4 DEF PutPaths
  <2>2. PICK m \in J : \A j \in J : j <= m
    <3> HIDE DEF J
    <3> QED
      BY <1>1, <2>1, Greatest
  <2>3. m \in 1 .. Len(outbox)
    BY <1>1, <2>2
  <2>4. ASSUME m < Len(outbox), outbox[m + 1] = outbox[m] PROVE FALSE
    <3>1. m + 1 \in J
      BY <1>1, <2>2, <2>3, <2>4
    <3> QED
      BY <2>2, <2>3, <3>1
  <2>5. m \in Coalesced(outbox)
    BY <2>2, <2>4 DEF Coalesced
  <2> QED
    BY <2>2, <2>5
<1>5. Waiting("put") = Cardinality(I)
  BY DEF Waiting
<1> HIDE DEF I
<1>6. Cardinality(PutPaths(outbox)) <= Waiting("put")
  BY <1>1, <1>3, <1>4, <1>5, PathsOfPuts
<1>7. Waiting("put") \in Nat
  <2>1. IsFiniteSet(OfKind(outbox, "put"))
    BY <1>1, CountType
  <2> QED
    BY <1>3, <1>5, <2>1, FS_Subset, FS_CardinalityType
<1> QED
  BY <1>2, <1>6, <1>7

(* A check that does not trip lets a batch go that keeps to the limits.    *)
LEMMA NotOver ==
  ASSUME Typed, ~OverLimit(Waiting("delete"), Waiting("put"))
  PROVE  KeepsTo(Within(recent, now), outbox)
<1> DEFINE old == Within(recent, now)
<1>1. old \in Seq(Entry) /\ outbox \in Seq(Entry)
  <2>1. old \in Seq(Stamp)
    BY WithinSuffix DEF Typed
  <2> HIDE DEF old
  <2> QED
    BY <2>1 DEF Typed, Entry
<1>2. /\ CountOf(old, "delete") \in Nat /\ CountOf(old, "put") \in Nat
      /\ CountOf(outbox, "delete") \in Nat
  <2> HIDE DEF old
  <2> QED
    BY <1>1, CountType
<1>3. /\ CountOf(outbox, "delete") + CountOf(old, "delete") <= MaxDeletes
      /\ Waiting("put") + CountOf(old, "put") <= MaxPuts
  <2>1. /\ ~(Waiting("delete") + CountOf(old, "delete") > MaxDeletes)
        /\ ~(Waiting("put") + CountOf(old, "put") > MaxPuts)
    BY DEF OverLimit
  <2> HIDE DEF old
  <2>2. MaxDeletes \in Nat /\ MaxPuts \in Nat
    BY Limits
  <2> QED
    BY <1>2, <2>1, <2>2, WaitingCovers
<1> HIDE DEF old
<1>4. Cardinality(PutPaths(old)) <= CountOf(old, "put")
  <2>1. \A p \in PutPaths(old) : \E i \in OfKind(old, "put") : old[i].path = p
    BY DEF PutPaths, OfKind
  <2>2. Cardinality(PutPaths(old)) <= Cardinality(OfKind(old, "put"))
    BY <1>1, <2>1, PathsOfPuts
  <2> QED
    BY <1>1, <2>2, CountType
<1>5. /\ Cardinality(PutPaths(old)) \in Nat /\ Cardinality(PutPaths(outbox)) \in Nat
      /\ Cardinality(PutPaths(old) \cup PutPaths(outbox)) \in Nat
      /\ Cardinality(PutPaths(old) \cup PutPaths(outbox))
           <= Cardinality(PutPaths(old)) + Cardinality(PutPaths(outbox))
  <2>1. IsFiniteSet(PutPaths(old)) /\ IsFiniteSet(PutPaths(outbox))
    BY <1>1, PutPathsType
  <2>2. /\ Cardinality(PutPaths(old)) \in Nat /\ Cardinality(PutPaths(outbox)) \in Nat
        /\ Cardinality(PutPaths(old) \cap PutPaths(outbox)) \in Nat
    BY <2>1, FS_CardinalityType, FS_Intersection
  <2>3. /\ IsFiniteSet(PutPaths(old) \cup PutPaths(outbox))
        /\ Cardinality(PutPaths(old) \cup PutPaths(outbox))
             = Cardinality(PutPaths(old)) + Cardinality(PutPaths(outbox))
               - Cardinality(PutPaths(old) \cap PutPaths(outbox))
    BY <2>1, FS_Union
  <2>4. Cardinality(PutPaths(old) \cup PutPaths(outbox)) \in Nat
    BY <2>3, FS_CardinalityType
  <2> QED
    BY <2>2, <2>3, <2>4
<1>6. Cardinality(PutPaths(old) \cup PutPaths(outbox)) <= MaxPuts
  BY <1>2, <1>3, <1>4, <1>5, WaitingCovers, Limits
<1>7. CountOf(old, "delete") + CountOf(outbox, "delete") <= MaxDeletes
  BY <1>2, <1>3
<1> QED
  BY <1>6, <1>7 DEF KeepsTo, old

(* A check moves the approval and forgets what is out of the window; the   *)
(* pushes that count are still remembered.                                 *)
LEMMA CheckedRecorded ==
  ASSUME Typed, Recorded, NEW d, NEW p, Checked(d, p), UNCHANGED <<granted, pushed, earlier, now>>
  PROVE  recent' = Within(recent, now) /\ recent' \in Seq(Stamp) /\ Recorded'
<1>1. recent' = Within(recent, now)
  BY DEF Checked
<1>2. recent \in Seq(Stamp) /\ pushed \in Seq(Stamp) /\ now \in Nat
  BY DEF Typed
<1>3. recent' \in Seq(Stamp)
  BY <1>1, <1>2, WithinSuffix
<1>4. /\ Len(recent) \in Nat /\ Len(recent') \in Nat /\ Len(pushed) \in Nat
      /\ earlier \in Nat
  BY <1>2, <1>3 DEF Typed
<1>5. ASSUME ~granted, NEW j \in earlier + 1 .. Len(pushed), now - pushed[j].at <= Window
      PROVE  /\ j + Len(recent') - Len(pushed) \in DOMAIN recent'
             /\ recent'[j + Len(recent') - Len(pushed)] = pushed[j]
  <2> DEFINE i == j + Len(recent) - Len(pushed)
  <2>1. i \in DOMAIN recent /\ recent[i] = pushed[j]
    BY <1>5 DEF Recorded
  <2>2. /\ i + Len(recent') - Len(recent) \in DOMAIN recent'
        /\ recent'[i + Len(recent') - Len(recent)] = recent[i]
    <3> HIDE DEF i
    <3> QED
      BY <1>1, <1>2, <1>5, <2>1, WithinSuffix
  <2>3. i + Len(recent') - Len(recent) = j + Len(recent') - Len(pushed)
    BY <1>4
  <2> QED
    BY <2>1, <2>2, <2>3
<1> QED
  BY <1>1, <1>3, <1>5 DEF Recorded

(* The limits of the stretch that ends with a push. *)
KeptAt(s, first, i) ==
  LET stretch == {j \in first .. i : s[i].at - s[j].at <= Window}
  IN  /\ Cardinality({j \in stretch : s[j].op = "delete"}) <= MaxDeletes
      /\ Cardinality({s[j].path : j \in {k \in stretch : s[k].op = "put"}}) <= MaxPuts

(* One unapproved push: what is remembered and what waits are together     *)
(* what they were, and the new push closes a stretch of the former.        *)
LEMMA PushKeeps ==
  ASSUME Typed, Typed', Recorded', WithinLimits, ~granted, KeepsTo(recent, outbox),
         NEW e \in Stamp, e.at = now, now' = now, outbox # <<>>,
         e.op = Head(outbox).op, e.path = Head(outbox).path, granted' = granted,
         recent' = Append(recent, e), outbox' = Tail(outbox), pushed' = Append(pushed, e),
         earlier' = earlier
  PROVE  KeepsTo(recent', outbox') /\ WithinLimits'
<1>1. /\ recent \in Seq(Entry) /\ recent' \in Seq(Entry)
      /\ outbox \in Seq(Entry) /\ outbox' \in Seq(Entry)
      /\ pushed' \in Seq(Entry) /\ e \in Entry
  BY DEF Typed, Entry
<1>2. KeepsTo(recent', outbox')
  <2>1. CountOf(recent', "delete") = CountOf(recent, "delete") + (IF e.op = "delete" THEN 1 ELSE 0)
    BY <1>1, CountAppend
  <2>2. CountOf(outbox, "delete") = CountOf(outbox', "delete") + (IF e.op = "delete" THEN 1 ELSE 0)
    BY <1>1, CountTail
  <2>3. /\ CountOf(recent', "delete") \in Nat /\ CountOf(recent, "delete") \in Nat
        /\ CountOf(outbox, "delete") \in Nat /\ CountOf(outbox', "delete") \in Nat
    BY <1>1, CountType
  <2>4. CountOf(recent', "delete") + CountOf(outbox', "delete")
          = CountOf(recent, "delete") + CountOf(outbox, "delete")
    BY <2>1, <2>2, <2>3
  <2>5. PutPaths(recent') \cup PutPaths(outbox') = PutPaths(recent) \cup PutPaths(outbox)
    <3>1. PutPaths(recent') = PutPaths(recent) \cup (IF e.op = "put" THEN {e.path} ELSE {})
      BY <1>1, PutPathsAppend
    <3>2. PutPaths(outbox) = PutPaths(outbox') \cup (IF e.op = "put" THEN {e.path} ELSE {})
      BY <1>1, PutPathsTail
    <3> QED
      BY <3>1, <3>2
  <2> QED
    BY <2>4, <2>5 DEF KeepsTo
<1>3. /\ Len(pushed) \in Nat /\ Len(recent') \in Nat /\ Len(pushed') = Len(pushed) + 1
      /\ earlier \in Nat
      /\ \A j \in 1 .. Len(pushed) : pushed'[j] = pushed[j]
      /\ pushed'[Len(pushed) + 1] = e
  BY DEF Typed
<1>4. ASSUME NEW i \in earlier + 1 .. Len(pushed), i # Len(pushed) + 1
      PROVE  KeptAt(pushed', earlier + 1, i)
  <2> DEFINE before == {j \in earlier + 1 .. i : pushed[i].at - pushed[j].at <= Window}
             after == {j \in earlier + 1 .. i : pushed'[i].at - pushed'[j].at <= Window}
  <2>1. i \in 1 .. Len(pushed) /\ earlier + 1 .. i \subseteq 1 .. Len(pushed)
    BY <1>3, <1>4
  <2>2. after = before
    BY <1>3, <2>1
  <2>3. {j \in after : pushed'[j].op = "delete"} = {j \in before : pushed[j].op = "delete"}
    BY <1>3, <2>2
  <2>4. {pushed'[j].path : j \in {k \in after : pushed'[k].op = "put"}}
          = {pushed[j].path : j \in {k \in before : pushed[k].op = "put"}}
    BY <1>3, <2>2
  <2>5. /\ Cardinality({j \in before : pushed[j].op = "delete"}) <= MaxDeletes
        /\ Cardinality({pushed[j].path : j \in {k \in before : pushed[k].op = "put"}}) <= MaxPuts
    BY <1>4 DEF WithinLimits, Limited
  <2> QED
    BY <2>3, <2>4, <2>5 DEF KeptAt
<1>5. KeptAt(pushed', earlier + 1, Len(pushed) + 1)
  <2> DEFINE i == Len(pushed) + 1
             stretch == {j \in earlier + 1 .. i : pushed'[i].at - pushed'[j].at <= Window}
             deletes == {j \in stretch : pushed'[j].op = "delete"}
             paths == {pushed'[j].path : j \in {k \in stretch : pushed'[k].op = "put"}}
             in(j) == j + Len(recent') - Len(pushed')
             f == [j \in deletes |-> in(j)]
  <2>1. \A j \in stretch : in(j) \in DOMAIN recent' /\ recent'[in(j)] = pushed'[j]
    BY <1>3 DEF Recorded
  <2>2. Cardinality(deletes) <= MaxDeletes
    <3>1. f \in [deletes -> OfKind(recent', "delete")]
      BY <2>1 DEF OfKind
    <3>2. \A a, b \in deletes : f[a] = f[b] => a = b
      BY <1>3
    <3>3. f \in Injection(deletes, OfKind(recent', "delete"))
      <4> HIDE DEF f, deletes
      <4> QED
        BY <3>1, <3>2 DEF Injection, IsInjective
    <3>4. /\ Cardinality(deletes) <= CountOf(recent', "delete")
          /\ Cardinality(deletes) \in Nat
      <4> HIDE DEF f, deletes
      <4>1. IsFiniteSet(OfKind(recent', "delete"))
        BY <1>1, CountType
      <4>2. IsFiniteSet(deletes) /\ Cardinality(deletes) <= Cardinality(OfKind(recent', "delete"))
        BY <3>3, <4>1, FS_Injection
      <4> QED
        BY <1>1, <4>2, CountType, FS_CardinalityType
    <3>5. /\ CountOf(recent', "delete") \in Nat /\ CountOf(outbox', "delete") \in Nat
          /\ CountOf(recent', "delete") + CountOf(outbox', "delete") <= MaxDeletes
      BY <1>1, <1>2, CountType DEF KeepsTo
    <3> HIDE DEF deletes
    <3> QED
      BY <3>4, <3>5, Limits
  <2>3. Cardinality(paths) <= MaxPuts
    <3> DEFINE all == PutPaths(recent') \cup PutPaths(outbox')
    <3>1. ASSUME NEW j \in stretch, pushed'[j].op = "put" PROVE pushed'[j].path \in all
      <4>1. in(j) \in DOMAIN recent' /\ recent'[in(j)] = pushed'[j]
        BY <2>1
      <4>2. pushed'[j].path \in PutPaths(recent')
        <5> HIDE DEF stretch, in
        <5> QED
          BY <4>1, <3>1 DEF PutPaths
      <4> QED
        BY <4>2
    <3>2. IsFiniteSet(all)
      BY <1>1, PutPathsType, FS_Union
    <3>3. Cardinality(all) <= MaxPuts
      BY <1>2 DEF KeepsTo
    <3>4. paths \subseteq all
      BY <3>1
    <3> HIDE DEF paths, all
    <3>5. Cardinality(paths) <= Cardinality(all) /\ Cardinality(paths) \in Nat /\ Cardinality(all) \in Nat
      BY <3>2, <3>4, FS_Subset, FS_CardinalityType
    <3> QED
      BY <3>3, <3>5, Limits
  <2> QED
    BY <2>2, <2>3 DEF KeptAt
<1>6. WithinLimits'
  <2>1. \A i \in earlier + 1 .. Len(pushed') : KeptAt(pushed', earlier + 1, i)
    BY <1>3, <1>4, <1>5
  <2> QED
    BY <2>1 DEF WithinLimits, Limited, KeptAt
<1> QED
  BY <1>2, <1>6

(* The queue of a finite set is a list of its members.                     *)
LEMMA Listed ==
  ASSUME NEW S, IsFiniteSet(S)
  PROVE  SetToSeq(S) \in Seq(S)
<1>1. Cardinality(S) \in Nat /\ ExistsBijection(1 .. Cardinality(S), S)
  BY FS_CardinalityType
<1>2. PICK f \in Bijection(1 .. Cardinality(S), S) : TRUE
  BY <1>1 DEF ExistsBijection
<1>3. f \in [1 .. Cardinality(S) -> S] /\ IsInjective(f)
  BY <1>2 DEF Bijection, Injection, IsInjective
<1>4. SetToSeq(S) \in [1 .. Cardinality(S) -> S]
  BY <1>3 DEF SetToSeq
<1> QED
  BY <1>1, <1>4

(* So are the operations that a start or a seed queues.                    *)
LEMMA OpsListed ==
  ASSUME NEW O \in SUBSET Op
  PROVE  SetToSeq(O) \in Seq(Op)
<1> DEFINE f == [x \in {"put", "delete"} \X Paths |-> [op |-> x[1], path |-> x[2]]]
<1>1. IsFiniteSet({"put", "delete"} \X Paths)
  <2>1. IsFiniteSet({"put", "delete"})
    <3>1. IsFiniteSet({"put"}) /\ {"put", "delete"} = {"put"} \cup {"delete"}
      BY FS_Singleton
    <3> QED
      BY <3>1, FS_AddElement
  <2> QED
    BY <2>1, Limits, FS_Product
<1>2. f \in Surjection({"put", "delete"} \X Paths, Op)
  <2>1. f \in [{"put", "delete"} \X Paths -> Op]
    BY DEF Op
  <2>2. ASSUME NEW o \in Op PROVE \E x \in {"put", "delete"} \X Paths : f[x] = o
    <3>1. <<o.op, o.path>> \in {"put", "delete"} \X Paths /\ f[<<o.op, o.path>>] = o
      BY DEF Op
    <3> QED
      BY <3>1
  <2> HIDE DEF f
  <2> QED
    BY <2>1, <2>2 DEF Surjection
<1>3. IsFiniteSet(Op)
  <2> HIDE DEF f
  <2> QED
    BY <1>1, <1>2, FS_Surjection
<1>4. IsFiniteSet(O)
  BY <1>3, FS_Subset
<1>5. SetToSeq(O) \in Seq(O)
  BY <1>4, Listed
<1> QED
  BY <1>5

(* Nothing waits, nothing is remembered and nothing is pushed at first.    *)
LEMMA InitLimits == Init => LInv
BY DEF Init, LInv, Typed, Recorded, Draining, WithinLimits, Limited

(* A check that lets the batch go without an approval has counted it.      *)
LEMMA CheckedDrains ==
  ASSUME Typed, NEW d, NEW p, Checked(d, p), IInv',
         ~Trips(Waiting("delete"), Waiting("put")), ~granted', UNCHANGED <<outbox, now>>
  PROVE  KeepsTo(recent', outbox')
<1>1. ~OverLimit(Waiting("delete"), Waiting("put"))
  BY DEF IInv, Trips
<1>2. KeepsTo(Within(recent, now), outbox)
  BY <1>1, NotOver
<1>3. recent' = Within(recent, now) /\ outbox' = outbox
  BY DEF Checked
<1> QED
  BY <1>2, <1>3

(* Steps that push nothing and forget nothing. *)
LEMMA Unmoved ==
  ASSUME LInv, UNCHANGED <<recent, pushed, earlier, granted>>, now' \in {now, now + 1}
  PROVE  Recorded' /\ WithinLimits'
<1>1. WithinLimits'
  BY DEF LInv, WithinLimits, Limited
<1>2. ASSUME NEW j \in earlier + 1 .. Len(pushed), now' - pushed[j].at <= Window
      PROVE  now - pushed[j].at <= Window
  <2>1. pushed[j].at \in Nat /\ now \in Nat /\ Window \in Nat
    <3>1. pushed \in Seq(Stamp) /\ now \in Nat /\ earlier \in Nat
      BY DEF LInv, Typed
    <3>2. pushed[j] \in Stamp
      BY <3>1
    <3> QED
      BY <3>1, <3>2, Limits DEF Stamp
  <2> QED
    BY <1>2, <2>1
<1>3. Recorded'
  BY <1>2 DEF LInv, Recorded
<1> QED
  BY <1>1, <1>3

(* Every step keeps what is remembered, and the limits with it.            *)
LEMMA StepLimits == LInv /\ IInv /\ IInv' /\ [Next]_vars => LInv'
<1> SUFFICES ASSUME LInv, IInv, IInv', [Next]_vars PROVE LInv'
  OBVIOUS
<1> USE DEF guard, history, bounds
<1>1. ASSUME NEW op \in Op, Change(op) PROVE LInv'
  <2>1. Typed'
    <3>1. outbox' \in Seq(Op)
      <4>1. outbox' = Append(outbox, op) \/ outbox' = outbox
        BY <1>1 DEF Change
      <4>2. outbox \in Seq(Op)
        BY DEF LInv, Typed
      <4> QED
        BY <4>1, <4>2
    <3>2. offline' \subseteq Op
      BY <1>1 DEF LInv, Typed, Change
    <3> QED
      BY <1>1, <3>1, <3>2 DEF LInv, Typed, Change
  <2>2. Draining'
    BY <1>1 DEF Draining, Change
  <2> QED
    BY <1>1, <2>1, <2>2, Unmoved DEF LInv, Change
<1>2. CASE Tick
  <2>1. Typed'
    BY <1>2 DEF LInv, Typed, Tick
  <2>2. Draining'
    BY <1>2 DEF LInv, Draining, Tick, KeepsTo, CountOf, PutPaths
  <2> QED
    BY <1>2, <2>1, <2>2, Unmoved DEF LInv, Tick
<1>3. CASE Approve
  <2>1. granted' /\ UNCHANGED <<outbox, offline, recent, pushed, earlier, now>>
    BY <1>3 DEF Approve
  <2>2. WithinLimits'
    BY <2>1 DEF LInv, WithinLimits, Limited
  <2> QED
    BY <2>1, <2>2 DEF LInv, Typed, Recorded, Draining
<1>4. CASE Start
  BY <1>4, Unmoved DEF LInv, Typed, Draining, Start
<1>5. CASE Resume
  <2>1. PICK d, p : Checked(d, p)
    BY <1>5 DEF Resume
  <2>2. UNCHANGED <<granted, pushed, earlier, now>>
    BY <1>5 DEF Resume
  <2>3. recent' \in Seq(Stamp) /\ Recorded'
    BY <2>1, <2>2, CheckedRecorded DEF LInv
  <2>4. outbox' \in Seq(Op) /\ offline' \subseteq Op
    <3> DEFINE kind(k) == {o \in offline : o.op = k}
    <3>1. SetToSeq(kind("delete")) \in Seq(Op) /\ SetToSeq(kind("put")) \in Seq(Op)
      BY OpsListed DEF LInv, Typed
    <3>2. \/ UNCHANGED <<outbox, offline>>
          \/ /\ outbox' = outbox \o SetToSeq(kind("delete")) \o SetToSeq(kind("put"))
             /\ offline' = {}
      BY <1>5 DEF Resume
    <3> HIDE DEF kind
    <3>3. outbox \in Seq(Op) /\ offline \subseteq Op
      BY DEF LInv, Typed
    <3>4. outbox \o SetToSeq(kind("delete")) \in Seq(Op)
      BY <3>1, <3>3
    <3>5. outbox \o SetToSeq(kind("delete")) \o SetToSeq(kind("put")) \in Seq(Op)
      BY <3>1, <3>4
    <3> QED
      BY <3>2, <3>3, <3>5
  <2>5. Draining'
    BY <1>5 DEF Draining, Resume
  <2> QED
    BY <2>2, <2>3, <2>4, <2>5 DEF LInv, Typed, WithinLimits, Limited
<1>6. CASE Adopt
  BY <1>6, Unmoved DEF LInv, Typed, Draining, Adopt
<1>7. CASE Seed
  <2>1. outbox' \in Seq(Op)
    <3>1. [op : {"put"}, path : Paths] \in SUBSET Op
      BY DEF Op
    <3>2. SetToSeq([op : {"put"}, path : Paths]) \in Seq(Op)
      BY <3>1, OpsListed
    <3> QED
      BY <1>7, <3>2 DEF LInv, Typed, Seed
  <2>2. granted' /\ offline' = {} /\ UNCHANGED <<recent, pushed, earlier, now>>
    BY <1>7 DEF Seed
  <2>3. WithinLimits'
    BY <2>2 DEF LInv, WithinLimits, Limited
  <2>4. Typed'
    BY <2>1, <2>2 DEF LInv, Typed
  <2> QED
    BY <2>2, <2>3, <2>4 DEF LInv, Recorded, Draining
<1>8. CASE StartTick
  <2>1. UNCHANGED <<outbox, offline, granted, pushed, earlier, now>>
    BY <1>8 DEF StartTick
  <2>2. CASE outbox = <<>>
    BY <1>8, <2>1, <2>2, Unmoved DEF LInv, Typed, Draining, StartTick
  <2>3. CASE outbox # <<>>
    <3>1. /\ Checked(Waiting("delete"), Waiting("put"))
          /\ pc' = IF Trips(Waiting("delete"), Waiting("put")) THEN "idle" ELSE "drain"
      BY <1>8, <2>3 DEF StartTick
    <3>2. recent' \in Seq(Stamp) /\ Recorded'
      BY <2>1, <3>1, CheckedRecorded DEF LInv
    <3>3. Draining'
      BY <2>1, <3>1, CheckedDrains DEF LInv, Draining
    <3> QED
      BY <2>1, <3>2, <3>3 DEF LInv, Typed, WithinLimits, Limited
  <2> QED
    BY <2>2, <2>3
<1>9. CASE Push
  <2> DEFINE e == [op |-> Head(outbox).op, path |-> Head(outbox).path, at |-> now]
  <2>1. /\ outbox # <<>> /\ pc = "drain" /\ outbox' = Tail(outbox) /\ recent' = Append(recent, e)
        /\ pushed' = IF granted THEN pushed ELSE Append(pushed, e)
        /\ UNCHANGED <<granted, now, offline, pc, earlier>>
    BY <1>9 DEF Push
  <2>2. e \in Stamp /\ e.at = now /\ e.op = Head(outbox).op /\ e.path = Head(outbox).path
    <3>1. Head(outbox) \in Op
      BY <2>1 DEF LInv, Typed
    <3> QED
      BY <3>1 DEF LInv, Typed, Op, Stamp
  <2> HIDE DEF e
  <2>3. Typed'
    BY <2>1, <2>2 DEF LInv, Typed
  <2>4. CASE granted
    <3>1. Recorded' /\ Draining'
      BY <2>1, <2>4 DEF Recorded, Draining
    <3>2. pushed' = pushed
      BY <2>1, <2>4
    <3>3. WithinLimits'
      <4>1. pushed' = pushed /\ earlier' = earlier
        BY <2>1, <3>2
      <4> QED
        BY <4>1 DEF LInv, WithinLimits, Limited
    <3> QED
      BY <2>3, <3>1, <3>3 DEF LInv
  <2>5. CASE ~granted
    <3>1. KeepsTo(recent, outbox)
      BY <2>1, <2>5 DEF LInv, Draining
    <3>2. Recorded'
      <4>1. /\ Len(recent) \in Nat /\ Len(pushed) \in Nat
            /\ DOMAIN recent = 1 .. Len(recent) /\ earlier \in Nat
        BY DEF LInv, Typed
      <4>2. /\ Len(recent') = Len(recent) + 1 /\ Len(pushed') = Len(pushed) + 1
            /\ DOMAIN recent' = 1 .. Len(recent) + 1 /\ earlier' = earlier
            /\ \A i \in 1 .. Len(recent) : recent'[i] = recent[i]
            /\ \A i \in 1 .. Len(pushed) : pushed'[i] = pushed[i]
            /\ recent'[Len(recent) + 1] = e /\ pushed'[Len(pushed) + 1] = e
        BY <2>1, <2>2, <2>5 DEF LInv, Typed
      <4>3. \A j \in earlier + 1 .. Len(pushed) : now - pushed[j].at <= Window =>
              /\ j + Len(recent) - Len(pushed) \in 1 .. Len(recent)
              /\ recent[j + Len(recent) - Len(pushed)] = pushed[j]
        BY <2>5, <4>1 DEF LInv, Recorded
      <4>4. ASSUME NEW j \in earlier + 1 .. Len(pushed'), now' - pushed'[j].at <= Window
            PROVE  /\ j + Len(recent') - Len(pushed') \in DOMAIN recent'
                   /\ recent'[j + Len(recent') - Len(pushed')] = pushed'[j]
        <5>1. j + Len(recent') - Len(pushed') = j + Len(recent) - Len(pushed)
          BY <4>1, <4>2
        <5>2. CASE j \in earlier + 1 .. Len(pushed)
          <6>1. now - pushed[j].at <= Window
            <7>1. j \in 1 .. Len(pushed)
              BY <4>1, <5>2
            <7> QED
              BY <2>1, <4>2, <4>4, <7>1
          <6> QED
            BY <4>1, <4>2, <4>3, <5>1, <5>2, <6>1
        <5>3. CASE j = Len(pushed) + 1
          <6>1. j + Len(recent') - Len(pushed') = Len(recent) + 1
            BY <4>1, <5>1, <5>3
          <6> QED
            BY <4>1, <4>2, <5>3, <6>1
        <5> QED
          BY <4>1, <4>2, <5>2, <5>3
      <4> QED
        BY <4>2, <4>4 DEF Recorded
    <3>3. KeepsTo(recent', outbox') /\ WithinLimits'
      BY <2>1, <2>2, <2>3, <2>5, <3>1, <3>2, PushKeeps DEF LInv
    <3> QED
      BY <2>3, <3>2, <3>3 DEF LInv, Draining
  <2> QED
    BY <2>4, <2>5
<1>10. CASE Drop
  <2>1. Typed'
    BY <1>10 DEF LInv, Typed, Drop
  <2>2. Draining'
    <3> SUFFICES ASSUME ~granted PROVE KeepsTo(recent', outbox')
      BY <1>10 DEF Drop, Draining
    <3>1. KeepsTo(recent, outbox) /\ outbox # <<>> /\ Head(outbox).op = "put"
      BY <1>10 DEF LInv, Draining, Drop
    <3>2. outbox \in Seq(Entry) /\ recent \in Seq(Entry) /\ outbox' \in Seq(Entry)
      BY <2>1 DEF LInv, Typed, Entry
    <3>3. outbox' = Tail(outbox) /\ recent' = recent
      BY <1>10 DEF Drop
    <3>4. CountOf(outbox', "delete") = CountOf(outbox, "delete")
      <4>1. CountOf(outbox', "delete") \in Nat /\ CountOf(outbox, "delete") \in Nat
        BY <3>2, CountType
      <4> QED
        BY <3>1, <3>2, <3>3, <4>1, CountTail
    <3>5. Cardinality(PutPaths(recent) \cup PutPaths(outbox')) <= MaxPuts
      <4> DEFINE was == PutPaths(recent) \cup PutPaths(outbox)
                 is == PutPaths(recent) \cup PutPaths(outbox')
      <4>1. is \subseteq was
        BY <3>1, <3>2, <3>3, PutPathsTail
      <4>2. IsFiniteSet(was) /\ Cardinality(was) <= MaxPuts
        BY <3>1, <3>2, PutPathsType, FS_Union DEF KeepsTo
      <4> HIDE DEF is, was
      <4>3. Cardinality(is) <= Cardinality(was) /\ Cardinality(is) \in Nat /\ Cardinality(was) \in Nat
        BY <4>1, <4>2, FS_Subset, FS_CardinalityType
      <4>4. Cardinality(is) <= MaxPuts
        BY <4>2, <4>3, Limits
      <4> QED
        BY <4>4 DEF is
    <3> QED
      BY <3>1, <3>3, <3>4, <3>5 DEF KeepsTo
  <2> QED
    BY <1>10, <2>1, <2>2, Unmoved DEF LInv, Drop
<1>11. CASE PushFails
  BY <1>11, Unmoved DEF LInv, Typed, Draining, PushFails
<1>12. CASE EndDrain
  <2>1. /\ recent' = <<>> \/ recent' = recent
        /\ ~approved => recent' = recent
    BY <1>12 DEF EndDrain, Emptied
  <2>2. Typed' /\ Draining'
    <3>1. recent' \in Seq(Stamp)
      <4>1. recent \in Seq(Stamp) /\ <<>> \in Seq(Stamp)
        BY DEF LInv, Typed
      <4> QED
        BY <2>1, <4>1
    <3> QED
      BY <1>12, <3>1 DEF LInv, Typed, Draining, EndDrain
  <2>3. CASE granted
    <3>1. pushed' = <<>> /\ earlier' = 0
      BY <1>12, <2>3 DEF EndDrain
    <3> QED
      BY <2>2, <3>1 DEF LInv, Recorded, WithinLimits, Limited
  <2>4. CASE ~granted
    <3>1. UNCHANGED <<recent, pushed, earlier, granted, now>>
      <4>1. ~approved /\ granted' = file /\ ~file
        BY <1>12, <2>4 DEF EndDrain, IInv
      <4>2. granted' = granted
        BY <2>4, <4>1, <1>12 DEF EndDrain, IInv
      <4> QED
        BY <1>12, <2>1, <2>4, <4>1, <4>2 DEF EndDrain
    <3> QED
      BY <2>2, <3>1, Unmoved DEF LInv
  <2> QED
    BY <2>3, <2>4
<1>13. CASE Crash
  <2>1. /\ pushed' = pushed /\ earlier' = Len(pushed) /\ pc' = "down"
        /\ recent' = <<>> /\ UNCHANGED <<outbox, offline, now>>
    BY <1>13 DEF Crash
  <2>2. Len(pushed) \in Nat
    BY DEF LInv, Typed
  <2>3. earlier' + 1 .. Len(pushed') = {}
    BY <2>1, <2>2
  <2> QED
    BY <2>1, <2>2, <2>3 DEF LInv, Typed, Recorded, Draining, WithinLimits, Limited
<1>14. CASE UNCHANGED vars
  <2>1. UNCHANGED <<outbox, offline, recent, pushed, earlier, granted, now, pc>>
    BY <1>14 DEF vars
  <2>2. Typed' /\ Draining'
    BY <2>1 DEF LInv, Typed, Draining, KeepsTo, CountOf, PutPaths
  <2> QED
    BY <2>1, <2>2, Unmoved DEF LInv
<1> QED
  BY <1>1, <1>2, <1>3, <1>4, <1>5, <1>6, <1>7, <1>8, <1>9, <1>10, <1>11, <1>12, <1>13, <1>14
  DEF Next, Running

(* For every pair of limits and every window, and over any number of       *)
(* restarts: of what one run of the process pushes, no stretch of a window *)
(* holds more unapproved deletes, or puts of more paths, than the limits.  *)
THEOREM WithinLimitsHolds == Spec => []WithinLimits
<1>1. Spec => []LInv
  BY InitLimits, StepLimits, ApprovalInvariant, PTL DEF Spec
<1>2. LInv => WithinLimits
  BY DEF LInv
<1> QED
  BY <1>1, <1>2, PTL
=============================================================================
