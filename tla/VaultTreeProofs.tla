-------------------------- MODULE VaultTreeProofs --------------------------
(***************************************************************************)
(* Theorems about VaultTree, for every tree of paths: the client's own     *)
(* files stay, links are not followed, and nothing half-written is found.  *)
(***************************************************************************)
EXTENDS VaultTree, TLAPS

(* Below and above a path are each other's inverse, and strict. *)
LEMMA BelowAbove ==
  ASSUME NEW p \in Paths, NEW q \in Paths
  PROVE  /\ q \in Below(p) <=> p \in Above(q)
         /\ p \notin Above(p) /\ p \notin Below(p)
         /\ \A r \in Paths : q \in Below(p) /\ r \in Below(q) => r \in Below(p)
BY UnderIsStrictOrder DEF Below, Above

(* What the client keeps for itself. *)
Own == {DataFile, StateDir} \cup Journals

(* No path of the client's own state is one of the vault's files. *)
LEMMA OwnExcluded ==
  ASSUME NEW q \in Own \cup {Temp}
  PROVE  q \in Paths /\ Excluded(q)
<1>1. q \in Paths
  BY TreeAssumption DEF Own
<1>2. CASE q \in Journals \cup {Temp}
  BY <1>1, <1>2, TreeAssumption, BelowAbove DEF Excluded
<1> QED
  BY <1>2, <1>1 DEF Own, Excluded

(* The folder of the journals, and what is in it, is not data.json. *)
LEMMA OwnApart == StateDir \in Own \ {DataFile} /\ Journals \subseteq Own \ {DataFile}
<1>1. StateDir \notin Above(DataFile) /\ \A j \in Journals : StateDir \in Above(j)
  BY TreeAssumption, BelowAbove
<1> QED
  BY <1>1, TreeAssumption DEF Own

(* Below a path that does not contain client state there is none. *)
LEMMA NoStateBelow ==
  ASSUME NEW p \in Paths, ~ContainsClientState(p), NEW q \in {p} \cup Below(p)
  PROVE  ~Excluded(q)
<1>1. CASE q = p
  BY <1>1 DEF ContainsClientState
<1>2. CASE q \in Below(p)
  <2>1. q \in Paths /\ p \in Above(q)
    BY <1>2, BelowAbove DEF Below
  <2>2. CASE q \in {DataFile, StateDir}
    BY <2>1, <2>2, TreeAssumption DEF ContainsClientState
  <2>3. CASE q \in Below(StateDir)
    <3>1. StateDir \in Paths /\ StateDir \in Above(q)
      BY <2>1, <2>3, TreeAssumption, BelowAbove
    <3>2. p = StateDir \/ p \in Above(StateDir) \/ StateDir \in Above(p)
      BY <2>1, <3>1, TreeAssumption
    <3>3. CASE p \in Above(StateDir)
      BY <3>3, TreeAssumption DEF ContainsClientState
    <3>4. CASE StateDir \in Above(p)
      BY <3>1, <3>4, BelowAbove DEF ContainsClientState, Excluded
    <3> QED
      BY <3>2, <3>3, <3>4 DEF ContainsClientState, Excluded
  <2> QED
    BY <2>2, <2>3 DEF Excluded
<1> QED
  BY <1>1, <1>2

(* A path outside the client's own has no own path above it, but perhaps   *)
(* data.json.                                                              *)
LEMMA NoStateAbove ==
  ASSUME NEW p \in Paths, ~Excluded(p), NEW a \in Above(p)
  PROVE  a \notin Own \ {DataFile} /\ a # Temp
<1>1. a \in Paths /\ p \in Below(a)
  BY BelowAbove DEF Above
<1>2. a # StateDir
  BY <1>1 DEF Excluded
<1>3. StateDir \in Paths
  BY TreeAssumption
<1>4. a \notin Below(StateDir)
  BY <1>1, <1>3, BelowAbove DEF Excluded
<1>5. Temp \in Below(StateDir) /\ \A j \in Journals : j \in Below(StateDir)
  BY <1>3, TreeAssumption, BelowAbove
<1> QED
  BY <1>2, <1>4, <1>5 DEF Own

(* Nothing lies below a path that is not a folder. *)
LEMMA EmptyUnlessFolder ==
  ASSUME TypeOK, WellShaped, NEW p \in Paths, kind[p] # "dir"
  PROVE  Empty(p)
<1> SUFFICES ASSUME NEW q \in Below(p), Exists(q) PROVE FALSE
  BY DEF Empty
<1>1. q \in Paths /\ p \in Above(q)
  BY BelowAbove DEF Below
<1> QED
  BY <1>1 DEF WellShaped, InFolder

(* A change of one path keeps a tree a tree. *)
LEMMA ShapeKept ==
  ASSUME TypeOK, WellShaped, NEW p \in Paths, NEW k \in Kinds, Becomes(p, k),
         k # "none" => InFolder(p), k = "dir" \/ Empty(p)
  PROVE  WellShaped'
<1> SUFFICES ASSUME NEW q \in Paths, kind'[q] # "none", NEW a \in Above(q) PROVE kind'[a] = "dir"
  BY DEF WellShaped, Exists, InFolder
<1>1. a \in Paths /\ q \in Below(a) /\ a # q
  BY BelowAbove DEF Above
<1>2. kind'[p] = k /\ \A r \in Paths \ {p} : kind'[r] = kind[r]
  BY DEF TypeOK, Becomes
<1>3. CASE q = p
  BY <1>1, <1>2, <1>3 DEF InFolder
<1>4. CASE q # p
  <2>1. kind[a] = "dir" /\ Exists(q)
    BY <1>1, <1>2, <1>4 DEF WellShaped, Exists, InFolder
  <2>2. a = p => k = "dir"
    BY <1>1, <2>1 DEF Empty
  <2> QED
    BY <1>1, <1>2, <2>1, <2>2
<1> QED
  BY <1>3, <1>4
-----------------------------------------------------------------------------
(* Every step in which one path changes, and only to what its place allows, *)
(* and never one of the client's own, keeps the parts about the tree.      *)
LEMMA TreeKept ==
  ASSUME IInv, NEW p \in Paths, NEW k \in Kinds, Becomes(p, k),
         k # "none" => InFolder(p), k = "dir" \/ Empty(p), displaced => displaced',
         ~Excluded(p) \/ (p = DataFile /\ displaced)
  PROVE  /\ kind' \in [Paths -> Kinds] /\ WellShaped' /\ ClientStateKept'
         /\ kind'[Temp] \in {"none", "file"}
<1>1. kind' \in [Paths -> Kinds] /\ WellShaped'
  BY ShapeKept DEF IInv, TypeOK, Becomes
<1>2. \A q \in (Own \ {DataFile}) \cup {Temp} : q \in Paths /\ q # p
  BY OwnExcluded, TreeAssumption, BelowAbove DEF Own
<1>3. displaced \/ DataFile # p
  BY OwnExcluded DEF Own
<1>4. kind' = [kind EXCEPT ![p] = k] /\ kind \in [Paths -> Kinds] /\ ClientStateKept /\ Staging
  BY DEF Becomes, IInv, TypeOK
<1>5. \A q \in (Own \ {DataFile}) \cup {Temp} : kind'[q] = kind[q]
  BY <1>2, <1>4
<1>6. ~displaced => kind'[DataFile] = kind[DataFile]
  BY <1>3, <1>4, TreeAssumption
<1>7. ClientStateKept'
  <2>1. StateDir \in Own \ {DataFile} /\ Journals \subseteq Own \ {DataFile}
    BY OwnApart
  <2> QED
    BY <1>4, <1>5, <1>6, <2>1 DEF ClientStateKept, Own
<1> QED
  BY <1>1, <1>4, <1>5, <1>7 DEF Staging

(* No link is above the target while it is worked on, nor above its folders. *)
LEMMA ParentLinkFree ==
  ASSUME IInv, pc # "idle", NEW a \in {target} \cup Above(target)
  PROVE  a \in Paths /\ ~LinkAbove(a)
<1>1. target \in Paths /\ ~LinkAbove(target)
  BY DEF IInv, JobSafe
<1>2. a \in Paths
  BY <1>1 DEF Above
<1>3. Above(a) \subseteq Above(target)
  BY <1>1, <1>2, UnderIsStrictOrder DEF Above
<1> QED
  BY <1>1, <1>2, <1>3 DEF LinkAbove

(* Every step keeps the invariant. *)
LEMMA StepInvariant == IInv /\ [Next]_vars => IInv'
<1> USE DEF rest
<1> SUFFICES ASSUME IInv, [Next]_vars PROVE IInv'
  OBVIOUS
<1>1. TypeOK /\ WellShaped /\ ClientStateKept /\ OutsideUntouched /\ Staging /\ JobSafe /\ OpFits
  BY DEF IInv
<1>2. CASE UNCHANGED vars
  BY <1>1, <1>2 DEF vars, tree, job, IInv, TypeOK, WellShaped, ClientStateKept, OutsideUntouched,
                    Staging, JobSafe, OpFits, Exists, InFolder, LinkAbove
(* What the tree owes to the steps that leave it alone, and to the others. *)
<1>3. ASSUME UNCHANGED kind, displaced => displaced'
      PROVE  WellShaped' /\ ClientStateKept' /\ (\A p : LinkAbove(p)' <=> LinkAbove(p))
  BY <1>1, <1>3 DEF WellShaped, ClientStateKept, Exists, InFolder, LinkAbove
<1>4. ASSUME Done, UNCHANGED <<tree, rest>> PROVE IInv'
  BY <1>1, <1>3, <1>4 DEF Done, tree, IInv, TypeOK, OutsideUntouched, Staging, JobSafe, OpFits
<1>5. ASSUME NEW p \in Paths, TakePut(p) PROVE IInv'
  <2>1. UNCHANGED <<kind, half, outside, steps>> /\ ~Excluded(p) /\ ~LinkAbove(p)
        /\ displaced' = (displaced \/ p \in Below(DataFile))
    BY <1>5 DEF TakePut, tree
  <2>2. pc' = "parents" /\ op' = "put" /\ target' = p /\ todo' = Above(p) /\ Above(p) \subseteq Paths
    BY <1>5 DEF TakePut, Above
  <2> QED
    BY <1>1, <1>3, <2>1, <2>2 DEF IInv, TypeOK, OutsideUntouched, Staging, JobSafe, OpFits
<1>6. ASSUME NEW p \in Paths, TakeDelete(p) PROVE IInv'
  <2>1. UNCHANGED <<kind, half, outside, rest>> /\ ~ContainsClientState(p) /\ ~LinkAbove(p)
    BY <1>6 DEF TakeDelete, tree
  <2>2. pc' = "remove" /\ op' = "delete" /\ target' = p /\ todo' = {} /\ ~Excluded(p)
    BY <1>6 DEF TakeDelete, ContainsClientState
  <2> QED
    BY <1>1, <1>3, <2>1, <2>2 DEF IInv, TypeOK, OutsideUntouched, Staging, JobSafe, OpFits
(* One path changes on behalf of the job, which goes on.                   *)
<1>7. ASSUME pc # "idle", NEW p \in Paths, NEW k \in Kinds, Becomes(p, k),
             k # "none" => InFolder(p), k = "dir" \/ Empty(p), k # "link",
             ~Excluded(p) \/ (p = DataFile /\ displaced),
             half' \subseteq half, outside' = (outside \/ LinkAbove(p)), ~LinkAbove(p),
             UNCHANGED <<op, target, rest>>, todo' \subseteq todo,
             pc' = pc \/ (pc = "parents" /\ pc' = "stage")
      PROVE  IInv'
  <2>1. kind' \in [Paths -> Kinds] /\ WellShaped' /\ ClientStateKept' /\ kind'[Temp] \in {"none", "file"}
    BY <1>7, TreeKept
  <2>2. LinkAbove(target)' => LinkAbove(target)
    BY <1>1, <1>7 DEF TypeOK, Becomes, LinkAbove, Above
  <2>3. outside' \in BOOLEAN /\ OutsideUntouched'
    BY <1>1, <1>7 DEF TypeOK, OutsideUntouched
  <2> QED
    BY <1>1, <1>7, <2>1, <2>2, <2>3 DEF IInv, TypeOK, Staging, JobSafe, OpFits
<1>8. ASSUME NEW a \in todo, MakeWay(a) \/ MakeFolder(a) \/ Prune(a) PROVE IInv'
  <2>1. pc # "idle" /\ a \in Above(target) /\ target \in Paths /\ ~Excluded(target)
    BY <1>1, <1>8 DEF MakeWay, MakeFolder, Prune, JobSafe
  <2>2. a \in Paths /\ ~LinkAbove(a)
    BY <2>1, ParentLinkFree
  <2>3. ~Excluded(a) \/ (a = DataFile /\ displaced)
    <3>1. a # StateDir
      BY <2>1, NoStateAbove, OwnApart
    <3>2. a \notin Below(StateDir)
      BY <2>1, <2>2, BelowAbove, TreeAssumption DEF Excluded
    <3>3. a = DataFile => displaced
      <4> SUFFICES ASSUME a = DataFile PROVE displaced
        OBVIOUS
      <4>1. target \in Below(DataFile)
        BY <2>1, <2>2, BelowAbove
      <4>2. CASE op = "put"
        BY <1>1, <2>1, <4>1, <4>2 DEF JobSafe
      <4>3. CASE op = "delete"
        <5>1. Prune(a)
          BY <1>1, <1>8, <4>3 DEF OpFits, MakeWay, MakeFolder
        <5> QED
          BY <1>1, <5>1 DEF Prune, ClientStateKept
      <4> QED
        BY <1>1, <4>2, <4>3 DEF TypeOK
    <3> QED
      BY <3>1, <3>2, <3>3 DEF Excluded
  <2>4. CASE MakeWay(a)
    <3>1. Empty(a)
      BY <1>1, <2>2, <2>4, EmptyUnlessFolder DEF MakeWay
    <3> QED
      BY <1>7, <2>1, <2>2, <2>3, <2>4, <3>1 DEF MakeWay, Kinds, Reaches, job
  <2>5. CASE MakeFolder(a)
    BY <1>7, <2>1, <2>2, <2>3, <2>5 DEF MakeFolder, Kinds, Reaches
  <2>6. CASE Prune(a)
    <3>1. Empty(a)
      BY <1>1, <2>2, <2>6, EmptyUnlessFolder DEF Prune
    <3> QED
      BY <1>7, <2>1, <2>2, <2>3, <2>6, <3>1 DEF Prune, Kinds, Reaches
  <2> QED
    BY <1>8, <2>4, <2>5, <2>6
<1>9. ASSUME NEW q \in Paths, Remove(q) PROVE IInv'
  <2>1. pc = "remove" /\ target \in Paths /\ ~ContainsClientState(target) /\ q \in {target} \cup Below(target)
    BY <1>1, <1>9 DEF Remove, JobSafe, OpFits
  <2>2. ~Excluded(q)
    BY <2>1, NoStateBelow
  <2>3. ~LinkAbove(q)
    <3>1. CASE q = target
      BY <1>1, <2>1, <3>1 DEF JobSafe
    <3>2. CASE q # target
      <4>1. Exists(q)
        BY <1>9, <3>2 DEF Remove, Gone
      <4> QED
        BY <1>1, <4>1 DEF WellShaped, InFolder, LinkAbove
    <3> QED
      BY <3>1, <3>2
  <2> QED
    BY <1>7, <1>9, <2>1, <2>2, <2>3 DEF Remove, Kinds, Reaches, job
<1>10. CASE Place
  <2>1. pc = "parents" /\ target \in Paths /\ ~LinkAbove(target) /\ ~Excluded(target)
    BY <1>1, <1>10 DEF Place, JobSafe
  <2>2. UNCHANGED <<half, op, target, todo, rest>> /\ pc' = "stage" /\ outside' = (outside \/ LinkAbove(target))
    BY <1>10 DEF Place, Go, Reaches
  <2>3. CASE kind[target] = "dir"
    BY <1>7, <1>10, <2>1, <2>2, <2>3 DEF Place, Kinds
  <2>4. CASE kind[target] # "dir"
    <3>1. kind' = kind
      BY <1>10, <2>4 DEF Place
    <3> QED
      BY <1>1, <1>3, <2>1, <2>2, <3>1 DEF IInv, TypeOK, OutsideUntouched, Staging, JobSafe, OpFits
  <2> QED
    BY <2>3, <2>4
(* The staging file changes. *)
<1>11. ASSUME NEW k \in {"none", "file"}, Becomes(Temp, k), displaced' = displaced
       PROVE  /\ kind' \in [Paths -> Kinds] /\ WellShaped' /\ ClientStateKept'
              /\ kind'[Temp] \in {"none", "file"}
              /\ \A q \in Paths : LinkAbove(q)' => LinkAbove(q)
  <2>1. Temp \in Paths /\ StateDir \in Paths /\ Temp \notin Own /\ Own \subseteq Paths
    BY TreeAssumption DEF Own
  <2>2. InFolder(Temp)
    BY <1>1, <2>1, TreeAssumption DEF ClientStateKept, WellShaped, Exists, InFolder
  <2>3. Empty(Temp)
    BY <1>1, <2>1, EmptyUnlessFolder DEF Staging
  <2>4. WellShaped'
    BY <1>1, <1>11, <2>1, <2>2, <2>3, ShapeKept DEF Kinds
  <2> QED
    BY <1>1, <1>11, <2>1, <2>4 DEF TypeOK, Kinds, Becomes, ClientStateKept, Own, LinkAbove, Above
<1>12. CASE Stage
  <2>1. Becomes(Temp, "file") /\ half' = half \cup {Temp} /\ UNCHANGED <<outside, op, target, todo, rest>>
    BY <1>12 DEF Stage, Go
  <2>2. pc = "stage" /\ pc' = "fill" /\ Temp \in Paths
    BY <1>12, TreeAssumption DEF Stage, Go
  <2> QED
    BY <1>1, <1>11, <2>1, <2>2 DEF IInv, TypeOK, OutsideUntouched, Staging, JobSafe, OpFits
<1>13. CASE Fill
  <2>1. half' = half \ {Temp} /\ UNCHANGED <<kind, outside, op, target, todo, rest>>
        /\ pc = "fill" /\ pc' = "rename"
    BY <1>13 DEF Fill, Go
  <2> QED
    BY <1>1, <1>3, <2>1 DEF IInv, TypeOK, OutsideUntouched, Staging, JobSafe, OpFits
<1>14. CASE RenameFails
  <2>1. Becomes(Temp, "none") /\ UNCHANGED <<half, outside, rest>> /\ Done
    BY <1>14 DEF RenameFails
  <2> QED
    BY <1>1, <1>11, <2>1 DEF Done, IInv, TypeOK, OutsideUntouched, Staging, JobSafe, OpFits
<1>15. CASE Rename
  <2>1. target \in Paths /\ ~LinkAbove(target) /\ ~Excluded(target) /\ Temp \in Paths /\ target # Temp
    BY <1>1, <1>15, OwnExcluded DEF Rename, JobSafe
  <2>2. /\ kind'[target] = "file" /\ kind'[Temp] = "none"
        /\ \A q \in Paths \ {target, Temp} : kind'[q] = kind[q]
        /\ kind' \in [Paths -> Kinds]
    BY <1>1, <1>15, <2>1 DEF Rename, TypeOK, Kinds
  <2>3. ClientStateKept'
    <3>1. \A q \in Own : q \in Paths /\ q # target /\ q # Temp
      BY <2>1, OwnExcluded, TreeAssumption DEF Own
    <3>2. displaced' = displaced
      BY <1>15 DEF Rename
    <3> QED
      BY <1>1, <2>2, <3>1, <3>2 DEF ClientStateKept, Own
  <2>4. WellShaped'
    <3> SUFFICES ASSUME NEW q \in Paths, kind'[q] # "none", NEW a \in Above(q) PROVE kind'[a] = "dir"
      BY DEF WellShaped, Exists, InFolder
    <3>1. a \in Paths
      BY DEF Above
    <3>2. InFolder(q)
      BY <1>1, <1>15, <2>2 DEF Rename, WellShaped, Exists
    <3>3. kind[a] = "dir" /\ a # Temp /\ a # target
      BY <1>1, <1>15, <3>2 DEF Rename, InFolder, Staging
    <3> QED
      BY <2>2, <3>1, <3>3
  <2>5. half' \subseteq half /\ outside' = outside /\ UNCHANGED rest /\ Done
    BY <1>1, <1>15, <2>1 DEF Rename, Reaches, TypeOK
  <2> QED
    BY <1>1, <2>2, <2>3, <2>4, <2>5 DEF Done, IInv, TypeOK, OutsideUntouched, Staging, JobSafe, OpFits
<1>16. ASSUME NEW a \in todo, ParentThere(a) PROVE IInv'
  <2>1. UNCHANGED <<kind, half, outside, rest, pc, op, target>> /\ todo' \subseteq todo
    BY <1>16 DEF ParentThere, tree
  <2> QED
    BY <1>1, <1>3, <2>1 DEF IInv, TypeOK, OutsideUntouched, Staging, JobSafe, OpFits
<1>17. CASE Removed
  <2>1. pc = "remove" /\ UNCHANGED <<tree, rest>>
    BY <1>17 DEF Removed
  <2>2. CASE Done
    BY <1>4, <2>1, <2>2
  <2>3. CASE pc' = "prune" /\ todo' = Above(target) /\ UNCHANGED <<op, target>>
    BY <1>1, <1>3, <2>1, <2>3 DEF tree, Above, IInv, TypeOK, OutsideUntouched, Staging, JobSafe, OpFits
  <2> QED
    BY <1>17, <2>2, <2>3 DEF Removed
<1>18. CASE PruneEnds \/ Interrupted
  BY <1>4, <1>18 DEF PruneEnds, Interrupted
<1>19. ASSUME NEW p \in Paths, UserRemoves(p) PROVE IInv'
  <2>1. ~ContainsClientState(p) /\ UNCHANGED <<outside, pc, op, target, todo>> /\ steps' = steps + 1 /\ displaced' = displaced
    BY <1>19 DEF UserRemoves, UserMay, job
  <2>2. /\ kind' = [q \in Paths |-> IF q \in {p} \cup Below(p) THEN "none" ELSE kind[q]]
        /\ half' \subseteq half
    BY <1>19 DEF UserRemoves
  <2>3. ClientStateKept' /\ kind'[Temp] \in {"none", "file"}
    <3>1. \A q \in Own \cup {Temp} : q \in Paths /\ q \notin {p} \cup Below(p)
      BY <2>1, OwnExcluded, NoStateBelow
    <3> QED
      BY <1>1, <2>1, <2>2, <3>1 DEF ClientStateKept, Staging, Own
  <2>4. WellShaped'
    <3> SUFFICES ASSUME NEW q \in Paths, kind'[q] # "none", NEW a \in Above(q) PROVE kind'[a] = "dir"
      BY DEF WellShaped, Exists, InFolder
    <3>1. a \in Paths /\ q \in Below(a)
      BY BelowAbove DEF Above
    <3>2. kind[a] = "dir" /\ q # p /\ q \notin Below(p)
      BY <1>1, <2>2 DEF WellShaped, Exists, InFolder
    <3>3. a # p /\ a \notin Below(p)
      BY <3>1, <3>2, BelowAbove
    <3> QED
      BY <2>2, <3>1, <3>2, <3>3
  <2>5. kind' \in [Paths -> Kinds] /\ (LinkAbove(target)' => LinkAbove(target))
    BY <1>1, <2>1, <2>2 DEF TypeOK, Kinds, LinkAbove, Above
  <2> QED
    BY <1>1, <2>1, <2>2, <2>3, <2>4, <2>5 DEF IInv, TypeOK, OutsideUntouched, Staging, JobSafe, OpFits
<1>20. ASSUME NEW p \in Paths, NEW k \in {"file", "dir", "link"}, UserMakes(p, k) PROVE IInv'
  <2>1. ~ContainsClientState(p) /\ UNCHANGED <<half, outside, pc, op, target, todo>> /\ steps' = steps + 1 /\ displaced' = displaced
    BY <1>20 DEF UserMakes, UserMay, job
  <2>2. InFolder(p) /\ ~Exists(p) /\ Becomes(p, k) /\ (k = "link" => pc = "idle") /\ ~Excluded(p)
    BY <1>20 DEF UserMakes, UserMay, ContainsClientState
  <2>3. Empty(p)
    BY <1>1, <2>2, EmptyUnlessFolder DEF Exists
  <2>4. kind' \in [Paths -> Kinds] /\ WellShaped' /\ ClientStateKept' /\ kind'[Temp] \in {"none", "file"}
    BY <2>1, <2>2, <2>3, TreeKept DEF Kinds
  <2>5. k # "link" => (LinkAbove(target)' => LinkAbove(target))
    BY <1>1, <2>1, <2>2 DEF TypeOK, Becomes, LinkAbove, Above
  <2> QED
    BY <1>1, <2>1, <2>2, <2>4, <2>5 DEF IInv, TypeOK, OutsideUntouched, Staging, JobSafe, OpFits
<1>21. CASE Inbound
  BY <1>5, <1>6, <1>8, <1>9, <1>10, <1>12, <1>13, <1>14, <1>15, <1>16, <1>17, <1>18, <1>21 DEF Inbound
<1> QED
  BY <1>2, <1>19, <1>20, <1>21 DEF Next

(* The client's own files, its links and its staging area, in every tree.  *)
THEOREM VaultInvariant == Spec => []IInv
<1>1. Init => IInv
  <2> SUFFICES ASSUME Init PROVE IInv
    OBVIOUS
  <2>1. \A p \in Paths : kind[p] \in {"none", "file", "dir"} /\ Temp \in Paths
    BY TreeAssumption DEF Init
  <2>2. TypeOK
    BY <2>1 DEF Init, TypeOK, Kinds
  <2>3. ClientStateKept
    <3>1. \A j \in Journals : j # StateDir /\ j \in Paths
      BY TreeAssumption, BelowAbove
    <3>2. StateDir # DataFile
      BY TreeAssumption, BelowAbove
    <3> QED
      BY <3>1, <3>2, TreeAssumption DEF Init, ClientStateKept
  <2>4. \A a \in Above(DataFile) \cup {StateDir} : kind[a] = "dir"
    <3> SUFFICES ASSUME NEW a \in Above(DataFile) \cup {StateDir} PROVE kind[a] = "dir"
      OBVIOUS
    <3>1. a \in Paths /\ a # DataFile /\ a \notin Below(StateDir)
      <4>1. CASE a = StateDir
        BY <4>1, TreeAssumption, BelowAbove
      <4>2. CASE a \in Above(DataFile)
        <5>1. a \in Paths /\ a \in Above(StateDir) /\ StateDir \in Paths
          BY <4>2, TreeAssumption DEF Above
        <5>2. StateDir \in Below(a)
          BY <5>1, BelowAbove
        <5> QED
          BY <4>2, <5>1, <5>2, TreeAssumption, BelowAbove
      <4> QED
        BY <4>1, <4>2
    <3>2. a \notin Journals
      BY <3>1, TreeAssumption, BelowAbove
    <3> QED
      BY <3>1, <3>2 DEF Init
  <2>5. WellShaped
    <3> SUFFICES ASSUME NEW p \in Paths, kind[p] # "none", NEW a \in Above(p) PROVE kind[a] = "dir"
      BY DEF WellShaped, Exists, InFolder
    <3>1. CASE p \in {DataFile, StateDir} \cup Journals
      BY <2>4, <3>1, TreeAssumption
    <3>2. CASE p \in Above(DataFile)
      <4>1. a \in Above(DataFile)
        BY <3>2, UnderIsStrictOrder DEF Above
      <4> QED
        BY <2>4, <4>1
    <3> QED
      BY <3>1, <3>2 DEF Init
  <2>6. OutsideUntouched /\ Staging /\ JobSafe /\ OpFits
    <3>1. kind[Temp] \in {"none", "file"}
      <4>1. Temp \in Paths /\ StateDir \in Paths /\ Temp # StateDir /\ Temp \in Below(StateDir)
        BY TreeAssumption, BelowAbove
      <4>2. Temp \notin Above(DataFile)
        BY <4>1, TreeAssumption, BelowAbove
      <4> QED
        BY <4>1, <4>2 DEF Init
    <3> QED
      BY <2>1, <3>1 DEF Init, OutsideUntouched, Staging, JobSafe, OpFits
  <2> QED
    BY <2>2, <2>3, <2>5, <2>6 DEF IInv
<1> QED
  BY <1>1, StepInvariant, PTL DEF Spec

(* No inbound change takes the client's journals, nor its credentials      *)
(* unless a put for a path below data.json came before.                    *)
THEOREM ClientStateHolds == Spec => []ClientStateKept
<1>1. IInv => ClientStateKept
  BY DEF IInv
<1> QED
  BY <1>1, VaultInvariant, PTL

(* No inbound change is led out of the vault.                              *)
THEOREM OutsideHolds == Spec => []OutsideUntouched
<1>1. IInv => OutsideUntouched
  BY DEF IInv
<1> QED
  BY <1>1, VaultInvariant, PTL

(* No file that a scan finds is half-written.                              *)
THEOREM ListedWholeHolds == Spec => []ListedWhole
<1>1. IInv => ListedWhole
  BY OwnExcluded DEF IInv, Staging, ListedWhole, Listed
<1> QED
  BY <1>1, VaultInvariant, PTL

(* Only the files a change names, and those in its way, are taken.         *)
THEOREM TakesOnlyHolds == Spec => TakesOnlyWhatIsNamed
<1>1. IInv /\ [Next]_vars =>
        [Inbound => \A q \in Paths \ {Temp} :
           kind[q] \in {"file", "link"} /\ kind'[q] # kind[q] =>
             /\ pc # "prune"
             /\ q \in {target} \cup (IF op = "put" THEN Above(target) ELSE Below(target))]_vars
  <2> SUFFICES ASSUME IInv, Inbound, NEW q \in Paths \ {Temp}, kind[q] \in {"file", "link"},
                      kind'[q] # kind[q]
               PROVE  /\ pc # "prune"
                      /\ q \in {target} \cup (IF op = "put" THEN Above(target) ELSE Below(target))
    OBVIOUS
  <2>1. TypeOK /\ JobSafe /\ OpFits
    BY DEF IInv
  <2>2. ASSUME NEW p \in Paths, Remove(p)
        PROVE  pc # "prune" /\ op = "delete" /\ q \in {target} \cup Below(target)
    BY <2>1, <2>2 DEF Remove, Becomes, TypeOK, OpFits
  <2>3. ASSUME NEW a \in todo, MakeWay(a) PROVE pc # "prune" /\ op = "put" /\ q \in Above(target)
    BY <2>1, <2>3 DEF MakeWay, Becomes, TypeOK, OpFits, JobSafe
  <2>4. ASSUME NEW a \in todo, MakeFolder(a) \/ Prune(a) PROVE FALSE
    BY <2>1, <2>4 DEF MakeFolder, Prune, Becomes, TypeOK
  <2>5. ASSUME Place \/ Rename PROVE pc # "prune" /\ op = "put" /\ q = target
    BY <2>1, <2>5 DEF Place, Rename, Becomes, TypeOK, OpFits
  <2>6. ASSUME Stage \/ RenameFails PROVE FALSE
    BY <2>1, <2>6 DEF Stage, RenameFails, Becomes, TypeOK
  <2>7. ASSUME UNCHANGED kind PROVE FALSE
    BY <2>7
  <2>8. ASSUME \E p \in Paths : TakePut(p) \/ TakeDelete(p) PROVE FALSE
    BY <2>7, <2>8 DEF TakePut, TakeDelete, tree
  <2>9. ASSUME (\E a \in todo : ParentThere(a)) \/ Fill \/ Removed \/ PruneEnds \/ Interrupted PROVE FALSE
    BY <2>7, <2>9 DEF ParentThere, Fill, Removed, PruneEnds, Interrupted, tree
  <2> QED
    BY <2>2, <2>3, <2>4, <2>5, <2>6, <2>8, <2>9 DEF Inbound
<1> QED
  BY <1>1, VaultInvariant, PTL DEF Spec, TakesOnlyWhatIsNamed
=============================================================================
