------------------------- MODULE ObjectStoreProofs --------------------------
(***************************************************************************)
(* Theorems about ObjectStore for every set of paths with a strict order,  *)
(* every set of workers and every length of run.  The inductive invariant  *)
(* says that not only the committed table but also the table each open     *)
(* transaction sees is consistent after every single statement, that only  *)
(* the lock holder has written anything, and that what it has written is   *)
(* later than everything committed.  The second part proves that the       *)
(* transactions implement SharedVault.                                     *)
(***************************************************************************)
EXTENDS ObjectStore, TLAPS

TableOK(t) == Antichain(t) /\ TombstonesFirst(t) /\ RevisionsUnique(t)

(* Only a transaction that holds the lock has passed its first statement. *)
LockHeld ==
  /\ \A w \in Workers : pc[w] \in {"select", "rows", "commit"} <=> lock = w
  /\ \A w \in Workers : pc[w] # "idle" => req[w] \in Request

(* Nobody else has rows of its own. *)
OnlyHolderWrites ==
  \A w \in Workers : pc[w] \notin {"rows", "commit"} => writes[w] = Clean

(* The sequence is past every revision there is, and the revisions of an   *)
(* open transaction are past the committed ones.                           *)
SeqAhead ==
  /\ \A p \in Paths : files[p].rev <= seq
  /\ \A w \in Workers, p \in Paths :
       writes[w][p] # NoWrite =>
         /\ writes[w][p].rev <= seq
         /\ \A q \in Paths : files[q].rev < writes[w][p].rev

(* Rows still to be rewritten are live, and for an upload they are all     *)
(* that stands in the new file's way; for a delete that will bury its      *)
(* path, all that lives below it.                                          *)
TodoComplete ==
  \A w \in Workers :
    pc[w] = "rows" =>
      /\ \A q \in todo[w] : View(w)[q].live
      /\ req[w].op = "upload" => Conflicts(View(w), req[w].path) \subseteq todo[w]
      /\ req[w].op = "delete" /\ newer[w] = {} =>
           \A q \in Below(req[w].path) : View(w)[q].live => q \in todo[w]

TablesOK == TableOK(files) /\ \A w \in Workers : TableOK(View(w))

IInv == TypeOK /\ LockHeld /\ OnlyHolderWrites /\ SeqAhead /\ TodoComplete /\ TablesOK

-----------------------------------------------------------------------------
(* A tombstone with a fresh revision over a live file keeps the table      *)
(* consistent: nothing lives below a live file.                            *)
LEMMA BuryLive ==
  ASSUME NEW t \in Table, TableOK(t), NEW q \in Paths, t[q].live,
         NEW r \in Nat, \A p \in Paths : t[p].rev < r
  PROVE  TableOK([t EXCEPT ![q] = Tombstone(r)])
<1> DEFINE u == [t EXCEPT ![q] = Tombstone(r)]
<1>1. \A p \in Paths : u[p] = IF p = q THEN Tombstone(r) ELSE t[p]
  BY DEF Table
<1>2. Antichain(u)
  BY <1>1 DEF TableOK, Antichain, Tombstone
<1>3. TombstonesFirst(u)
  BY <1>1 DEF TableOK, Antichain, TombstonesFirst, Tombstone
<1>4. RevisionsUnique(u)
  BY <1>1 DEF TableOK, RevisionsUnique, Tombstone, Table, Row
<1> QED BY <1>2, <1>3, <1>4 DEF TableOK

(* The same over a path below which nothing lives. *)
LEMMA BuryEmpty ==
  ASSUME NEW t \in Table, TableOK(t), NEW q \in Paths,
         \A p \in Below(q) : ~t[p].live,
         NEW r \in Nat, \A p \in Paths : t[p].rev < r
  PROVE  TableOK([t EXCEPT ![q] = Tombstone(r)])
<1> DEFINE u == [t EXCEPT ![q] = Tombstone(r)]
<1>1. \A p \in Paths : u[p] = IF p = q THEN Tombstone(r) ELSE t[p]
  BY DEF Table
<1>2. Antichain(u)
  BY <1>1 DEF TableOK, Antichain, Tombstone
<1>3. TombstonesFirst(u)
  BY <1>1 DEF TableOK, TombstonesFirst, Tombstone, Below
<1>4. RevisionsUnique(u)
  BY <1>1 DEF TableOK, RevisionsUnique, Tombstone, Table, Row
<1> QED BY <1>2, <1>3, <1>4 DEF TableOK

(* A file written last, where nothing conflicts with it, keeps the table   *)
(* consistent.                                                             *)
LEMMA PlaceFile ==
  ASSUME NEW t \in Table, TableOK(t), NEW q \in Paths, NEW v \in Contents,
         Conflicts(t, q) = {},
         NEW r \in Nat, \A p \in Paths : t[p].rev < r
  PROVE  TableOK([t EXCEPT ![q] = FileRow(r, v)])
<1> DEFINE u == [t EXCEPT ![q] = FileRow(r, v)]
<1>1. \A p \in Paths : u[p] = IF p = q THEN FileRow(r, v) ELSE t[p]
  BY DEF Table
<1>2. \A p \in Paths : t[p].live => <<p, q>> \notin Under /\ <<q, p>> \notin Under
  BY DEF Conflicts, Above, Below
<1>3. Antichain(u)
  BY <1>1, <1>2, UnderIsStrictOrder DEF TableOK, Antichain, FileRow
<1>4. TombstonesFirst(u)
  BY <1>1, <1>2 DEF TableOK, TombstonesFirst, FileRow
<1>5. RevisionsUnique(u)
  BY <1>1 DEF TableOK, RevisionsUnique, FileRow, Table, Row
<1> QED BY <1>3, <1>4, <1>5 DEF TableOK

(* The table a transaction sees is a table, and its revisions are bounded  *)
(* by the sequence.                                                        *)
LEMMA ViewIsTable ==
  ASSUME TypeOK, SeqAhead, NEW w \in Workers
  PROVE  View(w) \in Table /\ \A p \in Paths : View(w)[p].rev <= seq
<1>1. \A p \in Paths : View(w)[p] = IF writes[w][p] = NoWrite THEN files[p] ELSE writes[w][p]
  BY DEF View
<1>2. \A p \in Paths : View(w)[p] \in Row
  BY <1>1 DEF TypeOK, Table
<1>3. View(w) \in Table
  BY <1>2 DEF View, Table
<1> QED BY <1>1, <1>3 DEF SeqAhead

(* Writing a row in a transaction changes the table it sees in that row    *)
(* and what any other transaction sees not at all.                         *)
LEMMA WriteView ==
  ASSUME TypeOK, NEW w \in Workers, NEW p \in Paths, NEW row \in Row,
         Write(w, p, row), files' = files
  PROVE  /\ View(w)' = [View(w) EXCEPT ![p] = row]
         /\ \A x \in Workers \ {w} : View(x)' = View(x)
<1>1. \A x \in Workers, q \in Paths :
        writes'[x][q] = IF x = w /\ q = p THEN row ELSE writes[x][q]
  BY DEF TypeOK, Write
<1>2. row # NoWrite
  BY Sentinels
<1> QED BY <1>1, <1>2 DEF View

-----------------------------------------------------------------------------
(* The types of the variables are an invariant of the specification by     *)
(* themselves.                                                             *)
LEMMA TypeInit == Init => TypeOK
BY DEF Init, TypeOK, Table, Row, NoRow, Clean, Row

(* Every step keeps the types. *)
LEMMA TypeStep == TypeOK /\ LockHeld /\ [Next]_vars => TypeOK'
<1> SUFFICES ASSUME TypeOK, LockHeld, [Next]_vars PROVE TypeOK'
  OBVIOUS
<1> USE DEF TypeOK
<1>1. CASE UNCHANGED vars
  BY <1>1 DEF vars
<1>2. ASSUME NEW w \in Workers, NEW r \in Requested, Receive(w, r) PROVE TypeOK'
  <2>1. \A b \in Reached(files) : b \in Nat
    BY DEF Reached, Table, Row
  <2>2. r \in Request
    BY <1>2, <2>1 DEF Requested, Request
  <2> QED BY <1>2, <2>2 DEF Receive, Goto
<1>3. ASSUME NEW w \in Workers, AcquireLock(w) PROVE TypeOK'
  BY <1>3 DEF AcquireLock, TakeLock, Goto
<1>4. ASSUME NEW w \in Workers, SelectConflicts(w) PROVE TypeOK'
  <2>1. Conflicts(View(w), req[w].path) \subseteq Paths
    BY DEF Conflicts, Above, Below
  <2> QED BY <1>4, <2>1 DEF SelectConflicts, SelectForUpload, Goto
<1>5. ASSUME NEW w \in Workers, SelectActive(w) PROVE TypeOK'
  <2>1. req[w].path \in Paths
    BY <1>5 DEF SelectActive, SelectForDelete, LockHeld, Request
  <2>2. Covered(w) \subseteq Paths
    BY <2>1 DEF Covered, Active, Below
  <2>3. Late(w) \subseteq Paths
    BY <2>2 DEF Late, NewerThan
  <2>4. \A q \in Paths : View(w)[q].rev \in Nat
    BY Sentinels DEF View, Table, Row
  <2>5. ack' \in [Workers -> Nat]
    BY <1>5, <2>3, <2>4 DEF SelectActive, SelectForDelete
  <2>6. todo' \in [Workers -> SUBSET Paths] /\ newer' \in [Workers -> SUBSET Paths]
    BY <1>5, <2>2, <2>3 DEF SelectActive, SelectForDelete
  <2> QED BY <1>5, <2>5, <2>6 DEF SelectActive, SelectForDelete, Goto
<1>6. ASSUME NEW w \in Workers, NEW q \in Paths, TombstoneRow(w, q) PROVE TypeOK'
  <2>1. Tombstone(seq + 1) \in Row
    BY DEF Tombstone, Row
  <2> QED BY <1>6, <2>1 DEF TombstoneRow, RewriteRow, Write
<1>7. ASSUME NEW w \in Workers, InsertFile(w) PROVE TypeOK'
  <2>1. req[w].path \in Paths /\ req[w].content \in Contents
    BY <1>7 DEF InsertFile, LockHeld, Request
  <2>2. FileRow(seq + 1, req[w].content) \in Row
    BY <2>1 DEF FileRow, Row
  <2> QED BY <1>7, <2>1, <2>2 DEF InsertFile, Write, Goto
<1>8. ASSUME NEW w \in Workers, InsertTombstone(w) PROVE TypeOK'
  <2>1. seq' \in Nat
    BY <1>8 DEF InsertTombstone, BuryPath
  <2>2. Tombstone(seq') \in Row
    BY <2>1 DEF Tombstone, Row
  <2> QED BY <1>8, <2>1, <2>2 DEF InsertTombstone, BuryPath, Write, Goto
<1>9. ASSUME NEW w \in Workers, KeepParent(w) PROVE TypeOK'
  BY <1>9 DEF KeepParent, Goto
<1>10. ASSUME NEW w \in Workers, End(w), files' \in Table, UNCHANGED seq PROVE TypeOK'
  BY <1>10 DEF End, Forget, Unlock, DropWrites, Goto, Clean
<1>11. ASSUME NEW w \in Workers, Commit(w) PROVE TypeOK'
  <2>1. View(w) \in Table
    BY DEF View, Table
  <2> QED BY <1>10, <1>11, <2>1 DEF Commit
<1>12. ASSUME NEW w \in Workers, Abort(w) PROVE TypeOK'
  BY <1>10, <1>12 DEF Abort
<1> QED
  BY <1>1, <1>2, <1>3, <1>4, <1>5, <1>6, <1>7, <1>8, <1>9, <1>11, <1>12 DEF Next, Run

(* A request holds the lock exactly between its first and last statement.  *)
LEMMA LockStep == TypeOK /\ LockHeld /\ [Next]_vars => LockHeld'
<1> SUFFICES ASSUME TypeOK, LockHeld, [Next]_vars PROVE LockHeld'
  OBVIOUS
<1> USE Sentinels DEF TypeOK, LockHeld
<1>1. CASE UNCHANGED vars
  BY <1>1 DEF vars
<1>2. ASSUME NEW w \in Workers, NEW r \in Requested, Receive(w, r) PROVE LockHeld'
  <2>1. \A b \in Reached(files) : b \in Nat
    BY DEF Reached, Table, Row
  <2>2. r \in Request
    BY <1>2, <2>1 DEF Requested, Request
  <2> QED BY <1>2, <2>2 DEF Receive, Goto
<1>3. ASSUME NEW w \in Workers, AcquireLock(w) PROVE LockHeld'
  BY <1>3 DEF AcquireLock, TakeLock, Goto
<1>4. ASSUME NEW w \in Workers, SelectConflicts(w) PROVE LockHeld'
  BY <1>4 DEF SelectConflicts, SelectForUpload, Goto
<1>5. ASSUME NEW w \in Workers, SelectActive(w) PROVE LockHeld'
  BY <1>5 DEF SelectActive, SelectForDelete, Goto
<1>6. ASSUME NEW w \in Workers, NEW q \in Paths, TombstoneRow(w, q) PROVE LockHeld'
  BY <1>6 DEF TombstoneRow, RewriteRow
<1>7. ASSUME NEW w \in Workers, InsertFile(w) PROVE LockHeld'
  BY <1>7 DEF InsertFile, Goto
<1>8. ASSUME NEW w \in Workers, InsertTombstone(w) PROVE LockHeld'
  BY <1>8 DEF InsertTombstone, BuryPath, Goto
<1>9. ASSUME NEW w \in Workers, KeepParent(w) PROVE LockHeld'
  BY <1>9 DEF KeepParent, Goto
<1>10. ASSUME NEW w \in Workers, End(w) PROVE LockHeld'
  BY <1>10 DEF End, Forget, Unlock, DropWrites, Goto
<1>11. ASSUME NEW w \in Workers, Commit(w) PROVE LockHeld'
  BY <1>10, <1>11 DEF Commit
<1>12. ASSUME NEW w \in Workers, Abort(w) PROVE LockHeld'
  BY <1>10, <1>12 DEF Abort
<1> QED
  BY <1>1, <1>2, <1>3, <1>4, <1>5, <1>6, <1>7, <1>8, <1>9, <1>11, <1>12 DEF Next, Run

(* Type correctness: the variables of the store stay in their types.       *)
THEOREM TypeCorrect == Spec => []TypeOK
<1>1. Init => TypeOK /\ LockHeld
  BY TypeInit, Sentinels DEF Init, LockHeld
<1>2. (TypeOK /\ LockHeld) /\ [Next]_vars => (TypeOK /\ LockHeld)'
  BY TypeStep, LockStep
<1> QED BY <1>1, <1>2, PTL DEF Spec

-----------------------------------------------------------------------------
(* Only the transaction with the lock has uncommitted rows. *)
LEMMA WritesStep == IInv /\ [Next]_vars => OnlyHolderWrites'
<1> SUFFICES ASSUME IInv, [Next]_vars PROVE OnlyHolderWrites'
  OBVIOUS
<1> USE DEF IInv, TypeOK, OnlyHolderWrites
<1>1. CASE UNCHANGED vars
  BY <1>1 DEF vars
<1>2. ASSUME NEW w \in Workers, NEW r \in Requested, Receive(w, r) PROVE OnlyHolderWrites'
  BY <1>2 DEF Receive, Goto
<1>3. ASSUME NEW w \in Workers, AcquireLock(w) PROVE OnlyHolderWrites'
  BY <1>3 DEF AcquireLock, TakeLock, Goto
<1>4. ASSUME NEW w \in Workers, SelectConflicts(w) PROVE OnlyHolderWrites'
  BY <1>4 DEF SelectConflicts, SelectForUpload, Goto
<1>5. ASSUME NEW w \in Workers, SelectActive(w) PROVE OnlyHolderWrites'
  BY <1>5 DEF SelectActive, SelectForDelete, Goto
<1>6. ASSUME NEW w \in Workers, NEW q \in Paths, TombstoneRow(w, q) PROVE OnlyHolderWrites'
  BY <1>6 DEF TombstoneRow, RewriteRow, Write
<1>7. ASSUME NEW w \in Workers, InsertFile(w) PROVE OnlyHolderWrites'
  BY <1>7 DEF InsertFile, Write, Goto
<1>8. ASSUME NEW w \in Workers, InsertTombstone(w) PROVE OnlyHolderWrites'
  BY <1>8 DEF InsertTombstone, BuryPath, Write, Goto
<1>9. ASSUME NEW w \in Workers, KeepParent(w) PROVE OnlyHolderWrites'
  BY <1>9 DEF KeepParent, Goto
<1>10. ASSUME NEW w \in Workers, End(w) PROVE OnlyHolderWrites'
  BY <1>10 DEF End, Forget, Unlock, DropWrites, Goto
<1> QED
  BY <1>1, <1>2, <1>3, <1>4, <1>5, <1>6, <1>7, <1>8, <1>9, <1>10 DEF Next, Run, Commit, Abort

(* A row written with a number the sequence has just passed keeps the      *)
(* sequence ahead.                                                         *)
LEMMA WriteAhead ==
  ASSUME IInv, NEW w \in Workers, NEW p \in Paths, NEW row \in Row,
         Write(w, p, row), files' = files, seq' \in Nat,
         seq < row.rev, row.rev <= seq'
  PROVE  SeqAhead'
<1>1. \A x \in Workers, q \in Paths :
        writes'[x][q] = IF x = w /\ q = p THEN row ELSE writes[x][q]
  BY DEF IInv, TypeOK, Write
<1>2. row.rev \in Nat /\ seq \in Nat
  BY DEF IInv, TypeOK, Row
<1>3. \A q \in Paths : files[q].rev \in Nat /\ files[q].rev <= seq
  BY DEF IInv, TypeOK, SeqAhead, Table, Row
<1>4. \A q \in Paths : files'[q].rev <= seq'
  BY <1>2, <1>3
<1>5. ASSUME NEW x \in Workers, NEW q \in Paths, writes'[x][q] # NoWrite
      PROVE  /\ writes'[x][q].rev <= seq'
             /\ \A z \in Paths : files'[z].rev < writes'[x][q].rev
  <2>1. CASE x = w /\ q = p
    BY <1>1, <1>2, <1>3, <2>1
  <2>2. CASE ~(x = w /\ q = p)
    <3>1. writes'[x][q] = writes[x][q]
      BY <1>1, <2>2
    <3>2. writes[x][q].rev \in Nat
      BY <1>5, <3>1 DEF IInv, TypeOK, Row
    <3> QED BY <1>2, <1>5, <3>1, <3>2 DEF IInv, SeqAhead
  <2> QED BY <2>1, <2>2
<1> QED BY <1>4, <1>5 DEF SeqAhead

(* No row, committed or not, is past the sequence. *)
LEMMA SeqStep == IInv /\ [Next]_vars => SeqAhead'
<1> SUFFICES ASSUME IInv, [Next]_vars PROVE SeqAhead'
  OBVIOUS
<1>1. CASE UNCHANGED <<files, seq, writes>>
  BY <1>1 DEF IInv, SeqAhead
<1>2. ASSUME NEW w \in Workers, NEW q \in Paths, TombstoneRow(w, q) PROVE SeqAhead'
  <2>1. Tombstone(seq + 1) \in Row /\ Tombstone(seq + 1).rev = seq + 1 /\ seq \in Nat
    BY DEF Tombstone, Row, IInv, TypeOK
  <2> QED BY <1>2, <2>1, WriteAhead DEF TombstoneRow, RewriteRow
<1>3. ASSUME NEW w \in Workers, InsertFile(w) PROVE SeqAhead'
  <2>1. seq \in Nat /\ req[w].path \in Paths /\ req[w].content \in Contents
    BY <1>3 DEF IInv, TypeOK, InsertFile, LockHeld, Request
  <2>2. /\ FileRow(seq + 1, req[w].content) \in Row
        /\ FileRow(seq + 1, req[w].content).rev = seq + 1
    BY <2>1 DEF FileRow, Row
  <2> QED BY <1>3, <2>1, <2>2, WriteAhead DEF InsertFile
<1>4. ASSUME NEW w \in Workers, InsertTombstone(w) PROVE SeqAhead'
  <2>1. seq \in Nat /\ seq' \in Nat /\ seq < seq' /\ req[w].path \in Paths
    BY <1>4 DEF IInv, TypeOK, InsertTombstone, BuryPath, LockHeld, Request
  <2>2. Tombstone(seq') \in Row /\ Tombstone(seq').rev = seq'
    BY <2>1 DEF Tombstone, Row
  <2> QED BY <1>4, <2>1, <2>2, WriteAhead DEF InsertTombstone, BuryPath
<1>5. ASSUME NEW w \in Workers, Commit(w) PROVE SeqAhead'
  <2>1. View(w) \in Table /\ \A p \in Paths : View(w)[p].rev <= seq
    BY ViewIsTable DEF IInv
  <2>2. writes' = [writes EXCEPT ![w] = Clean] /\ seq' = seq /\ files' = View(w)
    BY <1>5 DEF Commit, End, Forget, Unlock, DropWrites
  <2>3. pc[w] = "commit" /\ \A x \in Workers \ {w} : pc[x] \notin {"rows", "commit"}
    BY <1>5 DEF Commit, IInv, LockHeld
  <2>4. \A x \in Workers : writes'[x] = Clean
    BY <2>2, <2>3 DEF IInv, OnlyHolderWrites, TypeOK
  <2> QED BY <2>1, <2>2, <2>4 DEF SeqAhead, Clean
<1>6. ASSUME NEW w \in Workers, Abort(w) PROVE SeqAhead'
  <2>1. \A x \in Workers, q \in Paths : writes'[x][q] = NoWrite \/ writes'[x][q] = writes[x][q]
    BY <1>6 DEF Abort, End, Forget, Unlock, DropWrites, Clean, IInv, TypeOK
  <2> QED BY <1>6, <2>1 DEF Abort, IInv, SeqAhead
<1> QED
  BY <1>1, <1>2, <1>3, <1>4, <1>5, <1>6
  DEF Next, Run, vars, Receive, AcquireLock, TakeLock, SelectConflicts, SelectForUpload,
      SelectActive, SelectForDelete, KeepParent

-----------------------------------------------------------------------------
(* While a worker is between statements that touch its rows, what it sees  *)
(* changes only with the committed table or its own writes.                *)
LEMMA SameView ==
  ASSUME UNCHANGED <<files, writes>>, NEW w \in Workers
  PROVE  View(w)' = View(w)
BY DEF View

(* What a transaction still has to bury is in its list. *)
LEMMA TodoStep == IInv /\ [Next]_vars => TodoComplete'
<1> SUFFICES ASSUME IInv, [Next]_vars, NEW x \in Workers, pc'[x] = "rows"
             PROVE  /\ \A q \in todo'[x] : View(x)'[q].live
                    /\ req'[x].op = "upload" => Conflicts(View(x)', req'[x].path) \subseteq todo'[x]
                    /\ req'[x].op = "delete" /\ newer'[x] = {} =>
                         \A q \in Below(req'[x].path) : View(x)'[q].live => q \in todo'[x]
  BY DEF TodoComplete
<1> DEFINE Goal == /\ \A q \in todo'[x] : View(x)'[q].live
                   /\ req'[x].op = "upload" => Conflicts(View(x)', req'[x].path) \subseteq todo'[x]
                   /\ req'[x].op = "delete" /\ newer'[x] = {} =>
                        \A q \in Below(req'[x].path) : View(x)'[q].live => q \in todo'[x]
<1>1. CASE UNCHANGED <<files, writes, todo, newer>> /\ pc[x] = "rows" /\ req'[x] = req[x]
  BY <1>1, SameView DEF IInv, TodoComplete
<1>2. CASE UNCHANGED vars
  BY <1>1, <1>2 DEF vars
<1>3. ASSUME NEW w \in Workers, NEW r \in Requested, Receive(w, r) PROVE Goal
  BY <1>1, <1>3 DEF Receive, Goto, IInv, TypeOK
<1>4. ASSUME NEW w \in Workers, AcquireLock(w) PROVE Goal
  BY <1>1, <1>4 DEF AcquireLock, TakeLock, Goto, IInv, TypeOK
<1>5. ASSUME NEW w \in Workers, SelectConflicts(w) PROVE Goal
  <2>1. View(x)' = View(x)
    BY <1>5, SameView DEF SelectConflicts, SelectForUpload
  <2>2. CASE x = w
    BY <1>5, <2>1, <2>2 DEF SelectConflicts, SelectForUpload, Conflicts, IInv, TypeOK
  <2>3. CASE x # w
    <3>1. pc[x] = "rows" /\ todo'[x] = todo[x]
      BY <1>5, <2>3 DEF SelectConflicts, SelectForUpload, Goto, IInv, TypeOK
    <3> QED BY <1>5, <2>1, <3>1 DEF SelectConflicts, SelectForUpload, IInv, TodoComplete
  <2> QED BY <2>2, <2>3
<1>6. ASSUME NEW w \in Workers, SelectActive(w) PROVE Goal
  <2>1. View(x)' = View(x)
    BY <1>6, SameView DEF SelectActive, SelectForDelete
  <2>2. CASE x = w
    <3>1. /\ todo'[w] = Covered(w) \ (Late(w) \cup {req[w].path})
          /\ newer'[w] = Late(w)
          /\ req'[w] = req[w] /\ req[w].op = "delete"
      BY <1>6 DEF SelectActive, SelectForDelete, IInv, TypeOK
    <3>2. \A q \in Covered(w) : View(w)[q].live
      BY DEF Covered, Active
    <3>3. req[w].path \in Paths
      BY <1>6 DEF SelectActive, SelectForDelete, IInv, LockHeld, Request
    <3>4. \A q \in Below(req[w].path) : View(w)[q].live => q \in Covered(w) /\ q # req[w].path
      BY <3>3, UnderIsStrictOrder DEF Covered, Active, Below
    <3> QED BY <2>1, <2>2, <3>1, <3>2, <3>4
  <2>3. CASE x # w
    <3>1. pc[x] = "rows" /\ todo'[x] = todo[x] /\ newer'[x] = newer[x]
      BY <1>6, <2>3 DEF SelectActive, SelectForDelete, Goto, IInv, TypeOK
    <3> QED BY <1>6, <2>1, <3>1 DEF SelectActive, SelectForDelete, IInv, TodoComplete
  <2> QED BY <2>2, <2>3
<1>7. ASSUME NEW w \in Workers, NEW q \in Paths, TombstoneRow(w, q) PROVE Goal
  <2>1. x = w
    BY <1>7 DEF TombstoneRow, RewriteRow, IInv, LockHeld
  <2>2. Tombstone(seq + 1) \in Row /\ ~Tombstone(seq + 1).live
    BY DEF Tombstone, Row, IInv, TypeOK
  <2>3. View(w)' = [View(w) EXCEPT ![q] = Tombstone(seq + 1)]
    BY <1>7, <2>2, WriteView DEF TombstoneRow, RewriteRow, IInv
  <2>4. \A p \in Paths : View(w)'[p] = IF p = q THEN Tombstone(seq + 1) ELSE View(w)[p]
    BY <2>3 DEF View
  <2>5. todo'[w] = todo[w] \ {q} /\ req' = req /\ newer' = newer /\ pc[w] = "rows"
    BY <1>7 DEF TombstoneRow, RewriteRow, IInv, TypeOK
  <2>6. todo[w] \subseteq Paths
    BY DEF IInv, TypeOK
  <2>7. \A z \in todo'[w] : View(w)'[z].live
    BY <2>4, <2>5, <2>6 DEF IInv, TodoComplete
  <2>8. req'[w].op = "upload" => Conflicts(View(w)', req'[w].path) \subseteq todo'[w]
    <3> SUFFICES ASSUME req[w].op = "upload", NEW z \in Conflicts(View(w)', req[w].path)
                 PROVE  z \in todo'[w]
      BY <2>5
    <3>1. z \in Paths /\ z \in Above(req[w].path) \cup Below(req[w].path) /\ View(w)'[z].live
      BY DEF Conflicts, Above, Below
    <3>2. z # q /\ z \in Conflicts(View(w), req[w].path)
      BY <2>2, <2>4, <3>1 DEF Conflicts
    <3> QED BY <2>5, <3>2 DEF IInv, TodoComplete
  <2>9. req'[w].op = "delete" /\ newer'[w] = {} =>
          \A z \in Below(req'[w].path) : View(w)'[z].live => z \in todo'[w]
    BY <2>2, <2>4, <2>5 DEF IInv, TodoComplete, Below
  <2> QED BY <2>1, <2>7, <2>8, <2>9
<1>8. ASSUME NEW w \in Workers, InsertFile(w) PROVE Goal
  BY <1>8 DEF InsertFile, Goto, IInv, TypeOK, LockHeld
<1>9. ASSUME NEW w \in Workers, InsertTombstone(w) PROVE Goal
  BY <1>9 DEF InsertTombstone, BuryPath, Goto, IInv, TypeOK, LockHeld
<1>10. ASSUME NEW w \in Workers, KeepParent(w) PROVE Goal
  BY <1>10 DEF KeepParent, Goto, IInv, TypeOK, LockHeld
<1>11. ASSUME NEW w \in Workers, Commit(w) PROVE Goal
  BY <1>11 DEF Commit, End, Forget, Unlock, DropWrites, Goto, IInv, TypeOK, LockHeld
<1>12. ASSUME NEW w \in Workers, Abort(w) PROVE Goal
  <2>1. x # w /\ pc[x] = "rows"
    BY <1>12 DEF Abort, End, Forget, Unlock, DropWrites, Goto, IInv, TypeOK
  <2>2. /\ todo'[x] = todo[x] /\ newer'[x] = newer[x] /\ req'[x] = req[x]
        /\ writes'[x] = writes[x] /\ files' = files
    BY <1>12, <2>1 DEF Abort, End, Forget, Unlock, DropWrites, IInv, TypeOK
  <2>3. View(x)' = View(x)
    BY <2>2 DEF View
  <2> QED BY <2>1, <2>2, <2>3 DEF IInv, TodoComplete
<1> QED
  BY <1>2, <1>3, <1>4, <1>5, <1>6, <1>7, <1>8, <1>9, <1>10, <1>11, <1>12 DEF Next, Run

-----------------------------------------------------------------------------
(* Every statement leaves the table its transaction sees consistent.       *)
LEMMA TablesStep == IInv /\ [Next]_vars => TablesOK'
<1> SUFFICES ASSUME IInv, [Next]_vars PROVE TablesOK'
  OBVIOUS
<1> USE DEF IInv, TablesOK
<1>1. CASE UNCHANGED <<files, writes>>
  <2>1. \A x \in Workers : View(x)' = View(x)
    BY <1>1, SameView
  <2> QED BY <1>1, <2>1
<1>2. ASSUME NEW w \in Workers, NEW p \in Paths, NEW row \in Row, Write(w, p, row), files' = files,
             TableOK([View(w) EXCEPT ![p] = row])
      PROVE  TablesOK'
  <2>1. /\ View(w)' = [View(w) EXCEPT ![p] = row]
        /\ \A x \in Workers \ {w} : View(x)' = View(x)
    BY <1>2, WriteView
  <2> QED BY <1>2, <2>1
<1>3. ASSUME NEW w \in Workers
      PROVE  /\ View(w) \in Table /\ TableOK(View(w))
             /\ \A r \in Nat : seq < r => \A p \in Paths : View(w)[p].rev < r
  <2>1. View(w) \in Table /\ \A p \in Paths : View(w)[p].rev <= seq
    BY ViewIsTable
  <2>2. \A p \in Paths : View(w)[p].rev \in Nat
    BY <2>1 DEF Table, Row
  <2> QED BY <2>1, <2>2 DEF TypeOK
<1>4. ASSUME NEW w \in Workers, NEW q \in Paths, TombstoneRow(w, q) PROVE TablesOK'
  <2>1. Tombstone(seq + 1) \in Row /\ seq + 1 \in Nat /\ seq < seq + 1
    BY DEF Tombstone, Row, TypeOK
  <2>2. View(w)[q].live
    BY <1>4 DEF TombstoneRow, RewriteRow, TodoComplete
  <2>3. TableOK([View(w) EXCEPT ![q] = Tombstone(seq + 1)])
    BY <1>3, <2>1, <2>2, BuryLive
  <2> QED BY <1>2, <1>4, <2>1, <2>3 DEF TombstoneRow, RewriteRow
<1>5. ASSUME NEW w \in Workers, InsertFile(w) PROVE TablesOK'
  <2>1. req[w].path \in Paths /\ req[w].content \in Contents
    BY <1>5 DEF InsertFile, TypeOK, LockHeld, Request
  <2>2. /\ FileRow(seq + 1, req[w].content) \in Row
        /\ seq + 1 \in Nat /\ seq < seq + 1
    BY <2>1 DEF FileRow, Row, TypeOK
  <2>3. Conflicts(View(w), req[w].path) = {}
    BY <1>5 DEF InsertFile, TodoComplete
  <2>4. TableOK([View(w) EXCEPT ![req[w].path] = FileRow(seq + 1, req[w].content)])
    BY <1>3, <2>1, <2>2, <2>3, PlaceFile
  <2> QED BY <1>2, <1>5, <2>1, <2>2, <2>4 DEF InsertFile
<1>6. ASSUME NEW w \in Workers, InsertTombstone(w) PROVE TablesOK'
  <2>1. req[w].path \in Paths /\ seq' \in Nat /\ seq < seq'
    BY <1>6 DEF InsertTombstone, BuryPath, TypeOK, LockHeld, Request
  <2>2. Tombstone(seq') \in Row
    BY <2>1 DEF Tombstone, Row
  <2>3. \A z \in Below(req[w].path) : ~View(w)[z].live
    BY <1>6 DEF InsertTombstone, BuryPath, TodoComplete
  <2>4. TableOK([View(w) EXCEPT ![req[w].path] = Tombstone(seq')])
    <3> DEFINE r == seq'  t == View(w)  q == req[w].path
    <3>1. /\ t \in Table /\ TableOK(t) /\ q \in Paths /\ r \in Nat
          /\ \A p \in Below(q) : ~t[p].live
          /\ \A p \in Paths : t[p].rev < r
      BY <1>3, <2>1, <2>3
    <3> HIDE DEF r, t, q
    <3>2. TableOK([t EXCEPT ![q] = Tombstone(r)])
      BY <3>1, BuryEmpty
    <3> QED BY <3>2 DEF r, t, q
  <2> QED BY <1>2, <1>6, <2>1, <2>2, <2>4 DEF InsertTombstone, BuryPath
<1>7. ASSUME NEW w \in Workers, End(w), files' = files \/ (files' = View(w) /\ pc[w] = "commit")
      PROVE  TablesOK'
  <2>1. TableOK(files')
    BY <1>7
  <2>2. ASSUME NEW x \in Workers PROVE View(x)' = files' \/ View(x)' = View(x)
    <3>1. CASE writes'[x] = Clean
      <4>1. files' \in Table
        BY <1>3, <1>7 DEF TypeOK
      <4> QED BY <3>1, <4>1 DEF View, Clean, Table
    <3>2. CASE writes'[x] # Clean
      <4>1. x # w /\ writes'[x] = writes[x]
        BY <1>7, <3>2 DEF End, Forget, Unlock, DropWrites, TypeOK
      <4>2. pc[x] \in {"rows", "commit"}
        BY <3>2, <4>1 DEF OnlyHolderWrites
      <4>3. files' = files
        BY <1>7, <4>1, <4>2 DEF LockHeld
      <4> QED BY <4>1, <4>3 DEF View
    <3> QED BY <3>1, <3>2
  <2> QED BY <2>1, <2>2
<1>8. ASSUME NEW w \in Workers, Commit(w) PROVE TablesOK'
  BY <1>7, <1>8 DEF Commit
<1>9. ASSUME NEW w \in Workers, Abort(w) PROVE TablesOK'
  <2>1. End(w) /\ files' = files
    BY <1>9 DEF Abort
  <2> QED BY <1>7, <2>1
<1> QED
  BY <1>1, <1>4, <1>5, <1>6, <1>8, <1>9
  DEF Next, Run, vars, Receive, AcquireLock, TakeLock, SelectConflicts, SelectForUpload,
      SelectActive, SelectForDelete, KeepParent

(* The invariant holds at the start. *)
LEMMA IInvInit == Init => IInv
<1> SUFFICES ASSUME Init PROVE IInv
  OBVIOUS
<1>1. TypeOK
  BY TypeInit
<1>2. \A w \in Workers : View(w) = files
  BY DEF Init, View, Clean
<1>3. TableOK(files)
  BY DEF Init, NoRow, TableOK, Antichain, TombstonesFirst, RevisionsUnique
<1>4. SeqAhead
  BY DEF Init, SeqAhead, Clean, NoRow
<1> QED
  BY <1>1, <1>2, <1>3, <1>4, Sentinels
  DEF Init, IInv, LockHeld, OnlyHolderWrites, TodoComplete, TablesOK

(* The strengthened invariant holds throughout every run.                  *)
THEOREM StoreInvariant == Spec => []IInv
<1>1. IInv /\ [Next]_vars => IInv'
  BY TypeStep, LockStep, WritesStep, SeqStep, TodoStep, TablesStep DEF IInv
<1> QED BY IInvInit, <1>1, PTL DEF Spec

(* However many uploads and deletes are in flight, the committed table     *)
(* never holds a file inside a file.                                       *)
THEOREM NoFileInsideFileHolds == Spec => []NoFileInsideFile
<1>1. IInv => NoFileInsideFile
  BY DEF IInv, TablesOK, TableOK, NoFileInsideFile
<1> QED BY StoreInvariant, <1>1, PTL

(* Live files in deleted folders are always later than the deletion.       *)
THEOREM DeletedFolderHolds == Spec => []DeletedFolderKeepsNewerFiles
<1>1. IInv => DeletedFolderKeepsNewerFiles
  BY DEF IInv, TablesOK, TableOK, DeletedFolderKeepsNewerFiles
<1> QED BY StoreInvariant, <1>1, PTL

(* /inbox orders all changes: no two rows share a revision.                *)
THEOREM RowsOrderedHolds == Spec => []RowsOrdered
<1>1. IInv => RowsOrdered
  BY DEF IInv, TablesOK, TableOK, RowsOrdered
<1> QED BY StoreInvariant, <1>1, PTL

(* A commit changes rows only to revisions above all committed ones, and   *)
(* no other step changes the table.                                        *)
LEMMA TableRises ==
  ASSUME IInv, [Next]_vars, NEW p \in Paths, files'[p] # files[p]
  PROVE  \A q \in Paths : files'[p].rev > files[q].rev
<1>1. ASSUME NEW w \in Workers, Commit(w)
      PROVE  \A q \in Paths : files'[p].rev > files[q].rev
  <2>1. files'[p] = writes[w][p] /\ writes[w][p] # NoWrite
    BY <1>1 DEF Commit, View
  <2> QED BY <2>1 DEF IInv, SeqAhead
<1>2. CASE files' = files
  BY <1>2
<1> QED
  BY <1>1, <1>2
  DEF Next, vars, Run, Receive, AcquireLock, TakeLock, SelectConflicts, SelectForUpload,
      SelectActive, SelectForDelete, TombstoneRow, RewriteRow, BuryPath, InsertFile,
      InsertTombstone, KeepParent, Abort

(* No commit brings in a revision below one already committed: a client    *)
(* that has read up to some revision never misses a later change.          *)
THEOREM NoLateRevisionHolds == Spec => NoLateRevision
<1> DEFINE Rising == \A p, q \in Paths : files'[p] # files[p] => files'[p].rev > files[q].rev
<1>1. IInv /\ [Next]_vars => [Rising]_vars
  BY TableRises
<1> QED BY StoreInvariant, <1>1, PTL DEF Spec, NoLateRevision

-----------------------------------------------------------------------------
(* The revision a response will carry is one the transaction sees, once    *)
(* there is something to answer.                                           *)
Answered(w) ==
  pc[w] = "commit" \/ (pc[w] = "rows" /\ req[w].op = "delete" /\ newer[w] # {}) =>
    ack[w] # 0 /\ \E p \in Paths : View(w)[p].rev = ack[w]

AInv == \A w \in Workers : Answered(w)

(* Every step keeps the answers true. *)
LEMMA AnsweredStep ==
  ASSUME IInv, AInv, [Next]_vars
  PROVE  AInv'
<1> SUFFICES ASSUME NEW x \in Workers PROVE Answered(x)'
  BY DEF AInv
<1>1. ASSUME pc'[x] = pc[x], req'[x] = req[x], newer'[x] = newer[x], ack'[x] = ack[x],
             files' = files, writes'[x] = writes[x]
      PROVE  Answered(x)'
  BY <1>1 DEF AInv, Answered, View
<1>2. CASE UNCHANGED vars
  BY <1>1, <1>2 DEF vars
<1>3. CASE pc'[x] \notin {"rows", "commit"}
  BY <1>3 DEF Answered
<1>4. ASSUME NEW w \in Workers, w # x, Commit(w) PROVE Answered(x)'
  <2>1. pc'[x] = pc[x] /\ pc[x] \notin {"rows", "commit"}
    BY <1>4 DEF Commit, End, Forget, Goto, IInv, TypeOK, LockHeld
  <2> QED BY <1>3, <2>1
<1>5. ASSUME NEW w \in Workers, w # x,
             \/ AcquireLock(w) \/ SelectConflicts(w) \/ SelectActive(w)
             \/ InsertFile(w) \/ InsertTombstone(w) \/ KeepParent(w)
      PROVE  Answered(x)'
  <2>1. /\ pc'[x] = pc[x] /\ req'[x] = req[x] /\ newer'[x] = newer[x] /\ ack'[x] = ack[x]
        /\ files' = files /\ writes'[x] = writes[x]
    BY <1>5
    DEF AcquireLock, TakeLock, SelectConflicts, SelectForUpload, SelectActive,
        SelectForDelete, InsertFile, InsertTombstone, BuryPath, KeepParent, Write, Goto,
        IInv, TypeOK
  <2> QED BY <1>1, <2>1
<1>6. ASSUME NEW w \in Workers, w # x, NEW r \in Requested, Receive(w, r)
      PROVE  Answered(x)'
  BY <1>1, <1>6 DEF Receive, Goto, IInv, TypeOK
<1>7. ASSUME NEW w \in Workers, w # x, NEW q \in Paths, TombstoneRow(w, q)
      PROVE  Answered(x)'
  BY <1>1, <1>7 DEF TombstoneRow, RewriteRow, Write, IInv, TypeOK
<1>8. ASSUME NEW w \in Workers, w # x, Abort(w) PROVE Answered(x)'
  BY <1>1, <1>8 DEF Abort, End, Forget, Unlock, DropWrites, Goto, IInv, TypeOK
<1>9. CASE (\E r \in Requested : Receive(x, r)) \/ AcquireLock(x) \/ Commit(x) \/ Abort(x)
  BY <1>3, <1>9
  DEF Receive, AcquireLock, TakeLock, Commit, Abort, End, Forget, Goto, IInv, TypeOK
<1>10. CASE SelectConflicts(x)
  BY <1>10 DEF SelectConflicts, SelectForUpload, Goto, Answered, IInv, TypeOK
<1>11. CASE SelectActive(x)
  <2>1. /\ pc'[x] = "rows" /\ newer'[x] = Late(x) /\ View(x)' = View(x)
        /\ pc[x] = "select" /\ req[x] \in Request /\ req[x].op = "delete"
    BY <1>11, SameView DEF SelectActive, SelectForDelete, Goto, IInv, TypeOK, LockHeld
  <2> SUFFICES ASSUME Late(x) # {}
               PROVE  ack'[x] # 0 /\ \E p \in Paths : View(x)[p].rev = ack'[x]
    BY <2>1 DEF Answered
  <2>2. PICK q \in Late(x) : ack' = [ack EXCEPT ![x] = View(x)[q].rev]
    BY <1>11 DEF SelectActive
  <2>3. ack'[x] = View(x)[q].rev
    BY <2>2 DEF IInv, TypeOK
  <2>4. req[x].base \in Nat /\ req[x].path \in Paths
    BY <2>1, <2>2 DEF Late, Request
  <2>5. q \in Paths /\ View(x)[q].rev > req[x].base
    BY <2>2, <2>4 DEF Late, NewerThan, Covered, Active, Below
  <2>6. View(x)[q].rev \in Nat
    BY <2>5, ViewIsTable DEF IInv, Table, Row
  <2> QED BY <2>3, <2>4, <2>5, <2>6
<1>12. ASSUME NEW p \in Paths, NEW row \in Row, Write(x, p, row), ack'[x] = row.rev,
              row.rev # 0, files' = files
       PROVE  Answered(x)'
  <2>1. View(x)' = [View(x) EXCEPT ![p] = row]
    BY <1>12, WriteView DEF IInv
  <2>2. View(x)'[p].rev = ack'[x]
    BY <1>12, <2>1 DEF View
  <2> QED BY <1>12, <2>2 DEF Answered
<1>13. ASSUME NEW q \in Paths, TombstoneRow(x, q) PROVE Answered(x)'
  <2>1. Tombstone(seq + 1) \in Row /\ Tombstone(seq + 1).rev = seq + 1 /\ seq + 1 # 0
    BY DEF Tombstone, Row, IInv, TypeOK
  <2> QED BY <1>12, <1>13, <2>1 DEF TombstoneRow, RewriteRow, IInv, TypeOK
<1>14. CASE InsertFile(x)
  <2> DEFINE row == FileRow(seq + 1, req[x].content)
  <2>1. row \in Row /\ row.rev = seq + 1 /\ seq + 1 # 0 /\ req[x].path \in Paths
    BY <1>14 DEF InsertFile, FileRow, Row, IInv, TypeOK, LockHeld, Request
  <2>2. Write(x, req[x].path, row) /\ ack'[x] = seq + 1 /\ files' = files
    BY <1>14 DEF InsertFile, IInv, TypeOK
  <2> HIDE DEF row
  <2> QED BY <1>12, <2>1, <2>2
<1>15. CASE InsertTombstone(x)
  <2> DEFINE row == Tombstone(seq')
  <2>1. row \in Row /\ row.rev = seq' /\ seq' # 0 /\ req[x].path \in Paths
    BY <1>15
    DEF InsertTombstone, BuryPath, Tombstone, Row, IInv, TypeOK, LockHeld, Request
  <2>2. Write(x, req[x].path, row) /\ ack'[x] = seq' /\ files' = files
    BY <1>15 DEF InsertTombstone, BuryPath, IInv, TypeOK
  <2> HIDE DEF row
  <2> QED BY <1>12, <2>1, <2>2
<1>16. CASE KeepParent(x)
  <2>1. /\ pc[x] = "rows" /\ req[x].op = "delete" /\ newer[x] # {}
        /\ ack'[x] = ack[x] /\ View(x)' = View(x)
    BY <1>16, SameView DEF KeepParent
  <2> QED BY <2>1 DEF AInv, Answered
<1> QED
  BY <1>2, <1>4, <1>5, <1>6, <1>7, <1>8, <1>9, <1>10, <1>11, <1>13, <1>14, <1>15, <1>16
  DEF Next, Run

(* Every answer carries the revision of a row that the commit left in the  *)
(* table, also for a delete that kept everything it covers.                *)
THEOREM AnsweredRevisionHolds == Spec => AnsweredRevisionExists
<1>1. Init => AInv
  BY DEF Init, AInv, Answered
<1> DEFINE Told == \A w \in Workers :
                     Commit(w) => ack[w] # 0 /\ \E p \in Paths : files'[p].rev = ack[w]
<1>2. AInv /\ [Next]_vars => [Told]_vars
  BY DEF AInv, Answered, Commit
<1>3. IInv /\ AInv /\ [Next]_vars => AInv'
  BY AnsweredStep
<1> QED BY <1>1, <1>2, <1>3, StoreInvariant, PTL DEF Spec, AnsweredRevisionExists
-----------------------------------------------------------------------------
(* The refinement: every commit is one upload or one delete of the         *)
(* abstract vault, and nothing else is visible.  The argument needs to     *)
(* know, besides IInv, what the rows of an open transaction are: exactly   *)
(* what the abstract operation changes, minus what is still to be done.    *)

(* What the request has to bury besides its own path, in the committed     *)
(* table, which no other request changes meanwhile.                        *)
Doomed(w) ==
  IF req[w].op = "upload"
  THEN Conflicts(files, req[w].path)
  ELSE Active(files, req[w].path) \ ({req[w].path} \cup Vault!Newer(req[w].path, req[w].base))

Written(w) == {q \in Paths : writes[w][q] # NoWrite}

(* The last statement writes the path, unless a delete keeps it. *)
WritesPath(w) == req[w].op = "upload" \/ newer[w] = {}

PathRow(w, row) ==
  IF req[w].op = "upload" THEN row = FileRow(row.rev, req[w].content)
                          ELSE row = Tombstone(row.rev)

Selected(w) ==
  pc[w] \in {"rows", "commit"} =>
    /\ req[w].op = "delete" => newer[w] = Vault!Newer(req[w].path, req[w].base)
    /\ \A q \in Doomed(w) \cap Written(w) : writes[w][q] = Tombstone(writes[w][q].rev)

HalfWritten(w) ==
  pc[w] = "rows" => /\ todo[w] \subseteq Doomed(w)
                    /\ Written(w) = Doomed(w) \ todo[w]

AllWritten(w) ==
  pc[w] = "commit" =>
    /\ Written(w) = IF WritesPath(w) THEN Doomed(w) \cup {req[w].path} ELSE Doomed(w)
    /\ WritesPath(w) =>
         /\ PathRow(w, writes[w][req[w].path])
         /\ \A q \in Doomed(w) : writes[w][q].rev < writes[w][req[w].path].rev

BaseReached(w) ==
  pc[w] # "idle" /\ req[w].op = "delete" => req[w].base \in Reached(files) \cup {NoBase}

RowsExact == \A w \in Workers : Selected(w) /\ HalfWritten(w) /\ AllWritten(w)
RInv == RowsExact /\ \A w \in Workers : BaseReached(w)

-----------------------------------------------------------------------------
(* A worker that takes no step, over a table that does not change, keeps   *)
(* what is known about its rows.                                           *)
LEMMA Bystander ==
  ASSUME RInv, NEW x \in Workers, files' = files,
         pc'[x] = pc[x], req'[x] = req[x], todo'[x] = todo[x],
         newer'[x] = newer[x], writes'[x] = writes[x]
  PROVE  (Selected(x) /\ HalfWritten(x) /\ AllWritten(x))'
<1>1. Doomed(x)' = Doomed(x) /\ Written(x)' = Written(x) /\ WritesPath(x)' = WritesPath(x)
  BY DEF Doomed, Written, WritesPath, Conflicts, Active, Vault!Newer, Vault!NewerThan, Vault!Active
<1>2. Selected(x)'
  BY <1>1 DEF RInv, RowsExact, Selected, Vault!Newer, Vault!NewerThan, Vault!Active
<1>3. HalfWritten(x)'
  BY <1>1 DEF RInv, RowsExact, HalfWritten
<1>4. AllWritten(x)'
  BY <1>1 DEF RInv, RowsExact, AllWritten, PathRow
<1> QED BY <1>2, <1>3, <1>4

(* A worker whose transaction has no rows to account for. *)
LEMMA NoRows ==
  ASSUME NEW x \in Workers, pc'[x] \notin {"rows", "commit"}
  PROVE  (Selected(x) /\ HalfWritten(x) /\ AllWritten(x))'
BY DEF Selected, HalfWritten, AllWritten

(* Every base a request carries stays within what the table has shown:     *)
(* revisions of rows only rise.                                            *)
LEMMA ReachedGrows ==
  ASSUME IInv, IInv', [Next]_vars
  PROVE  Reached(files) \subseteq Reached(files')
<1>1. \A p \in Paths : files[p].rev \in Nat /\ files'[p].rev \in Nat
  BY DEF IInv, TypeOK, Table, Row
<1>2. \A p \in Paths : files'[p].rev >= files[p].rev
  BY <1>1, TableRises
<1> QED BY <1>1, <1>2 DEF Reached

(* The base of a delete stays a revision the table has reached. *)
LEMMA BaseStep ==
  ASSUME IInv, IInv', RInv, [Next]_vars
  PROVE  \A x \in Workers : BaseReached(x)'
<1> SUFFICES ASSUME NEW x \in Workers, pc'[x] # "idle", req'[x].op = "delete"
             PROVE  req'[x].base \in Reached(files') \cup {NoBase}
  BY DEF BaseReached
<1>1. (req'[x] = req[x] /\ pc[x] # "idle") \/ req'[x].base \in Reached(files) \cup {NoBase}
  <2>1. ASSUME NEW w \in Workers, NEW r \in Requested, Receive(w, r)
        PROVE  w = x \/ (req'[x] = req[x] /\ pc[x] # "idle")
    BY <2>1 DEF Receive, Goto, IInv, TypeOK
  <2>2. ASSUME NEW r \in Requested, Receive(x, r)
        PROVE  req'[x].base \in Reached(files) \cup {NoBase}
    BY <2>2 DEF Receive, Requested, IInv, TypeOK
  <2>3. ASSUME NEW w \in Workers, Commit(w) \/ Abort(w)
        PROVE  req'[x] = req[x] /\ pc[x] # "idle"
    BY <2>3 DEF Commit, Abort, End, Forget, Goto, IInv, TypeOK
  <2>4. CASE UNCHANGED vars
    BY <2>4 DEF vars
  <2>5. ASSUME NEW w \in Workers, req' = req, pc[w] # "idle", pc'[w] # "idle",
               \A y \in Workers \ {w} : pc'[y] = pc[y]
        PROVE  req'[x] = req[x] /\ pc[x] # "idle"
    BY <2>5
  <2>6. ASSUME NEW w \in Workers,
               AcquireLock(w) \/ (Run(w) /\ ~Commit(w))
        PROVE  /\ req' = req /\ pc[w] # "idle"
               /\ \A y \in Workers \ {w} : pc'[y] = pc[y]
    BY <2>6 DEF Run, AcquireLock, TakeLock, SelectConflicts, SelectForUpload, SelectActive,
        SelectForDelete, TombstoneRow, RewriteRow, InsertFile, InsertTombstone, BuryPath,
        KeepParent, Goto, IInv, TypeOK
  <2> QED BY <2>1, <2>2, <2>3, <2>4, <2>6 DEF Next, Run
<1>2. req[x].base \in Reached(files) \cup {NoBase} \/ req'[x] # req[x] \/ pc[x] = "idle"
  BY DEF RInv, BaseReached
<1> QED BY <1>1, <1>2, ReachedGrows

-----------------------------------------------------------------------------
(* The path of a request is not among the rows it buries first. *)
LEMMA PathNotDoomed ==
  ASSUME NEW w \in Workers, req[w] \in Request
  PROVE  Doomed(w) \subseteq Paths \ {req[w].path}
<1>1. req[w].path \in Paths
  BY DEF Request
<1> QED
  BY <1>1, UnderIsStrictOrder DEF Doomed, Conflicts, Above, Below, Active

(* Before the first write of a transaction it sees the committed table. *)
LEMMA FirstView ==
  ASSUME IInv, NEW w \in Workers, pc[w] = "select"
  PROVE  View(w) = files /\ Written(w) = {}
<1>1. \A p \in Paths : writes[w][p] = NoWrite
  BY DEF IInv, OnlyHolderWrites, Clean
<1>2. files = [p \in Paths |-> files[p]]
  BY DEF IInv, TypeOK, Table
<1> QED BY <1>1, <1>2 DEF View, Written

(* The list a transaction selects is what the abstract operation changes. *)
LEMMA SelectRows ==
  ASSUME IInv, NEW w \in Workers, SelectConflicts(w) \/ SelectActive(w)
  PROVE  (Selected(w) /\ HalfWritten(w) /\ AllWritten(w))'
<1>1. /\ pc[w] = "select" /\ pc'[w] = "rows"
      /\ files' = files /\ req' = req /\ writes' = writes
  BY DEF SelectConflicts, SelectForUpload, SelectActive, SelectForDelete, Goto, IInv, TypeOK
<1>2. View(w) = files /\ Written(w) = {}
  BY <1>1, FirstView
<1>3. Doomed(w)' = Doomed(w) /\ Written(w)' = {}
  BY <1>1, <1>2
  DEF Doomed, Written, Conflicts, Active, Vault!Newer, Vault!NewerThan, Vault!Active
<1>4. Late(w) = Vault!Newer(req[w].path, req[w].base)
  BY <1>2
  DEF Late, Covered, NewerThan, Active, Below,
      Vault!Newer, Vault!NewerThan, Vault!Active, Vault!Below
<1>5. todo'[w] = Doomed(w)
  <2>1. CASE SelectConflicts(w)
    BY <1>2, <2>1 DEF SelectConflicts, SelectForUpload, Doomed, IInv, TypeOK
  <2>2. CASE SelectActive(w)
    <3>1. todo'[w] = Covered(w) \ (Late(w) \cup {req[w].path}) /\ req[w].op # "upload"
      BY <2>2 DEF SelectActive, SelectForDelete, IInv, TypeOK
    <3> QED BY <1>2, <1>4, <3>1 DEF Doomed, Covered
  <2> QED BY <2>1, <2>2
<1>6. req[w].op = "delete" => newer'[w] = Late(w)
  BY DEF SelectConflicts, SelectForUpload, SelectActive, SelectForDelete, IInv, TypeOK
<1>7. Selected(w)'
  BY <1>1, <1>3, <1>4, <1>6
  DEF Selected, Vault!Newer, Vault!NewerThan, Vault!Active
<1> QED BY <1>1, <1>3, <1>5, <1>7 DEF HalfWritten, AllWritten

(* One more row of the request becomes a tombstone. *)
LEMMA BuryRow ==
  ASSUME IInv, RInv, NEW w \in Workers, NEW q \in Paths, TombstoneRow(w, q)
  PROVE  (Selected(w) /\ HalfWritten(w) /\ AllWritten(w))'
<1>1. /\ pc[w] = "rows" /\ pc' = pc /\ files' = files /\ req' = req /\ newer' = newer
      /\ q \in todo[w] /\ todo'[w] = todo[w] \ {q}
      /\ writes'[w] = [writes[w] EXCEPT ![q] = Tombstone(seq + 1)]
  BY DEF TombstoneRow, RewriteRow, Write, IInv, TypeOK
<1>2. Tombstone(seq + 1) # NoWrite
  <2>1. Tombstone(seq + 1) \in Row
    BY DEF Tombstone, Row, IInv, TypeOK
  <2> QED BY <2>1, Sentinels
<1>3. \A p \in Paths :
        writes'[w][p] = IF p = q THEN Tombstone(seq + 1) ELSE writes[w][p]
  BY <1>1 DEF IInv, TypeOK
<1>4. Written(w)' = Written(w) \cup {q}
  BY <1>2, <1>3 DEF Written
<1>5. Doomed(w)' = Doomed(w) /\ Doomed(w) \subseteq Paths
  BY <1>1 DEF Doomed, Conflicts, Active, Above, Below, Vault!Newer, Vault!NewerThan,
      Vault!Active, IInv, LockHeld, Request
<1>6. Tombstone(seq + 1) = Tombstone(Tombstone(seq + 1).rev)
  BY DEF Tombstone
<1>7. Selected(w)'
  BY <1>1, <1>3, <1>5, <1>6, <1>4
  DEF RInv, RowsExact, Selected, Vault!Newer, Vault!NewerThan, Vault!Active
<1>8. HalfWritten(w)'
  BY <1>1, <1>4, <1>5 DEF RInv, RowsExact, HalfWritten
<1> QED BY <1>1, <1>7, <1>8 DEF AllWritten

(* The last statement writes the row of the path itself, with the largest  *)
(* revision.                                                               *)
LEMMA WritePath ==
  ASSUME IInv, RInv, NEW w \in Workers, NEW row \in Row,
         pc[w] = "rows", pc'[w] = "commit", todo[w] = {}, WritesPath(w),
         Write(w, req[w].path, row), PathRow(w, row), seq < row.rev,
         UNCHANGED <<files, req, newer>>
  PROVE  (Selected(w) /\ HalfWritten(w) /\ AllWritten(w))'
<1>1. req[w] \in Request /\ req[w].path \in Paths
  BY DEF IInv, LockHeld, Request
<1>2. Doomed(w) \subseteq Paths \ {req[w].path}
  BY <1>1, PathNotDoomed
<1>3. \A p \in Paths :
        writes'[w][p] = IF p = req[w].path THEN row ELSE writes[w][p]
  BY <1>1 DEF Write, IInv, TypeOK
<1>4. row # NoWrite
  BY Sentinels
<1>5. Doomed(w)' = Doomed(w) /\ WritesPath(w)' = WritesPath(w)
  BY DEF Doomed, WritesPath, Conflicts, Active, Vault!Newer, Vault!NewerThan, Vault!Active
<1>6. Written(w) = Doomed(w)
  BY DEF RInv, RowsExact, HalfWritten
<1>7. Written(w)' = Doomed(w) \cup {req[w].path}
  BY <1>1, <1>3, <1>4, <1>6 DEF Written
<1>8. \A q \in Doomed(w) : writes'[w][q] = writes[w][q] /\ writes'[w][q].rev < row.rev
  <2> SUFFICES ASSUME NEW q \in Doomed(w)
               PROVE  writes'[w][q] = writes[w][q] /\ writes'[w][q].rev < row.rev
    OBVIOUS
  <2>1. q \in Paths /\ writes[w][q] # NoWrite /\ writes'[w][q] = writes[w][q]
    BY <1>2, <1>3, <1>6 DEF Written
  <2>2. writes[w][q].rev <= seq /\ writes[w][q].rev \in Nat /\ seq \in Nat /\ row.rev \in Nat
    BY <2>1 DEF IInv, SeqAhead, TypeOK, Row
  <2> QED BY <2>1, <2>2
<1>9. Selected(w)'
  <2>1. \A q \in (Doomed(w) \cap Written(w))' : writes'[w][q] = Tombstone(writes'[w][q].rev)
    BY <1>5, <1>6, <1>8 DEF RInv, RowsExact, Selected
  <2>2. req[w].op = "delete" => newer[w] = Vault!Newer(req[w].path, req[w].base)
    BY DEF RInv, RowsExact, Selected
  <2>3. req'[w].op = "delete" => newer'[w] = Vault!Newer(req[w].path, req[w].base)'
    BY <2>2 DEF Vault!Newer, Vault!NewerThan, Vault!Active
  <2> QED
    BY <2>1, <2>3 DEF Selected
<1>10. AllWritten(w)'
  BY <1>1, <1>3, <1>5, <1>7, <1>8 DEF AllWritten, PathRow
<1> QED BY <1>9, <1>10 DEF HalfWritten

(* Every step keeps the uncommitted rows exact. *)
LEMMA RowsStep ==
  ASSUME IInv, RInv, [Next]_vars
  PROVE  RowsExact'
<1> DEFINE Exact(x) == (Selected(x) /\ HalfWritten(x) /\ AllWritten(x))'
<1> SUFFICES ASSUME NEW x \in Workers PROVE Exact(x)
  BY DEF RowsExact
<1>1. CASE UNCHANGED vars
  BY <1>1, Bystander DEF vars
<1>2. ASSUME NEW w \in Workers, w # x, NEW r \in Requested, Receive(w, r) PROVE Exact(x)
  BY <1>2, Bystander DEF Receive, Goto, IInv, TypeOK
<1>3. ASSUME NEW w \in Workers, w # x, AcquireLock(w) PROVE Exact(x)
  BY <1>3, Bystander DEF AcquireLock, TakeLock, Goto, IInv, TypeOK
<1>4. ASSUME NEW w \in Workers, w # x, SelectConflicts(w) \/ SelectActive(w) PROVE Exact(x)
  <2>1. /\ files' = files /\ pc'[x] = pc[x] /\ req'[x] = req[x] /\ todo'[x] = todo[x]
        /\ newer'[x] = newer[x] /\ writes'[x] = writes[x]
    BY <1>4
    DEF SelectConflicts, SelectForUpload, SelectActive, SelectForDelete, Goto, IInv, TypeOK
  <2> QED BY <2>1, Bystander
<1>5. ASSUME NEW w \in Workers, w # x, NEW q \in Paths, TombstoneRow(w, q) PROVE Exact(x)
  BY <1>5, Bystander DEF TombstoneRow, RewriteRow, Write, IInv, TypeOK
<1>6. ASSUME NEW w \in Workers, w # x, InsertFile(w) \/ InsertTombstone(w) \/ KeepParent(w)
      PROVE  Exact(x)
  <2>1. /\ files' = files /\ pc'[x] = pc[x] /\ req'[x] = req[x] /\ todo'[x] = todo[x]
        /\ newer'[x] = newer[x] /\ writes'[x] = writes[x]
    BY <1>6
    DEF InsertFile, InsertTombstone, BuryPath, KeepParent, Write, Goto, IInv, TypeOK
  <2> QED BY <2>1, Bystander
<1>7. ASSUME NEW w \in Workers, w # x, Commit(w) PROVE Exact(x)
  <2>1. pc'[x] = pc[x] /\ pc[x] \notin {"rows", "commit"}
    BY <1>7 DEF Commit, End, Forget, Goto, IInv, TypeOK, LockHeld
  <2> QED BY <2>1, NoRows
<1>8. ASSUME NEW w \in Workers, w # x, Abort(w) PROVE Exact(x)
  BY <1>8, Bystander DEF Abort, End, Forget, Unlock, DropWrites, Goto, IInv, TypeOK
<1>9. ASSUME NEW r \in Requested, Receive(x, r) PROVE Exact(x)
  BY <1>9, NoRows DEF Receive, Goto, IInv, TypeOK
<1>10. CASE AcquireLock(x)
  BY <1>10, NoRows DEF AcquireLock, TakeLock, Goto, IInv, TypeOK
<1>11. CASE SelectConflicts(x) \/ SelectActive(x)
  BY <1>11, SelectRows
<1>12. ASSUME NEW q \in Paths, TombstoneRow(x, q) PROVE Exact(x)
  BY <1>12, BuryRow
<1>13. CASE InsertFile(x)
  <2> DEFINE row == FileRow(seq + 1, req[x].content)
  <2>1. /\ pc[x] = "rows" /\ pc'[x] = "commit" /\ todo[x] = {} /\ req[x].op = "upload"
        /\ Write(x, req[x].path, row) /\ UNCHANGED <<files, req, newer>>
    BY <1>13 DEF InsertFile, Goto, IInv, TypeOK
  <2>2. row \in Row /\ seq < row.rev /\ PathRow(x, row)
    BY <2>1 DEF FileRow, Row, PathRow, IInv, TypeOK, LockHeld, Request
  <2> HIDE DEF row
  <2> QED BY <2>1, <2>2, WritePath DEF WritesPath
<1>14. CASE InsertTombstone(x)
  <2> DEFINE row == Tombstone(seq')
  <2>1. /\ pc[x] = "rows" /\ pc'[x] = "commit" /\ todo[x] = {} /\ req[x].op = "delete"
        /\ newer[x] = {} /\ Write(x, req[x].path, row) /\ UNCHANGED <<files, req, newer>>
    BY <1>14 DEF InsertTombstone, BuryPath, Goto, IInv, TypeOK
  <2>2. row \in Row /\ seq < row.rev
    BY <1>14 DEF InsertTombstone, BuryPath, Tombstone, Row, IInv, TypeOK
  <2>3. PathRow(x, row)
    BY <2>1 DEF Tombstone, PathRow
  <2> HIDE DEF row
  <2> QED BY <2>1, <2>2, <2>3, WritePath DEF WritesPath
<1>15. CASE KeepParent(x)
  <2>1. /\ pc[x] = "rows" /\ pc'[x] = "commit" /\ todo[x] = {} /\ req[x].op = "delete"
        /\ newer[x] # {} /\ UNCHANGED <<files, req, newer, writes>>
    BY <1>15 DEF KeepParent, Goto, IInv, TypeOK
  <2>2. Doomed(x)' = Doomed(x) /\ Written(x)' = Written(x) /\ ~WritesPath(x)'
    BY <2>1
    DEF Doomed, Written, WritesPath, Active, Vault!Newer, Vault!NewerThan, Vault!Active
  <2>3. Selected(x)'
    BY <2>1, <2>2
    DEF RInv, RowsExact, Selected, Vault!Newer, Vault!NewerThan, Vault!Active
  <2>4. Written(x) = Doomed(x)
    BY <2>1 DEF RInv, RowsExact, HalfWritten
  <2> QED BY <2>1, <2>2, <2>3, <2>4 DEF HalfWritten, AllWritten
<1>16. CASE Commit(x) \/ Abort(x)
  BY <1>16, NoRows DEF Commit, Abort, End, Forget, Goto, IInv, TypeOK
<1> HIDE DEF Exact
<1> QED
  BY <1>1, <1>2, <1>3, <1>4, <1>5, <1>6, <1>7, <1>8, <1>9, <1>10, <1>11, <1>12, <1>13,
     <1>14, <1>15, <1>16
  DEF Next, Run

-----------------------------------------------------------------------------
(* A commit is one step of the abstract vault. *)
LEMMA CommitStep ==
  ASSUME IInv, IInv', RInv, NEW w \in Workers, Commit(w)
  PROVE  Vault!Step
<1> DEFINE p == req[w].path
<1>1. pc[w] = "commit" /\ req[w] \in Request /\ p \in Paths
  BY DEF Commit, IInv, LockHeld, Request
<1>2. \A q \in Paths : files'[q] = IF q \in Written(w) THEN writes[w][q] ELSE files[q]
  BY DEF Commit, View, Written
<1>3. files' \in Vault!Table
  BY DEF Vault!Table, Vault!Row, Table, Row, IInv, TypeOK
<1>4. Doomed(w) \subseteq Paths \ {p}
  BY <1>1, PathNotDoomed
<1>5. Doomed(w) \subseteq Written(w) /\ Written(w) \subseteq Doomed(w) \cup {p}
  BY <1>1 DEF RInv, RowsExact, AllWritten
<1>6. Vault!Buried(Doomed(w))
  BY <1>1, <1>2, <1>4, <1>5
  DEF RInv, RowsExact, Selected, Vault!Buried, Vault!Tombstone, Tombstone
<1>7. ASSUME NEW s \in SUBSET Written(w) PROVE Vault!Fresh(s)
  <2>1. \A q \in s, r \in Paths : files'[q].rev > files[r].rev
    BY <1>2 DEF Written, IInv, SeqAhead
  <2>2. \A q \in s : q \in Paths /\ files'[q].rev \in Nat /\ files'[q].rev # 0
    BY <2>1 DEF Written, IInv, TypeOK, Table, Row
  <2>3. \A q, r \in s : files'[q].rev = files'[r].rev => q = r
    BY <2>2 DEF IInv, TablesOK, TableOK, RevisionsUnique
  <2> QED BY <2>1, <2>3 DEF Vault!Fresh
<1>8. Vault!Untouched(Paths \ Written(w))
  BY <1>2 DEF Vault!Untouched
<1>9. WritesPath(w) =>
        /\ Written(w) = Doomed(w) \cup {p}
        /\ PathRow(w, files'[p])
        /\ \A q \in Doomed(w) : files'[q].rev < files'[p].rev
  BY <1>1, <1>2, <1>4, <1>5 DEF RInv, RowsExact, AllWritten
<1>10. CASE req[w].op = "upload"
  <2>1. Doomed(w) = Vault!Conflicts(files, p)
    BY <1>10
    DEF Doomed, Conflicts, Above, Below, Vault!Conflicts, Vault!Above, Vault!Below
  <2>2. WritesPath(w) /\ req[w].content \in Contents
    BY <1>1, <1>10 DEF WritesPath, Request
  <2>3. files'[p] = Vault!FileRow(files'[p].rev, req[w].content)
    BY <1>9, <1>10, <2>2 DEF PathRow, FileRow, Vault!FileRow
  <2>4. Vault!Upload(p, req[w].content)
    BY <1>6, <1>7, <1>8, <1>9, <2>1, <2>2, <2>3 DEF Vault!Upload
  <2> QED BY <1>1, <1>3, <2>2, <2>4 DEF Vault!Step
<1>11. CASE req[w].op = "delete"
  <2> DEFINE base == req[w].base
  <2>1. newer[w] = Vault!Newer(p, base)
    BY <1>1, <1>11 DEF RInv, RowsExact, Selected
  <2>2. Doomed(w) = Vault!Active(files, p) \ ({p} \cup Vault!Newer(p, base))
    BY <1>11 DEF Doomed, Active, Below, Vault!Active, Vault!Below
  <2>3. base \in {NoBase} \cup Vault!Reached(files)
    BY <1>1, <1>11 DEF RInv, BaseReached, Reached, Vault!Reached
  <2>4. CASE newer[w] = {}
    <3>1. files'[p] = Vault!Tombstone(files'[p].rev)
      BY <1>9, <1>11, <2>4 DEF PathRow, WritesPath, Tombstone, Vault!Tombstone
    <3>2. Vault!Buried(Doomed(w) \cup {p})
      BY <1>6, <3>1 DEF Vault!Buried
    <3>3. Vault!Delete(p, base)
      BY <1>7, <1>8, <1>9, <2>1, <2>2, <2>4, <3>2 DEF Vault!Delete, WritesPath
    <3> QED BY <1>1, <1>3, <2>3, <3>3 DEF Vault!Step
  <2>5. CASE newer[w] # {}
    <3>1. Written(w) = Doomed(w) /\ p \notin Doomed(w)
      BY <1>1, <1>4, <1>11, <2>5 DEF RInv, RowsExact, AllWritten, WritesPath
    <3>2. Vault!Delete(p, base)
      BY <1>6, <1>7, <1>8, <2>1, <2>2, <2>5, <3>1 DEF Vault!Delete
    <3> QED BY <1>1, <1>3, <2>3, <3>2 DEF Vault!Step
  <2> QED BY <2>4, <2>5
<1> QED BY <1>1, <1>10, <1>11 DEF Request

(* Nothing but a commit shows. *)
LEMMA OnlyCommitsShow ==
  ASSUME [Next]_vars, files' # files
  PROVE  \E w \in Workers : Commit(w)
BY DEF Next, vars, Run, Receive, AcquireLock, TakeLock, SelectConflicts, SelectForUpload,
   SelectActive, SelectForDelete, TombstoneRow, RewriteRow, BuryPath, InsertFile,
   InsertTombstone, KeepParent, Abort

(* What is known about the rows of open transactions holds throughout. *)
THEOREM TransactionInvariant == Spec => []RInv
<1>1. Init => RInv
  BY DEF Init, RInv, RowsExact, Selected, HalfWritten, AllWritten, BaseReached
<1>2. RInv /\ IInv /\ IInv' /\ [Next]_vars => RInv'
  BY RowsStep, BaseStep DEF RInv
<1> QED BY <1>1, <1>2, StoreInvariant, PTL DEF Spec

(* The store behaves like the atomic vault: each commit of a request is    *)
(* one upload or one delete on the committed table, with revisions above   *)
(* all earlier ones, and no other statement is visible to a client.        *)
THEOREM StoreImplementsVault == Spec => ImplementsSharedVault
<1>1. Init => Vault!Init
  BY DEF Init, Vault!Init, NoRow, Vault!NoRow
<1>2. IInv /\ IInv' /\ RInv /\ [Next]_vars => [Vault!Step]_files
  BY CommitStep, OnlyCommitsShow
<1> QED
  BY <1>1, <1>2, StoreInvariant, TransactionInvariant, PTL
  DEF Spec, ImplementsSharedVault, Vault!Spec
=============================================================================
