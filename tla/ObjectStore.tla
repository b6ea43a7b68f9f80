---------------------------- MODULE ObjectStore -----------------------------
(***************************************************************************)
(* server/src/object/object_store.ts: uploads and deletes as the Postgres  *)
(* transactions they are.  A request opens a transaction, waits for the    *)
(* advisory lock, reads the rows it conflicts with, rewrites them one      *)
(* statement at a time and commits; it can fail at every statement, and    *)
(* the revisions it drew are then lost.  Each transaction works on its own *)
(* rows over the committed table (READ COMMITTED), so what keeps revisions *)
(* in commit order is the lock and nothing else.                           *)
(***************************************************************************)
EXTENDS VaultTable

CONSTANTS
  Workers,   \* requests the server handles at the same time
  NoBase,    \* a delete without X-Base-Revision
  Free,      \* nobody holds the advisory lock
  NoWrite,   \* the transaction has not written the row
  NoRequest, \* the worker serves nobody
  MaxSeq     \* bound: no request starts once the sequence is past it

ASSUME SeqBound == MaxSeq \in Nat
ASSUME Sentinels ==
  /\ NoBase \notin Nat
  /\ Free \notin Workers
  /\ NoWrite \notin Row

VARIABLES
  files,    \* the committed table
  seq,      \* global_revision: survives a rollback
  lock,     \* holder of pg_advisory_xact_lock(REVISION_LOCK_KEY)
  pc,       \* the next statement of each request's transaction
  req,      \* the request: operation, path, content or base revision
  todo,     \* rows selected for a tombstone and not rewritten yet
  newer,    \* delete: selected rows above the base revision
  ack,      \* the revision the response will carry
  writes    \* rows written by the open transaction

vars == <<files, seq, lock, pc, req, todo, newer, ack, writes>>

Request ==
  [op : {"upload"}, path : Paths, content : Contents, base : {NoBase}]
    \cup [op : {"delete"}, path : Paths, content : {NoContent}, base : Nat \cup {NoBase}]

Clean == [p \in Paths |-> NoWrite]

Init ==
  /\ files = [p \in Paths |-> NoRow]
  /\ seq = 0
  /\ lock = Free
  /\ pc = [w \in Workers |-> "idle"]
  /\ req = [w \in Workers |-> NoRequest]
  /\ todo = [w \in Workers |-> {}]
  /\ newer = [w \in Workers |-> {}]
  /\ ack = [w \in Workers |-> 0]
  /\ writes = [w \in Workers |-> Clean]

(* The table as the statements of w's transaction see it. *)
View(w) == [p \in Paths |-> IF writes[w][p] = NoWrite THEN files[p] ELSE writes[w][p]]

Write(w, p, row) == writes' = [writes EXCEPT ![w][p] = row]

Goto(w, label) == pc' = [pc EXCEPT ![w] = label]

-----------------------------------------------------------------------------
Receive(w, r) ==
  /\ pc[w] = "idle"
  /\ seq < MaxSeq
  /\ req' = [req EXCEPT ![w] = r]
  /\ Goto(w, "lock")
  /\ UNCHANGED <<files, seq, lock, todo, newer, ack, writes>>

TakeLock(w) ==
  /\ pc[w] = "lock"
  /\ lock' = w
  /\ Goto(w, "select")
  /\ UNCHANGED <<files, seq, req, todo, newer, ack, writes>>

(* Mutant: the transaction does not wait for the lock. *)
AcquireLockEager(w) == TakeLock(w)

AcquireLock(w) == lock = Free /\ TakeLock(w)

SelectForUpload(w, rows) ==
  /\ pc[w] = "select"
  /\ req[w].op = "upload"
  /\ todo' = [todo EXCEPT ![w] = rows]
  /\ Goto(w, "rows")
  /\ UNCHANGED <<files, seq, lock, req, newer, ack, writes>>

(* Mutant: files above the new one are not looked for. *)
SelectConflictsBelow(w) ==
  SelectForUpload(w, Conflicts(View(w), req[w].path) \cap Below(req[w].path))

SelectConflicts(w) == SelectForUpload(w, Conflicts(View(w), req[w].path))

(* The rows a delete covers, and those of them that its base does not.     *)
Covered(w) == Active(View(w), req[w].path)
Late(w) == IF req[w].base = NoBase THEN {} ELSE NewerThan(View(w), Covered(w), req[w].base)

SelectForDelete(w) ==
  /\ pc[w] = "select"
  /\ req[w].op = "delete"
  /\ newer' = [newer EXCEPT ![w] = Late(w)]
  /\ todo' = [todo EXCEPT ![w] = Covered(w) \ (Late(w) \cup {req[w].path})]
  /\ Goto(w, "rows")
  /\ UNCHANGED <<files, seq, lock, req, writes>>

(* Mutant: a delete that keeps everything answers with no revision. *)
SelectActiveNoAck(w) == SelectForDelete(w) /\ UNCHANGED ack

SelectActive(w) ==
  /\ SelectForDelete(w)
  /\ \/ Late(w) = {} /\ UNCHANGED ack
     \/ \E q \in Late(w) :
          /\ \A r \in Late(w) : View(w)[r].rev <= View(w)[q].rev
          /\ ack' = [ack EXCEPT ![w] = View(w)[q].rev]

RewriteRow(w, q, rev) ==
  /\ pc[w] = "rows"
  /\ q \in todo[w]
  /\ Write(w, q, Tombstone(rev))
  /\ todo' = [todo EXCEPT ![w] = @ \ {q}]
  /\ ack' = [ack EXCEPT ![w] = rev]
  /\ UNCHANGED <<files, lock, pc, req, newer>>

(* Mutant: the row keeps the revision it had. *)
TombstoneRowOldRevision(w, q) == RewriteRow(w, q, View(w)[q].rev) /\ UNCHANGED seq

(* One UPDATE of the loop over conflicts or over active rows.  The order   *)
(* among the rows is left open; no revision in between escapes the         *)
(* transaction.                                                            *)
TombstoneRow(w, q) == RewriteRow(w, q, seq + 1) /\ seq' = seq + 1

InsertFile(w) ==
  /\ pc[w] = "rows"
  /\ req[w].op = "upload"
  /\ todo[w] = {}
  /\ seq' = seq + 1
  /\ Write(w, req[w].path, FileRow(seq + 1, req[w].content))
  /\ ack' = [ack EXCEPT ![w] = seq + 1]
  /\ Goto(w, "commit")
  /\ UNCHANGED <<files, lock, req, todo, newer>>

(* INSERT draws the column default; when the path already has a row, DO    *)
(* UPDATE draws a second value and the first one is never used.            *)
BuryPath(w) ==
  /\ pc[w] = "rows"
  /\ req[w].op = "delete"
  /\ todo[w] = {}
  /\ seq' = IF View(w)[req[w].path] = NoRow THEN seq + 1 ELSE seq + 2
  /\ Write(w, req[w].path, Tombstone(seq'))
  /\ ack' = [ack EXCEPT ![w] = seq']
  /\ Goto(w, "commit")
  /\ UNCHANGED <<files, lock, req, todo, newer>>

(* Mutant: the path is buried whatever survives below it. *)
InsertTombstoneAlways(w) == BuryPath(w)

InsertTombstone(w) == newer[w] = {} /\ BuryPath(w)

(* Some covered file is newer than the base: no tombstone for the path.    *)
KeepParent(w) ==
  /\ pc[w] = "rows"
  /\ req[w].op = "delete"
  /\ todo[w] = {}
  /\ newer[w] # {}
  /\ Goto(w, "commit")
  /\ UNCHANGED <<files, seq, lock, req, todo, newer, ack, writes>>

Forget(w) ==
  /\ todo' = [todo EXCEPT ![w] = {}]
  /\ newer' = [newer EXCEPT ![w] = {}]
  /\ ack' = [ack EXCEPT ![w] = 0]
  /\ req' = [req EXCEPT ![w] = NoRequest]
  /\ Goto(w, "idle")

Unlock(w) == lock' = IF lock = w THEN Free ELSE lock
DropWrites(w) == writes' = [writes EXCEPT ![w] = Clean]

(* Mutant: the transaction ends but its lock stays behind. *)
EndKeepsLock(w) == DropWrites(w) /\ Forget(w) /\ UNCHANGED lock

End(w) == Unlock(w) /\ DropWrites(w) /\ Forget(w)

Commit(w) ==
  /\ pc[w] = "commit"
  /\ files' = View(w)
  /\ End(w)
  /\ UNCHANGED seq

(* Any statement may fail: a dropped connection, a foreign key that no     *)
(* longer resolves, a stopped server.  The transaction rolls back.         *)
Abort(w) ==
  /\ pc[w] # "idle"
  /\ End(w)
  /\ UNCHANGED <<files, seq>>

Run(w) ==
  \/ SelectConflicts(w) \/ SelectActive(w)
  \/ \E q \in Paths : TombstoneRow(w, q)
  \/ InsertFile(w) \/ InsertTombstone(w) \/ KeepParent(w)
  \/ Commit(w)

(* A client sends the revision it has reached, which some inbox gave it.   *)
Requested ==
  [op : {"upload"}, path : Paths, content : Contents, base : {NoBase}]
    \cup [op : {"delete"}, path : Paths, content : {NoContent}, base : Reached(files) \cup {NoBase}]

Next ==
  \E w \in Workers :
    \/ \E r \in Requested : Receive(w, r)
    \/ AcquireLock(w)
    \/ Run(w)
    \/ Abort(w)

Spec == Init /\ [][Next]_vars

(* Statements of an open transaction are executed; Postgres hands a        *)
(* released advisory lock to the requests queued on it in turn.            *)
FairSpec == Spec /\ \A w \in Workers : WF_vars(Run(w)) /\ SF_vars(AcquireLock(w))
-----------------------------------------------------------------------------
(* Types of all variables. *)
TypeOK ==
  /\ files \in Table
  /\ seq \in Nat
  /\ lock \in Workers \cup {Free}
  /\ pc \in [Workers -> {"idle", "lock", "select", "rows", "commit"}]
  /\ req \in [Workers -> Request \cup {NoRequest}]
  /\ todo \in [Workers -> SUBSET Paths]
  /\ newer \in [Workers -> SUBSET Paths]
  /\ ack \in [Workers -> Nat]
  /\ writes \in [Workers -> [Paths -> Row \cup {NoWrite}]]

(* The committed table never holds a live file together with a live file   *)
(* in the folder of its name, whatever uploads and deletes run at once:    *)
(* upload's conflict rows go in the same transaction.                      *)
NoFileInsideFile == Antichain(files)

(* A live file in a deleted folder is later than the folder's tombstone,   *)
(* so a client that replays /inbox in order keeps it: delete() writes no   *)
(* parent tombstone over members newer than its base.                      *)
DeletedFolderKeepsNewerFiles == TombstonesFirst(files)

(* Every row has a revision of its own, so /inbox orders changes totally.  *)
RowsOrdered == RevisionsUnique(files)

(* A row that a commit changes gets a revision above every committed one:  *)
(* no change appears at a revision a client may already have passed (the   *)
(* comment at REVISION_LOCK_KEY).                                          *)
NoLateRevision ==
  [][\A p, q \in Paths : files'[p] # files[p] => files'[p].rev > files[q].rev]_vars

(* The revision in a response is that of a row the client can be told of:  *)
(* a delete that kept everything answers with a row it kept.               *)
AnsweredRevisionExists ==
  [][\A w \in Workers :
       Commit(w) => ack[w] # 0 /\ \E p \in Paths : files'[p].rev = ack[w]]_vars

Vault == INSTANCE SharedVault WITH files <- files

(* Its clients see a store that is atomic and in revision order: each      *)
(* commit is one upload or delete, and nothing else shows.                 *)
ImplementsSharedVault == Vault!Spec

(* Every request is answered, whoever else is waiting for the lock. *)
EveryRequestEnds == \A w \in Workers : pc[w] # "idle" ~> pc[w] = "idle"
=============================================================================
