---------------------------- MODULE SharedVault -----------------------------
(***************************************************************************)
(* What the object store promises its clients: uploads and deletes take    *)
(* effect one at a time, each as a single step on the table, and every row *)
(* a step touches receives a revision above every revision visible before. *)
(* Which revisions are drawn, and how many are skipped, is left open.      *)
(***************************************************************************)
EXTENDS VaultTable

CONSTANT NoBase   \* a delete request without a base revision

VARIABLE files

Fresh(s) ==
  /\ \A q \in s, p \in Paths : files'[q].rev > files[p].rev
  /\ \A q, r \in s : files'[q].rev = files'[r].rev => q = r

Buried(s) == \A q \in s : files'[q] = Tombstone(files'[q].rev)

Untouched(s) == \A q \in s : files'[q] = files[q]

(* The new file's revision is the last one: replaying the change removes   *)
(* what stood in the file's way before it writes the file.                 *)
Upload(p, v) ==
  LET hit == Conflicts(files, p)
  IN  /\ files'[p] = FileRow(files'[p].rev, v)
      /\ Buried(hit)
      /\ Fresh(hit \cup {p})
      /\ \A q \in hit : files'[q].rev < files'[p].rev
      /\ Untouched(Paths \ (hit \cup {p}))

Newer(p, base) == IF base = NoBase THEN {} ELSE NewerThan(files, Active(files, p), base)

(* Every covered file that the deleting client had seen goes; when some    *)
(* file is newer than what it had seen, the path itself is left as it is.  *)
Delete(p, base) ==
  LET seen == Active(files, p) \ ({p} \cup Newer(p, base))
      gone == IF Newer(p, base) = {} THEN seen \cup {p} ELSE seen
  IN  /\ Buried(gone)
      /\ Fresh(gone)
      /\ p \in gone => \A q \in seen : files'[q].rev < files'[p].rev
      /\ Untouched(Paths \ gone)

Init == files = [p \in Paths |-> NoRow]

Step ==
  /\ files' \in Table
  /\ \E p \in Paths :
       \/ \E v \in Contents : Upload(p, v)
       \/ \E base \in {NoBase} \cup Reached(files) : Delete(p, base)

Spec == Init /\ [][Step]_files
=============================================================================
