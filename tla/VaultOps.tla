------------------------------ MODULE VaultOps ------------------------------
(***************************************************************************)
(* The object store's operations as functions from a table to a table, for *)
(* the modules that study its clients: each takes effect at once and draws *)
(* the next revisions without gaps.  A client only compares revisions, so  *)
(* gaps would show it nothing new.  PluginSyncProofs proves each a step of *)
(* SharedVault, which ObjectStore implements.                              *)
(***************************************************************************)
EXTENDS VaultTable, Integers, SequencesExt

CONSTANT NoBase

ASSUME PathsFinite == IsFiniteSet(Paths)

(* Tombstones for the rows of s, in some order, from revision r on. *)
Bury(t, s, r) ==
  LET order == SetToSeq(s)
  IN  [q \in Paths |-> IF q \in s THEN Tombstone(r + SelectInSeq(order, LAMBDA x : x = q) - 1)
                                  ELSE t[q]]

(* Mutant: the file first, what stood in its way last. *)
UploadedFileFirst(t, p, v) ==
  [Bury(t, Conflicts(t, p), Tip(t) + 2) EXCEPT ![p] = FileRow(Tip(t) + 1, v)]

(* Upload of v to p: what stands in the way first, the file last. *)
Uploaded(t, p, v) ==
  LET hit == Conflicts(t, p)
      rev == Tip(t) + Cardinality(hit) + 1
  IN  [Bury(t, hit, Tip(t) + 1) EXCEPT ![p] = FileRow(rev, v)]

(* What a deleter that had seen revision base can and cannot delete. *)
Late(t, p, base) == IF base = NoBase THEN {} ELSE NewerThan(t, Active(t, p), base)
Seen(t, p, base) == Active(t, p) \ (Late(t, p, base) \cup {p})

(* Delete of p by a client that had seen revision base. *)
Deleted(t, p, base) ==
  LET seen == Seen(t, p, base)
      buried == Bury(t, seen, Tip(t) + 1)
  IN  IF Late(t, p, base) # {} THEN buried
      ELSE [buried EXCEPT ![p] = Tombstone(Tip(t) + Cardinality(seen) + 1)]

(* One line of the inbox journal per row. *)
InboxLine(t, p) == [rev |-> t[p].rev, path |-> p, op |-> IF t[p].live THEN "put" ELSE "delete"]
InboxLines(t, r) == {InboxLine(t, p) : p \in Inbox(t, r)}

(* pathsStructurallyConflict: the same path, or one inside the other. *)
Related(p, q) == p = q \/ <<p, q>> \in Under \/ <<q, p>> \in Under
=============================================================================
