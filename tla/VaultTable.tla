----------------------------- MODULE VaultTable -----------------------------
(***************************************************************************)
(* The `files` table of the server, as every other module sees it: one row *)
(* per vault path, holding the revision of the path's last change, whether *)
(* the path is a live file, and its bytes.  Paths are an abstract set; the *)
(* only thing the store asks of two paths is whether one lies in the folder *)
(* the other one names, which the code tests by looking for one path       *)
(* followed by "/" at the front of the other.  Under is that relation.     *)
(***************************************************************************)
EXTENDS Naturals, FiniteSets, FiniteSetsExt

CONSTANTS
  Paths,      \* vault paths, already canonical
  Under,      \* <<q, p>> \in Under iff q lies below the folder p
  Contents,   \* file bytes
  NoContent   \* SQL NULL in files.content

ASSUME UnderIsStrictOrder ==
  /\ Under \subseteq Paths \X Paths
  /\ \A p \in Paths : <<p, p>> \notin Under
  /\ \A p, q, r \in Paths : <<p, q>> \in Under /\ <<q, r>> \in Under => <<p, r>> \in Under

ASSUME NoContentIsNoContent == NoContent \notin Contents

(* A path without a row has revision 0: NEXTVAL starts at 1. *)
Row == [rev : Nat, live : BOOLEAN, content : Contents \cup {NoContent}]
Table == [Paths -> Row]

NoRow == [rev |-> 0, live |-> FALSE, content |-> NoContent]
FileRow(r, v) == [rev |-> r, live |-> TRUE, content |-> v]
Tombstone(r) == [rev |-> r, live |-> FALSE, content |-> NoContent]

Below(p) == {q \in Paths : <<q, p>> \in Under}
Above(p) == {q \in Paths : <<p, q>> \in Under}

(* Live files that cannot exist beside a file at p. *)
Conflicts(t, p) == {q \in Above(p) \cup Below(p) : t[q].live}

(* What a delete of p covers, and the part of it the deleter had not seen. *)
Active(t, p) == {q \in {p} \cup Below(p) : t[q].live}
NewerThan(t, s, base) == {q \in s : t[q].rev > base}

Tip(t) == Max({0} \cup {t[p].rev : p \in Paths})

(* Revisions a client that has read the table can have reached. *)
Reached(t) == UNION {0 .. t[p].rev : p \in Paths}

(* The rows a client at revision r is told about. *)
Inbox(t, r) == {p \in Paths : t[p].rev > r}

-----------------------------------------------------------------------------
(* Parts of the table's consistency. *)

(* A file and a file in the folder of its name are never both live. *)
Antichain(t) ==
  \A p, q \in Paths : t[p].live /\ t[q].live => <<p, q>> \notin Under

(* A live file in a deleted folder carries a later revision than the       *)
(* folder's tombstone, so a client that replays changes in revision order  *)
(* and deletes folders recursively still ends up with the file.            *)
TombstonesFirst(t) ==
  \A p, q \in Paths :
    t[p].live /\ ~t[q].live /\ <<p, q>> \in Under => t[q].rev < t[p].rev

(* No two rows share a revision. *)
RevisionsUnique(t) ==
  \A p, q \in Paths : t[p].rev = t[q].rev /\ t[p].rev # 0 => p = q
=============================================================================
