------------------------------ MODULE Tracker ------------------------------
(***************************************************************************)
(* rust-client/src/tracker.rs and the questions the engine asks of the     *)
(* disk.  The manifest keeps for each file its hash and the size and mtime *)
(* it had when it was looked at.  A hash is the content; size and mtime are *)
(* the content there was at the moment of the stat, `seen`.  Two states of *)
(* a file are taken to differ in size or mtime when their bytes do.        *)
(***************************************************************************)
EXTENDS VaultTable

CONSTANT Watched   \* is_watched_path: what Obsidian would report changes of

ASSUME WatchedPaths == Watched \subseteq Paths

Known == Contents \cup {NoContent}
Entry == [hash : Known, seen : Known]
NoEntry == [hash |-> NoContent, seen |-> NoContent]
EntryOf(v) == [hash |-> v, seen |-> v]

Tracked(m) == {p \in Paths : m[p].hash # NoContent}
TrackedUnder(m, p) == Tracked(m) \cap ({p} \cup Below(p))
Forget(m, s) == [p \in Paths |-> IF p \in s THEN NoEntry ELSE m[p]]

-----------------------------------------------------------------------------
(* The disk d: content or NoContent per path.  A folder is a path with a   *)
(* file below it.                                                          *)
IsFile(d, p) == d[p] # NoContent
FilesUnder(d, p) == {q \in Below(p) : IsFile(d, q)}
IsFolder(d, p) == ~IsFile(d, p) /\ FilesUnder(d, p) # {}
Absent(d, p) == ~IsFile(d, p) /\ FilesUnder(d, p) = {}

MatchesDisk(m, d, p) == m[p].hash = d[p]

(* Mutant: a file that is gone is no change. *)
MissingNone(m, d) == {}

(* scan: what changed since the manifest, judged by size and mtime first;   *)
(* a file that was only touched has its new time noted.                    *)
Moved(m, d) == {p \in Watched : IsFile(d, p) /\ m[p].seen # d[p]}
Changed(m, d) == {p \in Moved(m, d) : m[p].hash # d[p]}
Missing(m, d) == {p \in Tracked(m) : ~(p \in Watched /\ IsFile(d, p))}

(* Mutant: a scan takes over every file that looks different. *)
TouchedAll(m, d) == [p \in Paths |-> IF p \in Moved(m, d) THEN EntryOf(d[p]) ELSE m[p]]

Touched(m, d) ==
  [p \in Paths |-> IF p \in Moved(m, d) \ Changed(m, d) THEN EntryOf(d[p]) ELSE m[p]]

(* rebaseline: the disk becomes the manifest; a hash is kept where size and *)
(* mtime are the known ones.                                               *)
Rebaselined(m, d) ==
  [p \in Paths |->
     IF ~(p \in Watched /\ IsFile(d, p)) THEN NoEntry
     ELSE IF m[p].seen = d[p] THEN m[p]
     ELSE EntryOf(d[p])]
=============================================================================
