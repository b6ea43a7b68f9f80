----------------------------- MODULE VaultTree -----------------------------
(***************************************************************************)
(* The vault as a tree of files, folders and symlinks, and what            *)
(* rust-client/src/fs.rs does to it for an inbound change, system call by  *)
(* system call, while the user works in it too.  The client's credentials, *)
(* journals and staging area lie in the same tree.                         *)
(***************************************************************************)
EXTENDS VaultTable

CONSTANTS
  PluginDir, DataFile, StateDir,   \* .obsidian/plugins/obsidian-sync-engine, its data.json and state
  Journals,                        \* the journals in StateDir
  Temp,                            \* the staging file in StateDir
  Hidden,                          \* paths with a segment that starts with "."
  NoPath,
  MaxSteps                         \* bound: operations of the user

(* What lies above one path lies on one line. *)
ASSUME TreeAssumption ==
  /\ MaxSteps \in Nat
  /\ {PluginDir, DataFile, StateDir, Temp} \cup Journals \subseteq Paths /\ NoPath \notin Paths
  /\ \A p, q, r \in Paths : q \in Above(p) /\ r \in Above(p) => q = r \/ q \in Above(r) \/ r \in Above(q)
  /\ \A p \in {DataFile, StateDir} : Above(p) = {PluginDir} \cup Above(PluginDir)
  /\ \A j \in Journals \cup {Temp} : Above(j) = {StateDir} \cup Above(StateDir)
  /\ Temp \notin {DataFile, StateDir} \cup Journals /\ DataFile # StateDir

VARIABLES
  kind,     \* "none", "file", "dir" or "link" at each path
  half,     \* files that are not completely written
  outside,  \* history: something was done through a symlink
  pc, op, target,
  todo,     \* ancestors that are still to be made, or pruned
  steps,
  displaced   \* history: a put named a path below data.json

tree == <<kind, half, outside>>
job == <<pc, op, target, todo>>
rest == <<steps, displaced>>
vars == <<tree, job, rest>>

Kinds == {"none", "file", "dir", "link"}

Init ==
  /\ kind = [p \in Paths |-> IF p \in {DataFile} \cup Journals THEN "file"
                             ELSE IF p = StateDir \/ p \in Above(DataFile) THEN "dir"
                             ELSE "none"]
  /\ half = {} /\ outside = FALSE
  /\ pc = "idle" /\ op = "put" /\ target = NoPath /\ todo = {}
  /\ steps = 0 /\ displaced = FALSE
-----------------------------------------------------------------------------
(* paths.rs *)

Excluded(p) == p = DataFile \/ p = StateDir \/ p \in Below(StateDir)

(* Mutant: only what is excluded itself. *)
ContainsOnlyExcluded(p) == Excluded(p)

ContainsClientState(p) == Excluded(p) \/ p = PluginDir \/ p \in Above(PluginDir)

(* Mutant: nothing is left out. *)
ListedAll == {p \in Paths : kind[p] = "file"}

(* list_files_under: links are neither listed nor followed. *)
Listed == {p \in Paths : kind[p] = "file" /\ ~Excluded(p)}

Exists(p) == kind[p] # "none"
Empty(p) == \A q \in Below(p) : ~Exists(q)
LinkAbove(p) == \E a \in Above(p) : kind[a] = "link"
InFolder(p) == \A a \in Above(p) : kind[a] = "dir"

Becomes(p, k) == kind' = [kind EXCEPT ![p] = k]
Done == pc' = "idle" /\ target' = NoPath /\ todo' = {} /\ UNCHANGED op
Go(where) == pc' = where /\ UNCHANGED <<op, target, todo>>

(* A system call through a symlink reaches what it points to. *)
Reaches(p) == outside' = (outside \/ LinkAbove(p))
-----------------------------------------------------------------------------
(* apply_remote_put; with the same bytes there nothing is written.         *)

TakePut(p) ==
  /\ pc = "idle" /\ ~Excluded(p) /\ ~LinkAbove(p)
  /\ pc' = "parents" /\ op' = "put" /\ target' = p /\ todo' = Above(p)
  /\ displaced' = (displaced \/ p \in Below(DataFile))
  /\ UNCHANGED <<tree, steps>>

(* ensure_parent_dir, from the root down. *)
Topmost(a) == a \in todo /\ todo \cap Above(a) = {}

ParentThere(a) ==
  /\ pc = "parents" /\ Topmost(a) /\ kind[a] = "dir"
  /\ todo' = todo \ {a}
  /\ UNCHANGED <<tree, pc, op, target, rest>>

(* A file where a folder is needed makes way. *)
MakeWay(a) ==
  /\ pc = "parents" /\ Topmost(a) /\ kind[a] = "file"
  /\ Becomes(a, "none") /\ half' = half \ {a} /\ Reaches(a)
  /\ UNCHANGED <<job, rest>>

MakeFolder(a) ==
  /\ pc = "parents" /\ Topmost(a) /\ kind[a] = "none" /\ InFolder(a)
  /\ Becomes(a, "dir") /\ Reaches(a)
  /\ todo' = todo \ {a}
  /\ UNCHANGED <<half, pc, op, target, rest>>

(* A folder at the path itself goes if it is empty; otherwise this fails.  *)
Place ==
  /\ pc = "parents" /\ todo = {}
  /\ kind[target] = "dir" => Empty(target)
  /\ IF kind[target] = "dir" THEN Becomes(target, "none") ELSE UNCHANGED kind
  /\ Reaches(target)
  /\ Go("stage")
  /\ UNCHANGED <<half, rest>>

Stage ==
  /\ pc = "stage"
  /\ Becomes(Temp, "file") /\ half' = half \cup {Temp}
  /\ Go("fill")
  /\ UNCHANGED <<outside, rest>>

Fill ==
  /\ pc = "fill"
  /\ half' = half \ {Temp}
  /\ Go("rename")
  /\ UNCHANGED <<kind, outside, rest>>

Rename ==
  /\ pc = "rename"
  /\ kind[target] # "dir" /\ InFolder(target)
  /\ kind' = [kind EXCEPT ![Temp] = "none", ![target] = "file"]
  /\ half' = half \ {target} /\ Reaches(target)
  /\ Done
  /\ UNCHANGED rest

(* A staged file that cannot be moved into place is removed. *)
RenameFails ==
  /\ pc = "rename"
  /\ kind[target] = "dir" \/ ~InFolder(target)
  /\ Becomes(Temp, "none")
  /\ Done
  /\ UNCHANGED <<half, outside, rest>>
-----------------------------------------------------------------------------
(* apply_remote_delete *)

(* Mutant: the folders above are not looked at. *)
TakeDeleteAnywhere(p) ==
  /\ pc = "idle" /\ ~ContainsClientState(p)
  /\ pc' = "remove" /\ op' = "delete" /\ target' = p /\ todo' = {}
  /\ UNCHANGED <<tree, rest>>

TakeDelete(p) ==
  /\ pc = "idle" /\ ~ContainsClientState(p) /\ ~LinkAbove(p)
  /\ pc' = "remove" /\ op' = "delete" /\ target' = p /\ todo' = {}
  /\ UNCHANGED <<tree, rest>>

(* What is gone, unless it is something else behind a link. *)
Gone(p) == ~Exists(p) /\ (p = target => ~LinkAbove(p))

(* remove: a file or a link, or a folder with what is in it, one by one.   *)
Remove(q) ==
  /\ pc = "remove"
  /\ q \in {target} \cup Below(target) /\ ~Gone(q) /\ Empty(q)
  /\ Becomes(q, "none") /\ half' = half \ {q} /\ Reaches(q)
  /\ UNCHANGED <<job, rest>>

(* Folders that held nothing else go too, but none of the hidden ones. *)
Removed ==
  /\ pc = "remove" /\ Gone(target)
  /\ IF target \in Hidden THEN Done
     ELSE pc' = "prune" /\ todo' = Above(target) /\ UNCHANGED <<op, target>>
  /\ UNCHANGED <<tree, rest>>

Deepest(a) == a \in todo /\ todo \cap Below(a) = {}

(* Mutant: a folder goes with what is in it. *)
PruneAll(a) ==
  /\ pc = "prune" /\ Deepest(a)
  /\ kind[a] \in {"none", "dir"}
  /\ kind' = [q \in Paths |-> IF q \in {a} \cup Below(a) THEN "none" ELSE kind[q]]
  /\ Reaches(a)
  /\ todo' = todo \ {a}
  /\ UNCHANGED <<half, pc, op, target, rest>>

Prune(a) ==
  /\ pc = "prune" /\ Deepest(a)
  /\ kind[a] = "none" \/ (kind[a] = "dir" /\ Empty(a))
  /\ Becomes(a, "none") /\ Reaches(a)
  /\ todo' = todo \ {a}
  /\ UNCHANGED <<half, pc, op, target, rest>>

PruneEnds ==
  /\ pc = "prune"
  /\ todo = {} \/ \E a \in todo : Deepest(a) /\ Exists(a) /\ (kind[a] # "dir" \/ ~Empty(a))
  /\ Done
  /\ UNCHANGED <<tree, rest>>

(* A call fails, or the process dies, and everything stays as it is.       *)
Interrupted ==
  /\ pc # "idle"
  /\ Done
  /\ UNCHANGED <<tree, rest>>
-----------------------------------------------------------------------------
(* The user, who leaves the client's own files alone, and replaces no      *)
(* folder by a link just while the client works in it.                     *)

UserMay(p) == steps < MaxSteps /\ steps' = steps + 1 /\ ~ContainsClientState(p) /\ InFolder(p)

UserMakes(p, k) ==
  /\ UserMay(p) /\ ~Exists(p)
  /\ k = "link" => pc = "idle"
  /\ Becomes(p, k)
  /\ UNCHANGED <<half, outside, job, displaced>>

UserRemoves(p) ==
  /\ UserMay(p) /\ Exists(p)
  /\ kind' = [q \in Paths |-> IF q \in {p} \cup Below(p) THEN "none" ELSE kind[q]]
  /\ half' = half \ ({p} \cup Below(p))
  /\ UNCHANGED <<outside, job, displaced>>

Inbound ==
  \/ \E p \in Paths : TakePut(p) \/ TakeDelete(p) \/ Remove(p)
  \/ \E a \in todo : ParentThere(a) \/ MakeWay(a) \/ MakeFolder(a) \/ Prune(a)
  \/ Place \/ Stage \/ Fill \/ Rename \/ RenameFails \/ Removed \/ PruneEnds \/ Interrupted

Next ==
  \/ Inbound
  \/ \E p \in Paths : UserRemoves(p) \/ \E k \in {"file", "dir", "link"} : UserMakes(p, k)

Spec == Init /\ [][Next]_vars
-----------------------------------------------------------------------------
(* Types of all variables. *)
TypeOK ==
  /\ kind \in [Paths -> Kinds]
  /\ half \subseteq Paths /\ outside \in BOOLEAN
  /\ pc \in {"idle", "parents", "stage", "fill", "rename", "remove", "prune"}
  /\ op \in {"put", "delete"} /\ target \in Paths \cup {NoPath}
  /\ todo \subseteq Paths
  /\ steps \in Nat /\ displaced \in BOOLEAN

(* No sequence of inbound changes takes this client's journals: not a      *)
(* tombstone above them, not a file in the place of one of their folders,  *)
(* not the pruning of empty folders.  Nor its credentials, as long as the  *)
(* vault has no file below data.json, for which it would have to make way. *)
ClientStateKept ==
  /\ kind[StateDir] = "dir" /\ \A j \in Journals : kind[j] = "file"
  /\ ~displaced => kind[DataFile] = "file"

(* A file that makes way for a folder: "the engine has already checked     *)
(* that this file has no local changes" (fs.rs:115-116), and the client is *)
(* "refusing to overwrite client credentials" (fs.rs:248).                 *)
CredentialsKept == kind[DataFile] = "file"

(* Symlinks the user keeps in the vault lead no inbound change out of it.  *)
OutsideUntouched == ~outside

(* Whenever the client is interrupted, no file that a scan would find, and *)
(* push, is half-written.                                                  *)
ListedWhole == Listed \cap half = {}

(* What the user adds while the client works survives: an inbound put      *)
(* takes no file but the ones at and above its path, an inbound delete     *)
(* none outside its folder, and pruning none at all.                       *)
TakesOnlyWhatIsNamed ==
  [][Inbound => \A q \in Paths \ {Temp} :
       kind[q] \in {"file", "link"} /\ kind'[q] # kind[q] =>
         /\ pc # "prune"
         /\ q \in {target} \cup (IF op = "put" THEN Above(target) ELSE Below(target))]_vars

(* The inductive invariant. *)
WellShaped == \A p \in Paths : Exists(p) => InFolder(p)

JobSafe ==
  pc # "idle" =>
    /\ target \in Paths /\ todo \subseteq Above(target)
    /\ ~LinkAbove(target)
    /\ ~Excluded(target)
    /\ op = "delete" => ~ContainsClientState(target)
    /\ op = "put" /\ target \in Below(DataFile) => displaced

OpFits ==
  /\ pc \in {"parents", "stage", "fill", "rename"} => op = "put"
  /\ pc \in {"remove", "prune"} => op = "delete"

Staging == half \subseteq {Temp} /\ kind[Temp] \in {"none", "file"}

IInv ==
  TypeOK /\ WellShaped /\ ClientStateKept /\ OutsideUntouched /\ Staging /\ JobSafe /\ OpFits
=============================================================================
