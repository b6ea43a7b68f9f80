------------------------------ MODULE Journal ------------------------------
(***************************************************************************)
(* One journal: rust-client/src/jsonl.rs on the journal operations of      *)
(* fs.rs, down to the renames, and the plugin's own way to rewrite the     *)
(* same file, which leaves a `.bak` when it is interrupted.  The client    *)
(* can lose power at any time; the plugin, which never syncs what it       *)
(* writes, only its process.  A file's bytes and its name reach the disk   *)
(* apart: append syncs the bytes only, write the folder as well.           *)
(***************************************************************************)
EXTENDS Naturals, Sequences, SequencesExt

CONSTANTS
  Items,        \* journal lines
  Absent,
  MaxCrashes    \* bound: crashes and failed writes

(* The lines that parse, and what follows them: nothing; a piece of a line; *)
(* no newline after the last line; a line that does not parse, made of two; *)
(* or such a line followed by others.                                      *)
Text == [lines : Seq(Items), tail : {"none", "part", "open", "merged", "stuck"}]

ASSUME JournalConstants == MaxCrashes \in Nat /\ Absent \notin Text

VARIABLES
  file, bak, tmp,  \* the journal, its .bak and its .tmp
  synced,          \* file and bak as a power loss leaves them at the worst
  named,           \* the folder as synced has the journal's present file
  owner,           \* who runs: "nobody", "client", "plugin"
  pc,
  job,             \* the lines to write, or that were there before an append
  adding,          \* the item being appended
  used,            \* history: items that were appended
  acked,           \* history: items whose append returned, and not handled yet
  unnamed,         \* history: those appended to a file whose name was not synced
  quarantined,     \* the cut-off tail is in the .corrupt file
  cut,             \* history: an append failed, was cut short or lost its newline
  crashes

names == <<named, unnamed>>
disk == <<file, bak, tmp, synced>>
vars == <<disk, names, owner, pc, job, adding, used, acked, quarantined, cut, crashes>>

Whole(s) == [lines |-> s, tail |-> "none"]

(* recover_journal: the .bak stands for a file that is not there. *)
Visible(f, b) == IF f # Absent THEN f ELSE IF b # Absent THEN b ELSE Whole(<<>>)
Current == Visible(file, bak)

Recovered == IF file = Absent THEN file' = bak /\ bak' = Absent ELSE UNCHANGED <<file, bak>>

(* A line after a text that does not end in a newline is glued to it. *)
Glued(t) ==
  [lines |-> IF t.tail = "open" THEN Front(t.lines) ELSE t.lines,
   tail |-> IF t.tail \in {"part", "open"} THEN "merged" ELSE "stuck"]
Extended(t, x) == IF t.tail = "none" THEN Whole(Append(t.lines, x)) ELSE Glued(t)

Init ==
  /\ file = Absent /\ bak = Absent /\ tmp = Absent /\ synced = <<Absent, Absent>>
  /\ named = TRUE /\ unnamed = {}
  /\ owner = "nobody" /\ pc = "start" /\ job = <<>> /\ adding \in Items
  /\ used = {} /\ acked = {} /\ quarantined = FALSE /\ cut = FALSE /\ crashes = 0
-----------------------------------------------------------------------------
(* Reading *)

(* A process starts, and lists the journal before anything else. *)
Open(who) ==
  /\ owner = "nobody"
  /\ owner' = who /\ pc' = "start"
  /\ UNCHANGED <<disk, names, job, adding, used, acked, quarantined, cut, crashes>>

(* Mutant: whatever follows the last whole line is left where it is. *)
ReadWholeAnyTail ==
  /\ owner # "nobody" /\ pc = "start"
  /\ Recovered
  /\ pc' = "ready"
  /\ UNCHANGED <<tmp, synced, names, owner, job, adding, used, acked, quarantined, cut, crashes>>

(* read_lines: every line parses, the last one too if it only lacks its newline. *)
ReadWhole ==
  /\ owner # "nobody" /\ pc = "start"
  /\ Current.tail \in {"none", "open"}
  /\ Recovered
  /\ pc' = "ready"
  /\ UNCHANGED <<tmp, synced, names, owner, job, adding, used, acked, quarantined, cut, crashes>>

ReadTorn ==
  /\ owner # "nobody" /\ pc \in {"start", "ready"}
  /\ Current.tail \in {"part", "merged"}
  /\ Recovered
  /\ job' = Current.lines
  /\ pc' = "quarantine"
  /\ UNCHANGED <<tmp, synced, names, owner, adding, used, acked, quarantined, cut, crashes>>

Quarantine ==
  /\ pc = "quarantine"
  /\ quarantined' = TRUE
  /\ pc' = "write"
  /\ UNCHANGED <<disk, names, owner, job, adding, used, acked, cut, crashes>>
-----------------------------------------------------------------------------
(* Appending *)

(* The first append creates the file. *)
Created == file = Absent /\ bak = Absent

Adds(x) ==
  /\ owner = "client" /\ pc = "ready" /\ x \notin used
  /\ file' = Extended(Current, x)
  /\ bak' = IF file = Absent THEN Absent ELSE bak
  /\ named' = (named /\ ~Created)
  /\ job' = Current.lines
  /\ adding' = x /\ used' = used \cup {x}
  /\ pc' = "fsync"
  /\ UNCHANGED <<tmp, synced, unnamed, owner, acked, quarantined, cut, crashes>>

(* Mutant: append returns before the sync. *)
AddedUnsynced ==
  /\ pc = "fsync"
  /\ acked' = acked \cup {adding}
  /\ unnamed' = IF named THEN unnamed ELSE unnamed \cup {adding}
  /\ pc' = "ready"
  /\ UNCHANGED <<disk, named, owner, job, adding, used, quarantined, cut, crashes>>

(* The bytes are on disk, under the name that the folder has on disk; the  *)
(* parent folder is not synced, so there may be none, or an older file's.  *)
Added ==
  /\ pc = "fsync"
  /\ synced' = IF ~named THEN synced
               ELSE IF synced[1] = Absent THEN <<Absent, file>> ELSE <<file, synced[2]>>
  /\ acked' = acked \cup {adding}
  /\ unnamed' = IF named THEN unnamed ELSE unnamed \cup {adding}
  /\ pc' = "ready"
  /\ UNCHANGED <<file, bak, tmp, named, owner, job, adding, used, quarantined, cut, crashes>>

(* The sync fails, with the line in the file. *)
AddFails ==
  /\ pc = "fsync" /\ crashes < MaxCrashes
  /\ pc' = "ready"
  /\ cut' = TRUE
  /\ crashes' = crashes + 1
  /\ UNCHANGED <<disk, names, owner, job, adding, used, acked, quarantined>>

(* The disk is full: a piece is written, the append fails.  The client     *)
(* keeps the operation and appends it again later.                         *)
AddsPiece ==
  /\ owner = "client" /\ pc = "ready" /\ crashes < MaxCrashes
  /\ file' = IF Current.tail = "none" THEN [Current EXCEPT !.tail = "part"]
             ELSE IF Current.tail = "part" THEN Current
             ELSE [Glued(Current) EXCEPT !.tail = IF Current.tail = "open" THEN "part" ELSE "stuck"]
  /\ bak' = IF file = Absent THEN Absent ELSE bak
  /\ named' = (named /\ ~Created)
  /\ cut' = TRUE
  /\ crashes' = crashes + 1
  /\ UNCHANGED <<tmp, synced, unnamed, owner, pc, job, adding, used, acked, quarantined>>

PluginAdds(x) ==
  /\ owner = "plugin" /\ pc = "ready" /\ x \notin used
  /\ file' = Extended(Current, x)
  /\ bak' = IF file = Absent THEN Absent ELSE bak
  /\ adding' = x /\ used' = used \cup {x} /\ acked' = acked \cup {x}
  /\ UNCHANGED <<tmp, synced, names, owner, pc, job, quarantined, cut, crashes>>
-----------------------------------------------------------------------------
(* Rewriting without one line that has been handled: write_lines *)

Handled(i) ==
  /\ owner # "nobody" /\ pc = "ready"
  /\ Current.tail \in {"none", "open"}
  /\ job' = RemoveAt(Current.lines, i)
  /\ acked' = acked \ {Current.lines[i]}
  /\ pc' = "write"
  /\ UNCHANGED <<disk, names, owner, adding, used, quarantined, cut, crashes>>

(* The plugin removes an old .bak first; the client when it is done. *)
WriteTmp ==
  /\ pc = "write"
  /\ tmp' = Whole(job)
  /\ file' = IF file = Absent THEN bak ELSE file
  /\ bak' = IF file = Absent \/ owner = "plugin" THEN Absent ELSE bak
  /\ pc' = IF owner = "plugin" THEN "backup" ELSE "rename"
  /\ UNCHANGED <<synced, names, owner, job, adding, used, acked, quarantined, cut, crashes>>

(* Mutant: the old journal is removed, not renamed. *)
PluginBacksUpRemoving ==
  /\ pc = "backup"
  /\ file' = Absent
  /\ pc' = "rename"
  /\ UNCHANGED <<bak, tmp, synced, names, owner, job, adding, used, acked, quarantined, cut, crashes>>

PluginBacksUp ==
  /\ pc = "backup"
  /\ bak' = file /\ file' = Absent
  /\ pc' = "rename"
  /\ UNCHANGED <<tmp, synced, names, owner, job, adding, used, acked, quarantined, cut, crashes>>

Rename ==
  /\ pc = "rename"
  /\ file' = tmp /\ tmp' = Absent
  /\ named' = FALSE
  /\ pc' = "unbak"
  /\ UNCHANGED <<bak, synced, unnamed, owner, job, adding, used, acked, quarantined, cut, crashes>>

RemoveBackup ==
  /\ pc = "unbak"
  /\ bak' = Absent
  /\ pc' = "sync"
  /\ UNCHANGED <<file, tmp, synced, names, owner, job, adding, used, acked, quarantined, cut, crashes>>

(* What is in the folder is on disk: name, bytes and all. *)
OnDisk ==
  /\ synced' = <<file, bak>> /\ named' = TRUE
  /\ unnamed' = unnamed \ ToSet(Current.lines)

(* sync_parent; of the plugin's files see PluginDies and Close. *)
Sync ==
  /\ pc = "sync"
  /\ OnDisk
  /\ pc' = "ready"
  /\ UNCHANGED <<file, bak, tmp, owner, job, adding, used, acked, quarantined, cut, crashes>>
-----------------------------------------------------------------------------
(* Stopping.  What was not synced may be there, or not; of an append a      *)
(* part may be.                                                            *)
LosePower(f, b) ==
  /\ owner = "client" /\ crashes < MaxCrashes
  /\ file' = f /\ bak' = b /\ synced' = <<f, b>> /\ named' = TRUE
  /\ owner' = "nobody" /\ pc' = "start"
  /\ crashes' = crashes + 1
  /\ UNCHANGED <<tmp, unnamed, job, adding, used, acked, quarantined>>

PowerLoss ==
  /\ cut' = cut
  /\ \/ LosePower(file, bak)
     \/ LosePower(synced[1], synced[2])
     \/ pc = "fsync" /\ \E t \in {"none", "part"} : LosePower([lines |-> job, tail |-> t], bak)

(* All of the line is there but its newline. *)
PowerLossBeforeNewline ==
  /\ pc = "fsync"
  /\ LosePower([Current EXCEPT !.tail = "open"], bak)
  /\ cut' = TRUE

(* A rewrite fails, before the rename or after it with the new lines in    *)
(* place; at start that ends the process.                                  *)
WriteFails ==
  /\ owner = "client" /\ pc \in {"write", "rename", "unbak", "sync"} /\ crashes < MaxCrashes
  /\ Current.tail \in {"none", "open"}
  /\ pc' = "ready"
  /\ crashes' = crashes + 1
  /\ UNCHANGED <<disk, names, owner, job, adding, used, acked, quarantined, cut>>

PluginDies ==
  /\ owner = "plugin" /\ crashes < MaxCrashes
  /\ OnDisk
  /\ owner' = "nobody" /\ pc' = "start"
  /\ crashes' = crashes + 1
  /\ UNCHANGED <<file, bak, tmp, job, adding, used, acked, quarantined, cut>>

(* The client ends without another sync.  What the plugin wrote is taken   *)
(* to be on disk before the client starts.                                 *)
Close ==
  /\ owner # "nobody" /\ pc = "ready"
  /\ IF owner = "plugin" THEN OnDisk ELSE UNCHANGED <<synced, names>>
  /\ owner' = "nobody" /\ pc' = "start"
  /\ UNCHANGED <<file, bak, tmp, job, adding, used, acked, quarantined, cut, crashes>>

Next ==
  \/ \E who \in {"client", "plugin"} : Open(who)
  \/ ReadWhole \/ ReadTorn \/ Quarantine
  \/ \E x \in Items : Adds(x) \/ PluginAdds(x)
  \/ Added \/ AddFails \/ AddsPiece
  \/ \E i \in DOMAIN Current.lines : Handled(i)
  \/ WriteTmp \/ PluginBacksUp \/ Rename \/ RemoveBackup \/ Sync
  \/ PowerLoss \/ PowerLossBeforeNewline \/ WriteFails \/ PluginDies \/ Close

Spec == Init /\ [][Next]_vars
-----------------------------------------------------------------------------
FileOrNone == Text \cup {Absent}

(* Types of all variables. *)
TypeOK ==
  /\ file \in FileOrNone /\ bak \in FileOrNone /\ tmp \in FileOrNone
  /\ synced \in FileOrNone \X FileOrNone
  /\ owner \in {"nobody", "client", "plugin"}
  /\ pc \in {"start", "ready", "quarantine", "fsync", "write", "backup", "rename", "unbak", "sync"}
  /\ job \in Seq(Items) /\ adding \in Items
  /\ used \subseteq Items /\ acked \subseteq Items
  /\ named \in BOOLEAN /\ unnamed \subseteq Items
  /\ quarantined \in BOOLEAN /\ cut \in BOOLEAN /\ crashes \in Nat

(* The journal can be read: a line that does not parse is never followed   *)
(* by another one, which would be "an error so FIFO order never skips      *)
(* durable ops" (jsonl.rs:8-9) and would stop the client for good.         *)
Readable == ~cut => Current.tail # "stuck"

(* An append that returned is read back until its operation has been       *)
(* handled, whoever was interrupted in which step of a rewrite - unless    *)
(* the journal's name was not on disk when it returned (fs.rs:190).        *)
AcknowledgedKept == ~cut => acked \ unnamed \subseteq ToSet(Current.lines)

(* The same of every append: enqueue "durably queues a local change"       *)
(* (engine.rs:227).                                                        *)
DurablyQueued == ~cut => acked \subseteq ToSet(Current.lines)

(* The inductive invariant: in every step of a rewrite, whoever makes it,   *)
(* some file holds all lines, and what a power loss falls back to lacks    *)
(* the last change at most.                                                *)
SafeLines == Visible(synced[1], synced[2]).lines

WellFormed ==
  /\ Current.tail \in {"none", "part"}
  /\ Visible(synced[1], synced[2]).tail \in {"none", "part"}
  /\ pc \in {"ready", "fsync", "unbak", "sync"} => Current.tail = "none"
  /\ pc \in {"fsync", "unbak", "sync"} => file # Absent
  /\ pc = "backup" => file # Absent \/ bak = Absent

InFlight ==
  /\ named /\ pc # "fsync" /\ owner # "plugin" => SafeLines = Current.lines
  /\ pc = "fsync" => /\ Current.lines = Append(job, adding) /\ adding \in used \ acked
                     /\ named => SafeLines = job
  /\ pc = "quarantine" => job = Current.lines
  /\ pc \in {"write", "backup", "rename"} =>
       \/ job = Current.lines
       \/ \E i \in DOMAIN Current.lines :
            job = RemoveAt(Current.lines, i) /\ Current.lines[i] \notin acked
  /\ pc \in {"backup", "rename"} => tmp = Whole(job)

Kept ==
  /\ acked \cup unnamed \subseteq used
  /\ acked \ unnamed \subseteq ToSet(Current.lines)
  /\ owner # "plugin" => acked \ unnamed \subseteq ToSet(SafeLines)

Owned ==
  /\ owner = "nobody" => pc = "start"
  /\ pc = "fsync" => owner = "client"
  /\ pc = "backup" => owner = "plugin"

IInv == TypeOK /\ Owned /\ (~cut => WellFormed /\ InFlight /\ Kept)

(* What DurableLog sees: the lines a reader gets, and what a power loss    *)
(* cannot take.                                                            *)
Log == INSTANCE DurableLog WITH
         log <- Current.lines,
         safe <- IF owner = "plugin" THEN Current.lines ELSE SafeLines,
         acked <- acked \ unnamed,
         damaged <- cut

(* The journal is a durable log of its items, although it is rewritten by  *)
(* renames and repaired at start; what is appended under a name that is    *)
(* not on disk the log acknowledges with the next rewrite.                 *)
ImplementsDurableLog == Log!Spec
=============================================================================
