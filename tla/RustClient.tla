----------------------------- MODULE RustClient -----------------------------
(***************************************************************************)
(* rust-client/src/{engine,tracker,outbox,inbox}.rs: the client without    *)
(* Obsidian.  One thread looks at the watcher's events, rescans and ticks; *)
(* beside it the user edits the vault, other devices change the server,    *)
(* the process dies and starts again, and Obsidian is opened on the same   *)
(* vault.  An action ends where one of these can see what it did: at a     *)
(* write to the disk, the journals or the server.                          *)
(***************************************************************************)
EXTENDS VaultOps, Tracker

CONSTANTS
  LocalOps,     \* what the user does: subset of {"put", "delete"}
  Faults,       \* what fails: subset of {"request", "append", "save", "cursor", "crash", "events"}
  TooLarge,     \* contents the server rejects for good (413)
  Quiet,        \* no edit of a path between the last look at it and its write
  MaxEdits,     \* bound: saves and deletions by the user
  MaxRemote,    \* bound: changes by other devices
  MaxFaults,    \* bound: faults
  MaxSessions,  \* bound: times Obsidian is opened
  NoManifest, NoJob

ASSUME Bounds ==
  MaxEdits \in Nat /\ MaxRemote \in Nat \ {0} /\ MaxFaults \in Nat /\ MaxSessions \in Nat

(* The n-th save writes n, the n-th change by another device -n.           *)
ASSUME Numbered == 1 .. MaxEdits \subseteq Contents /\ {-n : n \in 1 .. MaxRemote} \subseteq Contents

ASSUME NoBaseIsNoRevision == NoBase \notin Nat

ASSUME NoManifestIsNone == NoManifest \notin [rev : Nat, files : [Paths -> Entry]]

VARIABLES
  files,      \* the server's table
  disk,       \* the vault: content or NoContent per path
  outbox, inbox, dead,   \* outbox.jsonl, inbox.jsonl (sorted when read), dead-letter.jsonl
  saved,      \* the cursor in data.json
  manifest,   \* rust-client-manifest.json
  cursor,     \* settings.revision
  tracker,    \* tracker.entries
  failed,     \* failed_enqueues
  events,     \* watcher events and DirtyPaths
  pc,         \* where the main loop or its tick is
  job,        \* the operation or inbox line the tick works on
  body,       \* the downloaded bytes
  obsidian,   \* "open" from the moment the monitor notices it
  sent,       \* history: contents the server has answered for, or refused
  had,        \* history: contents of other devices that were on this disk
  excused,    \* history: paths that met a known weakness, see Excused
  edits, remotes, faults, sessions

serverVars == <<files, remotes>>
journals == <<outbox, inbox, dead, saved, manifest>>
memory == <<cursor, tracker, failed, events>>
tickVars == <<pc, job, body>>
history == <<sent, had, excused>>
counters == <<edits, faults, sessions>>
vars == <<serverVars, disk, journals, memory, tickVars, obsidian, history, counters>>

PathsOf(ops) == {op.path : op \in ops}
OutboxPaths == PathsOf(ToSet(outbox))
Outgoing == OutboxPaths \cup PathsOf(failed)

(* pending_outbox_paths as a tick uses it: rebuilt after the drain,        *)
(* extended by every enqueue.                                              *)
Pending == Outgoing

(* What happened to a path:                                                *)
(*   "adopted"   a new baseline took over a local change of it;            *)
(*   "torn"      it was written, but not in the manifest at a crash, or    *)
(*               not in the tracker when the tick failed;                  *)
(*   "unqueued"  an append of a change of it failed, or its put was struck *)
(*               because the look at its file failed.                      *)
Excused(whys) == {p \in Paths : \E why \in whys : <<why, p>> \in excused}

Foreign(v) == v \in -remotes .. -1
Live == pc \notin {"down", "paused"}
Running == obsidian = "closed"

Blame(kind, happens) ==
  IF happens THEN kind \in Faults /\ faults < MaxFaults /\ faults' = faults + 1
             ELSE UNCHANGED faults

Goto(where) == pc' = where /\ job' = NoJob /\ body' = NoContent

(* A vault that is empty, or came with one file from a bootstrap archive.  *)
Init ==
  /\ \E s \in {{}} \cup {{p} : p \in Paths} :
       /\ files = [p \in Paths |-> IF p \in s THEN FileRow(1, -1) ELSE NoRow]
       /\ disk = [p \in Paths |-> IF p \in s THEN -1 ELSE NoContent]
       /\ saved = Cardinality(s) /\ remotes = Cardinality(s)
       /\ had = IF s = {} THEN {} ELSE {-1}
  /\ outbox = <<>> /\ inbox = {} /\ dead = {}
  /\ manifest = NoManifest
  /\ cursor = 0 /\ tracker = [p \in Paths |-> NoEntry] /\ failed = {} /\ events = {}
  /\ pc = "down" /\ job = NoJob /\ body = NoContent
  /\ obsidian = "closed"
  /\ sent = {} /\ excused = {}
  /\ edits = 0 /\ faults = 0 /\ sessions = 0
-----------------------------------------------------------------------------
(* The user and the watcher.  An event names the path, or a folder that    *)
(* came with it.                                                           *)

Undisturbed(p) ==
  Quiet => ~(pc \in {"take", "write", "record"} /\ Related(job.path, p))

Notice(p) == events' = IF Live THEN events \cup {p} ELSE events

Edit(p) ==
  /\ "put" \in LocalOps /\ edits < MaxEdits /\ Running
  /\ Undisturbed(p)
  /\ \A q \in Above(p) \cup Below(p) : disk[q] = NoContent
  /\ disk' = [disk EXCEPT ![p] = edits + 1]
  /\ \E e \in {p} \cup Above(p) : Notice(e)
  /\ edits' = edits + 1
  /\ UNCHANGED <<serverVars, journals, cursor, tracker, failed, tickVars, obsidian, history,
                 faults, sessions>>

Erase(p) ==
  /\ "delete" \in LocalOps /\ edits < MaxEdits /\ Running
  /\ \A q \in {p} \cup Below(p) : Undisturbed(q)
  /\ ~Absent(disk, p)
  /\ disk' = [q \in Paths |-> IF q \in {p} \cup Below(p) THEN NoContent ELSE disk[q]]
  /\ Notice(p)
  /\ edits' = edits + 1
  /\ UNCHANGED <<serverVars, journals, cursor, tracker, failed, tickVars, obsidian, history,
                 faults, sessions>>

(* The kernel's queue overflows, or looking at the events fails half-way.  *)
(* A rescan is asked for; one is due every five minutes anyway.            *)
LoseEvents ==
  /\ events # {}
  /\ events' = {}
  /\ Blame("events", TRUE)
  /\ UNCHANGED <<serverVars, disk, journals, cursor, tracker, failed, tickVars, obsidian,
                 history, edits, sessions>>
-----------------------------------------------------------------------------
(* Local changes into the outbox *)

(* A delete says which revision its author had seen; `ts` is left out. *)
PutOp(p) == [op |-> "put", path |-> p, base |-> NoBase]

(* Mutant: a delete does not say it. *)
DeleteOpBaseless(p, rev) == [op |-> "delete", path |-> p, base |-> NoBase]

DeleteOp(p, rev) == [op |-> "delete", path |-> p, base |-> rev]

(* What reconcile_paths finds at the dirty paths: tracked files that are   *)
(* gone, and files that are there.  A folder stands for what is in it.     *)
Gone(m, dirty) ==
  {q \in Tracked(m) : \E p \in dirty :
     /\ q \in TrackedUnder(m, p)
     /\ q = p => ~IsFile(disk, p)
     /\ q # p /\ IsFolder(disk, p) => Absent(disk, q)}
Present(dirty) ==
  {q \in Watched : IsFile(disk, q) /\ \E p \in dirty : q = p \/ (~IsFile(disk, p) /\ q \in Below(p))}

(* Mutant: whatever is there counts as changed. *)
FreshAll(m, dirty) == Present(dirty)

Fresh(m, dirty) == {q \in Present(dirty) : Forget(m, Gone(m, dirty))[q].hash # disk[q]}
Found(m, dirty) == Gone(m, dirty) \cup Fresh(m, dirty)

(* The manifest after reconcile_paths; appends to the outbox fail for bad. *)
Reconciled(m, dirty, bad) ==
  [q \in Paths |-> IF q \in Present(dirty) \ bad THEN EntryOf(disk[q])
                   ELSE Forget(m, Gone(m, dirty) \ bad)[q]]

(* enqueue_durable: appended, or kept in memory for the next tick. *)
EnqueueDurable(gone, fresh, bad, rev) ==
  LET deletes(s) == {DeleteOp(p, rev) : p \in s}
      puts(s) == {PutOp(p) : p \in s}
  IN  /\ outbox' = outbox \o SetToSeq(deletes(gone \ bad)) \o SetToSeq(puts(fresh \ bad))
      /\ failed' = {f \in failed : f.path \notin gone \cup fresh}
                   \cup deletes(gone \cap bad) \cup puts(fresh \cap bad)
      /\ Blame("append", bad # {})
      /\ excused' = excused \cup {"unqueued"} \X bad

ReconcilePaths(m, dirty, bad, rev) ==
  /\ bad \subseteq Found(m, dirty)
  /\ EnqueueDurable(Gone(m, dirty), Fresh(m, dirty), bad, rev)
  /\ tracker' = Reconciled(m, dirty, bad)

(* The watcher's paths have been quiet for a moment. *)
ReconcileEvents(bad) ==
  /\ pc = "idle" /\ Running
  /\ events # {}
  /\ ReconcilePaths(tracker, events, bad, cursor)
  /\ events' = {}
  /\ UNCHANGED <<serverVars, disk, inbox, dead, saved, manifest, cursor, tickVars, obsidian,
                 sent, had, edits, sessions>>

Rescan(bad) ==
  /\ pc = "idle" /\ Running
  /\ LET dirty == Changed(tracker, disk) \cup Missing(tracker, disk)
     IN  dirty # {} /\ ReconcilePaths(Touched(tracker, disk), dirty, bad, cursor)
  /\ UNCHANGED <<serverVars, disk, inbox, dead, saved, manifest, cursor, events, tickVars,
                 obsidian, sent, had, edits, sessions>>
-----------------------------------------------------------------------------
(* Start *)

(* The cursor and the journals come from the disk.  Local changes that a   *)
(* new baseline takes over are never queued: what is not as on the server, *)
(* although the cursor has passed it or the manifest knew better.          *)
AdoptFrom(known) ==
  excused' = excused \cup {"adopted"} \X
    {p \in Paths : /\ disk[p] # files[p].content /\ ~Foreign(disk[p])
                   /\ disk[p] # known[p].hash \/ files[p].rev <= saved}

Rebaseline(known) ==
  /\ tracker' = Rebaselined(known, disk)
  /\ manifest' = [rev |-> saved, files |-> tracker']
  /\ UNCHANGED <<outbox, failed, faults>>

Starting ==
  /\ pc = "down" /\ Running
  /\ cursor' = saved
  /\ UNCHANGED <<serverVars, disk, inbox, dead, saved, events, job, body, obsidian, sent,
                 edits, sessions>>

NoEntries == [p \in Paths |-> NoEntry]

(* No manifest and revision 0, with --allow-seed: all files are queued. *)
Seed ==
  /\ Starting
  /\ manifest = NoManifest /\ saved = 0
  /\ ReconcilePaths(NoEntries, {p \in Watched : IsFile(disk, p)}, {}, saved)
  /\ pc' = "started"
  /\ UNCHANGED <<manifest, had>>

FirstRun ==
  /\ Starting
  /\ manifest = NoManifest /\ saved # 0
  /\ AdoptFrom(NoEntries)
  /\ Rebaseline(NoEntries)
  /\ pc' = "idle"
  /\ UNCHANGED had

(* data.json moved past the manifest: the plugin, or a crash, wrote last. *)
StartRebaselined ==
  /\ Starting
  /\ manifest # NoManifest /\ manifest.rev # saved
  /\ AdoptFrom(manifest.files)
  /\ Rebaseline(manifest.files)
  /\ pc' = "idle"
  /\ UNCHANGED had

(* reconcile_offline_changes: what changed while nothing ran is compared   *)
(* with the server first.                                                  *)
Resumed ==
  /\ Starting
  /\ manifest # NoManifest /\ manifest.rev = saved
  /\ LET known == Touched(manifest.files, disk)
         changed == Changed(manifest.files, disk)
         missing == Missing(manifest.files, disk)
         same == {p \in changed : disk[p] = files[p].content}
         forgotten == {p \in missing : ~files[p].live}
         conflicts == {p \in changed \ same : files[p].live /\ known[p].hash # files[p].content}
         checked == [p \in Paths |-> IF p \in same THEN EntryOf(disk[p])
                                     ELSE Forget(known, forgotten)[p]]
     IN  /\ ReconcilePaths(checked, (changed \ same) \cup (missing \ forgotten), {}, saved)
         /\ had' = had \cup {v \in {files[p].content : p \in conflicts} : Foreign(v)}
  /\ pc' = "started"
  /\ UNCHANGED <<manifest>>

(* The manifest is saved before the first tick; without it the start fails. *)
Started ==
  /\ pc = "started"
  /\ manifest' = [rev |-> cursor, files |-> tracker]
  /\ pc' = "idle"
  /\ UNCHANGED <<serverVars, disk, outbox, inbox, dead, saved, memory, job, body, obsidian,
                 history, counters>>

Start == Seed \/ FirstRun \/ StartRebaselined \/ Resumed \/ Started
-----------------------------------------------------------------------------
(* The tick: outbox out *)

StartTick ==
  /\ pc = "idle" /\ Running
  /\ pc' = "retry"
  /\ UNCHANGED <<serverVars, disk, journals, memory, job, body, obsidian, history, counters>>

(* retry_failed_enqueues, one path at a time. *)
RetryFailed(op) ==
  /\ pc = "retry"
  /\ op \in failed
  /\ outbox' = Append(outbox, op)
  /\ failed' = failed \ {op}
  /\ tracker' = [tracker EXCEPT ![op.path] = EntryOf(disk[op.path])]
  /\ UNCHANGED <<serverVars, disk, inbox, dead, saved, manifest, cursor, events, tickVars,
                 obsidian, history, counters>>

Drain ==
  /\ pc = "retry" /\ failed = {}
  /\ pc' = "drain"
  /\ UNCHANGED <<serverVars, disk, journals, memory, job, body, obsidian, history, counters>>

(* A put whose file is gone is skipped. *)
SkipPut ==
  /\ pc = "drain" /\ outbox # <<>>
  /\ Head(outbox).op = "put" /\ ~IsFile(disk, Head(outbox).path)
  /\ job' = Head(outbox)
  /\ pc' = "ack"
  /\ UNCHANGED <<serverVars, disk, journals, memory, body, obsidian, history, counters>>

(* stat fails, and the put is skipped although its file is there. *)
SkipUnseen ==
  /\ pc = "drain" /\ outbox # <<>>
  /\ Head(outbox).op = "put" /\ IsFile(disk, Head(outbox).path)
  /\ Blame("request", TRUE)
  /\ job' = Head(outbox)
  /\ pc' = "ack"
  /\ excused' = excused \cup {<<"unqueued", Head(outbox).path>>}
  /\ UNCHANGED <<serverVars, disk, journals, memory, body, obsidian, sent, had, edits, sessions>>

Refused(op) == op.op = "put" /\ disk[op.path] \in TooLarge

(* Mutant: the dead letter says what was tried and not on which path. *)
RequestedNamingOp(op, answered) ==
  /\ files' = IF Refused(op) THEN files
              ELSE IF op.op = "put" THEN Uploaded(files, op.path, disk[op.path])
              ELSE Deleted(files, op.path, op.base)
  /\ dead' = IF Refused(op) /\ answered THEN dead \cup {op.op} ELSE dead
  /\ sent' = IF op.op = "put" /\ (answered \/ ~Refused(op)) THEN sent \cup {disk[op.path]} ELSE sent

(* What the server and the dead letters hold after the operation, a put    *)
(* with the bytes that are on the disk now.                                *)
Requested(op, answered) ==
  /\ files' = IF Refused(op) THEN files
              ELSE IF op.op = "put" THEN Uploaded(files, op.path, disk[op.path])
              ELSE Deleted(files, op.path, op.base)
  /\ dead' = IF Refused(op) /\ answered THEN dead \cup {op.path} ELSE dead
  /\ sent' = IF op.op = "put" /\ (answered \/ ~Refused(op)) THEN sent \cup {disk[op.path]} ELSE sent

(* Without an answer the tick fails and the line stays. *)
Push(answered) ==
  /\ pc = "drain" /\ outbox # <<>> /\ Running
  /\ Head(outbox).op = "put" => IsFile(disk, Head(outbox).path)
  /\ Requested(Head(outbox), answered)
  /\ IF answered THEN pc' = "ack" /\ job' = Head(outbox) /\ UNCHANGED body ELSE Goto("save")
  /\ Blame("request", ~answered)
  /\ UNCHANGED <<remotes, disk, outbox, inbox, saved, manifest, memory, obsidian, had,
                 excused, edits, sessions>>

(* The line goes, if it is still there. *)
Acknowledge ==
  /\ pc = "ack"
  /\ outbox' = RemoveFirst(outbox, job)
  /\ Goto("drain")
  /\ UNCHANGED <<serverVars, disk, inbox, dead, saved, manifest, memory, obsidian, history,
                 counters>>
-----------------------------------------------------------------------------
(* The tick: inbox in *)

Fetch ==
  /\ pc = "drain" /\ outbox = <<>> /\ Running
  /\ inbox' = inbox \cup InboxLines(files, cursor)
  /\ pc' = "apply"
  /\ UNCHANGED <<serverVars, disk, outbox, dead, saved, manifest, memory, job, body, obsidian,
                 history, counters>>

IsNext(line) == line \in inbox /\ \A other \in inbox : line.rev <= other.rev
Deferred(line) == \E p \in Pending : Related(p, line.path)

(* Done, or stopped at a line that a local change holds up. *)
EndTick ==
  /\ pc = "apply"
  /\ inbox = {} \/ \E line \in inbox : IsNext(line) /\ line.rev > cursor /\ Deferred(line)
  /\ Goto("save")
  /\ UNCHANGED <<serverVars, disk, journals, memory, obsidian, history, counters>>

DropLine(line) ==
  /\ pc = "apply"
  /\ IsNext(line) /\ line.rev <= cursor
  /\ inbox' = inbox \ {line}
  /\ UNCHANGED <<serverVars, disk, outbox, dead, saved, manifest, memory, tickVars, obsidian,
                 history, counters>>

(* Mutant: only files that are gone are looked for. *)
UnobservedDeletes(p) == {q \in {p} : Absent(disk, q) /\ q \in Tracked(tracker)}

(* queue_unobserved_changes: local changes at or around p that no event    *)
(* has announced.                                                          *)
Unobserved(p) ==
  {q \in Watched : IsFile(disk, q) /\ ~MatchesDisk(tracker, disk, q)
                   /\ (q \in {p} \cup Above(p) \/ (IsFolder(disk, p) /\ q \in Below(p)))}
  \cup {q \in {p} : Absent(disk, q) /\ q \in Tracked(tracker)}

(* What it finds is queued and the line waits; otherwise it is taken. *)
Inspect(line, bad) ==
  /\ pc = "apply" /\ Running
  /\ IsNext(line) /\ line.rev > cursor /\ ~Deferred(line)
  /\ ReconcilePaths(tracker, Unobserved(line.path), bad, cursor)
  /\ IF Found(tracker, Unobserved(line.path)) \ bad # {}
     THEN Goto("save")
     ELSE pc' = "take" /\ job' = line /\ UNCHANGED body
  /\ UNCHANGED <<serverVars, disk, inbox, dead, saved, manifest, cursor, events, obsidian,
                 sent, had, edits, sessions>>

(* The server's latest bytes; 404 when it has none any more. *)
Download ==
  /\ pc = "take" /\ job.op = "put" /\ Running
  /\ body' = files[job.path].content
  /\ pc' = IF files[job.path].live THEN "write" ELSE "advance"
  /\ UNCHANGED <<serverVars, disk, journals, memory, job, obsidian, history, counters>>

(* A folder that is not empty is no place for a file: the tick fails.      *)
(* Files where the path needs folders make way.                            *)
Write ==
  /\ pc = "write"
  /\ LET p == job.path
         there == disk[p] = body
     IN  IF FilesUnder(disk, p) # {} THEN Goto("save") /\ UNCHANGED <<disk, tracker, events, had>>
         ELSE /\ pc' = "record" /\ UNCHANGED <<job, body>>
              /\ disk' = [q \in Paths |-> IF q = p THEN body
                                          ELSE IF q \in Above(p) THEN NoContent ELSE disk[q]]
              /\ tracker' = IF there THEN tracker ELSE Forget(tracker, Above(p))
              /\ events' = IF there THEN events ELSE events \cup {p}
              /\ had' = had \cup {v \in {body} : Foreign(v)}
  /\ UNCHANGED <<serverVars, journals, cursor, failed, obsidian, sent, excused, counters>>

(* record_written: the hash of what was written, the size and mtime of     *)
(* what is there now.                                                      *)
Record ==
  /\ pc = "record"
  /\ tracker' = IF job.path \in Watched /\ IsFile(disk, job.path)
                THEN [tracker EXCEPT ![job.path] = [hash |-> body, seen |-> disk[job.path]]]
                ELSE tracker
  /\ pc' = "advance" /\ body' = NoContent
  /\ UNCHANGED <<serverVars, disk, journals, cursor, failed, events, job, obsidian, history,
                 counters>>

(* A tombstone removes a folder with what is in it. *)
ApplyRemoteDelete ==
  /\ pc = "take" /\ job.op = "delete" /\ Running
  /\ LET gone == {job.path} \cup Below(job.path)
     IN  /\ disk' = [q \in Paths |-> IF q \in gone THEN NoContent ELSE disk[q]]
         /\ tracker' = Forget(tracker, gone)
         /\ events' = IF Absent(disk, job.path) THEN events ELSE events \cup {job.path}
  /\ pc' = "advance"
  /\ UNCHANGED <<serverVars, journals, cursor, failed, job, body, obsidian, history, counters>>

Advance ==
  /\ pc = "advance" /\ Running
  /\ saved' = job.rev /\ cursor' = job.rev
  /\ pc' = "rewrite"
  /\ UNCHANGED <<serverVars, disk, outbox, inbox, dead, manifest, tracker, failed, events, job,
                 body, obsidian, history, counters>>

RewriteInbox ==
  /\ pc = "rewrite"
  /\ inbox' = inbox \ {job}
  /\ Goto("apply")
  /\ UNCHANGED <<serverVars, disk, outbox, dead, saved, manifest, memory, obsidian, history,
                 counters>>

(* Every tick ends here, the failed one too. *)
SaveManifest(works) ==
  /\ pc = "save"
  /\ Blame("save", ~works)
  /\ manifest' = IF works THEN [rev |-> cursor, files |-> tracker] ELSE manifest
  /\ Goto("idle")
  /\ UNCHANGED <<serverVars, disk, outbox, inbox, dead, saved, memory, obsidian, history, edits,
                 sessions>>

(* assert_active: the tick ends at the next guarded step. *)
Suspend ==
  /\ ~Running
  /\ pc \in {"drain", "take", "advance"} \/ (pc = "apply" /\ inbox # {})
  /\ Goto("save")
  /\ UNCHANGED <<serverVars, disk, journals, memory, obsidian, history, counters>>

Ticking ==
  \/ StartTick \/ (\E op \in failed : RetryFailed(op)) \/ Drain
  \/ SkipPut \/ Push(TRUE) \/ Acknowledge
  \/ Fetch \/ EndTick
  \/ \E line \in inbox : DropLine(line) \/ Inspect(line, {})
  \/ Download \/ Write \/ Record \/ ApplyRemoteDelete \/ Advance \/ RewriteInbox
  \/ SaveManifest(TRUE) \/ Suspend
-----------------------------------------------------------------------------
(* Failures, and other devices *)

(* A request or an operation on a file fails before it had an effect. *)
TickFails ==
  /\ pc \in {"retry", "drain", "apply", "take", "write", "advance", "rewrite", "ack"}
  /\ Blame("request", TRUE)
  /\ Goto("save")
  /\ UNCHANGED <<serverVars, disk, journals, memory, obsidian, history, edits, sessions>>

(* One fails after it had an effect, and what follows it is left out. *)
FailsHalfWay == Blame("request", TRUE) /\ Goto("save")

(* The operation is appended, and the look at its file fails.  The fault   *)
(* was counted when the append failed.                                     *)
RetryHalfWay(op) ==
  /\ pc = "retry"
  /\ op \in failed
  /\ "request" \in Faults /\ UNCHANGED faults
  /\ Goto("save")
  /\ outbox' = Append(outbox, op)
  /\ failed' = failed \ {op}
  /\ UNCHANGED <<serverVars, disk, inbox, dead, saved, manifest, cursor, tracker, events,
                 obsidian, history, edits, sessions>>

(* Bytes of other devices that are at p, and not known as that. *)
Torn(p) == {q \in {p} : Foreign(disk[q]) /\ tracker[q].hash # disk[q]}

(* Files made way, and there is no new one yet; or there is, renamed into  *)
(* place, and the sync of its folder fails.                                *)
WriteHalfWay(renamed) ==
  /\ pc = "write"
  /\ FilesUnder(disk, job.path) = {} /\ disk[job.path] # body
  /\ FailsHalfWay
  /\ disk' = [q \in Paths |-> IF q = job.path /\ renamed THEN body
                              ELSE IF q \in Above(job.path) THEN NoContent ELSE disk[q]]
  /\ events' = events \cup {q \in {job.path} \cup Above(job.path) : disk'[q] # disk[q]}
  /\ had' = had \cup {v \in {body} : renamed /\ Foreign(v)}
  /\ excused' = excused \cup {"torn"} \X {q \in {job.path} : renamed /\ Foreign(body)}
  /\ UNCHANGED <<serverVars, journals, cursor, tracker, failed, obsidian, sent, edits, sessions>>

(* record_written cannot look at the file. *)
RecordFails ==
  /\ pc = "record"
  /\ FailsHalfWay
  /\ excused' = excused \cup {"torn"} \X Torn(job.path)
  /\ UNCHANGED <<serverVars, disk, journals, memory, obsidian, sent, had, edits, sessions>>

(* A part of a folder is removed. *)
DeleteHalfWay(gone) ==
  /\ pc = "take" /\ job.op = "delete" /\ Running
  /\ gone \subseteq FilesUnder(disk, job.path)
  /\ FailsHalfWay
  /\ disk' = [q \in Paths |-> IF q \in gone THEN NoContent ELSE disk[q]]
  /\ events' = events \cup gone
  /\ UNCHANGED <<serverVars, journals, cursor, tracker, failed, obsidian, history, edits,
                 sessions>>

(* data.json is renamed into place and the sync of its folder fails:       *)
(* settings.revision stays.                                                *)
AdvanceHalfWay ==
  /\ pc = "advance" /\ Running
  /\ Blame("cursor", TRUE)
  /\ saved' = job.rev
  /\ Goto("save")
  /\ UNCHANGED <<serverVars, disk, outbox, inbox, dead, manifest, memory, obsidian, history,
                 edits, sessions>>

HalfWay ==
  \/ SkipUnseen
  \/ \E op \in failed : RetryHalfWay(op)
  \/ \E renamed \in BOOLEAN : WriteHalfWay(renamed)
  \/ RecordFails
  \/ \E gone \in SUBSET Paths \ {{}} : DeleteHalfWay(gone)
  \/ AdvanceHalfWay

Crash ==
  /\ Live
  /\ Blame("crash", TRUE)
  /\ Goto("down")
  /\ tracker' = NoEntries /\ failed' = {} /\ events' = {} /\ cursor' = 0
  /\ excused' = excused \cup {"torn"} \X {p \in Paths :
       Foreign(disk[p]) /\ manifest # NoManifest /\ manifest.files[p].hash # disk[p]}
  /\ UNCHANGED <<serverVars, disk, journals, obsidian, sent, had, edits, sessions>>

RemoteChange ==
  /\ remotes < MaxRemote
  /\ remotes' = remotes + 1
  /\ \E p \in Paths :
       \/ files' = Uploaded(files, p, -(remotes + 1))
       \/ \E base \in Reached(files) \cup {NoBase} : files' = Deleted(files, p, base)
  /\ UNCHANGED <<disk, journals, memory, tickVars, obsidian, history, counters>>
-----------------------------------------------------------------------------
(* Obsidian on the same vault.  The plugin is external here: what it does  *)
(* is studied in PluginSync.                                               *)

ObsidianStarts ==
  /\ Running /\ sessions < MaxSessions
  /\ sessions' = sessions + 1
  /\ obsidian' = "open"
  /\ UNCHANGED <<serverVars, disk, journals, memory, tickVars, history, edits, faults>>

ObsidianExits ==
  /\ ~Running
  /\ obsidian' = "closed"
  /\ UNCHANGED <<serverVars, disk, journals, memory, tickVars, history, counters>>

PluginAwake == ~Running /\ pc \in {"paused", "down"}

(* An edit in Obsidian goes to the outbox with the cursor of data.json. *)
SaveInObsidian(p) ==
  /\ PluginAwake /\ edits < MaxEdits
  /\ \A q \in Above(p) \cup Below(p) : disk[q] = NoContent
  /\ disk' = [disk EXCEPT ![p] = edits + 1]
  /\ outbox' = Append(outbox, PutOp(p))
  /\ Notice(p)
  /\ edits' = edits + 1
  /\ UNCHANGED <<serverVars, inbox, dead, saved, manifest, cursor, tracker, failed, tickVars,
                 obsidian, history, faults, sessions>>

PluginPushes ==
  /\ PluginAwake /\ outbox # <<>>
  /\ IF Head(outbox).op = "put" /\ ~IsFile(disk, Head(outbox).path)
     THEN UNCHANGED <<files, dead, sent>>
     ELSE Requested(Head(outbox), TRUE)
  /\ outbox' = Tail(outbox)
  /\ UNCHANGED <<remotes, disk, inbox, saved, manifest, memory, tickVars, obsidian, had,
                 excused, counters>>

PluginPulls ==
  /\ PluginAwake /\ outbox = <<>> /\ saved # Tip(files)
  /\ LET new == {p \in Paths : files[p].rev > saved}
     IN  /\ disk' = [p \in Paths |-> IF p \in new THEN files[p].content
                                     ELSE IF \E q \in new : Related(p, q) THEN NoContent
                                     ELSE disk[p]]
         /\ had' = had \cup {v \in {files[p].content : p \in new} : Foreign(v)}
         /\ events' = IF Live THEN events \cup new ELSE events
  /\ saved' = Tip(files)
  /\ inbox' = {}
  /\ UNCHANGED <<serverVars, outbox, dead, manifest, cursor, tracker, failed, tickVars,
                 obsidian, sent, excused, counters>>

Pause ==
  /\ pc = "idle" /\ ~Running
  /\ pc' = "paused"
  /\ events' = {}
  /\ UNCHANGED <<serverVars, disk, journals, cursor, tracker, failed, job, body, obsidian,
                 history, counters>>

(* The plugin's revision is taken over, and what is on the disk becomes    *)
(* the baseline.                                                           *)
Resume ==
  /\ pc = "paused" /\ Running
  /\ cursor' = saved
  /\ AdoptFrom(tracker)
  /\ Rebaseline(tracker)
  /\ Goto("idle")
  /\ UNCHANGED <<serverVars, disk, inbox, dead, saved, events, obsidian, sent, had, edits,
                 sessions>>

Session ==
  \/ ObsidianStarts \/ ObsidianExits \/ PluginPushes \/ PluginPulls \/ Pause \/ Resume
  \/ \E p \in Paths : SaveInObsidian(p)
-----------------------------------------------------------------------------
Looking ==
  \/ ReconcileEvents({})
  \/ Rescan({})

Next ==
  \/ \E p \in Paths : Edit(p) \/ Erase(p)
  \/ LoseEvents
  \/ Looking
  \/ \E bad \in SUBSET Paths \ {{}} :
       \/ ReconcileEvents(bad) \/ Rescan(bad)
       \/ \E line \in inbox : Inspect(line, bad)
  \/ Start
  \/ Ticking
  \/ Push(FALSE) \/ SaveManifest(FALSE) \/ TickFails \/ HalfWay \/ Crash
  \/ RemoteChange
  \/ Session

Spec == Init /\ [][Next]_vars

(* The main loop looks at events and the rescan timer before each tick;    *)
(* systemd starts the process again; Obsidian is closed at some time.      *)
FairSpec ==
  /\ Spec
  /\ WF_vars(Start) /\ WF_vars(Ticking)
  /\ SF_vars(ReconcileEvents({})) /\ SF_vars(Rescan({}))
  /\ WF_vars(Pause) /\ WF_vars(Resume)
  /\ WF_vars(ObsidianExits) /\ WF_vars(PluginPushes)
-----------------------------------------------------------------------------
OutboxOp == [op : {"put", "delete"}, path : Paths, base : Nat \cup {NoBase}]
Line == [rev : Nat, path : Paths, op : {"put", "delete"}]

(* Types of all variables. *)
TypeOK ==
  /\ files \in Table
  /\ disk \in [Paths -> Known]
  /\ outbox \in Seq(OutboxOp) /\ failed \subseteq OutboxOp
  /\ inbox \subseteq Line
  /\ saved \in Nat /\ cursor \in Nat
  /\ tracker \in [Paths -> Entry]
  /\ manifest = NoManifest \/ manifest \in [rev : Nat, files : [Paths -> Entry]]
  /\ dead \cup events \subseteq Paths
  /\ excused \subseteq {"adopted", "torn", "unqueued"} \X Paths
  /\ pc \in {"down", "started", "idle", "paused", "retry", "drain", "ack", "apply", "take", "write",
             "record", "advance", "rewrite", "save"}
  /\ job \in OutboxOp \cup Line \cup {NoJob}
  /\ body \in Known
  /\ obsidian \in {"open", "closed"}
  /\ sent \cup had \subseteq Contents

(* What the command `verify` tells of one path, and of the whole vault. *)
InSync(p) == disk[p] = files[p].content
MissingOnDisk == {p \in Paths : files[p].live /\ ~IsFile(disk, p)}
Different == {p \in Paths : files[p].live /\ IsFile(disk, p) /\ ~InSync(p)}
OnlyOnDisk == {p \in Watched : IsFile(disk, p) /\ ~files[p].live}

Applying ==
  \/ Write \/ \E renamed \in BOOLEAN : WriteHalfWay(renamed)
  \/ ApplyRemoteDelete \/ \E gone \in SUBSET Paths : DeleteHalfWay(gone)
Pushing == Push(TRUE) \/ Push(FALSE)

(* An edit leaves the disk by an inbound change only after the server has  *)
(* had it, whether or not its event had arrived.                           *)
UnsentEditKept ==
  [][Applying => \A p \in Watched \ Excused({"adopted", "unqueued"}) :
       disk[p] \in 1 .. edits /\ disk'[p] # disk[p] => disk[p] \in sent]_vars

(* The manifest holds "the last state each path was known to be in (in     *)
(* sync with the server or already queued)": at rest, a path the cursor    *)
(* has passed, with no local change under way, is as on the server, or a   *)
(* scan against the manifest finds that it is not.                         *)
ManifestInSync ==
  pc = "idle" =>
    \A p \in Watched \ (Outgoing \cup dead \cup Excused({"adopted", "torn", "unqueued"})) :
      files[p].rev <= cursor =>
        \/ InSync(p)
        \/ p \in Changed(tracker, disk) \cup Missing(tracker, disk)

(* No bytes that came from the server go back to it as a local change,     *)
(* over whatever the server has by now.                                    *)
NoStalePush ==
  [][Pushing => \A p \in Paths \ Excused({"torn", "unqueued"}) :
       files'[p].content # files[p].content => ~Foreign(files'[p].content)]_vars

(* As NoStalePush, and after a crash too: "no case can turn a stale or     *)
(* missing local copy into a push" (engine.rs:358).                        *)
NeverPushesServerCopy ==
  [][Pushing => \A p \in Paths :
       files'[p].content # files[p].content => ~Foreign(files'[p].content)]_vars

(* A delete of this client takes nothing off the server that other devices *)
(* wrote and this device never had.                                        *)
DeletesOnlyWhatWasSeen ==
  [][Pushing /\ Head(outbox).op = "delete" =>
       \A p \in Paths : Foreign(files[p].content) /\ ~files'[p].live => files[p].content \in had]_vars

(* Once everyone stops, `verify` of the whole vault finds nothing to report,*)
(* for good.                                                               *)
Converges ==
  <>[]((MissingOnDisk \cup Different \cup OnlyOnDisk) \cap Watched
         \subseteq dead \cup Excused({"adopted", "unqueued"}))
=============================================================================
