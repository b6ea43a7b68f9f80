----------------------------- MODULE PluginSync -----------------------------
(***************************************************************************)
(* plugin/src/sync/{engine,outbox,inbox}.ts: one Obsidian device that      *)
(* exchanges changes with the server while its user keeps editing and      *)
(* other devices keep writing.  The engine is asynchronous: one tick runs  *)
(* at a time, but vault events, outbox appends and their completions are   *)
(* interleaved with it at every await.  An action is what runs between two *)
(* awaits.                                                                 *)
(*                                                                         *)
(* Obsidian is external: a save and its vault event are one step, and an   *)
(* inbound write that the engine has decided on reaches the disk before    *)
(* the next save (the vault adapter queues writes).                        *)
(***************************************************************************)
EXTENDS VaultOps

CONSTANTS
  LocalOps,     \* what the user does: subset of {"put", "delete"}
  TooLarge,     \* contents the server rejects for good (413)
  Prompt,       \* do short reads of local files end first (see Undisturbed)?
  MaxEdits,     \* bound: saves and deletions by the user
  MaxRemote,    \* bound: changes by other devices
  MaxFaults,    \* bound: failed requests, failed appends and crashes
  Crashes       \* may the device crash?

ASSUME Bounds == MaxEdits \in Nat /\ MaxRemote \in Nat /\ MaxFaults \in Nat

(* The n-th save writes n, the n-th change by another device -n. *)
ASSUME Numbered == 1 .. MaxEdits \subseteq Contents /\ {-n : n \in 1 .. MaxRemote} \subseteq Contents

VARIABLES
  files,      \* the server's table
  disk,       \* the vault: content or NoContent per path
  outbox,     \* outbox.jsonl
  inbox,      \* inbox.jsonl, as a set: it is sorted before use
  revision,   \* settings.revision: the cursor
  saved,      \* the cursor in data.json
  dead,       \* paths with a dead-letter entry
  pending,    \* pendingOutboxPaths
  basing,     \* deletes between their event and `await getRevision()`
  appends,    \* enqueues waiting for the outbox mutex, in order
  refreshes,  \* calls of refreshPending that are reading the outbox
  failed,     \* failedEnqueues
  hydrated,
  pc,         \* where the tick is
  wait,       \* ids of the enqueues and refreshes the tick awaits
  todo,       \* rest of the drain's snapshot, or of the failed enqueues
  body,       \* bytes read for the upload, or got by the download
  batch,      \* paths drained and to be refreshed, or listed and to be used
  lost,       \* history: paths with an event lost in a crash
  sent,       \* history: contents the server has answered for, or refused
  edits, remotes, faults

tickVars == <<wait, todo, body, batch>>
diskVars == <<disk, outbox, inbox, revision, saved, dead>>
queueVars == <<basing, appends, refreshes, failed, hydrated>>
counters == <<edits, remotes, faults>>
ghosts == <<lost, sent, counters>>
vars == <<files, diskVars, pending, queueVars, pc, tickVars, ghosts>>

Idle == pc' = "idle" /\ wait' = {} /\ todo' = <<>> /\ body' = NoContent /\ batch' = {}

Init ==
  /\ files = [p \in Paths |-> NoRow]
  /\ disk = [p \in Paths |-> NoContent]
  /\ outbox = <<>> /\ inbox = {} /\ revision = 0 /\ saved = 0 /\ dead = {}
  /\ pending = {}
  /\ basing = {} /\ appends = <<>> /\ refreshes = {} /\ failed = {} /\ hydrated = FALSE
  /\ pc = "idle" /\ wait = {} /\ todo = <<>> /\ body = NoContent /\ batch = {}
  /\ lost = {} /\ sent = {}
  /\ edits = 0 /\ remotes = 0 /\ faults = 0

PathsOf(ops) == {op.path : op \in ops}
OutboxPaths == PathsOf(ToSet(outbox))
Counted == PathsOf(ToSet(appends))                    \* enqueueCounts
InFlight == {op.id : op \in ToSet(appends)}           \* enqueueInFlight
Settled(ids) == ids \cap (InFlight \cup {s.op.id : s \in refreshes}) = {}

(* Local changes that are only in memory; and the paths with a local change *)
(* that has not been handed to the server yet.                             *)
Volatile == ToSet(appends) \cup basing \cup failed \cup {s.op : s \in {x \in refreshes : ~x.ok}}
Outgoing == OutboxPaths \cup PathsOf(Volatile)
-----------------------------------------------------------------------------
(* The user, and the enqueues their edits cause *)

(* `ts` stands for itself: no two local changes share one. *)
Op(op, p, base) == [op |-> op, path |-> p, base |-> base, id |-> edits + 1]

Calm(p) == Prompt => p \notin Counted \cup PathsOf({s.op : s \in refreshes}) \cup PathsOf(basing)

(* The code orders the few reads of local files that enqueueDurable awaits *)
(* after the append neither with the next save of the path nor with the    *)
(* tick.  With Prompt they end before that save, and before the tick has   *)
(* its next answer from the server; without it they take their time.       *)
Undisturbed == Prompt => basing = {} /\ refreshes = {}

(* A save, with its vault event: enqueuePut up to the outbox mutex. *)
Save(p) ==
  /\ "put" \in LocalOps
  /\ edits < MaxEdits
  /\ Calm(p)
  /\ \A q \in Above(p) \cup Below(p) : disk[q] = NoContent
  /\ disk' = [disk EXCEPT ![p] = edits + 1]
  /\ pending' = pending \cup {p}
  /\ appends' = Append(appends, Op("put", p, NoBase))
  /\ edits' = edits + 1
  /\ UNCHANGED <<files, outbox, inbox, revision, saved, dead, basing, refreshes, failed,
                 hydrated, pc, tickVars, lost, sent, remotes, faults>>

(* A deletion: enqueueDelete reads the revision and yields. *)
Erase(p) ==
  /\ "delete" \in LocalOps
  /\ edits < MaxEdits
  /\ Calm(p)
  /\ disk[p] # NoContent
  /\ disk' = [disk EXCEPT ![p] = NoContent]
  /\ basing' = basing \cup {Op("delete", p, revision)}
  /\ edits' = edits + 1
  /\ UNCHANGED <<files, outbox, inbox, revision, saved, dead, pending, appends, refreshes,
                 failed, hydrated, pc, tickVars, lost, sent, remotes, faults>>

EnqueueDelete(op) ==
  /\ op \in basing
  /\ basing' = basing \ {op}
  /\ pending' = pending \cup {op.path}
  /\ appends' = Append(appends, op)
  /\ UNCHANGED <<files, diskVars, refreshes, failed, hydrated, pc, tickVars, ghosts>>

(* The end of enqueueDurable.  A failed append is kept in memory for the   *)
(* next tick; the tick that awaits it fails.                               *)
Finish(op, ok, pend) ==
  LET others == {f \in failed : f.path # op.path}
  IN  /\ failed' = IF ok THEN others ELSE others \cup {op}
      /\ pending' = IF ok THEN pend ELSE pend \cup {op.path}
      /\ IF ~ok /\ op.id \in wait THEN Idle ELSE UNCHANGED <<pc, tickVars>>

(* One append under the mutex, then the `finally`: the path's last enqueue *)
(* goes on to look whether the outbox still has the path.                  *)
AppendOutbox(ok) ==
  /\ appends # <<>>
  /\ LET op == Head(appends) IN
       /\ appends' = Tail(appends)
       /\ IF ok THEN outbox' = Append(outbox, op) /\ UNCHANGED faults
                ELSE UNCHANGED outbox /\ faults < MaxFaults /\ faults' = faults + 1
       /\ IF op.path \in PathsOf(ToSet(Tail(appends)))
          THEN Finish(op, ok, pending \cup {op.path}) /\ UNCHANGED refreshes
          ELSE /\ refreshes' = refreshes \cup {[op |-> op, ok |-> ok, seen |-> "unread"]}
               /\ UNCHANGED <<failed, pending, pc, tickVars>>
  /\ UNCHANGED <<files, disk, inbox, revision, saved, dead, basing, hydrated, lost, sent,
                 edits, remotes>>

(* refreshPending: the outbox is read, and the listing used in a later     *)
(* step.                                                                   *)
ReadListing(s) ==
  /\ s \in refreshes
  /\ s.seen = "unread"
  /\ refreshes' = (refreshes \ {s})
       \cup {[s EXCEPT !.seen = IF s.op.path \in OutboxPaths THEN "listed" ELSE "gone"]}
  /\ UNCHANGED <<files, diskVars, pending, basing, appends, failed, hydrated, pc,
                 tickVars, ghosts>>

(* Id 0 is a refresh by the tick itself. *)
RefreshPending(s) ==
  /\ s \in refreshes
  /\ s.seen # "unread"
  /\ refreshes' = refreshes \ {s}
  /\ LET pend == IF s.seen = "listed" THEN pending \cup {s.op.path} ELSE pending \ {s.op.path}
     IN  IF s.op.id = 0 THEN pending' = pend /\ UNCHANGED <<failed, pc, tickVars>>
                        ELSE Finish(s.op, s.ok, pend)
  /\ UNCHANGED <<files, diskVars, basing, appends, hydrated, ghosts>>

Enqueueing ==
  \/ \E op \in basing : EnqueueDelete(op)
  \/ AppendOutbox(TRUE)
  \/ \E s \in refreshes : ReadListing(s) \/ RefreshPending(s)
-----------------------------------------------------------------------------
(* The tick: outbox out *)

StartTick ==
  /\ pc = "idle"
  /\ pc' = "retry"
  /\ todo' \in SetToSeqs(failed)
  /\ UNCHANGED <<files, diskVars, pending, queueVars, wait, body, batch, ghosts>>

RetryFailed ==
  /\ pc = "retry"
  /\ todo # <<>>
  /\ outbox' = Append(outbox, Head(todo))
  /\ failed' = {f \in failed : f.path # Head(todo).path}
  /\ todo' = Tail(todo)
  /\ UNCHANGED <<files, disk, inbox, revision, saved, dead, pending, basing, appends,
                 refreshes, hydrated, pc, wait, body, batch, ghosts>>

Hydrate ==
  /\ pc = "retry"
  /\ todo = <<>>
  /\ pending' = IF hydrated THEN pending ELSE pending \cup OutboxPaths
  /\ hydrated' = TRUE
  /\ pc' = "drain"
  /\ wait' = InFlight
  /\ UNCHANGED <<files, diskVars, basing, appends, refreshes, failed, todo, body,
                 batch, ghosts>>

DrainSnapshot ==
  /\ pc = "drain"
  /\ Settled(wait)
  /\ todo' = outbox
  /\ wait' = {}
  /\ pc' = "next"
  /\ UNCHANGED <<files, diskVars, pending, queueVars, body, batch, ghosts>>

(* A put whose file is gone is skipped; another one goes on to read it. *)
NextPut ==
  /\ pc = "next"
  /\ todo # <<>>
  /\ Head(todo).op = "put"
  /\ IF disk[Head(todo).path] = NoContent
     THEN pc' = "ack" /\ batch' = batch \cup {Head(todo).path}
     ELSE pc' = "read" /\ UNCHANGED batch
  /\ UNCHANGED <<files, diskVars, pending, queueVars, wait, todo, body, ghosts>>

NextDelete ==
  /\ pc = "next"
  /\ todo # <<>>
  /\ Head(todo).op = "delete"
  /\ pc' = "push"
  /\ UNCHANGED <<files, diskVars, pending, queueVars, tickVars, ghosts>>

(* readBinary fails when the file has gone since `exists`. *)
ReadBody ==
  /\ pc = "read"
  /\ LET v == disk[Head(todo).path] IN
       IF v = NoContent THEN Idle
       ELSE body' = v /\ pc' = "push" /\ UNCHANGED <<wait, todo, batch>>
  /\ UNCHANGED <<files, diskVars, pending, queueVars, ghosts>>

(* The request takes effect, or is refused for good and a dead-letter      *)
(* entry is written.                                                       *)
Send(entry) ==
  /\ pc = "push"
  /\ LET op == Head(todo)
         refused == op.op = "put" /\ body \in TooLarge
     IN  /\ dead' = IF refused THEN dead \cup {entry} ELSE dead
         /\ files' = IF refused THEN files
                     ELSE IF op.op = "put" THEN Uploaded(files, op.path, body)
                     ELSE Deleted(files, op.path, op.base)
         /\ batch' = batch \cup {op.path}
         /\ sent' = IF op.op = "put" THEN sent \cup {body} ELSE sent
  /\ body' = NoContent
  /\ pc' = "ack"
  /\ UNCHANGED <<disk, outbox, inbox, revision, saved, pending, queueVars, wait, todo, lost,
                 counters>>

(* Mutant: the dead-letter entry names the operation, not the path. *)
PushDeadOp == Send(Head(todo).op)

(* A request that failed before or after it took effect is TickFails. *)
Push == Send(Head(todo).path)

Strike(rest) ==
  /\ pc = "ack"
  /\ outbox' = rest
  /\ todo' = Tail(todo)
  /\ pc' = "next"
  /\ UNCHANGED <<files, disk, inbox, revision, saved, dead, pending, queueVars, wait, body,
                 batch, ghosts>>

(* Mutant: every line of the path goes, newer ones too. *)
AcknowledgePath == Strike(SelectSeq(outbox, LAMBDA op : op.path # Head(todo).path))

Acknowledge == Strike(RemoveFirst(outbox, Head(todo)))

(* refreshPending of one processed path after the other. *)
RefreshProcessed ==
  /\ pc = "next"
  /\ todo = <<>>
  /\ Settled({0})
  /\ \E p \in batch :
       /\ batch' = batch \ {p}
       /\ IF p \in Counted
          THEN pending' = pending \cup {p} /\ UNCHANGED refreshes
          ELSE /\ refreshes' = refreshes \cup
                    {[op |-> [path |-> p, id |-> 0], ok |-> TRUE, seen |-> "unread"]}
               /\ UNCHANGED pending
  /\ UNCHANGED <<files, diskVars, basing, appends, failed, hydrated, pc, wait, todo,
                 body, ghosts>>

DrainEnds ==
  /\ pc = "next"
  /\ todo = <<>>
  /\ batch = {}
  /\ Settled({0})
  /\ pc' = "settle"
  /\ wait' = InFlight
  /\ UNCHANGED <<files, diskVars, pending, queueVars, todo, body, batch, ghosts>>

(* Back to another drain, or on to the inbox with the conflict guard       *)
(* rebuilt: cleared here, filled from a listing in the next two steps.     *)
OutboxEmptyOrAgain ==
  /\ pc = "settle"
  /\ Settled(wait)
  /\ IF outbox = <<>>
     THEN pc' = "list" /\ pending' = {} /\ wait' = {}
     ELSE pc' = "drain" /\ wait' = InFlight /\ UNCHANGED pending
  /\ UNCHANGED <<files, diskVars, queueVars, todo, body, batch, ghosts>>

ListForRebuild ==
  /\ pc = "list"
  /\ batch' = OutboxPaths
  /\ pc' = "rebuild"
  /\ UNCHANGED <<files, diskVars, pending, queueVars, wait, todo, body, ghosts>>

Rebuild ==
  /\ pc = "rebuild"
  /\ pending' = pending \cup batch \cup Counted \cup PathsOf(failed)
  /\ batch' = {}
  /\ pc' = "fetch"
  /\ UNCHANGED <<files, diskVars, queueVars, wait, todo, body, ghosts>>
-----------------------------------------------------------------------------
(* The tick: inbox in *)

FetchAbove(cursor) ==
  /\ pc = "fetch"
  /\ Undisturbed
  /\ inbox' = inbox \cup InboxLines(files, cursor)
  /\ pc' = "apply"
  /\ UNCHANGED <<files, disk, outbox, revision, saved, dead, pending, queueVars, tickVars, ghosts>>

(* Mutant: the inbox is asked for from the revision after the cursor. *)
FetchAfterNext == FetchAbove(revision + 1)

Fetch == FetchAbove(revision)

IsFirst(line) == line \in inbox /\ \A other \in inbox : line.rev <= other.rev

Deferred(line) == \E p \in pending : Related(p, line.path)

(* Done, or stopped at a line that a local change holds up. *)
EndTick ==
  /\ pc = "apply"
  /\ \/ inbox = {}
     \/ \E line \in inbox : IsFirst(line) /\ line.rev > revision /\ Deferred(line)
  /\ Idle
  /\ UNCHANGED <<files, diskVars, pending, queueVars, ghosts>>

DropLine(line) ==
  /\ pc = "apply"
  /\ IsFirst(line)
  /\ line.rev <= revision
  /\ inbox' = inbox \ {line}
  /\ UNCHANGED <<files, disk, outbox, revision, saved, dead, pending, queueVars, pc, tickVars,
                 ghosts>>

(* The vault deletes a folder with what is in it. *)
ApplyDelete(line) ==
  /\ pc = "apply"
  /\ Undisturbed
  /\ IsFirst(line)
  /\ line.rev > revision /\ ~Deferred(line)
  /\ line.op = "delete"
  /\ LET gone == {line.path} \cup Below(line.path)
     IN  disk' = [q \in Paths |-> IF q \in gone THEN NoContent ELSE disk[q]]
  /\ pc' = "advance"
  /\ UNCHANGED <<files, outbox, inbox, revision, saved, dead, pending, queueVars, tickVars,
                 ghosts>>

(* The bytes are the server's latest ones; 404 when it has none any more. *)
Download(line) ==
  /\ pc = "apply"
  /\ IsFirst(line)
  /\ line.rev > revision /\ ~Deferred(line)
  /\ line.op = "put"
  /\ body' = files[line.path].content
  /\ pc' = IF files[line.path].live THEN "write" ELSE "advance"
  /\ UNCHANGED <<files, diskVars, pending, queueVars, wait, todo, batch, ghosts>>

(* A folder that is not empty is no place for a file: the tick fails.      *)
WriteUnless(line, guarded) ==
  /\ pc = "write"
  /\ Undisturbed
  /\ IsFirst(line)
  /\ LET p == line.path IN
       IF ~guarded /\ \E q \in Below(p) : disk[q] # NoContent
       THEN Idle /\ UNCHANGED disk
       ELSE /\ pc' = "advance"
            /\ body' = NoContent
            /\ disk' = IF guarded THEN disk
                       ELSE [q \in Paths |-> IF q = p THEN body
                                             ELSE IF q \in Above(p) THEN NoContent ELSE disk[q]]
            /\ UNCHANGED <<wait, todo, batch>>
  /\ UNCHANGED <<files, outbox, inbox, revision, saved, dead, pending, queueVars, ghosts>>

(* Mutant: no look at the pending paths after the download. *)
WriteBodyUnchecked(line) == WriteUnless(line, FALSE)

WriteBody(line) == WriteUnless(line, line.path \in pending)

AdvanceTo(line, rev) ==
  /\ pc = "advance"
  /\ IsFirst(line)
  /\ revision' = rev
  /\ saved' = rev
  /\ pc' = "rewrite"
  /\ UNCHANGED <<files, disk, outbox, inbox, dead, pending, queueVars, tickVars, ghosts>>

(* Mutant: one line done, and the cursor is past all of them. *)
AdvanceToTip(line) == AdvanceTo(line, Max({other.rev : other \in inbox}))

Advance(line) == AdvanceTo(line, line.rev)

(* The cursor is set before data.json is written: when that fails, the     *)
(* tick ends and the line stays.                                           *)
AdvanceUnsaved(line) ==
  /\ pc = "advance"
  /\ faults < MaxFaults
  /\ faults' = faults + 1
  /\ IsFirst(line)
  /\ revision' = line.rev
  /\ Idle
  /\ UNCHANGED <<files, disk, outbox, inbox, saved, dead, pending, queueVars, lost, sent,
                 edits, remotes>>

RewriteInbox(line) ==
  /\ pc = "rewrite"
  /\ IsFirst(line)
  /\ inbox' = inbox \ {line}
  /\ pc' = "apply"
  /\ UNCHANGED <<files, disk, outbox, revision, saved, dead, pending, queueVars, tickVars, ghosts>>

Applying(line) == ApplyDelete(line) \/ WriteBody(line)

Ticking ==
  \/ StartTick \/ RetryFailed \/ Hydrate \/ DrainSnapshot \/ NextPut \/ NextDelete \/ ReadBody
  \/ Push \/ Acknowledge \/ RefreshProcessed \/ DrainEnds \/ OutboxEmptyOrAgain
  \/ ListForRebuild \/ Rebuild \/ Fetch \/ EndTick
  \/ \E line \in inbox :
       DropLine(line) \/ Applying(line) \/ Download(line) \/ Advance(line) \/ RewriteInbox(line)
-----------------------------------------------------------------------------
(* Failures, and the rest of the world *)

(* Any awaited request or file operation of the tick fails; what it has    *)
(* done so far stays, and a request may have taken effect.                 *)
TickFails ==
  /\ pc # "idle"
  /\ faults < MaxFaults
  /\ faults' = faults + 1
  /\ Idle
  /\ refreshes' = {s \in refreshes : s.op.id # 0}
  /\ UNCHANGED <<files, diskVars, pending, basing, appends, failed, hydrated, lost,
                 sent, edits, remotes>>

(* Obsidian is killed and opened again. *)
Crash ==
  /\ Crashes
  /\ faults < MaxFaults
  /\ faults' = faults + 1
  /\ pending' = {} /\ basing' = {} /\ appends' = <<>> /\ refreshes' = {} /\ failed' = {}
  /\ hydrated' = FALSE
  /\ Idle
  /\ lost' = lost \cup PathsOf(Volatile)
  /\ revision' = saved
  /\ UNCHANGED <<files, disk, outbox, inbox, saved, dead, sent, edits, remotes>>

(* Another device; its contents are the negative numbers. *)
RemoteChange ==
  /\ remotes < MaxRemote
  /\ remotes' = remotes + 1
  /\ \E p \in Paths :
       \/ files' = Uploaded(files, p, -(remotes + 1))
       \/ \E base \in Reached(files) \cup {NoBase} : files' = Deleted(files, p, base)
  /\ UNCHANGED <<diskVars, pending, queueVars, pc, tickVars, lost, sent, edits, faults>>

Next ==
  \/ \E p \in Paths : Save(p) \/ Erase(p)
  \/ Enqueueing
  \/ AppendOutbox(FALSE)
  \/ Ticking
  \/ TickFails
  \/ \E line \in inbox : AdvanceUnsaved(line)
  \/ Crash
  \/ RemoteChange

Spec == Init /\ [][Next]_vars

(* The interval timer starts ticks, and what a tick or an enqueue awaits   *)
(* completes.                                                              *)
FairSpec == Spec /\ WF_vars(Ticking) /\ WF_vars(Enqueueing)
-----------------------------------------------------------------------------
OutboxOp == [op : {"put", "delete"}, path : Paths, base : Nat \cup {NoBase}, id : Nat \ {0}]
Line == [rev : Nat, path : Paths, op : {"put", "delete"}]

(* Types of all variables. *)
TypeOK ==
  /\ files \in Table
  /\ disk \in [Paths -> Contents \cup {NoContent}]
  /\ outbox \in Seq(OutboxOp) /\ appends \in Seq(OutboxOp) /\ todo \in Seq(OutboxOp)
  /\ basing \subseteq OutboxOp /\ failed \subseteq OutboxOp
  /\ inbox \subseteq Line
  /\ revision \in Nat /\ saved \in 0 .. revision
  /\ dead \cup pending \cup batch \cup lost \subseteq Paths
  /\ sent \subseteq Contents
  /\ \A s \in refreshes : s.op.path \in Paths /\ s.seen \in {"unread", "listed", "gone"}
  /\ hydrated \in BOOLEAN
  /\ pc \in {"idle", "retry", "drain", "next", "read", "push", "ack", "settle", "list", "rebuild",
             "fetch", "apply", "write", "advance", "rewrite"}
  /\ wait \subseteq Nat
  /\ body \in Contents \cup {NoContent}

(* An inbound change never touches a path that has a local change on its   *)
(* way out (README: "Pending local paths are not overwritten by inbound    *)
(* pulls").                                                                *)
PendingNotOverwritten ==
  [][(\E line \in inbox : Applying(line)) => \A p \in Outgoing : disk'[p] = disk[p]]_vars

(* An edit leaves the vault by an inbound change only after the server has *)
(* had it: no save is lost between the queue, the drain and the inbox      *)
(* (README: "Local edits are written to a durable outbox immediately, then *)
(* drained over the network").                                             *)
UnsentEditKept ==
  [][(\E line \in inbox : Applying(line)) =>
       \A p \in Paths \ lost :
         disk[p] \in 1 .. edits /\ disk'[p] # disk[p] => disk[p] \in sent]_vars

(* Where the server's row is not ahead of the cursor and no local change   *)
(* is on its way, the vault has exactly what the server has: advancing the *)
(* cursor past a line never hides a change the device did not take.        *)
NothingBehindCursor ==
  \A p \in Paths \ (Outgoing \cup lost \cup dead) :
    files[p].rev <= revision => disk[p] = files[p].content

(* Once everyone stops, vault and server agree for good. *)
Converges == <>[](\A p \in Paths \ (lost \cup dead) : disk[p] = files[p].content)
=============================================================================
