------------------------------ MODULE MassPush ------------------------------
(***************************************************************************)
(* rust-client/src/guard.rs with the places of engine.rs, daemon.rs and    *)
(* cli.rs that use it: a bad unmount or an `rm -rf` must not reach the     *)
(* other devices before a person has said so.  Deletes and puts are        *)
(* counted, the ones that wait and the ones of the last ten minutes.  What *)
(* is pushed, and whether the server takes it, is in RustClient.           *)
(***************************************************************************)
EXTENDS Naturals, FiniteSets, Sequences, SequencesExt

CONSTANTS
  Paths,
  MaxDeletes, MaxPuts,  \* --max-deletes, --max-puts
  Window,               \* WINDOW
  MaxOps,               \* bound: local changes
  MaxTime,              \* bound: the clock
  MaxFaults,            \* bound: failed pushes and crashes
  MaxApprovals          \* bound: runs of approve-mass-push

ASSUME Limits ==
  /\ {MaxDeletes, MaxPuts, Window, MaxOps, MaxTime, MaxFaults, MaxApprovals} \subseteq Nat
  /\ IsFiniteSet(Paths)

VARIABLES
  outbox,    \* outbox.jsonl
  offline,   \* changes made while the client was down and not yet queued
  recent,    \* guard.recent: operations with the time of their push
  approved,  \* guard.approved
  file,      \* the file approve-mass-push exists
  manifest,  \* a manifest exists: this is not the first run
  pc,
  now,
  granted,   \* history: a person's approval that has not covered its batch yet
  pushed,    \* history: pushes without an approval since the last approved batch
  earlier,   \* history: how many of them another run of the process made
  ops, faults, approvals

guard == <<recent, approved>>
history == <<granted, pushed, earlier>>
bounds == <<ops, faults, approvals>>
vars == <<outbox, offline, guard, file, manifest, pc, now, history, bounds>>

Op == [op : {"put", "delete"}, path : Paths]

Init ==
  /\ outbox = <<>> /\ offline = {} /\ recent = <<>> /\ approved = FALSE
  /\ file = FALSE /\ manifest \in BOOLEAN
  /\ pc = "down" /\ now = 0
  /\ granted = FALSE /\ pushed = <<>> /\ earlier = 0
  /\ ops = 0 /\ faults = 0 /\ approvals = 0

(* list(): of puts of one path in a row only the last one counts. *)
Coalesced(s) ==
  {i \in DOMAIN s : ~(i < Len(s) /\ s[i].op = "put" /\ s[i + 1] = s[i])}
Waiting(kind) ==
  Cardinality({i \in Coalesced(outbox) : outbox[i].op = kind})

(* Old pushes go from the front, up to the first that is in the window. *)
Within(s, t) ==
  LET fresh == {i \in DOMAIN s : t - s[i].at <= Window}
  IN  IF fresh = {} THEN <<>> ELSE SubSeq(s, Min(fresh), Len(s))
CountOf(s, kind) == Cardinality({i \in DOMAIN s : s[i].op = kind})

(* Mutant: only what waits counts. *)
OverLimitNow(deletes, puts) == deletes > MaxDeletes \/ puts > MaxPuts

OverLimit(deletes, puts) ==
  \/ deletes + CountOf(Within(recent, now), "delete") > MaxDeletes
  \/ puts + CountOf(Within(recent, now), "put") > MaxPuts

(* Mutant: the file is removed, the guard not told. *)
ConsumeApprovalSilently == file' = FALSE /\ UNCHANGED approved

ConsumeApproval == file' = FALSE /\ approved' = (approved \/ file)

(* check, after consume_approval: tripped or not, old pushes are forgotten. *)
Checked(deletes, puts) ==
  /\ ConsumeApproval
  /\ recent' = Within(recent, now)

Trips(deletes, puts) == ~approved' /\ OverLimit(deletes, puts)
-----------------------------------------------------------------------------
(* Changes.  While the client runs they go to the outbox unchecked.        *)

Change(op) ==
  /\ ops < MaxOps /\ ops' = ops + 1
  /\ IF pc = "idle"
     THEN outbox' = Append(outbox, op) /\ UNCHANGED offline
     ELSE /\ pc \in {"down", "halted"}
          /\ offline' = {o \in offline : o.path # op.path} \cup {op}
          /\ UNCHANGED outbox
  /\ UNCHANGED <<guard, file, manifest, pc, now, history, faults, approvals>>

Tick ==
  /\ now < MaxTime /\ now' = now + 1
  /\ UNCHANGED <<outbox, offline, guard, file, manifest, pc, history, bounds>>

(* approve-mass-push *)
Approve ==
  /\ approvals < MaxApprovals /\ approvals' = approvals + 1
  /\ file' = TRUE
  /\ granted' = TRUE
  /\ UNCHANGED <<outbox, offline, guard, manifest, pc, now, pushed, earlier, ops, faults>>
-----------------------------------------------------------------------------
(* Start *)

Start ==
  /\ pc = "down" /\ pc' = "starting"
  /\ UNCHANGED <<outbox, offline, guard, file, manifest, now, history, bounds>>

(* reconcile_offline_changes.  A halted start waits for the file and then  *)
(* looks again from the beginning.                                         *)
Resume ==
  /\ manifest
  /\ pc = "starting" \/ (pc = "halted" /\ file)
  /\ LET kind(k) == {o \in offline : o.op = k}
         deletes == Waiting("delete") + Cardinality(kind("delete"))
         puts == Waiting("put") + Cardinality(kind("put"))
     IN  /\ Checked(deletes, puts)
         /\ IF Trips(deletes, puts)
            THEN pc' = "halted" /\ UNCHANGED <<outbox, offline>>
            ELSE /\ pc' = "idle"
                 /\ outbox' = outbox \o SetToSeq(kind("delete")) \o SetToSeq(kind("put"))
                 /\ offline' = {}
  /\ UNCHANGED <<manifest, now, history, bounds>>

(* First run and rebaselined: what changed is adopted, nothing is queued.  *)
Adopt ==
  /\ pc = "starting"
  /\ manifest' = TRUE
  /\ offline' = {}
  /\ pc' = "idle"
  /\ UNCHANGED <<outbox, guard, file, now, history, bounds>>

(* --allow-seed is an approval. *)
Seed ==
  /\ pc = "starting" /\ ~manifest
  /\ approved' = TRUE /\ granted' = TRUE
  /\ outbox' = outbox \o SetToSeq([op : {"put"}, path : Paths])
  /\ offline' = {} /\ manifest' = TRUE
  /\ pc' = "idle"
  /\ UNCHANGED <<recent, file, now, pushed, earlier, bounds>>
-----------------------------------------------------------------------------
(* A tick *)

(* check_mass_push looks at nothing when nothing waits. *)
StartTick ==
  /\ pc = "idle"
  /\ IF outbox = <<>>
     THEN pc' = "drain" /\ UNCHANGED <<guard, file>>
     ELSE /\ Checked(Waiting("delete"), Waiting("put"))
          /\ pc' = IF Trips(Waiting("delete"), Waiting("put")) THEN "idle" ELSE "drain"
  /\ UNCHANGED <<outbox, offline, manifest, now, history, bounds>>

Push ==
  /\ pc = "drain" /\ outbox # <<>>
  /\ LET op == Head(outbox)
         stamped == [op |-> op.op, path |-> op.path, at |-> now]
     IN  /\ recent' = Append(recent, stamped)
         /\ pushed' = IF granted THEN pushed ELSE Append(pushed, stamped)
  /\ outbox' = Tail(outbox)
  /\ UNCHANGED <<offline, approved, file, manifest, pc, now, granted, earlier, bounds>>

(* A put whose file is gone, or that the server refuses for good. *)
Drop ==
  /\ pc = "drain" /\ outbox # <<>> /\ Head(outbox).op = "put"
  /\ faults < MaxFaults /\ faults' = faults + 1
  /\ outbox' = Tail(outbox)
  /\ UNCHANGED <<offline, guard, file, manifest, pc, now, history, ops, approvals>>

PushFails ==
  /\ pc = "drain" /\ outbox # <<>>
  /\ faults < MaxFaults /\ faults' = faults + 1
  /\ pc' = "idle"
  /\ UNCHANGED <<outbox, offline, guard, file, manifest, now, history, ops, approvals>>

(* Mutant: an approval never ends. *)
EmptiedStaysApproved == UNCHANGED guard

(* outbox_emptied *)
Emptied ==
  IF approved THEN approved' = FALSE /\ recent' = <<>> ELSE UNCHANGED guard

(* An approval has covered its batch when none waits in the file. *)
EndDrain ==
  /\ pc = "drain" /\ outbox = <<>>
  /\ Emptied
  /\ granted' = file
  /\ pushed' = IF granted THEN <<>> ELSE pushed
  /\ earlier' = IF granted THEN 0 ELSE earlier
  /\ pc' = "idle"
  /\ UNCHANGED <<outbox, offline, file, manifest, now, bounds>>

(* The journals and the approval file stay, the guard starts anew. *)
Crash ==
  /\ pc # "down" /\ pc' = "down"
  /\ faults < MaxFaults /\ faults' = faults + 1
  /\ recent' = <<>> /\ approved' = FALSE
  /\ granted' = file /\ earlier' = Len(pushed)
  /\ UNCHANGED <<outbox, offline, file, manifest, now, pushed, ops, approvals>>

Running == Start \/ Resume \/ (~manifest /\ Adopt) \/ Seed \/ StartTick \/ Push \/ EndDrain

Next ==
  \/ \E op \in Op : Change(op)
  \/ Tick \/ Approve \/ Running \/ Adopt \/ Drop \/ PushFails \/ Crash

(* One thread that sleeps for bounded times only. *)
Spec == Init /\ [][Next]_vars /\ WF_vars(Running)
-----------------------------------------------------------------------------
(* The unapproved pushes from the first one on: no stretch of Window holds *)
(* more deletes, or puts of more paths, than the limits.                   *)
Limited(first) ==
  \A i \in first .. Len(pushed) :
    LET stretch == {j \in first .. i : pushed[i].at - pushed[j].at <= Window}
    IN  /\ Cardinality({j \in stretch : pushed[j].op = "delete"}) <= MaxDeletes
        /\ Cardinality({pushed[j].path : j \in {k \in stretch : pushed[k].op = "put"}}) <= MaxPuts

(* What one run of the process pushes without an approval keeps to the     *)
(* limits, however the pushes, failures and changes fall in the window and *)
(* whatever an earlier run left in the outbox (check and record_pushed).   *)
WithinLimits == Limited(earlier + 1)

(* The same over restarts, as guard.rs:18 says it: "a slow delete spread   *)
(* over many ticks cannot slip under the limit".                           *)
SlowDeleteCaught == Limited(1)

(* The guard is off only for what a person has approved since the last     *)
(* batch: consumed at any check, kept over failed ticks, used up by an     *)
(* emptied outbox and lost in a crash.                                     *)
OnlyAPersonApproves == approved => granted

(* An approval lasts over failed ticks until its batch is out; only a      *)
(* crash takes it back.                                                    *)
ApprovedBatchLeaves ==
  (file /\ faults = MaxFaults) ~> (outbox = <<>> /\ offline = {})

=============================================================================
