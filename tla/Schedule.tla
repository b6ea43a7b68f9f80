------------------------------ MODULE Schedule ------------------------------
(***************************************************************************)
(* rust-client/src/{daemon,watcher}.rs: when the main loop looks at what   *)
(* the watcher reports, when it looks at the whole vault, and when it      *)
(* talks to the server.  Times are in one unit and relative to now, so     *)
(* time goes on for ever; an instant becomes how far ahead or back it is.  *)
(* What a look or a tick does is in RustClient.                            *)
(***************************************************************************)
EXTENDS Integers, FiniteSets

CONSTANTS
  Paths,
  TICK_INTERVAL, DEBOUNCE, EVENT_QUIET, EVENT_MAX_HOLD, MAX_BACKOFF, RESCAN_INTERVAL,
  MaxFailures,  \* bound: failures in a row; the delay is at its cap by then
  MaxTick,      \* bound: how long one tick takes
  MaxChanges,   \* bound: changes of files
  MaxFaults,    \* bound: lost events, failed looks
  MaxSessions   \* bound: times Obsidian runs

ASSUME Times ==
  /\ {TICK_INTERVAL, DEBOUNCE, EVENT_QUIET, EVENT_MAX_HOLD, MAX_BACKOFF, RESCAN_INTERVAL}
       \subseteq Nat \ {0}
  /\ {MaxTick, MaxChanges, MaxFaults, MaxSessions} \subseteq Nat
  /\ TICK_INTERVAL <= MAX_BACKOFF /\ DEBOUNCE <= TICK_INTERVAL
  /\ EVENT_MAX_HOLD <= RESCAN_INTERVAL
  /\ MaxFailures \in 1 .. 7 /\ TICK_INTERVAL * 2 ^ (MaxFailures - 1) >= MAX_BACKOFF

VARIABLES
  next, failures,       \* TickSchedule
  dirty, first, last,   \* DirtyPaths; None when there are none
  scan,                 \* since last_rescan
  requested,            \* rescan_requested
  events,               \* the channel from the watcher
  pc,                   \* where the main loop is
  busy,                 \* how long the tick has taken
  age,                  \* history: since when a change is not looked at
  held,                 \* history: since when the watcher answers for it
  idle,                 \* history: since the last tick
  changes, faults, sessions

schedule == <<next, failures>>
dirtyPaths == <<dirty, first, last>>
scans == <<scan, requested>>
history == <<age, held, idle>>
bounds == <<changes, faults, sessions>>
vars == <<schedule, dirtyPaths, scans, events, pc, busy, history, bounds>>

None == -1
Unseen == {p \in Paths : age[p] # None}
Least(a, b) == IF a < b THEN a ELSE b
Most(a, b) == IF a < b THEN b ELSE a
Older(t) == IF t = None THEN None ELSE t + 1
Less(t) == IF t = 0 THEN 0 ELSE t - 1

Blame == faults < MaxFaults /\ faults' = faults + 1

Init ==
  /\ next = 0 /\ failures = 0
  /\ dirty = {} /\ first = None /\ last = None
  /\ scan = 0 /\ requested = FALSE
  /\ events = {} /\ pc = "wait" /\ busy = 0
  /\ age = [p \in Paths |-> None] /\ held = [p \in Paths |-> None] /\ idle = 0
  /\ changes = 0 /\ faults = 0 /\ sessions = 0
-----------------------------------------------------------------------------
(* TickSchedule *)

(* Mutant: a client that failed too often stops trying. *)
DueUnlessGivenUp == next = 0 /\ failures < MaxFailures

Due == next = 0

(* Mutant: a change does not care that the server fails. *)
LocalChangeAnyway == next' = DEBOUNCE /\ UNCHANGED failures

LocalChange ==
  /\ next' = IF failures = 0 THEN DEBOUNCE ELSE next
  /\ UNCHANGED failures

(* 3, 6, 12, 24 seconds, then MAX_BACKOFF. *)
Factor == <<1, 2, 4, 8, 16, 32, 64>>
Backoff(n) == Least(TICK_INTERVAL * Factor[n], MAX_BACKOFF)

Completed(ok) ==
  /\ failures' = IF ok THEN 0 ELSE Least(failures + 1, MaxFailures)
  /\ next' = IF ok THEN TICK_INTERVAL ELSE Backoff(failures')
-----------------------------------------------------------------------------
(* DirtyPaths *)

(* Mutant: the hold starts again with every event. *)
AddDirtyAfresh(ps) ==
  /\ dirty' = dirty \cup ps
  /\ first' = IF ps = {} THEN first ELSE 0
  /\ last' = IF ps = {} THEN last ELSE 0

AddDirty(ps) ==
  /\ dirty' = dirty \cup ps
  /\ first' = IF ps # {} /\ first = None THEN 0 ELSE first
  /\ last' = IF ps = {} THEN last ELSE 0

Ready == dirty # {} /\ (last >= EVENT_QUIET \/ first >= EVENT_MAX_HOLD)

TakeDirty == dirty' = {} /\ first' = None /\ last' = None
-----------------------------------------------------------------------------
(* The vault and the watcher.  A change is reported by name, or the kernel *)
(* dropped events and says so, or nothing is said at all.                  *)

Change(p) ==
  /\ changes < MaxChanges /\ changes' = changes + 1
  /\ pc # "paused"
  /\ age' = [age EXCEPT ![p] = IF @ = None THEN 0 ELSE @]
  /\ \/ \E event \in {p, "rescan"} :
          /\ events' = events \cup {event}
          /\ held' = [held EXCEPT ![p] = IF @ = None THEN 0 ELSE @]
          /\ UNCHANGED faults
     \/ Blame /\ UNCHANGED <<events, held>>
  /\ UNCHANGED <<schedule, dirtyPaths, scans, pc, busy, idle, sessions>>

(* The client's own write is reported like any other. *)
OwnWrite(p) ==
  /\ pc = "ticking"
  /\ events' = events \cup {p}
  /\ UNCHANGED <<schedule, dirtyPaths, scans, pc, busy, history, bounds>>

(* A unit of time.  The loop waits for less than one, its looks take less, *)
(* only a tick takes longer.                                               *)
Elapse ==
  /\ \/ pc = "wait" /\ events = {} /\ pc' = "rescan" /\ UNCHANGED busy
     \/ pc = "ticking" /\ busy < MaxTick /\ busy' = busy + 1 /\ UNCHANGED pc
  /\ next' = Less(next)
  /\ first' = IF first = None THEN None ELSE Least(first + 1, EVENT_MAX_HOLD)
  /\ last' = IF last = None THEN None ELSE Least(last + 1, EVENT_QUIET)
  /\ scan' = Least(scan + 1, RESCAN_INTERVAL)
  /\ age' = [p \in Paths |-> Older(age[p])]
  /\ held' = [p \in Paths |-> Older(held[p])]
  /\ idle' = Least(idle + 1, MAX_BACKOFF)
  /\ UNCHANGED <<failures, dirty, requested, events, bounds>>
-----------------------------------------------------------------------------
(* main_loop, one round *)

Absorb ==
  /\ pc = "wait" /\ events # {}
  /\ AddDirty(events \cap Paths)
  /\ requested' = (requested \/ "rescan" \in events)
  /\ events' = {}
  /\ pc' = "rescan"
  /\ UNCHANGED <<schedule, scan, busy, history, bounds>>

(* Looking at paths: they are compared with the manifest, and what differs *)
(* is queued.                                                              *)
LookAt(ps) ==
  /\ age' = [p \in Paths |-> IF p \in ps THEN None ELSE age[p]]
  /\ held' = [p \in Paths |-> IF p \in ps THEN None ELSE held[p]]
  /\ \/ ps \cap Unseen # {} /\ LocalChange
     \/ UNCHANGED schedule

(* Mutant: the vault is only looked at when events were dropped. *)
RescanOnRequest == requested

RescanNow == requested \/ scan = RESCAN_INTERVAL

Rescan ==
  /\ pc = "rescan" /\ pc' = "dirty"
  /\ RescanNow
  /\ requested' = FALSE /\ scan' = 0
  /\ LookAt(Paths)
  /\ UNCHANGED <<dirtyPaths, events, busy, idle, bounds>>

(* The request is forgotten: the next one is due in RESCAN_INTERVAL. *)
RescanFails ==
  /\ pc = "rescan" /\ pc' = "dirty"
  /\ RescanNow /\ Blame
  /\ requested' = FALSE /\ scan' = 0
  /\ held' = [p \in Paths |-> IF p \in dirty \cup events \/ "rescan" \in events
                              THEN held[p] ELSE None]
  /\ UNCHANGED <<schedule, dirtyPaths, events, busy, age, idle, changes, sessions>>

NoRescan ==
  /\ pc = "rescan" /\ pc' = "dirty"
  /\ ~RescanNow
  /\ UNCHANGED <<schedule, dirtyPaths, scans, events, busy, history, bounds>>

Reconcile ==
  /\ pc = "dirty" /\ pc' = "tick"
  /\ Ready
  /\ TakeDirty
  /\ LookAt(dirty)
  /\ UNCHANGED <<scans, events, busy, idle, bounds>>

ReconcileFails ==
  /\ pc = "dirty" /\ pc' = "tick"
  /\ Ready /\ Blame
  /\ TakeDirty
  /\ requested' = TRUE
  /\ UNCHANGED <<schedule, scan, events, busy, history, changes, sessions>>

NotReady ==
  /\ pc = "dirty" /\ pc' = "tick"
  /\ ~Ready
  /\ UNCHANGED <<schedule, dirtyPaths, scans, events, busy, history, bounds>>

StartTick ==
  /\ pc = "tick" /\ Due
  /\ pc' = "ticking" /\ busy' = 0
  /\ UNCHANGED <<schedule, dirtyPaths, scans, events, history, bounds>>

NotDue ==
  /\ pc = "tick" /\ ~Due
  /\ pc' = "wait"
  /\ UNCHANGED <<schedule, dirtyPaths, scans, events, busy, history, bounds>>

(* Errors, a halt and a suspension are failures; dead letters are not. *)
EndTick(ok) ==
  /\ pc = "ticking" /\ pc' = "wait" /\ busy' = 0
  /\ Completed(ok)
  /\ idle' = 0
  /\ UNCHANGED <<dirtyPaths, scans, events, age, held, bounds>>
-----------------------------------------------------------------------------
(* pause_for_obsidian, noticed after the events are absorbed; every change *)
(* until the rebaseline is adopted by it.                                  *)

Pause ==
  /\ pc = "rescan" /\ pc' = "paused"
  /\ sessions < MaxSessions /\ sessions' = sessions + 1
  /\ UNCHANGED <<schedule, dirtyPaths, scans, events, busy, history, changes, faults>>

Resume ==
  /\ pc = "paused" /\ pc' = "rebaseline"
  /\ events' = {}
  /\ scan' \in {scan, RESCAN_INTERVAL}
  /\ UNCHANGED <<schedule, dirtyPaths, requested, busy, history, bounds>>

Rebaseline ==
  /\ pc = "rebaseline" /\ pc' = "resumed"
  /\ age' = [p \in Paths |-> None] /\ held' = [p \in Paths |-> None]
  /\ UNCHANGED <<schedule, dirtyPaths, scans, events, busy, idle, bounds>>

(* What was absorbed before the pause is dropped, and so is its request. *)
Resumed ==
  /\ pc = "resumed" /\ pc' = "wait"
  /\ TakeDirty
  /\ requested' = FALSE
  /\ next' = 0 /\ failures' = 0
  /\ UNCHANGED <<scan, events, busy, history, bounds>>
-----------------------------------------------------------------------------
Round ==
  \/ Absorb \/ Rescan \/ NoRescan \/ Reconcile \/ NotReady
  \/ StartTick \/ NotDue \/ (\E ok \in BOOLEAN : EndTick(ok))
  \/ Resume \/ Rebaseline \/ Resumed

Next ==
  \/ Round \/ Elapse \/ RescanFails \/ ReconcileFails \/ Pause
  \/ \E p \in Paths : Change(p) \/ OwnWrite(p)

(* Time goes on, the thread runs. *)
Spec == Init /\ [][Next]_vars /\ WF_vars(Round) /\ WF_vars(Elapse)
-----------------------------------------------------------------------------
(* Types of all variables. *)
TypeOK ==
  /\ next \in 0 .. MAX_BACKOFF /\ failures \in 0 .. MaxFailures
  /\ dirty \subseteq Paths
  /\ first \in None .. EVENT_MAX_HOLD /\ last \in None .. EVENT_QUIET
  /\ scan \in 0 .. RESCAN_INTERVAL /\ requested \in BOOLEAN
  /\ events \subseteq Paths \cup {"rescan"}
  /\ pc \in {"wait", "rescan", "dirty", "tick", "ticking", "paused",
             "rebaseline", "resumed"}
  /\ busy \in 0 .. MaxTick
  /\ age \in [Paths -> Nat \cup {None}] /\ held \in [Paths -> Nat \cup {None}]

(* A tick before it is absorbed, the hold, and one more tick.  A look that *)
(* fails is made good after the next tick; only when that one fails too    *)
(* does the hold start again.                                              *)
LongestHold(n) ==
  EVENT_MAX_HOLD + 2 * MaxTick + (n % 2) * (MaxTick + 1)
    + (n \div 2) * (EVENT_MAX_HOLD + 3 * MaxTick + 1)

(* "A constantly changing file is not held forever": a change the watcher  *)
(* reported is looked at within EVENT_MAX_HOLD and two long ticks,         *)
(* whatever changes around it, however events and hand-overs fall, and     *)
(* soon after when the look at it fails.                                   *)
LookedAtInTime == \A p \in Paths : held[p] <= LongestHold(faults)

(* "The only safe response is a full rescan": also a change nobody         *)
(* reported is found, and a rescan that fails costs one interval more.     *)
FoundInTime ==
  \A p \in Unseen :
    age[p] <= MaxTick + Most(faults, 1) * (RESCAN_INTERVAL + MaxTick)

(* "Local changes do not hammer a failing server": after n failures in a   *)
(* row the server is left alone for as long as n failures cost, whatever   *)
(* changes in the vault.                                                   *)
ServerLeftAlone ==
  [][StartTick /\ failures > 0 => idle >= Backoff(failures)]_vars

(* The client polls for as long as it runs, unless changes never cease.    *)
PollsForEver == []<>(pc = "ticking" \/ pc = "paused")
=============================================================================
