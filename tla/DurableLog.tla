----------------------------- MODULE DurableLog -----------------------------
(***************************************************************************)
(* What the clients rely on when they use a journal: a sequence that       *)
(* changes by one item at a time.  A crash may undo the last change or all *)
(* that came after the last acknowledgement, but not an acknowledged one:  *)
(* an acknowledged item stays until it is released - as long as the        *)
(* journal is not damaged.                                                 *)
(***************************************************************************)
EXTENDS Naturals, Sequences, SequencesExt

CONSTANT Items

VARIABLES
  log,    \* what a reader gets
  safe,   \* what a crash can fall back to
  acked,  \* items whose append was acknowledged, and not released since
  damaged

vars == <<log, safe, acked, damaged>>

Init == log = <<>> /\ safe = <<>> /\ acked = {} /\ damaged = FALSE

Add(x) ==
  /\ log' = Append(log, x)
  /\ UNCHANGED <<safe, acked>>

(* An append that no crash undoes. *)
AddAtOnce(x) ==
  /\ log = safe
  /\ log' = Append(log, x)
  /\ safe' = log' /\ acked' = acked \cup {x}

Release(x) == acked' = acked \ {x} /\ UNCHANGED <<log, safe>>

(* Only what is released may go. *)
Drop(i) ==
  /\ log[i] \notin acked
  /\ log' = RemoveAt(log, i)
  /\ safe' \in {safe, log'}
  /\ UNCHANGED acked

(* What is there is there for good, and known to be. *)
Acknowledge(s) == safe' = log /\ acked' = acked \cup s /\ UNCHANGED log

Undo == log' = safe /\ UNCHANGED <<safe, acked>>

UndoLast(x) ==
  /\ log = Append(log', x) /\ x \notin acked
  /\ safe' = log' /\ UNCHANGED acked

Works ==
  \/ \E x \in Items : Add(x) \/ AddAtOnce(x) \/ Release(x) \/ UndoLast(x)
  \/ \E i \in DOMAIN log : Drop(i)
  \/ \E s \in SUBSET ToSet(log) : Acknowledge(s)
  \/ Undo

(* Once damaged it may do anything. *)
Next == (Works /\ damaged' = damaged) \/ damaged' = TRUE

Spec == Init /\ [][Next]_vars
-----------------------------------------------------------------------------
(* An acknowledged item is read until it is released, whatever crashes.    *)
AcknowledgedKept == ~damaged => acked \subseteq ToSet(log) \cap ToSet(safe)
=============================================================================
