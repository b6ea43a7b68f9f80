--------------------------- MODULE ScheduleProofs ---------------------------
(* The schedule of ticks, for every length of the times and any number of  *)
(* paths, changes, failures and sessions of Obsidian.                      *)
EXTENDS Schedule, TLAPS

(* What is left of a delay and what has passed of it make up the delay. *)
Delayed ==
  failures > 0 /\ pc # "ticking" => idle + next >= Backoff(failures)

Clock ==
  /\ next \in Nat /\ idle \in 0 .. MAX_BACKOFF
  /\ failures \in 0 .. MaxFailures

IInv == Clock /\ Delayed

(* A delay is a positive time of at most MAX_BACKOFF. *)
LEMMA BackoffBounds ==
  ASSUME NEW n \in 1 .. MaxFailures
  PROVE  Backoff(n) \in 1 .. MAX_BACKOFF
<1>1. MaxFailures \in 1 .. 7 /\ TICK_INTERVAL \in Nat \ {0} /\ MAX_BACKOFF \in Nat \ {0}
  BY Times
<1>2. n \in 1 .. 7
  BY <1>1
<1>3. Factor[n] \in Nat \ {0}
  BY <1>2 DEF Factor
<1>4. TICK_INTERVAL * Factor[n] \in Nat \ {0}
  BY <1>1, <1>3
<1> QED
  BY <1>1, <1>4 DEF Backoff, Least

(* The delays hold at the start. *)
LEMMA InitInv == Init => IInv
BY Times DEF Init, IInv, Clock, Delayed

Undelayed ==
  /\ idle' = idle
  /\ pc = "ticking" => pc' = "ticking"
  /\ schedule' = schedule \/ LocalChange

(* The steps that leave the schedule alone, and a change in the vault, keep *)
(* the delays.                                                             *)
LEMMA KeepsDelay ==
  ASSUME IInv, Undelayed
  PROVE  IInv'
<1>1. failures' = failures /\ next' \in Nat /\ (failures > 0 => next' = next)
  BY Times DEF IInv, Clock, Undelayed, LocalChange, schedule
<1> QED
  BY <1>1 DEF IInv, Clock, Delayed, Undelayed, Backoff

(* Every step keeps the delays. *)
LEMMA StepInv == IInv /\ [Next]_vars => IInv'
<1> SUFFICES ASSUME IInv, [Next]_vars PROVE IInv'
  OBVIOUS
<1>1. ASSUME NEW p \in Paths, Change(p) PROVE IInv'
  BY <1>1, KeepsDelay DEF Undelayed, Change
<1>2. ASSUME NEW p \in Paths, OwnWrite(p) PROVE IInv'
  BY <1>2, KeepsDelay DEF Undelayed, OwnWrite, history
<1>3. CASE Elapse
  <2> USE DEF IInv, Clock, Delayed
  <2>1. next' = Less(next) /\ failures' = failures /\ idle' = Least(idle + 1, MAX_BACKOFF)
        /\ (pc = "wait" \/ pc' = "ticking")
    BY <1>3 DEF Elapse
  <2>2. Clock'
    BY <2>1, Times DEF Less, Least
  <2>3. ASSUME failures' > 0, pc' # "ticking" PROVE idle' + next' >= Backoff(failures')
    <3>1. failures \in 1 .. MaxFailures /\ failures' = failures /\ MAX_BACKOFF \in Nat
      BY <2>1, <2>3, Times
    <3>2. Backoff(failures) \in 1 .. MAX_BACKOFF
      BY <3>1, BackoffBounds
    <3>3. idle + next >= Backoff(failures)
      BY <2>1, <2>3
    <3> QED
      BY <2>1, <3>1, <3>2, <3>3 DEF Less, Least
  <2> QED
    BY <2>2, <2>3
<1>4. CASE Absorb
  BY <1>4, KeepsDelay DEF Undelayed, Absorb, history
<1>5. CASE Rescan
  BY <1>5, KeepsDelay DEF Undelayed, Rescan, LookAt
<1>6. CASE NoRescan
  BY <1>6, KeepsDelay DEF Undelayed, NoRescan, history
<1>7. CASE Reconcile
  BY <1>7, KeepsDelay DEF Undelayed, Reconcile, LookAt
<1>8. CASE NotReady
  BY <1>8, KeepsDelay DEF Undelayed, NotReady, history
<1>9. CASE StartTick
  BY <1>9, KeepsDelay DEF Undelayed, StartTick, history
<1>10. CASE NotDue
  BY <1>10, KeepsDelay DEF Undelayed, NotDue, history
<1>11. ASSUME NEW ok \in BOOLEAN, EndTick(ok) PROVE IInv'
  <2> USE DEF IInv, Clock, Delayed
  <2>1. idle' = 0 /\ pc' = "wait" /\ failures' \in 0 .. MaxFailures
    BY <1>11, Times DEF EndTick, Completed, Least
  <2>2. CASE ok
    BY <1>11, <2>1, <2>2, Times DEF EndTick, Completed
  <2>3. CASE ~ok
    <3>1. failures' \in 1 .. MaxFailures /\ next' = Backoff(failures')
      BY <1>11, <2>1, <2>3, Times DEF EndTick, Completed, Least
    <3>2. Backoff(failures') \in 1 .. MAX_BACKOFF
      BY <3>1, BackoffBounds
    <3>3. next' \in Nat /\ next' >= Backoff(failures')
      BY <3>1, <3>2, Times
    <3> QED
      BY <2>1, <3>1, <3>3, Times
  <2> QED
    BY <2>2, <2>3
<1>12. CASE Resume
  BY <1>12, KeepsDelay DEF Undelayed, Resume, history
<1>13. CASE Rebaseline
  BY <1>13, KeepsDelay DEF Undelayed, Rebaseline
<1>14. CASE Resumed
  BY <1>14, Times DEF Resumed, history, IInv, Clock, Delayed
<1>15. CASE RescanFails
  BY <1>15, KeepsDelay DEF Undelayed, RescanFails
<1>16. CASE ReconcileFails
  BY <1>16, KeepsDelay DEF Undelayed, ReconcileFails, history
<1>17. CASE Pause
  BY <1>17, KeepsDelay DEF Undelayed, Pause, history
<1>18. CASE UNCHANGED vars
  BY <1>18, KeepsDelay DEF Undelayed, vars, history
<1> QED
  BY <1>1, <1>2, <1>3, <1>4, <1>5, <1>6, <1>7, <1>8, <1>9, <1>10, <1>11, <1>12, <1>13,
     <1>14, <1>15, <1>16, <1>17, <1>18 DEF Next, Round

(* What has passed of a delay and what is left of it never make up less    *)
(* than the delay (TickSchedule of daemon.rs).                             *)
THEOREM ScheduleInvariant == Spec => []IInv
BY InitInv, StepInv, PTL DEF Spec

(* A server that failed n times in a row is left alone for as long as n    *)
(* failures cost, whatever changes in the vault (TickSchedule::completed   *)
(* and local_change).                                                      *)
THEOREM ServerLeftAloneHolds == Spec => ServerLeftAlone
<1>1. ASSUME IInv, StartTick, failures > 0 PROVE idle >= Backoff(failures)
  <2>1. idle + next >= Backoff(failures) /\ next = 0 /\ idle \in 0 .. MAX_BACKOFF
    BY <1>1 DEF IInv, Clock, Delayed, StartTick, Due
  <2> QED
    BY <2>1, Times
<1>2. IInv /\ [Next]_vars => [StartTick /\ failures > 0 => idle >= Backoff(failures)]_vars
  BY <1>1
<1> QED
  BY <1>2, ScheduleInvariant, PTL DEF Spec, ServerLeftAlone

(* None and zero are in the range of every clock. *)
LEMMA Ranges ==
  /\ None \in None .. EVENT_MAX_HOLD /\ None \in None .. EVENT_QUIET
  /\ 0 \in 0 .. RESCAN_INTERVAL /\ 0 \in 0 .. MAX_BACKOFF
  /\ 0 \in 0 .. MaxFailures /\ 0 \in 0 .. MaxTick
<1>1. /\ EVENT_MAX_HOLD \in Nat /\ EVENT_QUIET \in Nat /\ RESCAN_INTERVAL \in Nat
      /\ MAX_BACKOFF \in Nat /\ MaxFailures \in Nat /\ MaxTick \in Nat
  BY Times
<1> QED
  BY <1>1 DEF None

(* A delay is at most MAX_BACKOFF, after a success too. *)
LEMMA CompletedType ==
  ASSUME TypeOK, NEW ok \in BOOLEAN, Completed(ok)
  PROVE  next' \in 0 .. MAX_BACKOFF /\ failures' \in 0 .. MaxFailures
<1>1. failures' \in 0 .. MaxFailures
  BY Times DEF TypeOK, Completed, Least
<1>2. CASE ok
  BY <1>1, <1>2, Times DEF Completed
<1>3. CASE ~ok
  <2>1. failures' \in 1 .. MaxFailures
    BY <1>3, Times DEF TypeOK, Completed, Least
  <2> QED
    BY <1>1, <1>3, <2>1, BackoffBounds, Times DEF Completed
<1> QED
  BY <1>2, <1>3

(* A local change sets a delay that a tick interval covers. *)
LEMMA LocalChangeType ==
  ASSUME TypeOK, LocalChange \/ UNCHANGED schedule
  PROVE  next' \in 0 .. MAX_BACKOFF /\ failures' \in 0 .. MaxFailures
BY Times DEF TypeOK, LocalChange, schedule

(* Looking at paths only ends what has been waiting. *)
LEMMA LookAtType ==
  ASSUME TypeOK, NEW ps, LookAt(ps)
  PROVE  /\ next' \in 0 .. MAX_BACKOFF /\ failures' \in 0 .. MaxFailures
         /\ age' \in [Paths -> Nat \cup {None}] /\ held' \in [Paths -> Nat \cup {None}]
<1>1. LocalChange \/ UNCHANGED schedule
  BY DEF LookAt
<1> QED
  BY <1>1, LocalChangeType DEF TypeOK, LookAt

(* The clocks keep their ranges while time goes on. *)
LEMMA ElapseType == TypeOK /\ Elapse => TypeOK'
<1> SUFFICES ASSUME TypeOK, Elapse PROVE TypeOK'
  OBVIOUS
<1>1. next' \in 0 .. MAX_BACKOFF /\ failures' \in 0 .. MaxFailures
  BY Times DEF TypeOK, Elapse, Less
<1>2. first' \in None .. EVENT_MAX_HOLD /\ last' \in None .. EVENT_QUIET
  BY Times DEF TypeOK, Elapse, Least, None
<1>3. scan' \in 0 .. RESCAN_INTERVAL
  BY Times DEF TypeOK, Elapse, Least
<1>4. \A t \in Nat \cup {None} : Older(t) \in Nat \cup {None}
  BY DEF Older, None
<1>5. age' \in [Paths -> Nat \cup {None}] /\ held' \in [Paths -> Nat \cup {None}]
  BY <1>4 DEF TypeOK, Elapse
<1>6. pc' \in {"rescan", "ticking"} /\ busy' \in 0 .. MaxTick
  BY Times DEF TypeOK, Elapse
<1> QED
  BY <1>1, <1>2, <1>3, <1>5, <1>6 DEF TypeOK, Elapse

(* Every step keeps the types. *)
LEMMA StepType == TypeOK /\ [Next]_vars => TypeOK'
<1> SUFFICES ASSUME TypeOK, [Next]_vars PROVE TypeOK'
  OBVIOUS
<1> USE DEF TypeOK, schedule, dirtyPaths, scans, history
<1>1. ASSUME NEW p \in Paths, Change(p) PROVE TypeOK'
  BY <1>1 DEF Change, None
<1>2. ASSUME NEW p \in Paths, OwnWrite(p) PROVE TypeOK'
  BY <1>2 DEF OwnWrite
<1>3. CASE Elapse
  BY <1>3, ElapseType
<1>4. CASE Absorb
  BY <1>4, Times DEF Absorb, AddDirty, None
<1>5. CASE Rescan
  <2>1. /\ next' \in 0 .. MAX_BACKOFF /\ failures' \in 0 .. MaxFailures
        /\ age' \in [Paths -> Nat \cup {None}] /\ held' \in [Paths -> Nat \cup {None}]
    BY <1>5, LookAtType DEF Rescan
  <2> QED
    BY <1>5, <2>1, Ranges DEF Rescan
<1>6. CASE NoRescan
  BY <1>6 DEF NoRescan
<1>7. CASE Reconcile
  BY <1>7, LookAtType, Times DEF Reconcile, TakeDirty, None
<1>8. CASE NotReady
  BY <1>8 DEF NotReady
<1>9. CASE StartTick
  BY <1>9, Times DEF StartTick
<1>10. CASE NotDue
  BY <1>10 DEF NotDue
<1>11. ASSUME NEW ok \in BOOLEAN, EndTick(ok) PROVE TypeOK'
  BY <1>11, CompletedType, Times DEF EndTick
<1>12. CASE Resume
  BY <1>12, Times DEF Resume
<1>13. CASE Rebaseline
  BY <1>13 DEF Rebaseline, None
<1>14. CASE Resumed
  BY <1>14, Ranges DEF Resumed, TakeDirty
<1>15. CASE RescanFails
  <2>1. held' \in [Paths -> Nat \cup {None}]
    BY <1>15 DEF RescanFails
  <2> QED
    BY <1>15, <2>1, Ranges DEF RescanFails
<1>16. CASE ReconcileFails
  BY <1>16, Times DEF ReconcileFails, TakeDirty, None
<1>17. CASE Pause
  BY <1>17 DEF Pause
<1>18. CASE UNCHANGED vars
  BY <1>18 DEF vars
<1> QED
  BY <1>1, <1>2, <1>3, <1>4, <1>5, <1>6, <1>7, <1>8, <1>9, <1>10, <1>11, <1>12, <1>13,
     <1>14, <1>15, <1>16, <1>17, <1>18 DEF Next, Round

(* All variables keep their types and the clocks their ranges: no delay    *)
(* grows past MAX_BACKOFF (TickSchedule of daemon.rs).                     *)
THEOREM TypeCorrect == Spec => []TypeOK
<1>1. Init => TypeOK
  BY Ranges DEF Init, TypeOK
<1> QED
  BY <1>1, StepType, PTL DEF Spec
-----------------------------------------------------------------------------
(* How long a change waits.                                                *)

(* How far time is past the end of a clock in a state of the loop: it is   *)
(* only read between two ticks.                                            *)
Late(at, b) ==
  CASE at = "ticking" -> b
    [] at = "wait" -> MaxTick
    [] at \in {"tick", "resumed"} -> 0
    [] OTHER -> MaxTick + 1

(* A time t that began c before a clock did. *)
Since(t, clock, end, c, late) ==
  IF clock < end THEN t <= clock + c ELSE t <= end - 1 + c + late

(* How long a change may have waited when its hold begins. *)
HoldAfter(n) ==
  MaxTick + (n % 2) * MaxTick + (n \div 2) * (EVENT_MAX_HOLD + 3 * MaxTick + 1)

HeldBack(p) ==
  /\ p \in dirty /\ pc # "resumed"
  /\ Since(held[p], first, EVENT_MAX_HOLD, HoldAfter(faults), Late(pc, busy))

Queued(at, b) == IF at = "wait" THEN MaxTick ELSE IF at = "ticking" THEN b ELSE 0

InChannel(p) ==
  /\ p \in events \/ "rescan" \in events
  /\ held[p] <= HoldAfter(faults) - MaxTick + Queued(pc, busy)

Asked(p) ==
  /\ requested
  /\ \/ pc \in {"rescan", "paused"} /\ held[p] <= HoldAfter(faults)
     \/ /\ faults > 0 /\ pc \in {"tick", "ticking", "wait", "rescan", "paused"}
        /\ held[p] <= EVENT_MAX_HOLD + HoldAfter(faults - 1) + MaxTick + Late(pc, busy)

(* A change that the watcher answers for is held back, in the channel, or  *)
(* covered by a rescan that is asked for.                                  *)
Answered(p) ==
  \/ held[p] = None
  \/ HeldBack(p) \/ InChannel(p) \/ Asked(p)
  \/ pc = "rebaseline" /\ held[p] <= LongestHold(faults)

(* What lost events and failed rescans have cost. *)
Missed(n) == IF n = 0 THEN 0 ELSE MaxTick + (n - 1) * (RESCAN_INTERVAL + MaxTick)

(* A change is found by the next rescan, or, when the only failure so far  *)
(* was a rescan, by the hold that it was in.                               *)
Awaits(p) ==
  \/ age[p] = None
  \/ Since(age[p], scan, RESCAN_INTERVAL, Missed(faults), Late(pc, busy))
  \/ /\ faults = 1 /\ p \in dirty /\ pc # "resumed"
     /\ Since(age[p], first, EVENT_MAX_HOLD, MaxTick, Late(pc, busy))

Clocks ==
  /\ faults \in Nat
  /\ dirty # {} => first # None
  /\ dirty # {} /\ pc = "tick" => first < EVENT_MAX_HOLD
  /\ pc \in {"dirty", "tick"} => scan < RESCAN_INTERVAL
  /\ pc = "dirty" => ~requested
  /\ faults = 0 => held = age

TInv == Clocks /\ \A p \in Paths : Answered(p) /\ Awaits(p)

(* The constants that the waits are made of. *)
LEMMA Lengths ==
  /\ MaxTick \in Nat /\ EVENT_MAX_HOLD \in Nat \ {0} /\ RESCAN_INTERVAL \in Nat \ {0}
  /\ EVENT_QUIET \in Nat \ {0} /\ EVENT_MAX_HOLD <= RESCAN_INTERVAL
BY Times

(* Late in each state of the loop. *)
LEMMA Lateness ==
  ASSUME NEW at, NEW b
  PROVE  /\ at = "ticking" => Late(at, b) = b
         /\ at = "wait" => Late(at, b) = MaxTick
         /\ at \in {"tick", "resumed"} => Late(at, b) = 0
         /\ at \in {"rescan", "dirty", "paused", "rebaseline"} => Late(at, b) = MaxTick + 1
BY DEF Late

(* Two failures cost a hold and three ticks, one failure at least a tick.  *)
LEMMA HoldCosts ==
  ASSUME NEW n \in Nat
  PROVE  /\ HoldAfter(n) \in Nat /\ HoldAfter(n) >= MaxTick /\ HoldAfter(0) = MaxTick
         /\ HoldAfter(n + 1) >= HoldAfter(n) + MaxTick
         /\ HoldAfter(n + 2) >= HoldAfter(n) + EVENT_MAX_HOLD + 3 * MaxTick + 1
         /\ LongestHold(n) \in Nat
         /\ LongestHold(n) >= EVENT_MAX_HOLD + HoldAfter(n) + MaxTick
         /\ LongestHold(n + 1) >= EVENT_MAX_HOLD + HoldAfter(n) + 2 * MaxTick + 1
         /\ LongestHold(n + 1) >= LongestHold(n)
<1> DEFINE D == EVENT_MAX_HOLD + 3 * MaxTick + 1
           k == n \div 2
<1>1. D \in Nat /\ k \in Nat /\ D >= EVENT_MAX_HOLD + 3 * MaxTick + 1
  BY Lengths
<1>2. /\ \A m \in Nat : HoldAfter(m) = MaxTick + (m % 2) * MaxTick + (m \div 2) * D
      /\ \A m \in Nat : LongestHold(m) = EVENT_MAX_HOLD + 2 * MaxTick
                          + (m % 2) * (MaxTick + 1) + (m \div 2) * D
  BY DEF HoldAfter, LongestHold
<1>3. /\ 0 % 2 = 0 /\ 0 \div 2 = 0 /\ 0 * MaxTick = 0 /\ 1 * MaxTick = MaxTick
      /\ 0 * (MaxTick + 1) = 0 /\ 1 * (MaxTick + 1) = MaxTick + 1
  BY Lengths
<1>4. ASSUME NEW m \in Nat, NEW q \in Nat, m % 2 = 0, m \div 2 = q
      PROVE  HoldAfter(m) = MaxTick + q * D /\ LongestHold(m) = EVENT_MAX_HOLD + 2 * MaxTick + q * D
  <2>1. /\ HoldAfter(m) = MaxTick + 0 * MaxTick + q * D
        /\ LongestHold(m) = EVENT_MAX_HOLD + 2 * MaxTick + 0 * (MaxTick + 1) + q * D
    BY <1>4 DEF HoldAfter, LongestHold
  <2> HIDE DEF D
  <2>2. q * D \in Nat
    BY <1>1
  <2> QED
    BY <1>3, <2>1, <2>2, Lengths
<1>5. ASSUME NEW m \in Nat, NEW q \in Nat, m % 2 = 1, m \div 2 = q
      PROVE  HoldAfter(m) = 2 * MaxTick + q * D /\ LongestHold(m) = EVENT_MAX_HOLD + 3 * MaxTick + 1 + q * D
  <2>1. /\ HoldAfter(m) = MaxTick + 1 * MaxTick + q * D
        /\ LongestHold(m) = EVENT_MAX_HOLD + 2 * MaxTick + 1 * (MaxTick + 1) + q * D
    BY <1>5 DEF HoldAfter, LongestHold
  <2> HIDE DEF D
  <2>2. q * D \in Nat
    BY <1>1
  <2> QED
    BY <1>3, <2>1, <2>2, Lengths
<1>6. HoldAfter(0) = MaxTick
  <2> HIDE DEF D
  <2>1. 0 * D = 0
    BY <1>1
  <2> QED
    BY <1>2, <1>3, <2>1, Lengths
<1> HIDE DEF D
<1>7. k * D \in Nat /\ (k + 1) * D = k * D + D
  <2> HIDE DEF k
  <2> QED
    BY <1>1
<1>8. CASE n % 2 = 0
  <2>1. /\ (n + 1) % 2 = 1 /\ (n + 1) \div 2 = k
        /\ (n + 2) % 2 = 0 /\ (n + 2) \div 2 = k + 1 /\ n \div 2 = k
    BY <1>8
  <2> HIDE DEF k
  <2>2. HoldAfter(n) = MaxTick + k * D /\ LongestHold(n) = EVENT_MAX_HOLD + 2 * MaxTick + k * D
    BY <1>1, <1>4, <1>8, <2>1
  <2>3. n + 1 \in Nat /\ n + 2 \in Nat /\ k + 1 \in Nat
    BY <1>1
  <2>4. /\ HoldAfter(n + 1) = 2 * MaxTick + k * D
        /\ LongestHold(n + 1) = EVENT_MAX_HOLD + 3 * MaxTick + 1 + k * D
    BY <1>1, <1>5, <2>1, <2>3
  <2>5. HoldAfter(n + 2) = MaxTick + (k + 1) * D
    BY <1>4, <2>1, <2>3
  <2> QED
    BY <1>1, <1>6, <1>7, <2>2, <2>4, <2>5, Lengths
<1>9. CASE n % 2 = 1
  <2>1. /\ (n + 1) % 2 = 0 /\ (n + 1) \div 2 = k + 1
        /\ (n + 2) % 2 = 1 /\ (n + 2) \div 2 = k + 1 /\ n \div 2 = k
    BY <1>9
  <2> HIDE DEF k
  <2>2. /\ HoldAfter(n) = 2 * MaxTick + k * D
        /\ LongestHold(n) = EVENT_MAX_HOLD + 3 * MaxTick + 1 + k * D
    BY <1>1, <1>5, <1>9, <2>1
  <2>3. n + 1 \in Nat /\ n + 2 \in Nat /\ k + 1 \in Nat
    BY <1>1
  <2>4. /\ HoldAfter(n + 1) = MaxTick + (k + 1) * D
        /\ LongestHold(n + 1) = EVENT_MAX_HOLD + 2 * MaxTick + (k + 1) * D
    BY <1>4, <2>1, <2>3
  <2>5. HoldAfter(n + 2) = 2 * MaxTick + (k + 1) * D
    BY <1>5, <2>1, <2>3
  <2> QED
    BY <1>1, <1>6, <1>7, <2>2, <2>4, <2>5, Lengths
<1> QED
  BY <1>8, <1>9

(* Every failure after the first costs an interval and a tick.             *)
LEMMA MissedCosts ==
  ASSUME NEW n \in Nat
  PROVE  /\ Missed(n) \in Nat /\ Missed(0) = 0 /\ Missed(1) = MaxTick
         /\ Missed(n + 1) >= Missed(n)
         /\ n > 0 => Missed(n + 1) = Missed(n) + RESCAN_INTERVAL + MaxTick
         /\ MaxTick + Most(n, 1) * (RESCAN_INTERVAL + MaxTick)
              >= Missed(n) + RESCAN_INTERVAL + MaxTick
<1> DEFINE W == RESCAN_INTERVAL + MaxTick
<1>1. W \in Nat /\ MaxTick \in Nat /\ W = RESCAN_INTERVAL + MaxTick
  BY Lengths
<1>2. /\ \A m \in Nat : m > 0 => Missed(m) = MaxTick + (m - 1) * W
      /\ Missed(0) = 0
  BY DEF Missed
<1>3. Most(n, 1) = IF n < 1 THEN 1 ELSE n
  BY DEF Most
<1> HIDE DEF W
<1>4. 0 * W = 0 /\ 1 * W = W /\ (n > 0 => n * W = (n - 1) * W + W /\ (n - 1) * W \in Nat)
  BY <1>1
<1>5. Missed(1) = MaxTick
  BY <1>1, <1>2, <1>4
<1>6. CASE n = 0
  <2>1. Missed(n) = 0 /\ Missed(n + 1) = MaxTick
    BY <1>2, <1>5, <1>6
  <2>2. Most(n, 1) * W = W
    BY <1>1, <1>3, <1>4, <1>6
  <2> QED
    BY <1>1, <1>5, <1>6, <2>1, <2>2, Lengths DEF W, Missed
<1>7. CASE n > 0
  <2>1. Missed(n) = MaxTick + (n - 1) * W /\ Missed(n + 1) = MaxTick + n * W
    BY <1>2, <1>7
  <2> QED
    BY <1>1, <1>2, <1>3, <1>4, <1>5, <1>7, <2>1, Lengths
<1> QED
  BY <1>6, <1>7

(* The values that the waits are compared with. *)
LEMMA Values ==
  ASSUME TypeOK, Clocks, NEW p \in Paths
  PROVE  /\ held[p] \in Int /\ age[p] \in Int /\ held[p] >= -1 /\ age[p] >= -1
         /\ first \in Int /\ first >= -1 /\ first <= EVENT_MAX_HOLD
         /\ scan \in Nat /\ scan <= RESCAN_INTERVAL
         /\ busy \in Nat /\ busy <= MaxTick
         /\ Late(pc, busy) \in Nat /\ Late(pc, busy) <= MaxTick + 1
         /\ pc \in {"wait", "rescan", "dirty", "tick", "ticking", "paused", "rebaseline", "resumed"}
         /\ p \in dirty => first >= 0
         /\ HoldAfter(faults) \in Nat /\ HoldAfter(faults) >= MaxTick
         /\ Missed(faults) \in Nat
<1>1. /\ held[p] \in Nat \cup {None} /\ age[p] \in Nat \cup {None}
      /\ first \in None .. EVENT_MAX_HOLD /\ scan \in 0 .. RESCAN_INTERVAL /\ busy \in 0 .. MaxTick
      /\ pc \in {"wait", "rescan", "dirty", "tick", "ticking", "paused", "rebaseline", "resumed"}
  BY DEF TypeOK
<1>2. p \in dirty => first # None
  BY DEF Clocks
<1>3. faults \in Nat
  BY DEF Clocks
<1>4. HoldAfter(faults) \in Nat /\ HoldAfter(faults) >= MaxTick /\ Missed(faults) \in Nat
  BY <1>3, HoldCosts, MissedCosts
<1>5. /\ held[p] \in Int /\ age[p] \in Int /\ held[p] >= -1 /\ age[p] >= -1
      /\ first \in Int /\ first >= -1 /\ first <= EVENT_MAX_HOLD
      /\ scan \in Nat /\ scan <= RESCAN_INTERVAL
      /\ busy \in Nat /\ busy <= MaxTick
      /\ p \in dirty => first >= 0
  BY <1>1, <1>2, Lengths DEF None
<1>6. Late(pc, busy) \in Nat /\ Late(pc, busy) <= MaxTick + 1
  BY <1>1, <1>5, Lateness, Lengths
<1> QED
  BY <1>1, <1>4, <1>5, <1>6

(* The longest that a change is held, in any state.                        *)
LEMMA HeldBound ==
  ASSUME TypeOK, Clocks, NEW p \in Paths, Answered(p)
  PROVE  held[p] <= LongestHold(faults)
<1>1. faults \in Nat
  BY DEF Clocks
<1>2. /\ LongestHold(faults) \in Nat
      /\ LongestHold(faults) >= EVENT_MAX_HOLD + HoldAfter(faults) + MaxTick
      /\ faults > 0 =>
           /\ HoldAfter(faults - 1) \in Nat
           /\ LongestHold(faults) >= EVENT_MAX_HOLD + HoldAfter(faults - 1) + 2 * MaxTick + 1
  <2>1. CASE faults = 0
    BY <1>1, <2>1, HoldCosts
  <2>2. CASE faults > 0
    <3>1. faults - 1 \in Nat /\ (faults - 1) + 1 = faults
      BY <1>1, <2>2
    <3> QED
      BY <1>1, <3>1, HoldCosts
  <2> QED
    BY <1>1, <2>1, <2>2
<1>3. CASE held[p] = None
  BY <1>2, <1>3 DEF None
<1>4. CASE HeldBack(p)
  BY <1>2, <1>4, Values, Lengths DEF HeldBack, Since
<1>5. CASE InChannel(p)
  BY <1>2, <1>5, Values, Lengths DEF InChannel, Queued
<1>6. CASE Asked(p)
  BY <1>2, <1>6, Values, Lengths DEF Asked
<1> QED
  BY <1>3, <1>4, <1>5, <1>6 DEF Answered

(* The longest that a change is not found, in any state.                   *)
LEMMA AgeBound ==
  ASSUME TypeOK, Clocks, NEW p \in Paths, Awaits(p)
  PROVE  age[p] <= Missed(faults) + RESCAN_INTERVAL + MaxTick
<1>1. CASE age[p] = None
  BY <1>1, Values, Lengths DEF None
<1>2. CASE Since(age[p], scan, RESCAN_INTERVAL, Missed(faults), Late(pc, busy))
  BY <1>2, Values, Lengths DEF Since
<1>3. CASE /\ faults = 1 /\ p \in dirty
           /\ Since(age[p], first, EVENT_MAX_HOLD, MaxTick, Late(pc, busy))
  <2>1. Missed(faults) = MaxTick
    BY <1>3, MissedCosts
  <2> QED
    BY <1>3, <2>1, Values, Lengths DEF Since
<1> QED
  BY <1>1, <1>2, <1>3 DEF Awaits

(* The steps of the loop that look at nothing. *)
Moves ==
  \/ UNCHANGED <<pc, busy>>
  \/ pc = "rescan" /\ pc' = "dirty" /\ ~requested /\ busy' = busy
  \/ pc = "dirty" /\ pc' = "tick" /\ (dirty = {} \/ first < EVENT_MAX_HOLD) /\ busy' = busy
  \/ pc = "tick" /\ pc' = "ticking" /\ busy' = 0
  \/ pc = "tick" /\ pc' = "wait" /\ busy' = busy
  \/ pc = "ticking" /\ pc' = "wait" /\ busy' = 0
  \/ pc = "rescan" /\ pc' = "paused" /\ busy' = busy

(* A failure allows for more. *)
LEMMA Allows ==
  ASSUME NEW n \in Nat, NEW m \in {n, n + 1}
  PROVE  /\ m \in Nat
         /\ HoldAfter(n) \in Nat /\ HoldAfter(m) \in Nat /\ HoldAfter(m) >= HoldAfter(n)
         /\ n > 0 => /\ HoldAfter(n - 1) \in Nat /\ HoldAfter(m - 1) \in Nat
                     /\ HoldAfter(m - 1) >= HoldAfter(n - 1)
         /\ LongestHold(m) \in Nat /\ LongestHold(n) \in Nat /\ LongestHold(m) >= LongestHold(n)
         /\ Missed(m) \in Nat /\ Missed(n) \in Nat /\ Missed(m) >= Missed(n)
<1>1. HoldAfter(m) \in Nat /\ HoldAfter(n) \in Nat /\ HoldAfter(m) >= HoldAfter(n)
  BY HoldCosts, Lengths
<1>2. n > 0 => /\ HoldAfter(n - 1) \in Nat /\ HoldAfter(m - 1) \in Nat
               /\ HoldAfter(m - 1) >= HoldAfter(n - 1)
  <2> SUFFICES ASSUME n > 0
               PROVE  /\ HoldAfter(n - 1) \in Nat /\ HoldAfter(m - 1) \in Nat
                      /\ HoldAfter(m - 1) >= HoldAfter(n - 1)
    OBVIOUS
  <2> DEFINE k == n - 1
  <2>1. k \in Nat /\ k + 1 = n /\ (m - 1 = k \/ m - 1 = k + 1)
    OBVIOUS
  <2> HIDE DEF k
  <2>2. /\ HoldAfter(k) \in Nat /\ HoldAfter(k + 1) \in Nat
        /\ HoldAfter(k + 1) >= HoldAfter(k)
    <3>1. k + 1 \in Nat
      BY <2>1
    <3>2. HoldAfter(k) \in Nat /\ HoldAfter(k + 1) >= HoldAfter(k) + MaxTick
      BY <2>1, HoldCosts
    <3>3. HoldAfter(k + 1) \in Nat
      BY <3>1, HoldCosts
    <3> QED
      BY <3>2, <3>3, Lengths
  <2>3. HoldAfter(m - 1) \in Nat /\ HoldAfter(m - 1) >= HoldAfter(k)
    BY <2>1, <2>2
  <2> QED
    BY <2>2, <2>3 DEF k
<1>3. LongestHold(m) \in Nat /\ LongestHold(n) \in Nat /\ LongestHold(m) >= LongestHold(n)
  BY HoldCosts
<1>4. Missed(m) \in Nat /\ Missed(n) \in Nat /\ Missed(m) >= Missed(n)
  BY MissedCosts
<1> QED
  BY <1>1, <1>2, <1>3, <1>4

(* They leave every change that is held where it is. *)
LEMMA AnsweredMoves ==
  ASSUME TypeOK, TypeOK', Clocks, NEW p \in Paths, Answered(p), Moves, held'[p] = held[p],
         faults' \in {faults, faults + 1}, events \subseteq events',
         UNCHANGED <<dirty, first, requested>>
  PROVE  Answered(p)'
<1>1. faults \in Nat
  BY DEF Clocks
<1>2. /\ HoldAfter(faults) \in Nat /\ HoldAfter(faults') \in Nat
      /\ HoldAfter(faults') >= HoldAfter(faults)
      /\ faults > 0 => /\ faults' > 0 /\ HoldAfter(faults - 1) \in Nat /\ HoldAfter(faults' - 1) \in Nat
                       /\ HoldAfter(faults' - 1) >= HoldAfter(faults - 1)
      /\ LongestHold(faults) \in Nat /\ LongestHold(faults') \in Nat
      /\ LongestHold(faults') >= LongestHold(faults)
  BY <1>1, Allows
<1>3. /\ Late(pc', busy') \in Nat
      /\ \/ Late(pc', busy') >= Late(pc, busy)
         \/ pc = "dirty" /\ pc' = "tick" /\ Late(pc', busy') = 0
  BY Lateness, Values, Lengths DEF Moves, TypeOK
<1>4. CASE held[p] = None
  BY <1>4 DEF Answered
<1>5. CASE HeldBack(p)
  <2>1. Since(held[p], first, EVENT_MAX_HOLD, HoldAfter(faults'), Late(pc', busy'))
    BY <1>2, <1>3, <1>5, Values, Lengths DEF HeldBack, Since, Moves
  <2>2. p \in dirty' /\ pc' # "resumed"
    BY <1>5 DEF HeldBack, Moves
  <2> QED
    BY <2>1, <2>2 DEF Answered, HeldBack
<1>6. CASE InChannel(p)
  <2>1. p \in events' \/ "rescan" \in events'
    BY <1>6 DEF InChannel
  <2>2. held[p] <= HoldAfter(faults') - MaxTick + Queued(pc', busy')
    BY <1>2, <1>6, Values, Lengths DEF InChannel, Queued, Moves
  <2> QED
    BY <2>1, <2>2 DEF Answered, InChannel
<1>7. CASE Asked(p)
  <2>1. requested' /\ (pc = "dirty" => FALSE)
    BY <1>7 DEF Asked, Clocks
  <2>2. CASE pc \in {"rescan", "paused"} /\ held[p] <= HoldAfter(faults)
    <3>1. pc' \in {"rescan", "paused"} /\ held[p] <= HoldAfter(faults')
      BY <1>2, <1>7, <2>2, Values DEF Moves, Asked
    <3> QED
      BY <2>1, <3>1 DEF Answered, Asked
  <2>3. CASE /\ faults > 0 /\ pc \in {"tick", "ticking", "wait", "rescan", "paused"}
             /\ held[p] <= EVENT_MAX_HOLD + HoldAfter(faults - 1) + MaxTick + Late(pc, busy)
    <3>1. pc' \in {"tick", "ticking", "wait", "rescan", "paused"}
      BY <1>7, <2>3 DEF Moves, Asked
    <3>2. held[p] <= EVENT_MAX_HOLD + HoldAfter(faults' - 1) + MaxTick + Late(pc', busy')
      BY <1>2, <1>3, <2>1, <2>3, Values, Lengths
    <3> QED
      BY <1>2, <2>1, <2>3, <3>1, <3>2 DEF Answered, Asked
  <2> QED
    BY <1>7, <2>2, <2>3 DEF Asked
<1>8. CASE pc = "rebaseline" /\ held[p] <= LongestHold(faults)
  <2>1. pc' = "rebaseline" /\ held[p] <= LongestHold(faults')
    BY <1>2, <1>8, Values DEF Moves
  <2> QED
    BY <2>1 DEF Answered
<1> QED
  BY <1>4, <1>5, <1>6, <1>7, <1>8 DEF Answered

(* A wait that is within one failure's cost is within the next one's.      *)
LEMMA StillAwaits ==
  ASSUME NEW t \in Int, NEW clock \in Nat, NEW end \in Nat \ {0}, clock <= end,
         NEW c \in Int, NEW d \in Int, NEW l \in Int, NEW m \in Nat,
         \/ c <= d /\ Since(t, clock, end, c, l) /\ (clock < end \/ l <= m)
         \/ t <= d
  PROVE  Since(t, clock, end, d, m)
BY DEF Since

(* They leave every change that is not found where it is.                  *)
LEMMA AwaitsMoves ==
  ASSUME TypeOK, TypeOK', Clocks, NEW p \in Paths, Awaits(p), Moves, age'[p] = age[p],
         faults' \in {faults, faults + 1}, UNCHANGED <<dirty, first, scan>>
  PROVE  Awaits(p)'
<1>1. faults \in Nat
  BY DEF Clocks
<1>2. /\ Missed(faults) \in Nat /\ Missed(faults') \in Nat /\ Missed(faults') >= Missed(faults)
      /\ faults > 0 /\ faults' = faults + 1 =>
           Missed(faults') = Missed(faults) + RESCAN_INTERVAL + MaxTick
  BY <1>1, Allows, MissedCosts
<1>3. /\ Late(pc', busy') \in Nat
      /\ \/ Late(pc', busy') >= Late(pc, busy)
         \/ pc = "dirty" /\ pc' = "tick" /\ scan < RESCAN_INTERVAL
            /\ (dirty = {} \/ first < EVENT_MAX_HOLD)
  BY Lateness, Values, Lengths DEF Moves, TypeOK, Clocks
<1>4. CASE age[p] = None
  BY <1>4 DEF Awaits
<1>5. CASE Since(age[p], scan, RESCAN_INTERVAL, Missed(faults), Late(pc, busy))
  <2>1. Since(age[p], scan, RESCAN_INTERVAL, Missed(faults'), Late(pc', busy'))
    BY <1>2, <1>3, <1>5, Values, Lengths, StillAwaits
  <2> QED
    BY <2>1 DEF Awaits
<1>6. CASE /\ faults = 1 /\ p \in dirty /\ pc # "resumed"
           /\ Since(age[p], first, EVENT_MAX_HOLD, MaxTick, Late(pc, busy))
  <2>1. CASE faults' = faults
    <3>1. Since(age[p], first, EVENT_MAX_HOLD, MaxTick, Late(pc', busy'))
      BY <1>3, <1>6, Values, Lengths, StillAwaits
    <3>2. pc' # "resumed"
      BY <1>6 DEF Moves
    <3> QED
      BY <1>6, <2>1, <3>1, <3>2 DEF Awaits
  <2>2. CASE faults' = faults + 1
    <3>1. age[p] <= Missed(faults')
      BY <1>2, <1>6, <2>2, AgeBound
    <3>2. Since(age[p], scan, RESCAN_INTERVAL, Missed(faults'), Late(pc', busy'))
      BY <1>2, <1>3, <3>1, Values, Lengths, StillAwaits
    <3> QED
      BY <3>2 DEF Awaits
  <2> QED
    BY <2>1, <2>2
<1> QED
  BY <1>4, <1>5, <1>6 DEF Awaits

(* Steps that look at nothing keep every bound.                            *)
LEMMA KeepsWaits ==
  ASSUME TypeOK, TypeOK', TInv, Moves, UNCHANGED <<held, age, dirty, first, requested, scan, faults>>,
         events \subseteq events', pc = "rescan" /\ pc' = "dirty" => scan < RESCAN_INTERVAL
  PROVE  TInv'
<1>1. Clocks'
  BY DEF TInv, Clocks, Moves
<1>2. \A p \in Paths : Answered(p)'
  BY AnsweredMoves DEF TInv
<1>3. \A p \in Paths : Awaits(p)'
  BY AwaitsMoves DEF TInv
<1> QED
  BY <1>1, <1>2, <1>3 DEF TInv

(* A change begins to wait where it is reported. *)
LEMMA ChangeWaits ==
  ASSUME TypeOK, TypeOK', TInv, NEW q \in Paths, Change(q)
  PROVE  TInv'
<1>1. /\ age' = [age EXCEPT ![q] = IF @ = None THEN 0 ELSE @]
      /\ UNCHANGED <<dirty, first, scan, requested, pc, busy>>
      /\ \/ /\ faults' = faults
            /\ held' = [held EXCEPT ![q] = IF @ = None THEN 0 ELSE @]
            /\ q \in events' \/ "rescan" \in events'
         \/ faults' = faults + 1 /\ held' = held
      /\ events \subseteq events'
  BY DEF Change, Blame, dirtyPaths, scans
<1>2. /\ held \in [Paths -> Nat \cup {None}] /\ age \in [Paths -> Nat \cup {None}]
      /\ faults \in Nat /\ faults' \in {faults, faults + 1}
  BY <1>1 DEF TypeOK, TInv, Clocks
<1>3. Clocks'
  BY <1>1, <1>2 DEF TInv, Clocks
<1>4. ASSUME NEW p \in Paths PROVE Answered(p)'
  <2>1. CASE held'[p] = held[p]
    BY <1>1, <1>2, <2>1, AnsweredMoves DEF TInv, Moves
  <2>2. CASE held'[p] # held[p]
    <3>1. p = q /\ held'[p] = 0 /\ faults' = faults /\ (q \in events' \/ "rescan" \in events')
      BY <1>1, <1>2, <2>2
    <3>2. HoldAfter(faults') - MaxTick + Queued(pc', busy') >= 0
      BY <1>1, <3>1, Values, Lengths DEF TInv, Queued
    <3>3. InChannel(p)'
      BY <3>1, <3>2 DEF InChannel
    <3> QED
      BY <3>3 DEF Answered
  <2> QED
    BY <2>1, <2>2
<1>5. ASSUME NEW p \in Paths PROVE Awaits(p)'
  <2>1. CASE age'[p] = age[p]
    BY <1>1, <1>2, <2>1, AwaitsMoves DEF TInv, Moves
  <2>2. CASE age'[p] # age[p]
    <3>1. age'[p] = 0
      BY <1>1, <1>2, <2>2
    <3>2. Missed(faults') \in Nat
      BY <1>2, Allows
    <3>3. Since(0, scan, RESCAN_INTERVAL, Missed(faults'), Late(pc, busy))
      BY <3>2, Values, Lengths, StillAwaits DEF TInv
    <3> QED
      BY <1>1, <3>1, <3>3 DEF Awaits
  <2> QED
    BY <2>1, <2>2
<1> QED
  BY <1>3, <1>4, <1>5 DEF TInv

(* Time goes on for the changes and for the clocks alike. *)
LEMMA SinceElapses ==
  ASSUME NEW t \in Int, NEW clock \in Nat, NEW end \in Nat \ {0}, clock <= end,
         NEW c \in Int, NEW l \in Nat, NEW m \in Nat, m = l + 1,
         Since(t, clock, end, c, l)
  PROVE  Since(t + 1, Least(clock + 1, end), end, c, m)
BY DEF Since, Least

(* A unit of time keeps every bound.                                       *)
LEMMA ElapseWaits ==
  ASSUME TypeOK, TypeOK', TInv, Elapse
  PROVE  TInv'
<1>1. /\ first' = IF first = None THEN None ELSE Least(first + 1, EVENT_MAX_HOLD)
      /\ scan' = Least(scan + 1, RESCAN_INTERVAL)
      /\ age' = [p \in Paths |-> Older(age[p])]
      /\ held' = [p \in Paths |-> Older(held[p])]
      /\ UNCHANGED <<dirty, requested, events, faults>>
      /\ \/ pc = "wait" /\ events = {} /\ pc' = "rescan" /\ UNCHANGED busy
         \/ pc = "ticking" /\ busy < MaxTick /\ busy' = busy + 1 /\ UNCHANGED pc
  BY DEF Elapse, bounds
<1>2. faults \in Nat
  BY DEF TInv, Clocks
<1>3. Late(pc', busy') = Late(pc, busy) + 1 /\ Late(pc, busy) \in Nat /\ Late(pc', busy') \in Nat
  BY <1>1, Lateness, Lengths DEF TypeOK
<1>4. Clocks'
  <2>1. faults = 0 => held' = age'
    BY <1>1 DEF TInv, Clocks
  <2>2. dirty # {} => first' # None
    BY <1>1, Lengths DEF TInv, Clocks, TypeOK, None, Least
  <2> QED
    BY <1>1, <2>1, <2>2 DEF TInv, Clocks
<1>5. ASSUME NEW p \in Paths PROVE Answered(p)'
  <2>1. CASE held[p] = None
    BY <1>1, <2>1 DEF Answered, Older
  <2>2. CASE held[p] # None
    <3>1. held'[p] = held[p] + 1
      BY <1>1, <2>2 DEF Older
    <3>2. CASE HeldBack(p)
      <4>1. first \in Nat /\ first' = Least(first + 1, EVENT_MAX_HOLD)
        BY <1>1, <3>2, Values DEF TInv, HeldBack, None
      <4>2. Since(held'[p], first', EVENT_MAX_HOLD, HoldAfter(faults), Late(pc', busy'))
        BY <1>3, <3>1, <3>2, <4>1, Values, Lengths, SinceElapses DEF TInv, HeldBack
      <4> QED
        BY <1>1, <3>2, <4>2 DEF Answered, HeldBack
    <3>3. CASE InChannel(p)
      <4>1. pc = "ticking" /\ pc' = "ticking" /\ busy' = busy + 1
        BY <1>1, <3>3 DEF InChannel
      <4>2. InChannel(p)'
        BY <1>1, <3>1, <3>3, <4>1, Values, Lengths DEF TInv, InChannel, Queued
      <4> QED
        BY <4>2 DEF Answered
    <3>4. CASE Asked(p)
      <4>1. /\ faults > 0
            /\ held[p] <= EVENT_MAX_HOLD + HoldAfter(faults - 1) + MaxTick + Late(pc, busy)
        BY <1>1, <3>4 DEF Asked
      <4>2. HoldAfter(faults - 1) \in Nat
        BY <1>2, <4>1, Allows
      <4>3. held'[p] <= EVENT_MAX_HOLD + HoldAfter(faults - 1) + MaxTick + Late(pc', busy')
        BY <1>3, <3>1, <4>1, <4>2, Values, Lengths DEF TInv
      <4> QED
        BY <1>1, <3>4, <4>1, <4>3 DEF Answered, Asked
    <3> QED
      BY <1>1, <2>2, <3>2, <3>3, <3>4 DEF TInv, Answered
  <2> QED
    BY <2>1, <2>2
<1>7. ASSUME NEW p \in Paths
      PROVE  /\ age[p] \in Int /\ scan \in Nat /\ scan <= RESCAN_INTERVAL
             /\ Missed(faults) \in Nat /\ first <= EVENT_MAX_HOLD
  BY Values DEF TInv
<1>6. ASSUME NEW p \in Paths PROVE Awaits(p)'
  <2>1. CASE age[p] = None
    BY <1>1, <2>1 DEF Awaits, Older
  <2>2. CASE age[p] # None
    <3>1. age'[p] = age[p] + 1
      BY <1>1, <2>2 DEF Older
    <3>2. CASE Since(age[p], scan, RESCAN_INTERVAL, Missed(faults), Late(pc, busy))
      <4>1. Since(age[p] + 1, Least(scan + 1, RESCAN_INTERVAL), RESCAN_INTERVAL, Missed(faults),
                  Late(pc', busy'))
        BY <1>3, <1>7, <3>2, Lengths, SinceElapses
      <4>2. Since(age'[p], scan', RESCAN_INTERVAL, Missed(faults'), Late(pc', busy'))
        BY <1>1, <3>1, <4>1
      <4> QED
        BY <4>2 DEF Awaits
    <3>3. CASE /\ faults = 1 /\ p \in dirty
               /\ Since(age[p], first, EVENT_MAX_HOLD, MaxTick, Late(pc, busy))
      <4>1. first \in Nat /\ first' = Least(first + 1, EVENT_MAX_HOLD)
        BY <1>1, <3>3, Values DEF TInv, None
      <4>2. Since(age[p] + 1, Least(first + 1, EVENT_MAX_HOLD), EVENT_MAX_HOLD, MaxTick,
                  Late(pc', busy'))
        BY <1>3, <1>7, <3>3, <4>1, Lengths, SinceElapses
      <4>3. Since(age'[p], first', EVENT_MAX_HOLD, MaxTick, Late(pc', busy'))
        BY <3>1, <4>1, <4>2
      <4> QED
        BY <1>1, <3>3, <4>3 DEF Awaits
    <3> QED
      BY <2>2, <3>2, <3>3 DEF TInv, Awaits
  <2> QED
    BY <2>1, <2>2
<1> QED
  BY <1>4, <1>5, <1>6 DEF TInv

(* What is absorbed is held from now, or from when the hold began.         *)
LEMMA AbsorbWaits ==
  ASSUME TypeOK, TypeOK', TInv, Absorb
  PROVE  TInv'
<1>1. /\ pc = "wait" /\ pc' = "rescan"
      /\ dirty' = dirty \cup (events \cap Paths)
      /\ first' = IF events \cap Paths # {} /\ first = None THEN 0 ELSE first
      /\ requested' = (requested \/ "rescan" \in events)
      /\ UNCHANGED <<scan, busy, held, age, faults>>
  BY DEF Absorb, AddDirty, history, bounds
<1>2. faults \in Nat
  BY DEF TInv, Clocks
<1>3. /\ Late(pc, busy) = MaxTick /\ Late(pc', busy') = MaxTick + 1
  BY <1>1, Lateness
<1>4. ASSUME NEW p \in Paths, p \in dirty PROVE first' = first /\ first \in Nat /\ p \in dirty'
  BY <1>1, <1>4, Values DEF TInv, None
<1>5. Clocks'
  BY <1>1 DEF TInv, Clocks, None
<1>6. ASSUME NEW p \in Paths PROVE Answered(p)'
  <2>1. CASE held[p] = None
    BY <1>1, <2>1 DEF Answered
  <2>2. CASE HeldBack(p)
    <3>1. p \in dirty' /\ first' = first /\ first \in Nat
      BY <1>4, <2>2 DEF HeldBack
    <3>2. Since(held[p], first, EVENT_MAX_HOLD, HoldAfter(faults), Late(pc', busy'))
      BY <1>3, <2>2, <3>1, Values, Lengths, StillAwaits DEF TInv, HeldBack
    <3> QED
      BY <1>1, <3>1, <3>2 DEF Answered, HeldBack
  <2>3. CASE InChannel(p)
    <3>1. held[p] <= HoldAfter(faults)
      BY <1>1, <2>3, Values, Lengths DEF TInv, InChannel, Queued
    <3>2. CASE p \in events
      <4>1. p \in dirty' /\ first' \in Nat /\ first' <= EVENT_MAX_HOLD
        BY <1>1, <3>2, Values, Lengths DEF TInv, None
      <4>2. Since(held[p], first', EVENT_MAX_HOLD, HoldAfter(faults), Late(pc', busy'))
        BY <1>3, <3>1, <4>1, Values, Lengths, StillAwaits DEF TInv
      <4> QED
        BY <1>1, <4>1, <4>2 DEF Answered, HeldBack
    <3>3. CASE "rescan" \in events
      BY <1>1, <3>1, <3>3 DEF Answered, Asked
    <3> QED
      BY <2>3, <3>2, <3>3 DEF InChannel
  <2>4. CASE Asked(p)
    <3>1. /\ requested /\ faults > 0
          /\ held[p] <= EVENT_MAX_HOLD + HoldAfter(faults - 1) + MaxTick + Late(pc, busy)
      BY <1>1, <2>4 DEF Asked
    <3>2. HoldAfter(faults - 1) \in Nat
      BY <1>2, <3>1, Allows
    <3>3. held[p] <= EVENT_MAX_HOLD + HoldAfter(faults - 1) + MaxTick + Late(pc', busy')
      BY <1>3, <3>1, <3>2, Values, Lengths DEF TInv
    <3> QED
      BY <1>1, <3>1, <3>3 DEF Answered, Asked
  <2> QED
    BY <1>1, <2>1, <2>2, <2>3, <2>4 DEF TInv, Answered
<1>7. ASSUME NEW p \in Paths PROVE Awaits(p)'
  <2>1. CASE age[p] = None
    BY <1>1, <2>1 DEF Awaits
  <2>2. CASE Since(age[p], scan, RESCAN_INTERVAL, Missed(faults), Late(pc, busy))
    <3>1. Since(age[p], scan, RESCAN_INTERVAL, Missed(faults), Late(pc', busy'))
      BY <1>3, <2>2, Values, Lengths, StillAwaits DEF TInv
    <3> QED
      BY <1>1, <3>1 DEF Awaits
  <2>3. CASE /\ faults = 1 /\ p \in dirty
             /\ Since(age[p], first, EVENT_MAX_HOLD, MaxTick, Late(pc, busy))
    <3>1. p \in dirty' /\ first' = first /\ first \in Nat
      BY <1>4, <2>3
    <3>2. Since(age[p], first, EVENT_MAX_HOLD, MaxTick, Late(pc', busy'))
      BY <1>3, <2>3, <3>1, Values, Lengths, StillAwaits DEF TInv
    <3> QED
      BY <1>1, <2>3, <3>1, <3>2 DEF Awaits
  <2> QED
    BY <2>1, <2>2, <2>3 DEF TInv, Awaits
<1> QED
  BY <1>5, <1>6, <1>7 DEF TInv

(* A rescan finds everything.                                              *)
LEMMA RescanWaits ==
  ASSUME TypeOK, TypeOK', TInv, Rescan
  PROVE  TInv'
<1>1. /\ pc' = "dirty" /\ requested' = FALSE /\ scan' = 0
      /\ age' = [p \in Paths |-> None] /\ held' = [p \in Paths |-> None]
      /\ UNCHANGED <<dirty, first, faults>>
  BY DEF Rescan, LookAt, dirtyPaths, bounds
<1>2. Clocks'
  BY <1>1, Lengths DEF TInv, Clocks
<1>3. \A p \in Paths : Answered(p)' /\ Awaits(p)'
  BY <1>1 DEF Answered, Awaits
<1> QED
  BY <1>2, <1>3 DEF TInv

(* A look at the paths that are held: nothing is asked for at this point,  *)
(* so that what waits elsewhere is in the channel.                         *)
LEMMA ReconcileWaits ==
  ASSUME TypeOK, TypeOK', TInv, Reconcile
  PROVE  TInv'
<1>1. /\ pc = "dirty" /\ pc' = "tick" /\ dirty' = {} /\ first' = None
      /\ age' = [p \in Paths |-> IF p \in dirty THEN None ELSE age[p]]
      /\ held' = [p \in Paths |-> IF p \in dirty THEN None ELSE held[p]]
      /\ UNCHANGED <<scan, requested, events, busy, faults>>
  BY DEF Reconcile, TakeDirty, LookAt, scans, bounds
<1>2. Clocks'
  BY <1>1 DEF TInv, Clocks
<1>3. ASSUME NEW p \in Paths PROVE Answered(p)' /\ Awaits(p)'
  <2>1. CASE p \in dirty
    BY <1>1, <2>1 DEF Answered, Awaits
  <2>2. CASE p \notin dirty
    <3>1. held'[p] = held[p] /\ age'[p] = age[p]
      BY <1>1, <2>2
    <3>2. held[p] = None \/ InChannel(p)
      BY <1>1, <2>2 DEF TInv, Clocks, Answered, HeldBack, Asked
    <3>3. Answered(p)'
      <4>1. Queued(pc, busy) = 0 /\ Queued(pc', busy') = 0
        BY <1>1 DEF Queued
      <4> QED
        BY <1>1, <3>1, <3>2, <4>1 DEF Answered, InChannel
    <3>4. age[p] = None \/ Since(age[p], scan, RESCAN_INTERVAL, Missed(faults), Late(pc, busy))
      BY <2>2 DEF TInv, Awaits
    <3>5. Awaits(p)'
      <4>1. CASE age[p] = None
        BY <3>1, <4>1 DEF Awaits
      <4>2. CASE Since(age[p], scan, RESCAN_INTERVAL, Missed(faults), Late(pc, busy))
        <5>1. scan < RESCAN_INTERVAL
          BY <1>1 DEF TInv, Clocks
        <5>2. Since(age'[p], scan', RESCAN_INTERVAL, Missed(faults'), Late(pc', busy'))
          BY <1>1, <3>1, <4>2, <5>1 DEF Since
        <5> QED
          BY <5>2 DEF Awaits
      <4> QED
        BY <3>4, <4>1, <4>2
    <3> QED
      BY <3>3, <3>5
  <2> QED
    BY <2>1, <2>2
<1> QED
  BY <1>2, <1>3 DEF TInv

(* A failure, in terms of what it allows for. *)
LEMMA FaultAllows ==
  ASSUME Clocks, faults' = faults + 1
  PROVE  /\ faults \in Nat /\ faults' \in Nat /\ faults' > 0
         /\ HoldAfter(faults) \in Nat /\ HoldAfter(faults') \in Nat
         /\ HoldAfter(faults') >= HoldAfter(faults) + MaxTick
         /\ HoldAfter(faults' - 1) = HoldAfter(faults)
         /\ faults > 0 =>
              /\ HoldAfter(faults - 1) \in Nat
              /\ HoldAfter(faults') >= HoldAfter(faults - 1) + EVENT_MAX_HOLD + 3 * MaxTick + 1
              /\ Missed(faults') = Missed(faults) + RESCAN_INTERVAL + MaxTick
         /\ Missed(faults) \in Nat /\ Missed(faults') \in Nat /\ Missed(faults') >= Missed(faults)
         /\ faults = 0 => HoldAfter(faults) = MaxTick /\ Missed(faults') = MaxTick
<1>1. faults \in Nat /\ faults' \in Nat /\ faults' > 0 /\ faults' - 1 = faults
  BY DEF Clocks
<1>2. /\ HoldAfter(faults) \in Nat /\ HoldAfter(faults') >= HoldAfter(faults) + MaxTick
      /\ HoldAfter(0) = MaxTick
  BY <1>1, HoldCosts
<1>3. HoldAfter(faults') \in Nat
  BY <1>1, HoldCosts
<1>4. /\ Missed(faults) \in Nat /\ Missed(faults') >= Missed(faults) /\ Missed(1) = MaxTick
      /\ faults > 0 => Missed(faults') = Missed(faults) + RESCAN_INTERVAL + MaxTick
  BY <1>1, MissedCosts
<1>5. Missed(faults') \in Nat
  BY <1>1, MissedCosts
<1>6. faults > 0 =>
        /\ HoldAfter(faults - 1) \in Nat
        /\ HoldAfter(faults') >= HoldAfter(faults - 1) + EVENT_MAX_HOLD + 3 * MaxTick + 1
  <2> SUFFICES ASSUME faults > 0
               PROVE  /\ HoldAfter(faults - 1) \in Nat
                      /\ HoldAfter(faults') >= HoldAfter(faults - 1) + EVENT_MAX_HOLD + 3 * MaxTick + 1
    OBVIOUS
  <2> DEFINE k == faults - 1
  <2>1. k \in Nat /\ k + 2 = faults'
    BY <1>1
  <2> HIDE DEF k
  <2>2. HoldAfter(k) \in Nat /\ HoldAfter(k + 2) >= HoldAfter(k) + EVENT_MAX_HOLD + 3 * MaxTick + 1
    BY <2>1, HoldCosts
  <2> QED
    BY <2>1, <2>2 DEF k
<1>7. faults = 0 => faults' = 1
  BY <1>1
<1> QED
  BY <1>1, <1>2, <1>3, <1>4, <1>5, <1>6, <1>7

(* A look that fails asks for a rescan.                                    *)
LEMMA ReconcileFailsWaits ==
  ASSUME TypeOK, TypeOK', TInv, ReconcileFails
  PROVE  TInv'
<1>1. /\ pc = "dirty" /\ pc' = "tick" /\ dirty' = {} /\ first' = None /\ requested' = TRUE
      /\ faults' = faults + 1
      /\ UNCHANGED <<scan, events, busy, held, age>>
  BY DEF ReconcileFails, TakeDirty, Blame, history
<1>2. Clocks /\ ~requested /\ scan < RESCAN_INTERVAL
  BY <1>1 DEF TInv, Clocks
<1>3. /\ Late(pc, busy) = MaxTick + 1 /\ Late(pc', busy') = 0
      /\ Queued(pc, busy) = 0 /\ Queued(pc', busy') = 0
  BY <1>1, Lateness DEF Queued
<1>4. Clocks'
  BY <1>1, <1>2, FaultAllows DEF Clocks
<1>5. ASSUME NEW p \in Paths PROVE Answered(p)'
  <2>1. CASE held[p] = None
    BY <1>1, <2>1 DEF Answered
  <2>2. CASE HeldBack(p)
    <3>1. held[p] <= EVENT_MAX_HOLD + HoldAfter(faults) + MaxTick
      BY <1>2, <1>3, <2>2, Values, Lengths DEF HeldBack, Since
    <3>2. held[p] <= EVENT_MAX_HOLD + HoldAfter(faults' - 1) + MaxTick + Late(pc', busy')
      BY <1>1, <1>2, <1>3, <3>1, FaultAllows, Values, Lengths
    <3> QED
      BY <1>1, <1>2, <3>2, FaultAllows DEF Answered, Asked
  <2>3. CASE InChannel(p)
    <3>1. held[p] <= HoldAfter(faults') - MaxTick + Queued(pc', busy')
      BY <1>1, <1>2, <1>3, <2>3, FaultAllows, Values, Lengths DEF InChannel
    <3> QED
      BY <1>1, <2>3, <3>1 DEF Answered, InChannel
  <2> QED
    BY <1>1, <1>2, <2>1, <2>2, <2>3 DEF TInv, Answered, Asked
<1>6. ASSUME NEW p \in Paths PROVE Awaits(p)'
  <2>1. CASE age[p] = None
    BY <1>1, <2>1 DEF Awaits
  <2>2. CASE Since(age[p], scan, RESCAN_INTERVAL, Missed(faults), Late(pc, busy))
    <3>1. Since(age[p], scan, RESCAN_INTERVAL, Missed(faults'), Late(pc', busy'))
      BY <1>1, <1>2, <1>3, <2>2, FaultAllows, Values, Lengths, StillAwaits
    <3> QED
      BY <1>1, <3>1 DEF Awaits
  <2>3. CASE faults = 1
    <3>1. age[p] <= Missed(faults')
      BY <1>1, <1>2, <2>3, FaultAllows, AgeBound DEF TInv
    <3>2. Since(age[p], scan, RESCAN_INTERVAL, Missed(faults'), Late(pc', busy'))
      BY <1>1, <1>2, <1>3, <3>1, FaultAllows, Values, Lengths, StillAwaits
    <3> QED
      BY <1>1, <3>2 DEF Awaits
  <2> QED
    BY <2>1, <2>2, <2>3 DEF TInv, Awaits
<1> QED
  BY <1>4, <1>5, <1>6 DEF TInv

(* A rescan that fails leaves what is held and what is in the channel; what *)
(* it was asked for is answered by those from now.                         *)
LEMMA RescanFailsWaits ==
  ASSUME TypeOK, TypeOK', TInv, RescanFails
  PROVE  TInv'
<1>1. /\ pc = "rescan" /\ pc' = "dirty" /\ requested' = FALSE /\ scan' = 0
      /\ faults' = faults + 1
      /\ held' = [p \in Paths |-> IF p \in dirty \cup events \/ "rescan" \in events
                                  THEN held[p] ELSE None]
      /\ UNCHANGED <<dirty, first, events, busy, age>>
  BY DEF RescanFails, Blame, dirtyPaths
<1>2. Clocks
  BY DEF TInv
<1>3. /\ Late(pc, busy) = MaxTick + 1 /\ Late(pc', busy') = MaxTick + 1
      /\ Queued(pc, busy) = 0 /\ Queued(pc', busy') = 0
  BY <1>1, Lateness DEF Queued
<1>4. Clocks'
  BY <1>1, <1>2, FaultAllows, Lengths DEF Clocks
<1>5. ASSUME NEW p \in Paths PROVE Answered(p)'
  <2>1. CASE held'[p] = None
    BY <2>1 DEF Answered
  <2>2. CASE held'[p] # None
    <3>1. /\ held'[p] = held[p] /\ held[p] # None
          /\ p \in dirty \cup events \/ "rescan" \in events
      BY <1>1, <2>2
    <3>2. CASE HeldBack(p)
      <4>1. first \in Nat
        BY <1>2, <3>2, Values DEF HeldBack
      <4>2. Since(held[p], first, EVENT_MAX_HOLD, HoldAfter(faults'), Late(pc', busy'))
        BY <1>1, <1>2, <1>3, <3>2, <4>1, FaultAllows, Values, Lengths, StillAwaits DEF HeldBack
      <4> QED
        BY <1>1, <3>1, <3>2, <4>2 DEF Answered, HeldBack
    <3>3. CASE InChannel(p)
      <4>1. held[p] <= HoldAfter(faults') - MaxTick + Queued(pc', busy')
        BY <1>1, <1>2, <1>3, <3>3, FaultAllows, Values, Lengths DEF InChannel
      <4> QED
        BY <1>1, <3>1, <3>3, <4>1 DEF Answered, InChannel
    <3>4. CASE Asked(p)
      <4>1. \/ held[p] <= HoldAfter(faults)
            \/ /\ faults > 0
               /\ held[p] <= EVENT_MAX_HOLD + HoldAfter(faults - 1) + MaxTick + Late(pc, busy)
        BY <1>1, <3>4 DEF Asked
      <4>2. held[p] <= HoldAfter(faults') - MaxTick
        BY <1>1, <1>2, <1>3, <4>1, FaultAllows, Values, Lengths
      <4>3. CASE p \in dirty
        <5>1. first \in Nat
          BY <1>2, <4>3, Values
        <5>2. held[p] <= HoldAfter(faults')
          BY <1>1, <1>2, <4>2, FaultAllows, Values, Lengths
        <5>3. Since(held[p], first, EVENT_MAX_HOLD, HoldAfter(faults'), Late(pc', busy'))
          BY <1>1, <1>2, <1>3, <5>1, <5>2, FaultAllows, Values, Lengths, StillAwaits
        <5> QED
          BY <1>1, <3>1, <4>3, <5>3 DEF Answered, HeldBack
      <4>4. CASE p \in events \/ "rescan" \in events
        <5>1. held[p] <= HoldAfter(faults') - MaxTick + Queued(pc', busy')
          BY <1>1, <1>2, <1>3, <4>2, FaultAllows, Values, Lengths
        <5> QED
          BY <1>1, <3>1, <4>4, <5>1 DEF Answered, InChannel
      <4> QED
        BY <3>1, <4>3, <4>4
    <3> QED
      BY <1>1, <3>1, <3>2, <3>3, <3>4 DEF TInv, Answered
  <2> QED
    BY <2>1, <2>2
<1>6. ASSUME NEW p \in Paths PROVE Awaits(p)'
  <2>1. CASE age[p] = None
    BY <1>1, <2>1 DEF Awaits
  <2>2. CASE age[p] <= Missed(faults')
    <3>1. Since(age[p], 0, RESCAN_INTERVAL, Missed(faults'), Late(pc', busy'))
      BY <1>1, <1>2, <2>2, FaultAllows, Values, Lengths DEF Since
    <3> QED
      BY <1>1, <3>1 DEF Awaits
  <2>3. CASE faults > 0
    <3>1. age[p] <= Missed(faults')
      BY <1>1, <1>2, <2>3, FaultAllows, AgeBound DEF TInv
    <3> QED
      BY <2>2, <3>1
  <2>4. CASE faults = 0 /\ age[p] # None
    <3>1. held[p] = age[p] /\ HoldAfter(faults) = MaxTick /\ Missed(faults') = MaxTick
      BY <1>1, <1>2, <2>4, FaultAllows DEF Clocks
    <3>2. CASE HeldBack(p)
      <4>1. Since(age[p], first, EVENT_MAX_HOLD, MaxTick, Late(pc', busy'))
        BY <1>3, <3>1, <3>2 DEF HeldBack
      <4> QED
        BY <1>1, <2>4, <3>2, <4>1 DEF Awaits, HeldBack
    <3>3. CASE InChannel(p)
      <4>1. held[p] \in Int /\ held[p] <= MaxTick - MaxTick + 0
        BY <1>2, <1>3, <3>1, <3>3, Values DEF InChannel
      <4>2. age[p] <= Missed(faults')
        BY <3>1, <4>1, Lengths
      <4> QED
        BY <2>2, <4>2
    <3>4. CASE Asked(p)
      <4>1. age[p] <= Missed(faults')
        BY <2>4, <3>1, <3>4 DEF Asked
      <4> QED
        BY <2>2, <4>1
    <3> QED
      BY <1>1, <2>4, <3>1, <3>2, <3>3, <3>4 DEF TInv, Answered
  <2> QED
    BY <1>2, <2>1, <2>3, <2>4 DEF Clocks
<1> QED
  BY <1>4, <1>5, <1>6 DEF TInv

(* Obsidian has closed; the rebaseline covers every change.                *)
LEMMA ResumeWaits ==
  ASSUME TypeOK, TypeOK', TInv, Resume
  PROVE  TInv'
<1>1. /\ pc = "paused" /\ pc' = "rebaseline" /\ scan' \in {scan, RESCAN_INTERVAL}
      /\ UNCHANGED <<dirty, first, requested, busy, held, age, faults>>
  BY DEF Resume, dirtyPaths, history, bounds
<1>2. Late(pc, busy) = MaxTick + 1 /\ Late(pc', busy') = MaxTick + 1
  BY <1>1, Lateness
<1>3. Clocks'
  BY <1>1 DEF TInv, Clocks
<1>4. ASSUME NEW p \in Paths PROVE Answered(p)'
  <2>1. held'[p] <= LongestHold(faults')
    BY <1>1, HeldBound DEF TInv
  <2> QED
    BY <1>1, <2>1 DEF Answered
<1>5. ASSUME NEW p \in Paths PROVE Awaits(p)'
  <2>1. CASE age[p] = None
    BY <1>1, <2>1 DEF Awaits
  <2>2. CASE Since(age[p], scan, RESCAN_INTERVAL, Missed(faults), Late(pc, busy))
    <3>1. Since(age[p], scan', RESCAN_INTERVAL, Missed(faults), Late(pc', busy'))
      BY <1>1, <1>2, <2>2, Values, Lengths DEF TInv, Since
    <3> QED
      BY <1>1, <3>1 DEF Awaits
  <2>3. CASE /\ faults = 1 /\ p \in dirty
             /\ Since(age[p], first, EVENT_MAX_HOLD, MaxTick, Late(pc, busy))
    BY <1>1, <1>2, <2>3 DEF Awaits
  <2> QED
    BY <2>1, <2>2, <2>3 DEF TInv, Awaits
<1> QED
  BY <1>3, <1>4, <1>5 DEF TInv

(* The rebaseline adopts everything.                                       *)
LEMMA RebaselineWaits ==
  ASSUME TypeOK, TypeOK', TInv, Rebaseline
  PROVE  TInv'
<1>1. /\ pc' = "resumed"
      /\ age' = [p \in Paths |-> None] /\ held' = [p \in Paths |-> None]
      /\ UNCHANGED <<dirty, first, scan, requested, faults>>
  BY DEF Rebaseline, dirtyPaths, scans, bounds
<1>2. Clocks'
  BY <1>1 DEF TInv, Clocks
<1>3. \A p \in Paths : Answered(p)' /\ Awaits(p)'
  BY <1>1 DEF Answered, Awaits
<1> QED
  BY <1>2, <1>3 DEF TInv

(* What was held before Obsidian ran is dropped: nothing waits in it.      *)
LEMMA ResumedWaits ==
  ASSUME TypeOK, TypeOK', TInv, Resumed
  PROVE  TInv'
<1>1. /\ pc = "resumed" /\ pc' = "wait" /\ dirty' = {} /\ requested' = FALSE
      /\ UNCHANGED <<scan, events, busy, held, age, faults>>
  BY DEF Resumed, TakeDirty, history, bounds
<1>2. /\ Late(pc, busy) = 0 /\ Late(pc', busy') = MaxTick
      /\ Queued(pc, busy) = 0 /\ Queued(pc', busy') = MaxTick
  BY <1>1, Lateness DEF Queued
<1>3. Clocks'
  BY <1>1 DEF TInv, Clocks
<1>4. ASSUME NEW p \in Paths PROVE Answered(p)'
  <2>1. held[p] = None \/ InChannel(p)
    BY <1>1 DEF TInv, Answered, HeldBack, Asked
  <2>2. CASE held[p] = None
    BY <1>1, <2>2 DEF Answered
  <2>3. CASE InChannel(p)
    <3>1. held[p] <= HoldAfter(faults) - MaxTick + Queued(pc', busy')
      BY <1>2, <2>3, Values, Lengths DEF TInv, InChannel
    <3> QED
      BY <1>1, <2>3, <3>1 DEF Answered, InChannel
  <2> QED
    BY <2>1, <2>2, <2>3
<1>5. ASSUME NEW p \in Paths PROVE Awaits(p)'
  <2>1. CASE age[p] = None
    BY <1>1, <2>1 DEF Awaits
  <2>2. CASE Since(age[p], scan, RESCAN_INTERVAL, Missed(faults), Late(pc, busy))
    <3>1. Since(age[p], scan, RESCAN_INTERVAL, Missed(faults), Late(pc', busy'))
      BY <1>2, <2>2, Values, Lengths, StillAwaits DEF TInv
    <3> QED
      BY <1>1, <3>1 DEF Awaits
  <2> QED
    BY <1>1, <2>1, <2>2 DEF TInv, Awaits
<1> QED
  BY <1>3, <1>4, <1>5 DEF TInv

(* Every step of the daemon keeps the bounds of every wait.                *)
LEMMA StepWaits ==
  ASSUME TypeOK, TypeOK', TInv, [Next]_vars
  PROVE  TInv'
<1>1. CASE Rescan
  BY <1>1, RescanWaits
<1>2. CASE Reconcile
  BY <1>2, ReconcileWaits
<1>3. CASE ReconcileFails
  BY <1>3, ReconcileFailsWaits
<1>4. CASE RescanFails
  BY <1>4, RescanFailsWaits
<1>5. CASE Resume \/ Rebaseline \/ Resumed
  BY <1>5, ResumeWaits, RebaselineWaits, ResumedWaits
<1>6. CASE Absorb \/ Elapse
  BY <1>6, AbsorbWaits, ElapseWaits
<1>7. ASSUME NEW p \in Paths, Change(p) PROVE TInv'
  BY <1>7, ChangeWaits
<1>8. ASSUME NEW p \in Paths, OwnWrite(p) PROVE TInv'
  <2>1. Moves /\ UNCHANGED <<held, age, dirty, first, requested, scan, faults, pc>> /\ events \subseteq events'
    BY <1>8 DEF OwnWrite, Moves, dirtyPaths, scans, history, bounds
  <2> QED
    BY <2>1, KeepsWaits
<1>9. CASE NoRescan
  <2>1. /\ Moves /\ UNCHANGED <<held, age, dirty, first, requested, scan, faults, events>>
        /\ ~RescanNow
    BY <1>9 DEF NoRescan, RescanNow, Moves, dirtyPaths, scans, history, bounds
  <2>2. scan < RESCAN_INTERVAL
    BY <2>1, Lengths DEF RescanNow, TypeOK
  <2> QED
    BY <2>1, <2>2, KeepsWaits
<1>10. CASE NotReady
  <2>1. /\ pc = "dirty" /\ pc' = "tick" /\ busy' = busy /\ ~Ready
        /\ UNCHANGED <<held, age, dirty, first, requested, scan, faults, events>>
    BY <1>10 DEF NotReady, dirtyPaths, scans, history, bounds
  <2>2. dirty = {} \/ first < EVENT_MAX_HOLD
    <3>1. first \in None .. EVENT_MAX_HOLD
      BY DEF TypeOK
    <3> QED
      BY <2>1, <3>1, Lengths DEF Ready, None
  <2> QED
    BY <2>1, <2>2, KeepsWaits DEF Moves
<1>11. CASE StartTick \/ NotDue \/ (\E ok \in BOOLEAN : EndTick(ok)) \/ Pause \/ UNCHANGED vars
  <2>1. /\ Moves /\ UNCHANGED <<held, age, dirty, first, requested, scan, faults, events>>
        /\ ~(pc = "rescan" /\ pc' = "dirty")
    BY <1>11 DEF StartTick, NotDue, EndTick, Pause, Moves, vars, dirtyPaths, scans, history, bounds
  <2> QED
    BY <2>1, KeepsWaits
<1> QED
  BY <1>1, <1>2, <1>3, <1>4, <1>5, <1>6, <1>7, <1>8, <1>9, <1>10, <1>11 DEF Next, Round

(* Nothing waits when the daemon starts.                                   *)
LEMMA InitWaits == Init => TInv
BY Lengths DEF Init, TInv, Clocks, Answered, Awaits, None

(* "A constantly changing file is not held forever": a reported change is  *)
(* looked at within the hold and two ticks, and within a known time more   *)
(* for every look and rescan that failed, whatever else changes.           *)
THEOREM LookedAtInTimeHolds == Spec => []LookedAtInTime
<1>1. TypeOK /\ TInv => LookedAtInTime
  BY HeldBound DEF TInv, LookedAtInTime
<1>2. TInv /\ TypeOK /\ TypeOK' /\ [Next]_vars => TInv'
  BY StepWaits
<1> QED
  BY <1>1, <1>2, InitWaits, TypeCorrect, PTL DEF Spec

(* Also a change nobody reported is found by a rescan, one interval later  *)
(* for every rescan that failed.                                           *)
THEOREM FoundInTimeHolds == Spec => []FoundInTime
<1>1. TypeOK /\ TInv => FoundInTime
  <2> SUFFICES ASSUME TypeOK, TInv, NEW p \in Paths
               PROVE  age[p] <= MaxTick + Most(faults, 1) * (RESCAN_INTERVAL + MaxTick)
    BY DEF FoundInTime, Unseen
  <2>1. age[p] <= Missed(faults) + RESCAN_INTERVAL + MaxTick
    BY AgeBound DEF TInv
  <2>2. faults \in Nat
    BY DEF TInv, Clocks
  <2> DEFINE bound == MaxTick + Most(faults, 1) * (RESCAN_INTERVAL + MaxTick)
  <2>3. bound \in Int
    BY <2>2, Lengths DEF Most
  <2>4. bound >= Missed(faults) + RESCAN_INTERVAL + MaxTick
    BY <2>2, MissedCosts
  <2> HIDE DEF bound
  <2>5. age[p] <= bound
    BY <2>1, <2>3, <2>4, Values, Lengths DEF TInv
  <2> QED
    BY <2>5 DEF bound
<1>2. TInv /\ TypeOK /\ TypeOK' /\ [Next]_vars => TInv'
  BY StepWaits
<1> QED
  BY <1>1, <1>2, InitWaits, TypeCorrect, PTL DEF Spec
=============================================================================
