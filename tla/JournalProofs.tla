--------------------------- MODULE JournalProofs ---------------------------
(***************************************************************************)
(* Theorems about Journal, for every set of lines and any number of        *)
(* crashes: the inductive invariant, what readers get, and the refinement  *)
(* of DurableLog.                                                          *)
(***************************************************************************)
EXTENDS Journal, SequenceTheorems, TLAPS

(* A sequence without one of its items is one, and has all the others. *)
LEMMA RemoveAtType ==
  ASSUME NEW S, NEW s \in Seq(S), NEW i \in DOMAIN s
  PROVE  RemoveAt(s, i) \in Seq(S)
<1>1. i \in 1 .. Len(s) /\ Len(s) \in Nat
  OBVIOUS
<1>2. SubSeq(s, 1, i - 1) \in Seq(S) /\ SubSeq(s, i + 1, Len(s)) \in Seq(S)
  BY <1>1, SubSeqProperties
<1> QED
  BY <1>2 DEF RemoveAt

(* Removing one line of a journal keeps the others. *)
LEMMA RemoveAtKeeps ==
  ASSUME NEW S, NEW s \in Seq(S), NEW i \in DOMAIN s, NEW j \in DOMAIN s, j # i
  PROVE  s[j] \in ToSet(RemoveAt(s, i))
<1> DEFINE l == SubSeq(s, 1, i - 1)
           r == SubSeq(s, i + 1, Len(s))
<1>1. i \in 1 .. Len(s) /\ j \in 1 .. Len(s) /\ Len(s) \in Nat
  OBVIOUS
<1>2. /\ l \in Seq(S) /\ Len(l) = i - 1 /\ \A k \in 1 .. i - 1 : l[k] = s[k]
      /\ r \in Seq(S) /\ Len(r) = Len(s) - i /\ \A k \in 1 .. Len(s) - i : r[k] = s[i + k]
  BY <1>1
<1>3. CASE j < i
  <2>1. j \in DOMAIN (l \o r) /\ (l \o r)[j] = s[j]
    BY <1>1, <1>2, <1>3
  <2> QED
    BY <2>1 DEF RemoveAt, ToSet
<1>4. CASE j > i
  <2> HIDE DEF l, r
  <2>1. j - i \in 1 .. Len(s) - i /\ i + (j - i) = j
    BY <1>1, <1>4
  <2>2. r[j - i] = s[j]
    BY <1>2, <2>1
  <2>3. j - 1 \in DOMAIN (l \o r) /\ (l \o r)[j - 1] = r[j - i]
    BY <1>1, <1>2, <1>4
  <2> QED
    BY <2>2, <2>3 DEF RemoveAt, ToSet, l, r
<1> QED
  BY <1>1, <1>3, <1>4

(* Appending to a journal keeps its lines and adds one. *)
LEMMA AppendKeeps ==
  ASSUME NEW S, NEW s \in Seq(S), NEW x \in S
  PROVE  /\ Append(s, x) \in Seq(S)
         /\ ToSet(Append(s, x)) = ToSet(s) \cup {x}
<1>1. /\ Append(s, x) \in Seq(S) /\ DOMAIN Append(s, x) = 1 .. Len(s) + 1
      /\ \A k \in 1 .. Len(s) : Append(s, x)[k] = s[k]
      /\ Append(s, x)[Len(s) + 1] = x /\ DOMAIN s = 1 .. Len(s) /\ Len(s) \in Nat
  OBVIOUS
<1> QED
  BY <1>1 DEF ToSet

(* A journal without its last line is a journal. *)
LEMMA FrontType ==
  ASSUME NEW S, NEW s \in Seq(S)
  PROVE  Front(s) \in Seq(S)
<1>1. Len(s) \in Nat /\ \A i \in 1 .. Len(s) - 1 : s[i] \in S
  OBVIOUS
<1> QED
  BY <1>1, SubSeqProperties DEF Front

(* What a reader gets is a text, whichever name it is under. *)
LEMMA VisibleType ==
  ASSUME NEW f \in FileOrNone, NEW b \in FileOrNone
  PROVE  Visible(f, b) \in Text /\ Visible(f, b).lines \in Seq(Items)
BY DEF FileOrNone, Visible, Whole, Text

(* An append to a whole or a torn text is a text. *)
LEMMA ExtendedType ==
  ASSUME NEW t \in Text, NEW x \in Items
  PROVE  Glued(t) \in Text /\ Extended(t, x) \in Text
<1>1. t.lines \in Seq(Items) /\ Front(t.lines) \in Seq(Items) /\ Append(t.lines, x) \in Seq(Items)
  BY FrontType, AppendKeeps DEF Text
<1> QED
  BY <1>1 DEF Glued, Extended, Whole, Text

(* recover_journal changes nothing a reader sees. *)
LEMMA RecoverVisible ==
  ASSUME TypeOK, Recovered
  PROVE  /\ file' \in FileOrNone /\ bak' \in FileOrNone
         /\ Visible(file', bak') = Current
BY DEF TypeOK, Recovered, Visible, Current
-----------------------------------------------------------------------------
(* The types hold at the start. *)
LEMMA InitType == Init => TypeOK
<1> USE DEF names
<1>1. Init => crashes \in Nat /\ job \in Seq(Items) /\ synced \in FileOrNone \X FileOrNone
  BY DEF Init, FileOrNone
<1> QED
  BY <1>1 DEF Init, TypeOK, FileOrNone

(* All variables of Journal keep their types. *)
THEOREM TypeCorrect == Spec => []TypeOK
<1>1. Init => TypeOK
  BY InitType
<1>2. TypeOK /\ [Next]_vars => TypeOK'
  <2> SUFFICES ASSUME TypeOK, [Next]_vars PROVE TypeOK'
    OBVIOUS
  <2> USE DEF TypeOK, names
  <2>1. Current \in Text /\ Current.lines \in Seq(Items)
    BY VisibleType DEF Current
  <2>2. CASE UNCHANGED vars
    BY <2>2 DEF vars, disk
  <2>3. ASSUME NEW who \in {"client", "plugin"}, Open(who) PROVE TypeOK'
    BY <2>3 DEF Open, disk
  <2>4. CASE ReadWhole
    BY <2>4, RecoverVisible DEF ReadWhole
  <2>5. CASE ReadTorn
    BY <2>5, <2>1, RecoverVisible DEF ReadTorn
  <2>6. CASE Quarantine
    <3>1. quarantined' \in BOOLEAN
      BY <2>6 DEF Quarantine
    <3>2. UNCHANGED <<disk, names, owner, job, adding, used, acked, cut, crashes>> /\ pc' = "write"
      BY <2>6 DEF Quarantine
    <3> QED
      BY <3>1, <3>2 DEF disk
  <2>7. ASSUME NEW x \in Items, Adds(x) \/ PluginAdds(x) PROVE TypeOK'
    <3>1. file' \in FileOrNone /\ bak' \in FileOrNone
      BY <2>7, <2>1, ExtendedType DEF Adds, PluginAdds, FileOrNone
    <3>2. CASE Adds(x)
      BY <2>1, <3>1, <3>2 DEF Adds
    <3>3. CASE PluginAdds(x)
      BY <3>1, <3>3 DEF PluginAdds
    <3> QED
      BY <2>7, <3>2, <3>3
  <2>8. CASE Added \/ AddFails
    <3>1. ASSUME Added PROVE synced' \in FileOrNone \X FileOrNone
      BY <3>1 DEF Added
    <3>2. CASE Added
      BY <3>1, <3>2 DEF Added
    <3>3. CASE AddFails
      BY <3>3 DEF AddFails, disk
    <3> QED
      BY <2>8, <3>2, <3>3
  <2>9. CASE AddsPiece
    <3>1. Glued(Current) \in Text
      BY <2>1, FrontType DEF Glued, Text
    <3>2. file' \in Text
      BY <2>9, <2>1, <3>1 DEF AddsPiece, Text
    <3> QED
      BY <2>9, <3>2 DEF AddsPiece, FileOrNone
  <2>10. ASSUME NEW i \in DOMAIN Current.lines, Handled(i) PROVE TypeOK'
    <3>1. RemoveAt(Current.lines, i) \in Seq(Items)
      BY <2>1, RemoveAtType
    <3> QED
      BY <2>10, <3>1 DEF Handled, disk
  <2>11. CASE WriteTmp
    BY <2>11 DEF WriteTmp, FileOrNone, Whole, Text
  <2>12. CASE PluginBacksUp
    BY <2>12 DEF PluginBacksUp, FileOrNone
  <2>19. ASSUME OnDisk
          PROVE  synced' \in FileOrNone \X FileOrNone /\ named' \in BOOLEAN /\ unnamed' \subseteq Items
    BY <2>19 DEF OnDisk
  <2>13. CASE Rename \/ RemoveBackup \/ Sync
    <3>1. CASE Rename
      BY <3>1 DEF Rename, FileOrNone
    <3>2. CASE RemoveBackup
      BY <3>2 DEF RemoveBackup, FileOrNone
    <3>3. CASE Sync
      BY <2>19, <3>3 DEF Sync
    <3> QED
      BY <2>13, <3>1, <3>2, <3>3
  <2>14. ASSUME NEW f \in FileOrNone, NEW b \in FileOrNone, LosePower(f, b), cut' \in BOOLEAN
         PROVE  TypeOK'
    BY <2>14 DEF LosePower
  <2>15. CASE PowerLoss
    <3>1. /\ synced[1] \in FileOrNone /\ synced[2] \in FileOrNone
          /\ \A t \in {"none", "part"} : [lines |-> job, tail |-> t] \in FileOrNone
      BY DEF Text, FileOrNone
    <3> QED
      BY <2>15, <3>1, <2>14 DEF PowerLoss
  <2>16. CASE PowerLossBeforeNewline
    <3>1. [Current EXCEPT !.tail = "open"] \in FileOrNone
      BY <2>1 DEF Text, FileOrNone
    <3> QED
      BY <2>16, <3>1, <2>14 DEF PowerLossBeforeNewline
  <2>17. CASE WriteFails
    BY <2>17 DEF WriteFails, disk
  <2>18. CASE PluginDies \/ Close
    <3>1. synced' \in FileOrNone \X FileOrNone /\ named' \in BOOLEAN /\ unnamed' \subseteq Items
      BY <2>19, <2>18 DEF PluginDies, Close
    <3>2. /\ UNCHANGED <<file, bak, tmp, job, adding, used, acked, quarantined, cut>>
          /\ owner' = "nobody" /\ pc' = "start" /\ crashes' \in Nat
      BY <2>18 DEF PluginDies, Close
    <3> QED
      BY <3>1, <3>2
  <2> QED
    BY <2>2, <2>3, <2>4, <2>5, <2>6, <2>7, <2>8, <2>9, <2>10, <2>11, <2>12, <2>13, <2>15, <2>16,
       <2>17, <2>18 DEF Next
<1> QED
  BY <1>1, <1>2, PTL DEF Spec
-----------------------------------------------------------------------------
(* What a step does to the lines a reader gets and to what a power loss    *)
(* falls back to decides the rest of the invariant.                        *)

(* The rest of the invariant holds at the start. *)
LEMMA InitInvariant == Init => Owned /\ WellFormed /\ InFlight /\ Kept
BY DEF Init, names, Owned, WellFormed, InFlight, Kept, SafeLines, Current, Visible, Whole, ToSet

(* Every step keeps it, for as long as nothing has been cut off. *)
LEMMA StepInvariant ==
  ASSUME TypeOK, TypeOK', Owned, ~cut => WellFormed /\ InFlight /\ Kept, Next
  PROVE  Owned' /\ (~cut' => (WellFormed /\ InFlight /\ Kept)')
<1>1. Owned'
  <2> USE DEF Owned
  <2>1. ASSUME NEW who \in {"client", "plugin"}, Open(who) PROVE Owned'
    BY <2>1 DEF Open
  <2>2. ASSUME NEW x \in Items, Adds(x) \/ PluginAdds(x) PROVE Owned'
    BY <2>2 DEF Adds, PluginAdds
  <2>3. ASSUME NEW i \in DOMAIN Current.lines, Handled(i) PROVE Owned'
    BY <2>3 DEF Handled
  <2>4. CASE ReadWhole \/ ReadTorn \/ Quarantine \/ Added \/ AddFails \/ AddsPiece
    BY <2>4 DEF ReadWhole, ReadTorn, Quarantine, Added, AddFails, AddsPiece
  <2>5. CASE WriteTmp \/ PluginBacksUp \/ Rename \/ RemoveBackup \/ Sync
    BY <2>5 DEF WriteTmp, PluginBacksUp, Rename, RemoveBackup, Sync
  <2>6. CASE PowerLoss \/ PowerLossBeforeNewline \/ WriteFails \/ PluginDies \/ Close
    BY <2>6 DEF PowerLoss, PowerLossBeforeNewline, LosePower, WriteFails, PluginDies, Close
  <2> QED
    BY <2>1, <2>2, <2>3, <2>4, <2>5, <2>6 DEF Next
<1>2. SUFFICES ASSUME ~cut' PROVE (WellFormed /\ InFlight /\ Kept)'
  BY <1>1
<1> DEFINE Good == WellFormed /\ InFlight /\ Kept
<1> USE DEF names
<1>3. Current \in Text /\ Current.lines \in Seq(Items) /\ SafeLines \in Seq(Items)
  BY VisibleType DEF TypeOK, Current, SafeLines
<1>4. ASSUME Current' = Current, synced' = synced, acked' = acked, used' = used, UNCHANGED names, Good,
             pc' \in {"start", "ready", "quarantine"}, owner' = owner,
             pc \in {"start", "ready"},
             pc' = "ready" => Current.tail = "none", pc' = "quarantine" => job' = Current.lines
      PROVE  Good'
  BY <1>4 DEF WellFormed, InFlight, Kept, SafeLines
<1> HIDE DEF Good
<1>5. ASSUME NEW who \in {"client", "plugin"}, Open(who) PROVE Good'
  <2>1. Good /\ pc = "start"
    BY <1>2, <1>5 DEF Open, Good, Owned
  <2> QED
    BY <1>5, <2>1 DEF Open, disk, Good, WellFormed, InFlight, Kept, SafeLines, Current, Visible
<1>6. CASE ReadWhole
  <2>1. Good
    BY <1>2, <1>6 DEF ReadWhole, Good
  <2>2. Current' = Current
    BY <1>6, RecoverVisible DEF ReadWhole, Current
  <2> QED
    BY <1>4, <1>6, <2>1, <2>2 DEF ReadWhole, Good, WellFormed
<1>7. CASE ReadTorn
  <2>1. Good
    BY <1>2, <1>7 DEF ReadTorn, Good
  <2>2. Current' = Current
    BY <1>7, RecoverVisible DEF ReadTorn, Current
  <2> QED
    <3>1. /\ synced' = synced /\ acked' = acked /\ owner' = owner /\ UNCHANGED <<names, used>>
          /\ pc \in {"start", "ready"} /\ pc' = "quarantine" /\ job' = Current.lines
      BY <1>7 DEF ReadTorn
    <3> QED
      BY <2>1, <2>2, <3>1 DEF Good, WellFormed, InFlight, Kept, SafeLines
<1>8. CASE Quarantine
  <2>1. Good /\ pc = "quarantine" /\ pc' = "write" /\ UNCHANGED <<disk, names, owner, job, used, acked>>
    BY <1>2, <1>8 DEF Quarantine, Good
  <2> QED
    BY <2>1 DEF disk, Good, WellFormed, InFlight, Kept, SafeLines, Current, Visible
<1>9. ASSUME NEW x \in Items, Adds(x) PROVE Good'
  <2>1. Good /\ owner = "client" /\ pc = "ready"
    BY <1>2, <1>9 DEF Adds, Good
  <2>2. Current.tail = "none" /\ (named => SafeLines = Current.lines)
    BY <2>1 DEF Good, WellFormed, InFlight
  <2>3. file' = Whole(Append(Current.lines, x)) /\ file' # Absent
    <3>1. file' = Whole(Append(Current.lines, x))
      BY <1>9, <2>2 DEF Adds, Extended
    <3>2. Append(Current.lines, x) \in Seq(Items)
      BY <1>3, AppendKeeps
    <3>3. Whole(Append(Current.lines, x)) \in Text
      BY <3>2 DEF Whole, Text
    <3> QED
      BY <3>1, <3>3, JournalConstants
  <2>4. Current' = Whole(Append(Current.lines, x)) /\ SafeLines' = SafeLines
    BY <1>9, <2>3 DEF Adds, Current, Visible, SafeLines
  <2>5. /\ Current'.lines = Append(Current.lines, x) /\ Current'.tail = "none"
        /\ ToSet(Current'.lines) = ToSet(Current.lines) \cup {x}
    BY <1>3, <2>4, AppendKeeps DEF Whole
  <2>6. /\ named' => named
        /\ job' = Current.lines /\ adding' = x /\ used' = used \cup {x} /\ x \notin used
        /\ UNCHANGED <<acked, unnamed, owner, synced>> /\ pc' = "fsync"
    BY <1>9 DEF Adds
  <2>7. WellFormed'
    BY <2>1, <2>3, <2>5, <2>6 DEF Good, WellFormed
  <2>8. InFlight'
    BY <2>1, <2>2, <2>4, <2>5, <2>6 DEF Good, InFlight, Kept
  <2>9. Kept'
    BY <2>1, <2>4, <2>5, <2>6 DEF Good, Kept
  <2> QED
    BY <2>7, <2>8, <2>9 DEF Good
<1>10. CASE Added
  <2>1. Good /\ pc = "fsync" /\ owner = "client"
    BY <1>2, <1>10 DEF Added, Good, Owned
  <2>2. Current' = Current /\ file # Absent
    BY <1>10, <2>1 DEF Added, Current, Good, WellFormed
  <2>3. Current.lines = Append(job, adding) /\ adding \in Items /\ job \in Seq(Items)
    BY <2>1 DEF Good, InFlight, TypeOK
  <2>4. adding \in ToSet(Current.lines)
    BY <1>3, <2>3, AppendKeeps
  <2>5. acked' = acked \cup {adding} /\ pc' = "ready" /\ UNCHANGED <<owner, used, named>>
    BY <1>10 DEF Added
  <2>6. CASE named
    <3>1. Visible(synced[1], synced[2])' = Current /\ unnamed' = unnamed
      BY <1>10, <2>2, <2>6 DEF Added, Current, Visible
    <3> QED
      BY <2>1, <2>2, <2>4, <2>5, <3>1 DEF Good, WellFormed, InFlight, Kept, SafeLines
  <2>7. CASE ~named
    <3>1. synced' = synced /\ unnamed' = unnamed \cup {adding}
      BY <1>10, <2>7 DEF Added
    <3> QED
      BY <2>1, <2>2, <2>4, <2>5, <2>7, <3>1 DEF Good, WellFormed, InFlight, Kept, SafeLines
  <2> QED
    BY <2>6, <2>7
<1>11. CASE AddsPiece \/ AddFails
  BY <1>2, <1>11 DEF AddsPiece, AddFails
<1>12. ASSUME NEW x \in Items, PluginAdds(x) PROVE Good'
  <2>1. Good /\ owner = "plugin" /\ pc = "ready" /\ owner' = owner /\ pc' = pc
    BY <1>2, <1>12 DEF PluginAdds, Good
  <2>2. Current.tail = "none"
    BY <2>1 DEF Good, WellFormed
  <2>3. file' = Whole(Append(Current.lines, x)) /\ synced' = synced
    BY <1>12, <2>2 DEF PluginAdds, Extended
  <2>4. Append(Current.lines, x) \in Seq(Items)
    BY <1>3, AppendKeeps
  <2>5. file' # Absent
    <3>1. Whole(Append(Current.lines, x)) \in Text
      BY <2>4 DEF Whole, Text
    <3> QED
      BY <2>3, <3>1, JournalConstants
  <2>6. Current' = Whole(Append(Current.lines, x))
        /\ Visible(synced[1], synced[2])' = Visible(synced[1], synced[2])
    BY <2>3, <2>5 DEF Current, Visible
  <2>7. /\ Current'.lines = Append(Current.lines, x) /\ Current'.tail = "none"
        /\ ToSet(Current'.lines) = ToSet(Current.lines) \cup {x}
    BY <1>3, <2>6, AppendKeeps DEF Whole
  <2>8. acked' = acked \cup {x} /\ used' = used \cup {x} /\ UNCHANGED names
    BY <1>12 DEF PluginAdds
  <2> QED
    BY <2>1, <2>6, <2>7, <2>8 DEF Good, WellFormed, InFlight, Kept
<1>13. ASSUME NEW i \in DOMAIN Current.lines, Handled(i) PROVE Good'
  <2>1. Good /\ pc = "ready" /\ UNCHANGED <<disk, names, used>> /\ pc' = "write" /\ owner' = owner
    BY <1>2, <1>13 DEF Handled, Good
  <2>2. Current' = Current /\ Visible(synced[1], synced[2])' = Visible(synced[1], synced[2])
    BY <2>1 DEF disk, Current
  <2>3. job' = RemoveAt(Current.lines, i) /\ Current.lines[i] \notin acked' /\ acked' \subseteq acked
    BY <1>13 DEF Handled
  <2> QED
    BY <2>1, <2>2, <2>3 DEF Good, WellFormed, InFlight, Kept, SafeLines
<1>14. CASE WriteTmp
  <2>1. Good /\ pc = "write" /\ pc' \in {"backup", "rename"} /\ tmp' = Whole(job)
    BY <1>2, <1>14 DEF WriteTmp, Good
  <2>2. Current' = Current /\ UNCHANGED <<synced, names, owner, job, used, acked>>
    BY <1>14 DEF WriteTmp, Current, Visible
  <2>3. pc' = "backup" => bak' = Absent
    BY <1>14 DEF WriteTmp
  <2> QED
    BY <2>1, <2>2, <2>3 DEF Good, WellFormed, InFlight, Kept, SafeLines
<1>15. CASE PluginBacksUp
  <2>1. Good /\ pc = "backup" /\ owner = "plugin" /\ pc' = "rename"
    BY <1>2, <1>15 DEF PluginBacksUp, Good, Owned
  <2>2. UNCHANGED <<synced, names, owner, job, tmp, used, acked>>
    BY <1>15 DEF PluginBacksUp
  <2>3. CASE file # Absent
    <3>1. Current' = Current
      BY <1>15, <2>3 DEF PluginBacksUp, Current, Visible
    <3> QED
      BY <2>1, <2>2, <3>1 DEF Good, WellFormed, InFlight, Kept, SafeLines
  <2>4. CASE file = Absent /\ bak = Absent
    <3>1. Current' = Current
      BY <1>15, <2>4 DEF PluginBacksUp, Current, Visible
    <3> QED
      BY <2>1, <2>2, <3>1 DEF Good, WellFormed, InFlight, Kept, SafeLines
  <2>5. CASE file = Absent /\ bak # Absent
    BY <2>1, <2>5 DEF Good, WellFormed
  <2> QED
    BY <2>3, <2>4, <2>5
<1>16. CASE Rename
  <2>1. Good /\ pc = "rename" /\ tmp = Whole(job) /\ pc' = "unbak"
    BY <1>2, <1>16 DEF Rename, Good, InFlight
  <2>2. Whole(job) \in Text /\ Whole(job) # Absent /\ file' = Whole(job)
    BY <1>16, <2>1, JournalConstants DEF Rename, TypeOK, Whole, Text
  <2>3. Current' = Whole(job) /\ UNCHANGED <<synced, owner, acked>>
    BY <1>16, <2>2 DEF Rename, Current, Visible
  <2>6. UNCHANGED <<used, unnamed>> /\ named' = FALSE
    BY <1>16 DEF Rename
  <2>4. acked \ unnamed \subseteq ToSet(job)
    <3>1. CASE job = Current.lines
      BY <2>1, <3>1 DEF Good, Kept
    <3>2. ASSUME NEW i \in DOMAIN Current.lines, job = RemoveAt(Current.lines, i),
                 Current.lines[i] \notin acked
          PROVE  acked \ unnamed \subseteq ToSet(job)
      <4> SUFFICES ASSUME NEW a \in acked \ unnamed PROVE a \in ToSet(job)
        OBVIOUS
      <4>1. PICK j \in DOMAIN Current.lines : Current.lines[j] = a
        BY <2>1 DEF Good, Kept, ToSet
      <4>2. j # i
        BY <3>2, <4>1
      <4> QED
        BY <1>3, <3>2, <4>1, <4>2, RemoveAtKeeps
    <3> QED
      BY <2>1, <3>1, <3>2 DEF Good, InFlight
  <2>5. Current'.lines = job /\ Current'.tail = "none"
    BY <2>3 DEF Whole
  <2> QED
    BY <2>1, <2>2, <2>3, <2>4, <2>5, <2>6 DEF Good, WellFormed, InFlight, Kept, SafeLines
<1>17. CASE RemoveBackup
  <2>1. Good /\ pc = "unbak" /\ file # Absent /\ pc' = "sync" /\ file' = file
    BY <1>2, <1>17 DEF RemoveBackup, Good, WellFormed
  <2>2. Current' = Current /\ UNCHANGED <<synced, names, owner, used, acked>>
    BY <1>17, <2>1 DEF RemoveBackup, Current, Visible
  <2> QED
    BY <2>1, <2>2 DEF Good, WellFormed, InFlight, Kept, SafeLines
<1>18. CASE Sync
  <2>1. Good /\ pc = "sync" /\ pc' = "ready" /\ UNCHANGED <<file, bak, owner, used, acked>>
    BY <1>2, <1>18 DEF Sync, Good
  <2>2. /\ Current' = Current /\ Visible(synced[1], synced[2])' = Current
        /\ unnamed' = unnamed \ ToSet(Current.lines)
    BY <1>18, <2>1 DEF Sync, OnDisk, Current, Visible
  <2> QED
    BY <2>1, <2>2 DEF Good, WellFormed, InFlight, Kept, SafeLines
<1>19. ASSUME NEW f \in FileOrNone, NEW b \in FileOrNone, LosePower(f, b), Good,
              Visible(f, b).tail \in {"none", "part"},
              acked \ unnamed \subseteq ToSet(Visible(f, b).lines)
       PROVE  Good'
  <2>1. Current' = Visible(f, b) /\ Visible(synced[1], synced[2])' = Visible(f, b)
    BY <1>19 DEF LosePower, Current, Visible
  <2>2. pc' = "start" /\ owner' = "nobody" /\ UNCHANGED <<used, unnamed, acked>>
    BY <1>19 DEF LosePower
  <2> QED
    BY <1>19, <2>1, <2>2 DEF Good, WellFormed, InFlight, Kept, SafeLines
<1>20. CASE PowerLoss
  <2>1. Good /\ owner = "client"
    BY <1>2, <1>20 DEF PowerLoss, LosePower, Good
  <2>2. synced[1] \in FileOrNone /\ synced[2] \in FileOrNone /\ file \in FileOrNone /\ bak \in FileOrNone
    BY DEF TypeOK
  <2>3. CASE LosePower(file, bak)
    BY <1>19, <2>1, <2>2, <2>3 DEF Good, WellFormed, Kept, Current
  <2>4. CASE LosePower(synced[1], synced[2])
    BY <1>19, <2>1, <2>2, <2>4 DEF Good, WellFormed, Kept, SafeLines
  <2>6. \/ LosePower(file, bak)
        \/ LosePower(synced[1], synced[2])
        \/ \E r \in {"none", "part"} : pc = "fsync" /\ LosePower([lines |-> job, tail |-> r], bak)
    BY <1>20 DEF PowerLoss
  <2>7. CASE \E r \in {"none", "part"} : pc = "fsync" /\ LosePower([lines |-> job, tail |-> r], bak)
    <3>0. PICK r \in {"none", "part"} : pc = "fsync" /\ LosePower([lines |-> job, tail |-> r], bak)
      BY <2>7
    <3> DEFINE t == [lines |-> job, tail |-> r]
    <3>1. t \in Text /\ t # Absent /\ t.tail \in {"none", "part"} /\ t.lines = job
      BY JournalConstants DEF Text, TypeOK
    <3>2. Visible(t, bak) = t /\ t \in FileOrNone
      BY <3>1 DEF Visible, FileOrNone
    <3>3. LosePower(t, bak)
      BY <3>0
    <3>4. /\ Current.lines = Append(job, adding) /\ adding \notin acked
          /\ acked \ unnamed \subseteq ToSet(Current.lines)
      BY <2>1, <3>0 DEF Good, InFlight, Kept
    <3>5. ToSet(Current.lines) = ToSet(job) \cup {adding}
      BY <3>4, AppendKeeps DEF TypeOK
    <3>6. acked \ unnamed \subseteq ToSet(job)
      BY <3>4, <3>5
    <3> HIDE DEF t
    <3>7. /\ Visible(t, bak).tail \in {"none", "part"}
          /\ acked \ unnamed \subseteq ToSet(Visible(t, bak).lines)
      BY <3>1, <3>2, <3>6
    <3> QED
      BY <1>19, <2>1, <2>2, <3>2, <3>3, <3>7 DEF Good
  <2> QED
    BY <2>3, <2>4, <2>6, <2>7
<1>21. CASE PowerLossBeforeNewline
  BY <1>2, <1>21 DEF PowerLossBeforeNewline
<1>22. CASE WriteFails
  <2>1. /\ Good /\ pc' = "ready" /\ UNCHANGED <<disk, names, owner, job, used, acked>>
        /\ pc \in {"write", "rename", "unbak", "sync"} /\ owner = "client"
    BY <1>2, <1>22 DEF WriteFails, Good
  <2>2. Current' = Current /\ Visible(synced[1], synced[2])' = Visible(synced[1], synced[2])
    BY <2>1 DEF disk, Current
  <2> QED
    BY <1>22, <2>1, <2>2 DEF WriteFails, Good, WellFormed, InFlight, Kept, SafeLines
<1>23. CASE PluginDies \/ Close
  <2>1. Good /\ pc' = "start" /\ owner' = "nobody" /\ UNCHANGED <<file, bak, used, acked>>
    BY <1>2, <1>23 DEF PluginDies, Close, Good
  <2>2. Current' = Current
    BY <2>1 DEF Current
  <2>3. CASE OnDisk
    <3>1. Visible(synced[1], synced[2])' = Current /\ unnamed' = unnamed \ ToSet(Current.lines)
      BY <2>1, <2>3 DEF OnDisk, Current, Visible
    <3> QED
      BY <2>1, <2>2, <3>1 DEF Good, WellFormed, InFlight, Kept, SafeLines
  <2>4. CASE UNCHANGED <<synced, names>> /\ owner # "plugin" /\ pc = "ready"
    BY <2>1, <2>2, <2>4 DEF Good, WellFormed, InFlight, Kept, SafeLines
  <2> QED
    BY <1>23, <2>3, <2>4 DEF PluginDies, Close
<1>24. Good'
  <2>1. ASSUME NEW x \in Items, Adds(x) \/ PluginAdds(x) PROVE Good'
    BY <2>1, <1>9, <1>12
  <2>2. CASE ReadWhole \/ ReadTorn \/ Quarantine \/ Added \/ AddsPiece \/ AddFails
    BY <2>2, <1>6, <1>7, <1>8, <1>10, <1>11 DEF Good
  <2>3. CASE WriteTmp \/ PluginBacksUp \/ Rename \/ RemoveBackup \/ Sync
    BY <2>3, <1>14, <1>15, <1>16, <1>17, <1>18 DEF Good
  <2>4. CASE PowerLoss \/ PowerLossBeforeNewline \/ WriteFails \/ PluginDies \/ Close
    BY <2>4, <1>20, <1>21, <1>22, <1>23 DEF Good
  <2> QED
    BY <1>5, <1>13, <2>1, <2>2, <2>3, <2>4 DEF Next
<1> QED
  BY <1>24 DEF Good

(* In every step of a rewrite, whoever makes it and whatever interrupts     *)
(* it, some file holds all acknowledged lines that were appended under a   *)
(* name known to be on disk, or have come to be since.                     *)
THEOREM JournalInvariant == Spec => []IInv
<1>1. Init => IInv
  <2>1. Init => ~cut /\ Owned /\ WellFormed /\ InFlight /\ Kept
    BY InitInvariant DEF Init
  <2>2. Init => TypeOK
    BY InitType
  <2> QED
    BY <2>1, <2>2 DEF IInv
<1>2. IInv /\ TypeOK' /\ [Next]_vars => IInv'
  <2> SUFFICES ASSUME IInv, TypeOK', [Next]_vars PROVE IInv'
    OBVIOUS
  <2>1. CASE Next
    BY <2>1, StepInvariant DEF IInv
  <2>2. CASE UNCHANGED vars
    BY <2>2 DEF vars, disk, names, IInv, Owned, WellFormed, InFlight, Kept, SafeLines, Current
  <2> QED
    BY <2>1, <2>2
<1> QED
  BY <1>1, <1>2, TypeCorrect, PTL DEF Spec

(* The properties the runs check, for every journal.                       *)
THEOREM ReadableHolds == Spec => []Readable
<1>1. IInv => Readable
  BY DEF IInv, WellFormed, Readable
<1> QED
  BY <1>1, JournalInvariant, PTL

(* An operation whose append has returned is in the journal until it is   *)
(* handled (enqueue and drain of outbox.rs, over LocalFs), but for those  *)
(* appended to a file whose name was not on disk (fs.rs:190-197).         *)
THEOREM AcknowledgedHolds == Spec => []AcknowledgedKept
<1>1. IInv => AcknowledgedKept
  BY DEF IInv, Kept, AcknowledgedKept
<1> QED
  BY <1>1, JournalInvariant, PTL
-----------------------------------------------------------------------------
(* The refinement.  Below, safe is what DurableLog calls safe.              *)
Safe == IF owner = "plugin" THEN Current.lines ELSE SafeLines

(* An empty journal is an empty log. *)
LEMMA InitRefines == Init => Log!Init
BY DEF Init, Log!Init, SafeLines, Current, Visible, Whole

(* What is read after the journal has got a new last line.                 *)
LEMMA Extends ==
  ASSUME TypeOK, NEW x \in Items, file' = Whole(Append(Current.lines, x))
  PROVE  Current' = Whole(Append(Current.lines, x))
<1>1. Append(Current.lines, x) \in Seq(Items)
  BY VisibleType, AppendKeeps DEF TypeOK, Current
<1>2. Whole(Append(Current.lines, x)) \in Text
  BY <1>1 DEF Whole, Text
<1> QED
  BY <1>2, JournalConstants DEF Current, Visible

(* Every step is a step of the log, or leaves it alone. *)
LEMMA StepRefines ==
  ASSUME IInv, TypeOK', Next
  PROVE  [Log!Next]_(Log!vars)
<1> SUFFICES ASSUME ~cut' PROVE [Log!Next]_(Log!vars)
  BY DEF Log!Next, TypeOK
<1>1. ~cut /\ WellFormed /\ InFlight /\ Kept /\ Owned /\ TypeOK
  <2>1. cut => cut'
    BY DEF Next, Open, ReadWhole, ReadTorn, Quarantine, Adds, PluginAdds, Added, AddFails, AddsPiece, Handled,
           WriteTmp, PluginBacksUp, Rename, RemoveBackup, Sync, PowerLoss, PowerLossBeforeNewline,
           WriteFails, PluginDies, Close
  <2> QED
    BY <2>1 DEF IInv
<1>0. cut = FALSE /\ cut' = FALSE
  BY <1>1 DEF TypeOK
<1> USE DEF names
<1>2. ASSUME Current' = Current, Safe' = Safe, acked' = acked, unnamed' = unnamed PROVE UNCHANGED Log!vars
  BY <1>0, <1>2 DEF Log!vars, Safe
<1>13. ASSUME \/ \E s \in SUBSET ToSet(Current.lines) : Log!Acknowledge(s)
              \/ Log!Undo
              \/ \E x \in Items : Log!UndoLast(x)
       PROVE  Log!Next
  BY <1>0, <1>13 DEF Log!Next, Log!Works, Log!ToSet, ToSet
<1>3. ASSUME NEW who \in {"client", "plugin"}, Open(who) PROVE [Log!Next]_(Log!vars)
  <2>1. pc = "start" /\ owner = "nobody" /\ UNCHANGED <<disk, names, acked>>
    BY <1>1, <1>3 DEF Open, Owned
  <2>2. Current' = Current /\ SafeLines' = SafeLines
    BY <2>1 DEF disk, Current, SafeLines
  <2>3. CASE who = "client"
    BY <1>2, <1>3, <2>1, <2>2, <2>3 DEF Open, Safe
  <2>4. CASE who = "plugin"
    <3>1. Log!Acknowledge({})
      BY <1>3, <2>1, <2>2, <2>4 DEF Open, Log!Acknowledge
    <3> QED
      BY <1>13, <3>1
  <2> QED
    BY <2>3, <2>4
<1>4. ASSUME ReadWhole \/ ReadTorn PROVE UNCHANGED Log!vars
  <2>1. Recovered /\ UNCHANGED <<synced, names, owner, acked>>
    BY <1>4 DEF ReadWhole, ReadTorn
  <2>2. Current' = Current
    BY <1>1, <2>1, RecoverVisible DEF Current
  <2> QED
    BY <1>2, <2>1, <2>2 DEF Safe, SafeLines
<1>5. ASSUME Quarantine \/ WriteFails PROVE UNCHANGED Log!vars
  <2>1. UNCHANGED <<disk, names, owner, acked>>
    BY <1>5 DEF Quarantine, WriteFails
  <2> QED
    BY <1>2, <2>1 DEF disk, Safe, SafeLines, Current
<1>6. ASSUME WriteTmp \/ PluginBacksUp \/ RemoveBackup PROVE UNCHANGED Log!vars
  <2>1. UNCHANGED <<synced, names, owner, acked>>
    BY <1>6 DEF WriteTmp, PluginBacksUp, RemoveBackup
  <2>2. Current' = Current
    <3>1. CASE WriteTmp
      BY <3>1 DEF WriteTmp, Current, Visible
    <3>2. CASE PluginBacksUp
      BY <1>1, <3>2 DEF PluginBacksUp, WellFormed, Current, Visible
    <3>3. CASE RemoveBackup
      BY <1>1, <3>3 DEF RemoveBackup, WellFormed, Current, Visible
    <3> QED
      BY <1>6, <3>1, <3>2, <3>3
  <2> QED
    BY <1>2, <2>1, <2>2 DEF Safe, SafeLines
<1>7. ASSUME PluginDies \/ Close PROVE [Log!Next]_(Log!vars)
  <2>1. UNCHANGED <<file, bak, acked>> /\ owner' = "nobody"
    BY <1>7 DEF PluginDies, Close
  <2>2. Current' = Current
    BY <2>1 DEF Current
  <2>3. CASE OnDisk
    <3> DEFINE s == acked \cap ToSet(Current.lines)
    <3>1. SafeLines' = Current.lines /\ unnamed' = unnamed \ ToSet(Current.lines)
      BY <2>1, <2>3 DEF OnDisk, SafeLines, Current, Visible
    <3>2. (acked \ unnamed)' = (acked \ unnamed) \cup s
      BY <2>1, <3>1
    <3> HIDE DEF s
    <3>3. Log!Acknowledge(s)
      BY <2>1, <2>2, <3>1, <3>2 DEF Log!Acknowledge
    <3> QED
      BY <1>13, <3>3 DEF s
  <2>4. CASE UNCHANGED <<synced, names>> /\ owner # "plugin"
    BY <1>2, <2>1, <2>2, <2>4 DEF Safe, SafeLines
  <2> QED
    BY <1>7, <2>3, <2>4 DEF PluginDies, Close
<1>8. ASSUME NEW x \in Items, Adds(x) PROVE Log!Add(x)
  <2>1. Current.tail = "none" /\ owner = "client" /\ pc = "ready"
    BY <1>1, <1>8 DEF Adds, WellFormed
  <2>2. file' = Whole(Append(Current.lines, x)) /\ UNCHANGED <<synced, unnamed, owner, acked>>
    BY <1>8, <2>1 DEF Adds, Extended
  <2>3. Current' = Whole(Append(Current.lines, x))
    BY <1>1, <2>2, Extends
  <2> QED
    BY <2>1, <2>2, <2>3 DEF Log!Add, SafeLines, Whole
<1>9. ASSUME NEW x \in Items, PluginAdds(x) PROVE Log!AddAtOnce(x)
  <2>1. Current.tail = "none" /\ owner = "plugin" /\ owner' = "plugin"
    BY <1>1, <1>9 DEF PluginAdds, WellFormed
  <2>2. /\ file' = Whole(Append(Current.lines, x)) /\ acked' = acked \cup {x}
        /\ unnamed' = unnamed /\ x \notin unnamed
    BY <1>1, <1>9, <2>1 DEF PluginAdds, Extended, Kept
  <2>3. Current' = Whole(Append(Current.lines, x))
    BY <1>1, <2>2, Extends
  <2> QED
    BY <2>1, <2>2, <2>3 DEF Log!AddAtOnce, Whole
<1>10. CASE Added
  <2>1. pc = "fsync" /\ UNCHANGED <<file, bak, owner>> /\ acked' = acked \cup {adding} /\ owner = "client"
    BY <1>1, <1>10 DEF Added, Owned
  <2>2. Current' = Current
    BY <2>1 DEF Current
  <2>3. CASE ~named
    <3>1. synced' = synced /\ unnamed' = unnamed \cup {adding}
      BY <1>10, <2>3 DEF Added
    <3>2. (acked \ unnamed)' = acked \ unnamed
      BY <1>1, <2>1, <3>1 DEF InFlight
    <3> QED
      BY <1>0, <2>1, <2>2, <3>1, <3>2 DEF Log!vars, SafeLines
  <2>4. CASE named
    <3> DEFINE s == {adding} \ unnamed
    <3>1. /\ Current.lines = Append(job, adding) /\ job \in Seq(Items) /\ adding \in Items
          /\ file # Absent
      BY <1>1, <2>1 DEF InFlight, WellFormed, TypeOK
    <3>2. adding \in ToSet(Current.lines)
      BY <3>1, AppendKeeps
    <3>3. SafeLines' = Current.lines /\ unnamed' = unnamed
      BY <1>10, <2>1, <2>4, <3>1 DEF Added, SafeLines, Current, Visible
    <3>4. (acked \ unnamed)' = (acked \ unnamed) \cup s
      BY <2>1, <3>3
    <3> HIDE DEF s
    <3>5. Log!Acknowledge(s)
      BY <2>1, <2>2, <3>3, <3>4 DEF Log!Acknowledge
    <3>6. s \in SUBSET ToSet(Current.lines)
      BY <3>2 DEF s
    <3> QED
      BY <1>13, <3>5, <3>6
  <2> QED
    BY <2>3, <2>4
<1>11. ASSUME NEW i \in DOMAIN Current.lines, Handled(i) PROVE Log!Release(Current.lines[i])
  <2>1. UNCHANGED <<disk, names, owner>> /\ acked' = acked \ {Current.lines[i]}
    BY <1>11 DEF Handled
  <2> QED
    BY <2>1 DEF disk, Current, SafeLines, Log!Release
<1>12. CASE Rename
  <2>1. pc = "rename" /\ file' = Whole(job) /\ UNCHANGED <<synced, unnamed, owner, acked>>
    BY <1>1, <1>12 DEF Rename, InFlight
  <2>2. Current'.lines = job
    BY <1>1, <2>1, JournalConstants DEF TypeOK, Current, Visible, Whole, Text
  <2>3. CASE job = Current.lines
    BY <1>0, <2>1, <2>2, <2>3 DEF Log!vars, SafeLines
  <2>4. ASSUME NEW i \in DOMAIN Current.lines, job = RemoveAt(Current.lines, i),
               Current.lines[i] \notin acked
        PROVE  Log!Drop(i)
    <3>1. UNCHANGED <<SafeLines, unnamed, owner, acked>>
      BY <2>1 DEF SafeLines
    <3> QED
      BY <2>2, <2>4, <3>1 DEF Log!Drop, Log!RemoveAt, RemoveAt
  <2> QED
    BY <1>0, <1>1, <2>1, <2>3, <2>4 DEF InFlight, Log!Next, Log!Works
<1>14. CASE Sync
  <2> DEFINE s == acked \cap ToSet(Current.lines)
  <2>1. pc = "sync" /\ UNCHANGED <<file, bak, owner, acked>> /\ synced' = <<file, bak>>
    BY <1>14 DEF Sync, OnDisk
  <2>2. Current' = Current /\ SafeLines' = Current.lines
    BY <2>1 DEF Current, SafeLines, Visible
  <2>3. (acked \ unnamed)' = (acked \ unnamed) \cup s
    BY <1>14, <2>1 DEF Sync, OnDisk
  <2> HIDE DEF s
  <2>4. Log!Acknowledge(s)
    BY <2>1, <2>2, <2>3 DEF Log!Acknowledge
  <2> QED
    BY <1>13, <2>4 DEF s
<1>15. CASE PowerLoss
  <2>1. owner = "client" /\ owner' = "nobody" /\ UNCHANGED <<unnamed, acked>>
    BY <1>15 DEF PowerLoss, LosePower
  <2>2. CASE LosePower(file, bak)
    <3>1. Current' = Current /\ SafeLines' = Current.lines
      BY <2>2 DEF LosePower, Current, SafeLines, Visible
    <3>2. Log!Acknowledge({}) /\ {} \in SUBSET ToSet(Current.lines)
      BY <2>1, <3>1 DEF Log!Acknowledge
    <3> QED
      BY <1>13, <3>2
  <2>3. CASE LosePower(synced[1], synced[2])
    <3>1. Current'.lines = SafeLines /\ SafeLines' = SafeLines
      BY <2>3 DEF LosePower, Current, SafeLines, Visible
    <3> QED
      BY <1>13, <2>1, <3>1 DEF Log!Undo
  <2>4. ASSUME pc = "fsync", NEW r \in {"none", "part"}, LosePower([lines |-> job, tail |-> r], bak)
        PROVE  Log!Next
    <3> DEFINE t == [lines |-> job, tail |-> r]
    <3>1. t # Absent /\ t.lines = job
      BY <1>1, JournalConstants DEF Text, TypeOK
    <3>2. file' = t /\ synced' = <<t, bak>>
      BY <2>4 DEF LosePower
    <3> HIDE DEF t
    <3>3. Current'.lines = job /\ SafeLines' = job
      BY <3>1, <3>2 DEF Current, SafeLines, Visible
    <3>4. Current.lines = Append(job, adding) /\ adding \notin acked /\ adding \in Items
      BY <1>1, <2>4 DEF InFlight, TypeOK
    <3>5. Log!UndoLast(adding)
      BY <2>1, <3>3, <3>4 DEF Log!UndoLast
    <3> QED
      BY <1>13, <3>4, <3>5
  <2> QED
    BY <1>15, <2>2, <2>3, <2>4 DEF PowerLoss
<1>16. CASE AddFails \/ AddsPiece \/ PowerLossBeforeNewline
  BY <1>0, <1>16 DEF AddFails, AddsPiece, PowerLossBeforeNewline
<1>17. ASSUME NEW x \in Items, Adds(x) \/ PluginAdds(x) PROVE Log!Next
  BY <1>0, <1>8, <1>9, <1>17 DEF Log!Next, Log!Works
<1>18. ASSUME NEW i \in DOMAIN Current.lines, Handled(i) PROVE Log!Next
  <2>1. Current.lines[i] \in Items
    BY <1>1, VisibleType DEF TypeOK, Current
  <2> QED
    BY <1>0, <1>11, <1>18, <2>1 DEF Log!Next, Log!Works
<1>19. CASE ReadWhole \/ ReadTorn \/ Quarantine \/ WriteFails
  BY <1>4, <1>5, <1>19
<1>20. CASE WriteTmp \/ PluginBacksUp \/ RemoveBackup \/ PluginDies \/ Close
  BY <1>6, <1>7, <1>20
<1> QED
  BY <1>3, <1>10, <1>12, <1>14, <1>15, <1>16, <1>17, <1>18, <1>19, <1>20 DEF Next

(* The journal the two programs share is a durable log, as long as no      *)
(* append was cut short or failed; a line appended under a name that is    *)
(* not on disk counts as acknowledged from the next rewrite on.            *)
THEOREM JournalImplementsLog == Spec => ImplementsDurableLog
<1>1. IInv /\ TypeOK' /\ [Next]_vars => [Log!Next]_(Log!vars)
  <2> SUFFICES ASSUME IInv, TypeOK', [Next]_vars PROVE [Log!Next]_(Log!vars)
    OBVIOUS
  <2>1. CASE UNCHANGED vars
    BY <2>1 DEF vars, disk, names, Log!vars, Current, SafeLines
  <2> QED
    BY <2>1, StepRefines
<1> QED
  BY <1>1, InitRefines, TypeCorrect, JournalInvariant, PTL DEF Spec, ImplementsDurableLog, Log!Spec
=============================================================================
