--------------------------- MODULE HandoverProofs ---------------------------
(***************************************************************************)
(* For any number of servers, names, revisions, sessions, commands and     *)
(* crashes, up to the moment at which two programs have data.json in hand  *)
(* at once: one copy of the settings counts at any time, the cursor        *)
(* neither goes back nor changes servers, and the credentials are those    *)
(* of the server.                                                          *)
(***************************************************************************)
EXTENDS Handover, TLAPS

(* A plugin that runs has its settings, and has been seen. *)
Seen ==
  /\ obsidian = "loaded" => plug \in Settings
  /\ obsidian = "loaded" /\ pc # "down" => noticed
  /\ obsidian = "loaded" /\ pc \notin {"down", "wait"} => suspended

(* When a program has a patch in hand. *)
Patching ==
  /\ pc \in {"keeping", "saving"} => InHand("client")
  /\ InHand("client") => pc \in {"wait", "connect", "loop", "keeping", "saving"}
  /\ Asking({"write"}) => InHand("command")
  /\ InHand("command") => Asking({"rename", "status", "write"})

(* The bound on revisions: a line is only fetched below it. *)
Bounded == pc \in {"fetched", "applied", "saving"} => mem.rev < Tip

(* The plugin has its copy only while the others stand aside. *)
Aside ==
  /\ obsidian = "loaded" => plug = data /\ data.marked /\ ~UnderWay
  /\ ~(InHand("client") /\ InHand("command"))

(* A patch is of the file as it still is: what each kind changes.          *)
Timely ==
  /\ InHand("client") =>
       /\ patch["client"].server = data.server
       /\ patch["client"].rev = IF pc = "saving" THEN mem.rev + 1 ELSE data.rev
       /\ pc # "keeping" => Credentials(patch["client"]) = Credentials(data)
  /\ InHand("command") =>
       /\ patch["command"].server = data.server /\ patch["command"].rev = data.rev
       /\ patch["command"].secret = data.secret
       /\ patch["command"].name = IF Asking({"write"}) THEN cmd.name ELSE data.name

(* What the client holds of data.json in each of its states. *)
Holds ==
  /\ pc # "down" => home = data.server
  /\ pc \notin {"down", "wait"} => link.server = data.server
  /\ pc \notin {"down", "wait", "paused"} /\ obsidian # "loaded" /\ ~missed =>
       data.rev \in {mem.rev, mem.rev + 1}
  /\ origin = data.server

IInv ==
  /\ TypeOK /\ Seen /\ Patching /\ Bounded
  /\ ~overlap => Aside /\ Timely /\ Holds

USE DEF client, plugin, monitor, history, bounds
-----------------------------------------------------------------------------
(* The monitor sees an Obsidian that runs, whatever else does. *)
LEMMA RunningIsSeen ==
  ASSUME obsidian # "closed"
  PROVE  ObsidianRunning
<1> DEFINE p == [uid |-> "owner", comm |-> "obsidian", runs |-> "obsidian"]
<1>1. p \in Processes
  BY DEF Processes
<1>2. p.uid = "owner" /\ IsObsidian(p)
  BY DEF IsObsidian
<1>. QED
  BY <1>1, <1>2 DEF ObsidianRunning

(* The first client of a server has a row of the table's type. *)
LEMMA EnrolKeeps ==
  ASSUME TypeOK, NEW s \in Servers, NEW n \in Names, Enrol(s, n)
  PROVE  /\ rows' \in [Servers -> SUBSET Row]
         /\ issued' \in 0 .. MaxSecrets /\ issued + 1 \in Secret \ {0}
<1>1. issued + 1 \in Secret \ {0} /\ issued' \in 0 .. MaxSecrets
  BY Bounds DEF TypeOK, Enrol, Secret
<1>2. [name |-> n, secret |-> issued + 1] \in Row
  BY <1>1 DEF Row
<1>. QED
  BY <1>1, <1>2 DEF TypeOK, Enrol

(* A rename changes rows into rows. *)
LEMMA RenamedKeeps ==
  ASSUME TypeOK, NEW s \in Servers, NEW x, NEW n \in Names, Renamed(s, x, n)
  PROVE  rows' \in [Servers -> SUBSET Row]
<1>. DEFINE mine == {r \in rows[s] : r.secret = x}
<1>1. rows[s] \subseteq Row
  BY DEF TypeOK
<1>2. {[r EXCEPT !.name = n] : r \in mine} \subseteq Row
  BY <1>1 DEF Row
<1>. QED
  BY <1>1, <1>2 DEF TypeOK, Renamed

(* Marking a file as of its server leaves everything else of it. *)
LEMMA LoadedKeeps ==
  ASSUME data \in Settings
  PROVE  /\ Loaded \in Settings /\ Loaded.marked
         /\ Loaded.server = data.server /\ Loaded.rev = data.rev
         /\ Loaded.secret = data.secret /\ Loaded.name = data.name
         /\ data.marked => Loaded = data
BY DEF Loaded, Settings

(* Reading for a patch puts it in one hand and leaves the other's.         *)
LEMMA ReadKeeps ==
  ASSUME TypeOK, NEW w \in Writers, NEW s \in Settings, Read(w, s)
  PROVE  /\ patch' \in [Writers -> Settings \cup {NoPatch}]
         /\ patch'[w] = s /\ InHand(w)'
         /\ \A v \in Writers \ {w} : patch'[v] = patch[v]
         /\ overlap' \in BOOLEAN /\ (~overlap' => ~overlap)
         /\ ~overlap' => \A v \in Writers \ {w} : ~InHand(v) /\ ~InHand(v)'
<1>1. patch' \in [Writers -> Settings \cup {NoPatch}] /\ patch'[w] = s
  BY DEF Read, TypeOK
<1>2. s # NoPatch
  BY NoneIsNone
<1>3. \A v \in Writers \ {w} : patch'[v] = patch[v]
  BY DEF Read, TypeOK
<1>4. overlap' = (overlap \/ \E v \in Writers \ {w} : InHand(v))
  BY DEF Read
<1>. QED
  BY <1>1, <1>2, <1>3, <1>4 DEF InHand, TypeOK

(* A load leaves the file alone, or puts a patch of it in hand.            *)
LEMMA LoadKeeps ==
  ASSUME TypeOK, NEW w \in Writers, Load(w)
  PROVE  \/ data.marked /\ patch' = patch /\ overlap' = overlap
         \/ ~data.marked /\ Loaded \in Settings /\ Read(w, Loaded)
BY LoadedKeeps DEF Load, TypeOK

(* Discarding a patch leaves the other hand alone.                         *)
LEMMA DiscardKeeps ==
  ASSUME TypeOK, NEW w \in Writers, Discard(w)
  PROVE  /\ patch' \in [Writers -> Settings \cup {NoPatch}] /\ ~InHand(w)'
         /\ \A v \in Writers \ {w} : patch'[v] = patch[v]
BY DEF Discard, TypeOK, InHand

(* A write puts the patch in the file.                                     *)
LEMMA WriteKeeps ==
  ASSUME TypeOK, NEW w \in Writers, Write(w)
  PROVE  /\ InHand(w) /\ data' = patch[w] /\ data' \in Settings
         /\ patch' \in [Writers -> Settings \cup {NoPatch}] /\ ~InHand(w)'
         /\ \A v \in Writers \ {w} : patch'[v] = patch[v]
BY DiscardKeeps DEF Write, TypeOK, InHand

(* The invariant holds at the start. *)
LEMMA InitInv == ASSUME Init PROVE IInv
<1>1. PICK s \in Settings :
        /\ s.secret \in {0, 1} /\ s.rev = 0
        /\ data = s /\ mem = s /\ origin = s.server
        /\ home = s.server /\ link = Link(s)
        /\ rows = [v \in Servers |-> IF s.secret = 1 /\ v = s.server
                                     THEN {Credentials(s)} ELSE {}]
  BY DEF Init
<1>2. link \in [server : Servers, secret : Secret]
  BY <1>1 DEF Link, Settings
<1>3. s.secret = 1 => Credentials(s) \in Row
  BY <1>1 DEF Credentials, Settings, Row, Secret
<1>4. rows \in [Servers -> SUBSET Row]
  BY <1>1, <1>3
<1>5. issued \in 0 .. MaxSecrets
  BY Bounds DEF Init
<1>6. data \in Settings /\ mem \in Settings /\ home \in Servers /\ origin \in Servers
  BY <1>1 DEF Settings
<1>7. patch \in [Writers -> Settings \cup {NoPatch}] /\ ~InHand("client") /\ ~InHand("command")
  BY DEF Init, InHand, Writers
<1>8. TypeOK
  BY <1>2, <1>4, <1>5, <1>6, <1>7 DEF Init, TypeOK
<1>. QED
  BY <1>1, <1>7, <1>8 DEF Init, IInv, Seen, Patching, Bounded, Aside, Timely, Holds, Asking

(* Steps that leave the file, its copies and the patches alone.            *)
LEMMA QuietInv ==
  ASSUME IInv, TypeOK', Seen', Bounded',
         UNCHANGED <<data, patch, mem, home, link, obsidian, plug, origin, missed>>,
         ~overlap' => ~overlap /\ (obsidian = "loaded" => ~UnderWay'),
         pc' = pc \/ (~InHand("client") /\ pc' \notin {"keeping", "saving"}),
         cmd' = cmd \/ (~InHand("command") /\ ~Asking({"write"})'),
         pc = "down" => pc' = "down",
         pc = "wait" => pc' \in {"wait", "down"},
         pc = "paused" => pc' \in {"paused", "down"}
  PROVE  IInv'
<1>1. (InHand("client")' <=> InHand("client")) /\ (InHand("command")' <=> InHand("command"))
  BY DEF InHand
<1>2. Patching'
  BY <1>1 DEF IInv, Patching, Asking
<1>3. ~overlap' => Aside'
  BY <1>1 DEF IInv, Aside
<1>4. ~overlap' => Timely'
  BY <1>1 DEF IInv, Timely, Asking, Credentials
<1>5. ~overlap' => Holds'
  BY DEF IInv, Holds
<1>. QED
  BY <1>2, <1>3, <1>4, <1>5 DEF IInv

(* The monitor's flags follow the processes. *)
LEMMA MonitorInv == ASSUME IInv, Monitor PROVE IInv'
<1>1. UNCHANGED <<rows, data, patch, client, plugin, cmd, history, bounds>>
  BY DEF Monitor, Poll, Publish
<1>2. ASSUME Poll
      PROVE  /\ obsidian # "closed" => noticed'
             /\ noticed' \in BOOLEAN /\ suspended' = suspended
  BY <1>2, RunningIsSeen DEF Poll, ObsidianRunning
<1>3. TypeOK' /\ Seen'
  BY <1>1, <1>2 DEF Monitor, Publish, IInv, TypeOK, Seen
<1>4. Bounded' /\ (UnderWay' <=> UnderWay)
  BY <1>1 DEF IInv, Bounded, UnderWay, InHand, Asking
<1>5. ~overlap' => ~overlap /\ (obsidian = "loaded" => ~UnderWay')
  BY <1>1, <1>4 DEF IInv, Aside
<1>6. UNCHANGED <<data, patch, mem, home, link, pc, obsidian, plug, origin, missed, cmd>>
  BY <1>1
<1>. QED
  BY <1>3, <1>4, <1>5, <1>6, QuietInv

(* The client while it starts.                                             *)
LEMMA StartInv ==
  ASSUME IInv, Boot \/ EndWait \/ Resume
  PROVE  IInv'
<1>. USE DEF Writers
<1>1. /\ mem' = Loaded /\ missed' = FALSE /\ Load("client") /\ ~InHand("client")
      /\ UNCHANGED <<rows, data, plugin, cmd, origin, torn, bounds>>
  BY DEF Boot, EndWait, Resume, Reload, IInv, Patching
<1>2. /\ pc = "down" /\ pc' = "wait" /\ home' = Loaded.server /\ link' = link
         /\ noticed' = ObsidianRunning /\ suspended' = FALSE
      \/ /\ pc = "wait" /\ ~noticed /\ pc' = "connect" /\ home' = home /\ link' = Link(Loaded)
         /\ UNCHANGED monitor
      \/ /\ pc = "paused" /\ ~noticed /\ pc' = "loop" /\ UNCHANGED <<home, link, monitor>>
  BY DEF Boot, EndWait, Resume, Reload
<1>3. /\ Loaded \in Settings /\ Loaded.server = data.server /\ Loaded.rev = data.rev
      /\ Loaded.secret = data.secret /\ Loaded.name = data.name
  BY LoadedKeeps DEF IInv, TypeOK
<1>4. link' \in [server : Servers, secret : Secret] /\ home' \in Servers
  BY <1>2, <1>3 DEF Link, IInv, TypeOK, Settings
<1>5. noticed' \in BOOLEAN /\ (pc = "down" /\ obsidian # "closed" => noticed')
  BY <1>2, RunningIsSeen DEF IInv, TypeOK, ObsidianRunning
<1>6. /\ patch' \in [Writers -> Settings \cup {NoPatch}] /\ overlap' \in BOOLEAN
      /\ ~overlap' => ~overlap
      /\ patch'["command"] = patch["command"]
      /\ InHand("client")' =>
           /\ patch'["client"] = Loaded /\ ~data.marked
           /\ ~overlap' => ~InHand("command")'
  <2>1. CASE patch' = patch /\ overlap' = overlap
    BY <1>1, <2>1 DEF IInv, TypeOK, InHand
  <2>2. CASE ~data.marked /\ Read("client", Loaded)
    BY <1>3, <2>2, ReadKeeps DEF IInv
  <2>. QED
    BY <1>1, <2>1, <2>2, LoadKeeps DEF IInv
<1>7. TypeOK'
  BY <1>1, <1>2, <1>3, <1>4, <1>5, <1>6 DEF IInv, TypeOK
<1>8. Seen' /\ Bounded'
  BY <1>1, <1>2, <1>5 DEF IInv, Seen, Bounded
<1>9. InHand("command")' <=> InHand("command")
  BY <1>6 DEF InHand
<1>10. Patching'
  BY <1>1, <1>2, <1>9 DEF IInv, Patching, Asking
<1>11. ~overlap' => Aside'
  BY <1>1, <1>2, <1>6, <1>9 DEF IInv, Aside, UnderWay, Asking
<1>12. ~overlap' => Timely'
  BY <1>1, <1>2, <1>3, <1>6, <1>9 DEF IInv, Timely, Asking, Credentials
<1>13. ~overlap' => Holds'
  <2>1. link'.server = data.server \/ link' = link
    BY <1>2, <1>3 DEF Link
  <2>2. obsidian # "loaded" \/ pc' = "wait"
    BY <1>2 DEF IInv, Seen
  <2>3. pc' = "connect" => link'.server = data.server
    BY <1>2, <1>3 DEF Link
  <2>. QED
    BY <1>1, <1>2, <1>3, <1>6, <2>2, <2>3 DEF IInv, Holds
<1>. QED
  BY <1>7, <1>8, <1>10, <1>11, <1>12, <1>13 DEF IInv

(* Connecting, following and making way without a save.                    *)
LEMMA WorkInv ==
  ASSUME IInv, \/ Verified \/ Enrolled \/ StartUp
               \/ BeginTick \/ ApplyLine \/ Interrupted \/ Pause
  PROVE  IInv'
<1>1. /\ UNCHANGED <<data, patch, mem, home, link, obsidian, plug, origin, missed, monitor, cmd,
                     torn>>
      /\ ~InHand("client") /\ pc \in {"connect", "startup", "loop", "fetched", "applied"}
      /\ pc' \in {"startup", "enrolled", "loop", "fetched", "applied", "paused"}
      /\ pc' = "fetched" => mem.rev < Tip
      /\ pc' = "applied" => pc = "fetched"
  BY DEF Verified, Enrolled, StartUp, BeginTick, ApplyLine, Interrupted, Pause, IInv, Patching
<1>2. /\ rows' \in [Servers -> SUBSET Row] /\ issued' \in 0 .. MaxSecrets
      /\ overlap' \in BOOLEAN /\ (~overlap' => ~overlap)
      /\ pc' = "enrolled" /\ obsidian = "loaded" => overlap'
  <2>1. CASE Enrolled
    <3>1. link.server \in Servers /\ mem.name \in Names
      BY DEF IInv, TypeOK, Settings
    <3>. QED
      BY <2>1, <3>1, EnrolKeeps DEF Enrolled, IInv, TypeOK
  <2>2. CASE ~Enrolled
    BY <2>2 DEF Verified, StartUp, BeginTick, ApplyLine, Interrupted, Pause, IInv, TypeOK
  <2>. QED
    BY <2>1, <2>2
<1>3. TypeOK' /\ Seen' /\ Bounded'
  BY <1>1, <1>2 DEF IInv, TypeOK, Seen, Bounded
<1>4. ~overlap' /\ obsidian = "loaded" => ~UnderWay'
  BY <1>1, <1>2 DEF IInv, Aside, UnderWay, InHand, Asking
<1>. QED
  BY <1>1, <1>2, <1>3, <1>4, QuietInv

(* Reading for a save: nobody else's is under way, or the hands overlap.   *)
LEMMA ReadInv ==
  ASSUME IInv, KeepCredentials \/ SetRevision
  PROVE  IInv'
<1>. USE DEF Writers
<1>1. /\ UNCHANGED <<rows, data, mem, home, link, monitor, plugin, cmd, origin, torn, missed,
                     bounds>>
      /\ ~InHand("client")
      /\ \/ pc = "enrolled" /\ pc' = "keeping"
         \/ pc = "applied" /\ pc' = "saving" /\ ~suspended
  BY DEF KeepCredentials, SetRevision, Active, IInv, Patching
<1>2. PICK s \in Settings :
        /\ Read("client", s) /\ s.server = data.server
        /\ s.rev = IF pc = "applied" THEN mem.rev + 1 ELSE data.rev
        /\ pc = "applied" => Credentials(s) = Credentials(data)
  <2>1. CASE KeepCredentials
    <3>1. PICK row \in rows[link.server] :
            Read("client", [data EXCEPT !.name = row.name, !.secret = row.secret])
      BY <2>1 DEF KeepCredentials
    <3>2. row.name \in Names /\ row.secret \in Secret
      BY <3>1 DEF IInv, TypeOK, Row
    <3>. DEFINE s == [data EXCEPT !.name = row.name, !.secret = row.secret]
    <3>3. s \in Settings /\ s.server = data.server /\ s.rev = data.rev
      BY <3>2 DEF IInv, TypeOK, Settings
    <3>4. pc # "applied"
      BY <2>1 DEF KeepCredentials
    <3>. QED
      BY <3>1, <3>3, <3>4
  <2>2. CASE SetRevision
    <3>1. pc = "applied" /\ Read("client", NextRevision)
      BY <2>2 DEF SetRevision
    <3>2. mem.rev + 1 \in 0 .. Tip
      BY <3>1, Bounds DEF IInv, Bounded, TypeOK, Settings
    <3>3. /\ NextRevision \in Settings /\ NextRevision.server = data.server
          /\ NextRevision.rev = mem.rev + 1 /\ Credentials(NextRevision) = Credentials(data)
      BY <3>2 DEF NextRevision, IInv, TypeOK, Settings, Credentials
    <3>. QED
      BY <3>1, <3>3
  <2>. QED
    BY <2>1, <2>2
<1>3. /\ patch' \in [Writers -> Settings \cup {NoPatch}] /\ patch'["client"] = s
      /\ InHand("client")' /\ patch'["command"] = patch["command"]
      /\ overlap' \in BOOLEAN /\ (~overlap' => ~overlap)
      /\ ~overlap' => ~InHand("command") /\ ~InHand("command")'
  BY <1>2, ReadKeeps DEF IInv
<1>4. TypeOK' /\ Seen' /\ Bounded'
  BY <1>1, <1>3 DEF IInv, TypeOK, Seen, Bounded
<1>5. InHand("command")' <=> InHand("command")
  BY <1>3 DEF InHand
<1>6. Patching'
  BY <1>1, <1>3, <1>5 DEF IInv, Patching, Asking
<1>7. ~overlap' => obsidian # "loaded"
  BY <1>1, <1>3 DEF IInv, Seen, Aside, UnderWay
<1>8. ~overlap' => Aside'
  BY <1>1, <1>3, <1>7 DEF IInv, Aside
<1>9. ~overlap' => Timely'
  BY <1>1, <1>2, <1>3 DEF IInv, Timely, Credentials
<1>10. ~overlap' => Holds'
  BY <1>1, <1>3 DEF IInv, Holds
<1>. QED
  BY <1>4, <1>6, <1>8, <1>9, <1>10 DEF IInv

(* The client's writes: what it read is what the file still is.            *)
LEMMA WriteInv ==
  ASSUME IInv, RecordIdentity \/ CredentialsSaved \/ RevisionSaved \/ RevisionFails
  PROVE  IInv'
<1>. USE DEF Writers
<1>1. /\ UNCHANGED <<rows, home, monitor, plugin, cmd, torn, overlap, missed, issued>>
      /\ InHand("client") /\ ~InHand("client")' /\ patch'["command"] = patch["command"]
      /\ patch' \in [Writers -> Settings \cup {NoPatch}]
      /\ data' \in Settings /\ (data' = patch["client"] \/ data' = data)
  BY WriteKeeps, DiscardKeeps DEF RecordIdentity, CredentialsSaved, RevisionSaved, RevisionFails,
     IInv, TypeOK, Patching
<1>2. ~overlap => obsidian # "loaded" /\ ~InHand("command") /\ data'.server = data.server
  BY <1>1 DEF IInv, Aside, Timely, UnderWay, InHand
<1>3. /\ mem' \in Settings /\ link' \in [server : Servers, secret : Secret]
      /\ link'.server = link.server /\ origin' \in Servers
      /\ pc' \in {"wait", "connect", "startup", "loop"} /\ (pc = "wait" <=> pc' = "wait")
      /\ pc # "paused" /\ pc # "down"
      /\ ~overlap => origin' = data'.server
      /\ ~overlap /\ ~missed /\ pc # "wait" => data'.rev \in {mem'.rev, mem'.rev + 1}
  <2>1. CASE CredentialsSaved
    <3>1. /\ pc = "keeping" /\ pc' = "startup" /\ origin' = origin /\ data' = patch["client"]
          /\ mem' = [mem EXCEPT !.name = data'.name, !.secret = data'.secret]
          /\ link' = [link EXCEPT !.secret = data'.secret]
      BY <2>1, WriteKeeps DEF CredentialsSaved, IInv
    <3>2. data'.name \in Names /\ data'.secret \in Secret
      BY <1>1 DEF Settings
    <3>3. /\ mem' \in Settings /\ mem'.rev = mem.rev
          /\ link' \in [server : Servers, secret : Secret] /\ link'.server = link.server
      BY <3>1, <3>2 DEF IInv, TypeOK, Settings
    <3>4. ~overlap => data'.rev = data.rev
      BY <1>1, <3>1 DEF IInv, Timely
    <3>. QED
      BY <1>2, <3>1, <3>3, <3>4 DEF IInv, TypeOK, Holds
  <2>2. CASE RevisionSaved
    <3>1. /\ pc = "saving" /\ pc' = "loop" /\ link' = link /\ origin' = link.server
          /\ mem' = [mem EXCEPT !.rev = mem.rev + 1] /\ data' = patch["client"]
      BY <2>2, WriteKeeps DEF RevisionSaved, IInv
    <3>2. mem.rev + 1 \in 0 .. Tip
      BY <3>1, Bounds DEF IInv, Bounded, TypeOK, Settings
    <3>3. mem' \in Settings /\ mem'.rev = mem.rev + 1
      BY <3>1, <3>2 DEF IInv, TypeOK, Settings
    <3>4. ~overlap => data'.rev = mem.rev + 1
      BY <1>1, <3>1 DEF IInv, Timely
    <3>. QED
      BY <1>2, <3>1, <3>3, <3>4 DEF IInv, TypeOK, Holds
  <2>3. CASE RecordIdentity
    <3>1. /\ pc \in {"wait", "connect", "loop"} /\ data' = patch["client"]
          /\ UNCHANGED <<pc, mem, link, origin>>
      BY <1>1, <2>3, WriteKeeps DEF RecordIdentity, IInv, Patching
    <3>2. ~overlap => data'.rev = data.rev
      BY <1>1, <3>1 DEF IInv, Timely
    <3>. QED
      BY <1>2, <3>1, <3>2 DEF IInv, TypeOK, Holds
  <2>4. CASE RevisionFails
    <3>1. /\ pc = "saving" /\ pc' = "loop" /\ UNCHANGED <<mem, link>>
          /\ \/ UNCHANGED <<data, origin>>
             \/ data' = patch["client"] /\ origin' = link.server
      BY <2>4, WriteKeeps DEF RevisionFails, IInv
    <3>2. ~overlap => data' = data \/ data'.rev = mem.rev + 1
      BY <1>1, <3>1 DEF IInv, Timely
    <3>. QED
      BY <1>2, <3>1, <3>2 DEF IInv, TypeOK, Holds
  <2>. QED
    BY <2>1, <2>2, <2>3, <2>4
<1>4. TypeOK' /\ Seen' /\ Bounded'
  BY <1>1, <1>3 DEF IInv, TypeOK, Seen, Bounded
<1>5. InHand("command")' <=> InHand("command")
  BY <1>1 DEF InHand
<1>6. Patching'
  BY <1>1, <1>3, <1>5 DEF IInv, Patching, Asking
<1>7. ~overlap' => Aside'
  BY <1>1, <1>2 DEF IInv, Aside
<1>8. ~overlap' => Timely'
  BY <1>1, <1>2, <1>5 DEF Timely
<1>9. ~overlap' => Holds'
  BY <1>1, <1>2, <1>3 DEF IInv, Holds
<1>. QED
  BY <1>4, <1>6, <1>7, <1>8, <1>9 DEF IInv

(* A client that stops leaves the file as it is.                           *)
LEMMA StopInv == ASSUME IInv, Stop PROVE IInv'
<1>. USE DEF Writers
<1>1. /\ pc' = "down" /\ noticed' = FALSE /\ suspended' = FALSE /\ torn' \in BOOLEAN
      /\ UNCHANGED <<rows, data, mem, home, link, plugin, cmd, origin, overlap, missed, issued>>
      /\ patch' \in [Writers -> Settings \cup {NoPatch}] /\ ~InHand("client")'
      /\ patch'["command"] = patch["command"]
  BY DiscardKeeps DEF Stop, IInv, TypeOK
<1>2. InHand("command")' <=> InHand("command")
  BY <1>1 DEF InHand
<1>3. TypeOK' /\ Seen' /\ Bounded'
  BY <1>1 DEF IInv, TypeOK, Seen, Bounded
<1>4. Patching'
  BY <1>1, <1>2 DEF IInv, Patching, Asking
<1>5. ~overlap' => Aside' /\ Holds'
  BY <1>1, <1>2 DEF IInv, Aside, UnderWay, Asking, Holds
<1>6. ~overlap' => Timely'
  BY <1>1, <1>2 DEF IInv, Timely, Asking, Credentials
<1>. QED
  BY <1>3, <1>4, <1>5, <1>6 DEF IInv

(* A command begins: a rename only while Obsidian is closed.               *)
LEMMA CommandInv ==
  ASSUME IInv, NEW kind \in {"rename", "status"}, NEW n \in Names, Command(kind, n),
         kind = "rename" => obsidian = "closed"
  PROVE  IInv'
<1>. USE DEF Writers
<1>1. /\ cmd = NoCommand /\ Load("command") /\ ~InHand("command")
      /\ cmd' = [kind |-> kind, settings |-> Loaded, name |-> n]
      /\ UNCHANGED <<rows, data, client, monitor, plugin, origin, torn, missed, issued>>
  BY DEF Command, IInv, Patching, Asking
<1>2. /\ Loaded \in Settings /\ Loaded.server = data.server /\ Loaded.rev = data.rev
      /\ Loaded.secret = data.secret /\ Loaded.name = data.name
  BY LoadedKeeps DEF IInv, TypeOK
<1>3. cmd' \in Commanded /\ cmd'.kind = kind
  BY <1>1, <1>2 DEF Commanded
<1>4. /\ patch' \in [Writers -> Settings \cup {NoPatch}] /\ overlap' \in BOOLEAN
      /\ ~overlap' => ~overlap
      /\ patch'["client"] = patch["client"]
      /\ InHand("command")' =>
           /\ patch'["command"] = Loaded /\ ~data.marked
           /\ ~overlap' => ~InHand("client")'
  <2>1. CASE patch' = patch /\ overlap' = overlap
    BY <1>1, <2>1 DEF IInv, TypeOK, InHand
  <2>2. CASE ~data.marked /\ Read("command", Loaded)
    BY <1>2, <2>2, ReadKeeps DEF IInv
  <2>. QED
    BY <1>1, <2>1, <2>2, LoadKeeps DEF IInv
<1>5. InHand("client")' <=> InHand("client")
  BY <1>4 DEF InHand
<1>6. TypeOK' /\ Seen' /\ Bounded'
  BY <1>1, <1>3, <1>4 DEF IInv, TypeOK, Seen, Bounded
<1>7. Patching'
  BY <1>1, <1>3, <1>5, NoneIsNone DEF IInv, Patching, Asking
<1>8. ~overlap' => Aside'
  BY <1>1, <1>3, <1>4, <1>5 DEF IInv, Aside, UnderWay, Asking
<1>9. ~overlap' => Timely'
  BY <1>1, <1>2, <1>3, <1>4, <1>5 DEF IInv, Timely, Asking, Credentials
<1>10. ~overlap' => Holds'
  BY <1>1, <1>4 DEF IInv, Holds
<1>. QED
  BY <1>6, <1>7, <1>8, <1>9, <1>10 DEF IInv

(* A command's answer, and its end without a save.                         *)
LEMMA AnswerInv ==
  ASSUME IInv, RenameAnswered \/ StatusAnswered \/ CommandEnds
  PROVE  IInv'
<1>1. /\ cmd # NoCommand /\ cmd \in Commanded /\ ~InHand("command")
      /\ cmd' = NoCommand \/ (cmd.kind = "rename" /\ cmd' = [cmd EXCEPT !.kind = "save"])
      /\ torn' \in BOOLEAN
      /\ UNCHANGED <<data, patch, client, monitor, plugin, origin, overlap, missed>>
  BY DEF RenameAnswered, StatusAnswered, CommandEnds, Asking, IInv, TypeOK
<1>2. cmd' \in Commanded \cup {NoCommand} /\ (cmd' # NoCommand => cmd'.kind = "save")
  BY <1>1 DEF Commanded
<1>3. rows' \in [Servers -> SUBSET Row] /\ issued' \in 0 .. MaxSecrets
  <2>1. cmd.settings.server \in Servers /\ cmd.settings.name \in Names /\ cmd.name \in Names
    BY <1>1 DEF Commanded, Settings
  <2>2. CASE RenameAnswered
    BY <2>1, <2>2, RenamedKeeps DEF RenameAnswered, IInv, TypeOK
  <2>3. CASE StatusAnswered
    BY <2>1, <2>3, EnrolKeeps DEF StatusAnswered, IInv
  <2>4. CASE CommandEnds
    BY <2>4 DEF CommandEnds, IInv, TypeOK
  <2>. QED
    BY <2>2, <2>3, <2>4
<1>4. TypeOK' /\ Seen' /\ Bounded'
  BY <1>1, <1>2, <1>3 DEF IInv, TypeOK, Seen, Bounded
<1>5. ~Asking({"write"})' /\ (UnderWay' => UnderWay)
  BY <1>1, <1>2 DEF Asking, UnderWay, InHand
<1>6. ~overlap' => ~overlap /\ (obsidian = "loaded" => ~UnderWay')
  BY <1>1, <1>5 DEF IInv, Aside
<1>7. UNCHANGED <<data, patch, mem, home, link, pc, obsidian, plug, origin, missed>>
  BY <1>1
<1>. QED
  BY <1>1, <1>4, <1>5, <1>6, <1>7, QuietInv

(* Reading for the save of a name.                                         *)
LEMMA SaveNameInv == ASSUME IInv, SaveName PROVE IInv'
<1>. USE DEF Writers
<1>. DEFINE s == [data EXCEPT !.name = cmd.name]
<1>1. /\ cmd # NoCommand /\ cmd \in Commanded /\ cmd.kind = "save" /\ ~InHand("command")
      /\ Read("command", s) /\ cmd' = [cmd EXCEPT !.kind = "write"]
      /\ UNCHANGED <<rows, data, client, monitor, plugin, origin, torn, missed, issued>>
  BY DEF SaveName, Asking, IInv, TypeOK, Patching
<1>2. s \in Settings /\ s.server = data.server /\ s.rev = data.rev
      /\ s.secret = data.secret /\ s.name = cmd.name
  BY <1>1 DEF IInv, TypeOK, Settings, Commanded
<1>. HIDE DEF s
<1>3. /\ patch' \in [Writers -> Settings \cup {NoPatch}] /\ patch'["command"] = s
      /\ InHand("command")' /\ patch'["client"] = patch["client"]
      /\ overlap' \in BOOLEAN /\ (~overlap' => ~overlap)
      /\ ~overlap' => ~InHand("client") /\ ~InHand("client")'
  BY <1>1, <1>2, ReadKeeps DEF IInv
<1>4. cmd' \in Commanded /\ cmd' # NoCommand /\ cmd'.kind = "write" /\ cmd'.name = cmd.name
  BY <1>1, NoneIsNone DEF Commanded
<1>5. TypeOK' /\ Seen' /\ Bounded'
  BY <1>1, <1>3, <1>4 DEF IInv, TypeOK, Seen, Bounded
<1>6. InHand("client")' <=> InHand("client")
  BY <1>3 DEF InHand
<1>7. Patching'
  BY <1>1, <1>3, <1>4, <1>6 DEF IInv, Patching, Asking
<1>8. ~overlap' => Aside'
  BY <1>1, <1>3 DEF IInv, Aside, UnderWay, Asking
<1>9. ~overlap' => Timely'
  BY <1>1, <1>2, <1>3, <1>4 DEF Timely, Asking
<1>10. ~overlap' => Holds'
  BY <1>1, <1>3 DEF IInv, Holds
<1>. QED
  BY <1>5, <1>7, <1>8, <1>9, <1>10 DEF IInv

(* A command's write, or its death.                                        *)
LEMMA CommandWriteInv ==
  ASSUME IInv, CommandIdentity \/ RenameSaved \/ CommandDies
  PROVE  IInv'
<1>. USE DEF Writers
<1>1. /\ UNCHANGED <<rows, client, monitor, plugin, origin, overlap, missed, issued>>
      /\ torn' \in BOOLEAN
      /\ ~InHand("command")' /\ patch'["client"] = patch["client"]
      /\ patch' \in [Writers -> Settings \cup {NoPatch}]
      /\ data' \in Settings /\ (data' = data \/ (InHand("command") /\ data' = patch["command"]))
  BY WriteKeeps, DiscardKeeps DEF CommandIdentity, RenameSaved, CommandDies, IInv, TypeOK
<1>2. cmd' = NoCommand \/ (cmd' = cmd /\ ~Asking({"write"}))
  BY DEF CommandIdentity, RenameSaved, CommandDies, Asking
<1>3. ~overlap /\ data' # data =>
        /\ obsidian # "loaded" /\ ~InHand("client")
        /\ data'.server = data.server /\ data'.rev = data.rev
  BY <1>1 DEF IInv, Aside, Timely, UnderWay, InHand
<1>4. TypeOK' /\ Seen' /\ Bounded'
  BY <1>1, <1>2 DEF IInv, TypeOK, Seen, Bounded
<1>5. InHand("client")' <=> InHand("client")
  BY <1>1 DEF InHand
<1>6. Patching'
  BY <1>1, <1>2, <1>5 DEF IInv, Patching, Asking
<1>7. ~overlap' => Aside'
  BY <1>1, <1>2, <1>3, <1>5 DEF IInv, Aside, UnderWay, Asking
<1>8. ~overlap' => Timely'
  BY <1>1, <1>3, <1>5 DEF IInv, Timely, Credentials
<1>9. ~overlap' => Holds'
  BY <1>1, <1>3 DEF IInv, Holds
<1>. QED
  BY <1>4, <1>6, <1>7, <1>8, <1>9 DEF IInv

(* The commands keep the invariant. *)
LEMMA CommandsInv == ASSUME IInv, Commands PROVE IInv'
<1>1. CASE \E n \in Names : RenameClient(n)
  <2>1. PICK n \in Names : ~ObsidianRunning /\ Command("rename", n)
    BY <1>1 DEF RenameClient
  <2>2. obsidian = "closed"
    BY <2>1, RunningIsSeen
  <2>. QED
    BY <2>1, <2>2, CommandInv
<1>2. CASE Status
  <2>1. data.name \in Names
    BY DEF IInv, TypeOK, Settings
  <2>. QED
    BY <1>2, <2>1, CommandInv DEF Status
<1>. QED
  BY <1>1, <1>2, AnswerInv, SaveNameInv, CommandWriteInv DEF Commands

(* The plugin writes back what is there.                                   *)
LEMMA SavePluginInv ==
  ASSUME IInv, NEW s \in Settings, SavePlugin(s), obsidian = "loaded",
         ~overlap => s.marked /\ origin' = s.server,
         ~overlap => s.server = data.server \/ pc = "down",
         origin' \in Servers,
         UNCHANGED <<patch, client, monitor, obsidian, cmd, torn, overlap, missed>>,
         rows' \in [Servers -> SUBSET Row], issued' \in 0 .. MaxSecrets
  PROVE  IInv'
<1>1. data' = s /\ plug' = s
  BY DEF SavePlugin
<1>2. \A w \in Writers : InHand(w)' <=> InHand(w)
  BY DEF InHand
<1>3. TypeOK' /\ Seen' /\ Bounded'
  BY <1>1 DEF IInv, TypeOK, Seen, Bounded
<1>4. Patching'
  BY <1>2 DEF IInv, Patching, Asking, Writers
<1>5. ~overlap' => Aside'
  BY <1>1, <1>2 DEF IInv, Aside, UnderWay, Asking, Writers
<1>6. ~overlap => ~InHand("client") /\ ~InHand("command")
  BY DEF IInv, Aside, UnderWay, Writers
<1>7. ~overlap' => Timely'
  BY <1>2, <1>6 DEF Timely, Writers
<1>8. ~overlap' => Holds'
  BY <1>1 DEF IInv, Holds
<1>. QED
  BY <1>3, <1>4, <1>5, <1>7, <1>8 DEF IInv

(* Obsidian and its plugin keep the invariant. *)
LEMMA PluginInv == ASSUME IInv, Plugin PROVE IInv'
<1>1. CASE OpenObsidian
  <2>1. /\ obsidian = "closed" /\ obsidian' = "open"
        /\ UNCHANGED <<rows, data, patch, client, monitor, plug, cmd, history, issued>>
    BY <1>1 DEF OpenObsidian
  <2>2. TypeOK' /\ Seen' /\ Bounded' /\ Patching'
    BY <2>1 DEF IInv, TypeOK, Seen, Bounded, Patching, InHand, Asking
  <2>3. ~overlap' => Aside' /\ Timely' /\ Holds'
    BY <2>1 DEF IInv, Aside, Timely, Holds, InHand, Asking, Credentials
  <2>. QED
    BY <2>2, <2>3 DEF IInv
<1>2. CASE LoadPlugin
  <2>1. /\ obsidian = "open" /\ obsidian' = "loaded"
        /\ pc = "down" \/ (noticed /\ suspended)
        /\ data' = Loaded /\ plug' = Loaded
        /\ overlap' = (overlap \/ UnderWay)
        /\ UNCHANGED <<rows, patch, client, monitor, cmd, origin, torn, missed, bounds>>
    BY <1>2 DEF LoadPlugin
  <2>2. /\ Loaded \in Settings /\ Loaded.server = data.server /\ Loaded.rev = data.rev
        /\ Loaded.marked
    BY LoadedKeeps DEF IInv, TypeOK
  <2>3. overlap' \in BOOLEAN /\ (~overlap' => ~overlap /\ ~UnderWay)
    BY <2>1 DEF IInv, TypeOK
  <2>4. TypeOK' /\ Seen' /\ Bounded' /\ Patching'
    BY <2>1, <2>2, <2>3 DEF IInv, TypeOK, Seen, Bounded, Patching, InHand, Asking
  <2>5. UnderWay' <=> UnderWay
    BY <2>1 DEF UnderWay, InHand, Asking
  <2>6. ~overlap' => ~InHand("client")' /\ ~InHand("command")'
    BY <2>1, <2>3 DEF UnderWay, Writers, InHand
  <2>7. ~overlap' => Aside' /\ Timely'
    BY <2>1, <2>2, <2>3, <2>5, <2>6 DEF Aside, Timely
  <2>8. ~overlap' => Holds'
    BY <2>1, <2>2, <2>3 DEF IInv, Holds
  <2>. QED
    BY <2>4, <2>7, <2>8 DEF IInv
<1>3. ASSUME obsidian = "loaded"
      PROVE  /\ plug \in Settings
             /\ ~overlap => plug = data /\ plug.marked /\ plug.server = data.server
                            /\ origin = data.server
  BY <1>3 DEF IInv, Seen, Aside, Holds
<1>4. CASE PluginFollows
  <2>. DEFINE s == [plug EXCEPT !.rev = plug.rev + 1]
  <2>1. /\ obsidian = "loaded" /\ plug.rev < Tip /\ SavePlugin(s) /\ origin' = plug.server
        /\ UNCHANGED <<rows, patch, client, monitor, obsidian, cmd, torn, overlap, missed,
                       bounds>>
    BY <1>4 DEF PluginFollows
  <2>2. plug.rev + 1 \in 0 .. Tip
    BY <2>1, <1>3, Bounds DEF Settings
  <2>3. s \in Settings /\ s.marked = plug.marked /\ s.server = plug.server
    BY <2>1, <2>2, <1>3 DEF Settings
  <2>4. rows' \in [Servers -> SUBSET Row] /\ issued' \in 0 .. MaxSecrets /\ plug.server \in Servers
    BY <2>1, <1>3 DEF IInv, TypeOK, Settings
  <2>. HIDE DEF s
  <2>. QED
    BY <2>1, <2>3, <2>4, <1>3, SavePluginInv
<1>5. CASE PluginEnrols
  <2>. DEFINE s == [plug EXCEPT !.secret = issued + 1]
  <2>1. /\ obsidian = "loaded" /\ Enrol(plug.server, plug.name) /\ SavePlugin(s)
        /\ UNCHANGED <<patch, client, monitor, obsidian, cmd, history>>
    BY <1>5 DEF PluginEnrols
  <2>2. plug.server \in Servers /\ plug.name \in Names
    BY <2>1, <1>3 DEF Settings
  <2>3. /\ rows' \in [Servers -> SUBSET Row] /\ issued' \in 0 .. MaxSecrets
        /\ issued + 1 \in Secret
    BY <2>1, <2>2, EnrolKeeps DEF IInv
  <2>4. s \in Settings /\ s.marked = plug.marked /\ s.server = plug.server
    BY <2>1, <2>3, <1>3 DEF Settings
  <2>5. origin' \in Servers
    BY <2>1 DEF IInv, TypeOK
  <2>. HIDE DEF s
  <2>. QED
    BY <2>1, <2>3, <2>4, <2>5, <1>3, SavePluginInv
<1>6. CASE \E n \in Names : PluginRenames(n)
  <2>1. PICK n \in Names : PluginRenames(n)
    BY <1>6
  <2>. DEFINE s == [plug EXCEPT !.name = n]
  <2>2. /\ obsidian = "loaded" /\ Renamed(plug.server, plug.secret, n)
        /\ SavePlugin(s)
        /\ UNCHANGED <<patch, client, monitor, obsidian, cmd, history, bounds>>
    BY <2>1 DEF PluginRenames
  <2>3. rows' \in [Servers -> SUBSET Row] /\ issued' \in 0 .. MaxSecrets
    BY <2>2, <1>3, RenamedKeeps DEF IInv, TypeOK, Settings
  <2>4. s \in Settings /\ s.marked = plug.marked /\ s.server = plug.server
    BY <2>2, <1>3 DEF Settings
  <2>5. origin' \in Servers
    BY <2>2 DEF IInv, TypeOK
  <2>. HIDE DEF s
  <2>. QED
    BY <2>2, <2>3, <2>4, <2>5, <1>3, SavePluginInv
<1>7. CASE \E v \in Servers : PluginMoves(v)
  <2>1. PICK v \in Servers : PluginMoves(v)
    BY <1>7
  <2>. DEFINE s == [plug EXCEPT !.server = v, !.secret = issued + 1, !.rev = 0]
  <2>2. /\ obsidian = "loaded" /\ pc = "down" /\ Enrol(v, plug.name) /\ SavePlugin(s)
        /\ origin' = v
        /\ UNCHANGED <<patch, client, monitor, obsidian, cmd, torn, overlap, missed>>
    BY <2>1 DEF PluginMoves
  <2>3. /\ rows' \in [Servers -> SUBSET Row] /\ issued' \in 0 .. MaxSecrets
        /\ issued + 1 \in Secret
    BY <2>2, <1>3, EnrolKeeps DEF IInv, Settings
  <2>4. plug \in Settings /\ 0 \in 0 .. Tip
    BY <2>2, <1>3, Bounds
  <2>. DEFINE t == [plug EXCEPT !.server = v]
              u == [t EXCEPT !.secret = issued + 1]
  <2>5. t \in Settings /\ t.marked = plug.marked /\ t.server = v
    BY <2>4 DEF Settings
  <2>. HIDE DEF t
  <2>6. u \in Settings /\ u.marked = plug.marked /\ u.server = v
    BY <2>3, <2>5 DEF Settings
  <2>7. s = [u EXCEPT !.rev = 0]
    BY DEF t
  <2>. HIDE DEF u, s
  <2>8. s \in Settings /\ s.marked = plug.marked /\ s.server = v
    BY <2>4, <2>6, <2>7 DEF Settings
  <2>. QED
    BY <2>2, <2>3, <2>8, <1>3, SavePluginInv
<1>8. CASE CloseObsidian
  <2>1. /\ obsidian # "closed" /\ obsidian' = "closed" /\ plug' = NoPlugin
        /\ missed' = (missed \/ (obsidian = "loaded" /\ pc \notin {"down", "wait", "paused"}))
        /\ UNCHANGED <<rows, data, patch, client, monitor, cmd, origin, torn, overlap, issued>>
    BY <1>8 DEF CloseObsidian
  <2>2. TypeOK' /\ Seen' /\ Bounded' /\ Patching'
    BY <2>1 DEF IInv, TypeOK, Seen, Bounded, Patching, InHand, Asking
  <2>3. ~overlap' => Aside' /\ Timely'
    BY <2>1 DEF IInv, Aside, Timely, InHand, Asking, Credentials
  <2>4. ~overlap' => Holds'
    BY <2>1 DEF IInv, TypeOK, Holds
  <2>. QED
    BY <2>2, <2>3, <2>4 DEF IInv
<1>. QED
  BY <1>1, <1>2, <1>4, <1>5, <1>6, <1>7, <1>8 DEF Plugin

(* Every step keeps the invariant. *)
LEMMA StepInv == ASSUME IInv, [Next]_vars PROVE IInv'
<1>1. CASE AnotherEnrols
  <2>1. PICK s \in Servers, n \in Names : Enrol(s, n)
    BY <1>1 DEF AnotherEnrols
  <2>2. rows' \in [Servers -> SUBSET Row] /\ issued' \in 0 .. MaxSecrets
    BY <2>1, EnrolKeeps DEF IInv
  <2>3. UNCHANGED <<data, patch, client, monitor, plugin, cmd, history>>
    BY <1>1 DEF AnotherEnrols
  <2>4. TypeOK' /\ Seen' /\ Bounded' /\ Patching'
    BY <2>2, <2>3 DEF IInv, TypeOK, Seen, Bounded, Patching, InHand, Asking
  <2>5. ~overlap' => Aside' /\ Timely' /\ Holds'
    BY <2>3 DEF IInv, Aside, UnderWay, Timely, Holds, InHand, Asking, Credentials
  <2>. QED
    BY <2>4, <2>5 DEF IInv
<1>2. CASE UNCHANGED vars
  <2>1. TypeOK' /\ Seen' /\ Bounded' /\ Patching'
    BY <1>2 DEF IInv, TypeOK, Seen, Bounded, Patching, InHand, Asking, vars
  <2>2. ~overlap' => Aside' /\ Timely' /\ Holds'
    BY <1>2 DEF IInv, Aside, UnderWay, Timely, Holds, InHand, Asking, Credentials, vars
  <2>. QED
    BY <2>1, <2>2 DEF IInv
<1>. QED
  BY <1>1, <1>2, MonitorInv, StartInv, WorkInv, ReadInv, WriteInv, StopInv, CommandsInv, PluginInv
     DEF Next, Client, Follow
-----------------------------------------------------------------------------
(* The inductive invariant. *)
THEOREM HandoverInvariant == Spec => []IInv
<1>1. Init => IInv
  BY InitInv
<1>2. IInv /\ [Next]_vars => IInv'
  BY StepInv
<1>. QED
  BY <1>1, <1>2, PTL DEF Spec

(* Every variable keeps its type. *)
THEOREM TypeCorrect == Spec => []TypeOK
<1>1. IInv => TypeOK
  BY DEF IInv
<1>. QED
  BY <1>1, HandoverInvariant, PTL

(* Of the copies of the settings only one counts at any time.              *)
THEOREM OneCopyHolds == Spec => []OneCopy
<1>1. IInv => OneCopy
  BY DEF IInv, OneCopy, Aside, Holds, Working
<1>. QED
  BY <1>1, HandoverInvariant, PTL

(* A cursor is never saved for another server than its own.                *)
THEOREM CursorOfItsServerHolds == Spec => []CursorOfItsServer
<1>1. IInv => CursorOfItsServer
  BY DEF IInv, Holds, CursorOfItsServer
<1>. QED
  BY <1>1, HandoverInvariant, PTL

(* What a step does to the revision in data.json. *)
LEMMA StepKeepsCursor ==
  ASSUME IInv, [Next]_vars, ~overlap, ~missed, data'.server = data.server
  PROVE  data'.rev >= data.rev
<1>. USE DEF Writers
<1>. data \in Settings /\ data.rev \in Nat /\ mem.rev \in Nat
  BY Bounds DEF IInv, TypeOK, Settings
<1>1. CASE data' = data
  BY <1>1
<1>2. CASE data' = Loaded
  BY <1>2, LoadedKeeps
<1>3. CASE Write("client")
  <2>1. InHand("client") /\ data' = patch["client"]
    BY <1>3, WriteKeeps DEF IInv
  <2>2. obsidian # "loaded"
    BY <2>1 DEF IInv, Aside, UnderWay
  <2>3. data'.rev = IF pc = "saving" THEN mem.rev + 1 ELSE data.rev
    BY <2>1 DEF IInv, Timely
  <2>4. pc = "saving" => data.rev \in {mem.rev, mem.rev + 1}
    BY <2>2 DEF IInv, Holds
  <2>. QED
    BY <2>3, <2>4
<1>4. CASE Write("command")
  <2>1. InHand("command") /\ data' = patch["command"]
    BY <1>4, WriteKeeps DEF IInv
  <2>. QED
    BY <2>1 DEF IInv, Timely
<1>5. CASE Plugin
  <2>1. obsidian = "loaded" => plug = data
    BY DEF IInv, Aside
  <2>2. CASE PluginFollows
    BY <2>1, <2>2 DEF PluginFollows, SavePlugin, Settings
  <2>3. CASE PluginEnrols
    BY <2>1, <2>3 DEF PluginEnrols, SavePlugin, Settings
  <2>4. CASE \E n \in Names : PluginRenames(n)
    BY <2>1, <2>4 DEF PluginRenames, SavePlugin, Settings
  <2>5. CASE \E v \in Servers : PluginMoves(v)
    BY <2>1, <2>5 DEF PluginMoves, SavePlugin, Settings
  <2>6. CASE OpenObsidian \/ LoadPlugin \/ CloseObsidian
    BY <1>1, <1>2, <2>6 DEF OpenObsidian, LoadPlugin, CloseObsidian
  <2>. QED
    BY <1>5, <2>2, <2>3, <2>4, <2>5, <2>6 DEF Plugin
<1>6. CASE Commands
  BY <1>1, <1>4, <1>6 DEF Commands, RenameClient, Status, Command, CommandIdentity,
     RenameAnswered, SaveName, RenameSaved, StatusAnswered, CommandEnds, CommandDies
<1>7. CASE Client
  BY <1>1, <1>3, <1>7 DEF Client, Boot, EndWait, RecordIdentity, Verified, Enrolled,
     KeepCredentials, CredentialsSaved, StartUp, Follow, BeginTick, ApplyLine, SetRevision,
     RevisionSaved, RevisionFails, Interrupted, Pause, Resume
<1>8. CASE Monitor \/ AnotherEnrols \/ Stop \/ UNCHANGED vars
  BY <1>1, <1>8 DEF Monitor, Poll, Publish, AnotherEnrols, Stop, vars
<1>. QED
  BY <1>5, <1>6, <1>7, <1>8 DEF Next

(* What was once in two hands stays so.                                    *)
LEMMA OverlapStays == ASSUME IInv, [Next]_vars, overlap PROVE overlap'
<1>. USE DEF Read, Load
<1>1. CASE Client \/ Stop
  BY <1>1 DEF Client, Boot, EndWait, Reload, RecordIdentity, Verified, Enrolled, KeepCredentials,
     CredentialsSaved, StartUp, Follow, BeginTick, ApplyLine, SetRevision, RevisionSaved,
     RevisionFails, Interrupted, Pause, Resume, Stop
<1>2. CASE Commands
  BY <1>2 DEF Commands, RenameClient, Status, Command, CommandIdentity, RenameAnswered, SaveName,
     RenameSaved, StatusAnswered, CommandEnds, CommandDies
<1>3. CASE Plugin
  BY <1>3 DEF Plugin, OpenObsidian, LoadPlugin, PluginFollows, PluginEnrols, PluginRenames,
     PluginMoves, CloseObsidian
<1>4. CASE Monitor \/ AnotherEnrols \/ UNCHANGED vars
  BY <1>4 DEF Monitor, Poll, Publish, AnotherEnrols, vars
<1>. QED
  BY <1>1, <1>2, <1>3, <1>4 DEF Next

(* No save takes the cursor back. *)
THEOREM CursorKeptHolds == Spec => CursorKept
<1>1. IInv /\ [Next]_vars =>
        [~overlap' /\ ~missed /\ data'.server = data.server => data'.rev >= data.rev]_vars
  BY StepKeepsCursor, OverlapStays
<1>. QED
  BY <1>1, HandoverInvariant, PTL DEF Spec, CursorKept
-----------------------------------------------------------------------------
(* Credentials.  A secret the server has given or a name it has changed is *)
(* on its way into data.json in one hand only: of the client, whose file   *)
(* had none, or of a rename that began with the file's own secret.         *)
Secrets ==
  /\ pc \in {"enrolled", "keeping"} => data.secret = 0
  /\ pc = "keeping" => Credentials(patch["client"]) \in rows[data.server]
  /\ Asking({"rename", "save", "write"}) =>
       /\ cmd.settings.server = data.server
       /\ cmd.settings.secret # 0 => cmd.settings.secret = data.secret
  /\ Asking({"save", "write"}) =>
       [name |-> cmd.name, secret |-> data.secret] \in rows[data.server]
  /\ data.secret # 0 /\ ~Answered => Credentials(data) \in rows[data.server]

SInv == ~torn /\ ~overlap => Secrets

(* A file that is written with the credentials it had.                     *)
SameCredentials == Credentials(data') = Credentials(data) /\ data'.server = data.server

(* No server forgets a client. *)
Remembered == \A v \in Servers : rows[v] \subseteq rows'[v]

(* Enrolling adds a row and takes none. *)
LEMMA EnrolAdds ==
  ASSUME TypeOK, NEW s \in Servers, NEW n, Enrol(s, n)
  PROVE  Remembered /\ rows[s] = {} /\ [name |-> n, secret |-> issued + 1] \in rows'[s]
BY DEF TypeOK, Enrol, Remembered

(* A rename gives the name to the row of the secret.                       *)
LEMMA RenamedRow ==
  ASSUME TypeOK, NEW s \in Servers, NEW x, NEW n, Renamed(s, x, n)
  PROVE  x # 0 /\ [name |-> n, secret |-> x] \in rows'[s]
<1>1. PICK r \in rows[s] : r.secret = x
  BY DEF Renamed
<1>2. r \in Row
  BY <1>1 DEF TypeOK
<1>3. [r EXCEPT !.name = n] = [name |-> n, secret |-> x]
  BY <1>1, <1>2 DEF Row
<1>4. [r EXCEPT !.name = n] \in rows'[s]
  BY <1>1 DEF TypeOK, Renamed
<1>5. x # 0
  BY <1>1, <1>2 DEF Row
<1> QED
  BY <1>3, <1>4, <1>5

(* Steps that change neither the credentials nor what is in hand.          *)
LEMMA SameSecrets ==
  ASSUME IInv, IInv', SInv, ~overlap' => SameCredentials, Remembered, cmd' = cmd, torn' = torn,
         ~overlap' => ~overlap,
         pc' \in {"enrolled", "keeping"} <=> pc \in {"enrolled", "keeping"},
         pc' = "keeping" => pc = "keeping" /\ patch' = patch
  PROVE  SInv'
<1> SUFFICES ASSUME ~torn', ~overlap' PROVE Secrets'
  BY DEF SInv
<1>1. data.secret = data'.secret /\ data.name = data'.name /\ data.server = data'.server
  BY DEF SameCredentials, Credentials
<1>2. data.server \in Servers
  BY DEF IInv, TypeOK, Settings
<1>3. rows[data.server] \subseteq rows'[data.server]
  BY <1>2 DEF Remembered
<1>4. (Answered' <=> Answered) /\ Secrets
  BY DEF Answered, Asking, SInv
<1>5. \A k \in SUBSET {"rename", "save", "write"} : Asking(k)' <=> Asking(k)
  BY DEF Asking
<1>6. pc' = "keeping" => Credentials(patch'["client"]) \in rows'[data'.server]
  BY <1>1, <1>3, <1>4 DEF Secrets
<1>7. Asking({"rename", "save", "write"})' =>
        /\ cmd'.settings.server = data'.server
        /\ cmd'.settings.secret # 0 => cmd'.settings.secret = data'.secret
  BY <1>1, <1>4, <1>5 DEF Secrets
<1>8. Asking({"save", "write"})' =>
        [name |-> cmd'.name, secret |-> data'.secret] \in rows'[data'.server]
  BY <1>1, <1>3, <1>4, <1>5 DEF Secrets
<1>9. data'.secret # 0 /\ ~Answered' => Credentials(data') \in rows'[data'.server]
  BY <1>1, <1>3, <1>4 DEF Secrets, SameCredentials
<1> QED
  BY <1>1, <1>4, <1>6, <1>7, <1>8, <1>9 DEF Secrets

(* Nothing is in hand at the start. *)
LEMMA InitSecrets == ASSUME Init PROVE SInv
<1>1. PICK s \in Settings :
        /\ s.secret \in {0, 1} /\ data = s
        /\ rows = [v \in Servers |-> IF s.secret = 1 /\ v = s.server
                                     THEN {Credentials(s)} ELSE {}]
  BY DEF Init
<1>2. pc = "down" /\ cmd = NoCommand
  BY DEF Init
<1>3. s.server \in Servers
  BY DEF Settings
<1> QED
  BY <1>1, <1>2, <1>3 DEF SInv, Secrets, Asking

(* The client's saves of its cursor and of the identity put back the       *)
(* credentials that are there.                                             *)
LEMMA PatchSecrets ==
  ASSUME IInv, IInv', SInv, RecordIdentity \/ RevisionSaved \/ RevisionFails
  PROVE  SInv'
<1> USE DEF Writers
<1>1. /\ UNCHANGED <<rows, cmd, torn, overlap>>
      /\ pc \notin {"enrolled", "keeping"} /\ pc' \notin {"enrolled", "keeping"}
      /\ data' = data \/ (InHand("client") /\ data' = patch["client"])
  BY WriteKeeps DEF RecordIdentity, RevisionSaved, RevisionFails, IInv, Patching
<1>2. ~overlap' => SameCredentials
  BY <1>1 DEF SameCredentials, IInv, Timely
<1>3. Remembered
  BY <1>1 DEF Remembered
<1> QED
  BY <1>1, <1>2, <1>3, SameSecrets

(* The client asks for a secret only with a file that has none.            *)
LEMMA EnrolSecrets == ASSUME IInv, IInv', SInv, Enrolled PROVE SInv'
<1>1. /\ pc = "connect" /\ pc' = "enrolled" /\ Enrol(link.server, mem.name)
      /\ UNCHANGED <<data, cmd, torn>> /\ (~overlap' => ~overlap)
  BY DEF Enrolled
<1> SUFFICES ASSUME ~torn', ~overlap' PROVE Secrets'
  BY DEF SInv
<1>2. Secrets /\ link.server = data.server /\ data.server \in Servers
  BY <1>1 DEF IInv, Holds, TypeOK, Settings, SInv
<1>3. Remembered /\ rows[data.server] = {}
  BY <1>1, <1>2, EnrolAdds DEF IInv
<1>4. ~Answered /\ data.secret = 0
  BY <1>1, <1>2, <1>3 DEF Secrets, Answered
<1> QED
  BY <1>1, <1>2, <1>3, <1>4 DEF Secrets, Answered, Asking

(* The answer is put into a copy of the file that has no secret.           *)
LEMMA KeepSecrets == ASSUME IInv, IInv', SInv, KeepCredentials PROVE SInv'
<1>1. PICK row \in rows[link.server] :
        Read("client", [data EXCEPT !.name = row.name, !.secret = row.secret])
  BY DEF KeepCredentials
<1>2. pc = "enrolled" /\ pc' = "keeping" /\ UNCHANGED <<rows, data, cmd, torn>>
  BY DEF KeepCredentials
<1>3. ~overlap' => ~overlap
  BY <1>1 DEF Read
<1> SUFFICES ASSUME ~torn', ~overlap' PROVE Secrets'
  BY DEF SInv
<1>4. Secrets /\ link.server = data.server /\ data.server \in Servers
  BY <1>2, <1>3 DEF IInv, Holds, TypeOK, Settings, SInv
<1>5. row \in Row
  BY <1>1, <1>4 DEF IInv, TypeOK
<1> DEFINE s == [data EXCEPT !.name = row.name, !.secret = row.secret]
<1>6. s.name = row.name /\ s.secret = row.secret
  BY DEF IInv, TypeOK, Settings
<1>7. patch'["client"] = s
  BY <1>1 DEF Read, IInv, TypeOK, Writers
<1> HIDE DEF s
<1>8. Credentials(patch'["client"]) = row
  BY <1>5, <1>6, <1>7 DEF Credentials, Row
<1> QED
  BY <1>1, <1>2, <1>4, <1>8 DEF Secrets, Answered, Asking

(* The credentials the server gave are in the file.                        *)
LEMMA SavedSecrets == ASSUME IInv, IInv', SInv, CredentialsSaved PROVE SInv'
<1>1. /\ pc = "keeping" /\ pc' = "startup" /\ UNCHANGED <<rows, cmd, torn, overlap>>
      /\ InHand("client") /\ data' = patch["client"]
  BY WriteKeeps DEF CredentialsSaved, IInv, Writers
<1> SUFFICES ASSUME ~torn', ~overlap' PROVE Secrets'
  BY DEF SInv
<1>2. Secrets /\ data.secret = 0 /\ data'.server = data.server /\ data.server \in Servers
  BY <1>1 DEF SInv, Secrets, IInv, Timely, TypeOK, Settings
<1>3. Credentials(data') \in rows[data.server]
  BY <1>1, <1>2 DEF Secrets
<1>4. ~Asking({"save", "write"})
  <2> SUFFICES ASSUME Asking({"save", "write"}) PROVE FALSE
    OBVIOUS
  <2>1. [name |-> cmd.name, secret |-> data.secret] \in rows[data.server]
    BY <1>2 DEF Secrets
  <2>2. [name |-> cmd.name, secret |-> data.secret] \in Row
    BY <1>2, <2>1 DEF IInv, TypeOK
  <2> QED
    BY <1>2, <2>2 DEF Row
<1>5. Asking({"rename", "save", "write"}) =>
        cmd.settings.server = data.server /\ cmd.settings.secret = 0
  BY <1>2 DEF Secrets
<1>6. \A k \in SUBSET {"rename", "save", "write"} : Asking(k)' <=> Asking(k)
  BY <1>1 DEF Asking
<1> QED
  BY <1>1, <1>2, <1>3, <1>4, <1>5, <1>6 DEF Secrets

(* The client keeps the credentials.                                       *)
LEMMA ClientSecrets == ASSUME IInv, IInv', SInv, Client \/ Stop PROVE SInv'
<1>1. CASE \/ Boot \/ EndWait \/ Resume \/ Verified \/ StartUp \/ BeginTick \/ ApplyLine
           \/ SetRevision \/ Interrupted \/ Pause
  <2>1. /\ UNCHANGED <<rows, data, cmd, torn>>
        /\ pc \notin {"enrolled", "keeping"} /\ pc' \notin {"enrolled", "keeping"}
    BY <1>1 DEF Boot, EndWait, Resume, Reload, Verified, StartUp, BeginTick, ApplyLine,
       SetRevision, Interrupted, Pause
  <2>2. Remembered /\ SameCredentials
    BY <2>1 DEF Remembered, SameCredentials
  <2>3. ~overlap' => ~overlap
    BY OverlapStays DEF Next
  <2> QED
    BY <2>1, <2>2, <2>3, SameSecrets
<1>2. CASE Stop
  <2>1. /\ UNCHANGED <<rows, data, cmd, overlap>> /\ pc' = "down"
        /\ torn' = (torn \/ pc \in {"enrolled", "keeping"})
    BY <1>2 DEF Stop
  <2>2. CASE pc \in {"enrolled", "keeping"}
    BY <2>1, <2>2 DEF SInv
  <2>3. CASE pc \notin {"enrolled", "keeping"}
    <3>1. torn' = torn
      BY <2>1, <2>3 DEF IInv, TypeOK
    <3>2. Remembered /\ SameCredentials
      BY <2>1 DEF Remembered, SameCredentials
    <3> QED
      BY <2>1, <2>3, <3>1, <3>2, SameSecrets
  <2> QED
    BY <2>2, <2>3
<1> QED
  BY <1>1, <1>2, PatchSecrets, EnrolSecrets, KeepSecrets, SavedSecrets DEF Client, Follow

(* A command begins with the file's own secret.                            *)
LEMMA BeginSecrets ==
  ASSUME IInv, IInv', SInv, NEW kind \in {"rename", "status"}, NEW n, Command(kind, n),
         ~overlap' => ~overlap
  PROVE  SInv'
<1>1. /\ cmd = NoCommand /\ cmd' = [kind |-> kind, settings |-> Loaded, name |-> n]
      /\ UNCHANGED <<rows, data, pc, torn>>
  BY DEF Command
<1>2. Loaded.server = data.server /\ Loaded.secret = data.secret
  BY LoadedKeeps DEF IInv, TypeOK
<1> SUFFICES ASSUME ~torn', ~overlap' PROVE Secrets'
  BY DEF SInv
<1>3. Secrets /\ ~Asking({"save", "write"})' /\ ~Asking({"save", "write"})
  BY <1>1 DEF SInv, Asking
<1>4. pc' = "keeping" => patch'["client"] = patch["client"]
  <2>1. CASE patch' = patch
    BY <2>1
  <2>2. CASE Read("command", Loaded)
    BY <2>2 DEF Read, IInv, TypeOK, Writers
  <2> QED
    BY <2>1, <2>2 DEF Command, Load
<1>5. Asking({"rename", "save", "write"})' =>
        cmd'.settings.server = data.server /\ cmd'.settings.secret = data.secret
  BY <1>1, <1>2
<1> QED
  BY <1>1, <1>3, <1>4, <1>5 DEF Secrets, Answered

(* A rename the server has done is saved over the same secret.             *)
LEMMA AnswerSecrets == ASSUME IInv, IInv', SInv, RenameAnswered PROVE SInv'
<1>1. /\ cmd # NoCommand /\ cmd \in Commanded /\ cmd.kind = "rename"
      /\ Renamed(cmd.settings.server, cmd.settings.secret, cmd.name)
      /\ cmd' = [cmd EXCEPT !.kind = "save"]
      /\ UNCHANGED <<data, patch, pc, torn, overlap>>
  BY DEF RenameAnswered, Asking, IInv, TypeOK
<1> SUFFICES ASSUME ~torn', ~overlap' PROVE Secrets'
  BY DEF SInv
<1>2. /\ cmd.settings.server = data.server
      /\ cmd.settings.secret # 0 => cmd.settings.secret = data.secret
      /\ pc \in {"enrolled", "keeping"} => data.secret = 0
  BY <1>1 DEF SInv, Secrets, Asking
<1>3. data.server \in Servers
  BY DEF IInv, TypeOK, Settings
<1>4. /\ cmd.settings.secret # 0
      /\ [name |-> cmd.name, secret |-> cmd.settings.secret] \in rows'[data.server]
  BY <1>1, <1>2, <1>3, RenamedRow DEF IInv
<1>5. cmd'.kind = "save" /\ cmd'.settings = cmd.settings /\ cmd'.name = cmd.name
  BY <1>1 DEF Commanded
<1>6. cmd' # NoCommand
  BY <1>1, <1>5, NoneIsNone DEF IInv, TypeOK, Commanded
<1>7. data.secret # 0 /\ pc \notin {"enrolled", "keeping"}
  BY <1>2, <1>4
<1> QED
  BY <1>1, <1>2, <1>4, <1>5, <1>6, <1>7 DEF Secrets, Answered, Asking

(* The name that is saved is the one the server has.                       *)
LEMMA NameSecrets ==
  ASSUME IInv, IInv', SInv, SaveName \/ RenameSaved \/ CommandIdentity, ~overlap' => ~overlap
  PROVE  SInv'
<1> USE DEF Writers
<1>1. CASE SaveName
  <2>1. /\ cmd # NoCommand /\ cmd \in Commanded /\ cmd.kind = "save"
        /\ cmd' = [cmd EXCEPT !.kind = "write"] /\ UNCHANGED <<rows, data, pc, torn>>
        /\ patch'["client"] = patch["client"]
    BY <1>1 DEF SaveName, Asking, Read, IInv, TypeOK
  <2>2. cmd'.kind = "write" /\ cmd'.settings = cmd.settings /\ cmd'.name = cmd.name
    BY <2>1 DEF Commanded
  <2>3. cmd' # NoCommand
    BY <2>1, <2>2, NoneIsNone DEF IInv, TypeOK, Commanded
  <2> SUFFICES ASSUME ~torn', ~overlap' PROVE Secrets'
    BY DEF SInv
  <2>4. Secrets
    BY <2>1 DEF SInv
  <2> QED
    BY <2>1, <2>2, <2>3, <2>4 DEF Secrets, Answered, Asking
<1>2. CASE RenameSaved
  <2>1. /\ cmd # NoCommand /\ cmd.kind = "write" /\ cmd' = NoCommand
        /\ InHand("command") /\ data' = patch["command"]
        /\ UNCHANGED <<rows, pc, torn, overlap>> /\ patch'["client"] = patch["client"]
    BY <1>2, WriteKeeps DEF RenameSaved, Asking, IInv
  <2> SUFFICES ASSUME ~torn', ~overlap' PROVE Secrets'
    BY DEF SInv
  <2>2. data'.server = data.server /\ data'.secret = data.secret /\ data'.name = cmd.name
    BY <2>1 DEF IInv, Timely, Asking
  <2>3. /\ [name |-> cmd.name, secret |-> data.secret] \in rows[data.server]
        /\ pc \in {"enrolled", "keeping"} => data.secret = 0
        /\ pc = "keeping" => Credentials(patch["client"]) \in rows[data.server]
    BY <2>1 DEF SInv, Secrets, Asking
  <2> QED
    BY <2>1, <2>2, <2>3 DEF Secrets, Answered, Asking, Credentials
<1>3. CASE CommandIdentity
  <2>1. /\ Asking({"rename", "status"}) /\ InHand("command") /\ data' = patch["command"]
        /\ UNCHANGED <<rows, pc, cmd, torn, overlap>>
    BY <1>3, WriteKeeps DEF CommandIdentity, IInv
  <2>2. ~overlap => /\ data'.server = data.server /\ data'.secret = data.secret
                    /\ data'.name = data.name /\ ~InHand("client")
    BY <2>1 DEF IInv, Aside, Timely, Asking
  <2>3. ~overlap' => SameCredentials
    BY <2>1, <2>2 DEF SameCredentials, Credentials
  <2>4. ~overlap => pc # "keeping"
    BY <2>2 DEF IInv, Patching
  <2> SUFFICES ASSUME ~overlap PROVE SInv'
    BY <2>1 DEF SInv
  <2> QED
    BY <2>1, <2>3, <2>4, SameSecrets DEF Remembered
<1> QED
  BY <1>1, <1>2, <1>3

(* The commands keep the credentials, or die with an answer.               *)
LEMMA CommandSecrets == ASSUME IInv, IInv', SInv, Commands PROVE SInv'
<1>1. ~overlap' => ~overlap
  BY OverlapStays DEF Next
<1>2. CASE (\E n \in Names : RenameClient(n)) \/ Status
  BY <1>1, <1>2, BeginSecrets DEF RenameClient, Status
<1>3. CASE StatusAnswered
  BY <1>3 DEF StatusAnswered, SInv
<1>4. CASE CommandEnds \/ CommandDies
  <2>1. /\ cmd # NoCommand /\ cmd' = NoCommand /\ UNCHANGED <<rows, data, pc, overlap>>
        /\ ~Asking({"save", "write"}) \/ torn'
        /\ torn => torn'
        /\ patch'["client"] = patch["client"]
    BY <1>4, DiscardKeeps DEF CommandEnds, CommandDies, Asking, IInv, TypeOK, Writers
  <2> SUFFICES ASSUME ~torn', ~overlap' PROVE Secrets'
    BY DEF SInv
  <2>2. Secrets /\ ~Asking({"save", "write"})
    BY <2>1 DEF SInv
  <2> QED
    BY <2>1, <2>2 DEF Secrets, Answered, Asking
<1> QED
  BY <1>1, <1>2, <1>3, <1>4, AnswerSecrets, NameSecrets DEF Commands

(* The plugin's writes: what the server has just agreed to. *)
LEMMA PluginWrites ==
  ASSUME IInv, IInv', SInv, NEW s \in Settings, SavePlugin(s), obsidian = "loaded",
         UNCHANGED <<patch, pc, cmd, torn, overlap>>,
         ~torn /\ ~overlap => Credentials(s) \in rows'[s.server]
  PROVE  SInv'
<1>1. data' = s
  BY DEF SavePlugin
<1> SUFFICES ASSUME ~torn', ~overlap' PROVE Secrets'
  BY DEF SInv
<1>2. /\ pc \notin {"enrolled", "keeping"} /\ ~Asking({"rename", "save", "write"})
      /\ ~Asking({"save", "write"})
  BY DEF IInv, Aside, UnderWay, Patching, Asking, Writers
<1> QED
  BY <1>1, <1>2 DEF Secrets, Asking

(* Obsidian and its plugin keep the credentials.                           *)
LEMMA PluginSecrets ==
  ASSUME IInv, IInv', SInv, Plugin
  PROVE  SInv'
<1>1. CASE OpenObsidian \/ LoadPlugin \/ CloseObsidian
  <2>1. (data' = data \/ data' = Loaded) /\ UNCHANGED <<rows, patch, pc, cmd, torn>>
    BY <1>1 DEF OpenObsidian, LoadPlugin, CloseObsidian
  <2>2. SameCredentials
    BY <2>1, LoadedKeeps DEF SameCredentials, Credentials, IInv, TypeOK
  <2>3. ~overlap' => ~overlap
    BY OverlapStays DEF Next
  <2> QED
    BY <2>1, <2>2, <2>3, SameSecrets DEF Remembered
<1>2. ASSUME obsidian = "loaded"
      PROVE  plug \in Settings /\ (~overlap => plug = data)
  BY <1>2 DEF IInv, Seen, Aside
<1>3. CASE PluginFollows
  <2>1. /\ obsidian = "loaded" /\ SavePlugin([plug EXCEPT !.rev = plug.rev + 1])
        /\ UNCHANGED <<rows, patch, pc, cmd, torn, overlap>>
    BY <1>3 DEF PluginFollows
  <2>2. ~overlap => data' = [data EXCEPT !.rev = data.rev + 1]
    BY <1>2, <2>1 DEF SavePlugin
  <2>3. ~overlap' => SameCredentials
    BY <2>1, <2>2 DEF SameCredentials, Credentials, IInv, TypeOK, Settings
  <2> QED
    BY <2>1, <2>3, SameSecrets DEF Remembered
<1>4. CASE PluginEnrols
  <2> DEFINE s == [plug EXCEPT !.secret = issued + 1]
  <2>1. /\ obsidian = "loaded" /\ Enrol(plug.server, plug.name) /\ SavePlugin(s)
        /\ UNCHANGED <<patch, pc, cmd, torn, overlap>>
    BY <1>4 DEF PluginEnrols
  <2>2. plug.server \in Servers /\ plug.name \in Names
    BY <1>2, <2>1 DEF Settings
  <2>3. /\ [name |-> plug.name, secret |-> issued + 1] \in rows'[plug.server]
        /\ issued + 1 \in Secret
    BY <2>1, <2>2, EnrolAdds, EnrolKeeps DEF IInv
  <2>4. s \in Settings /\ s.server = plug.server /\ s.name = plug.name /\ s.secret = issued + 1
    BY <1>2, <2>1, <2>3 DEF Settings
  <2>5. Credentials(s) \in rows'[s.server]
    BY <2>3, <2>4 DEF Credentials
  <2> HIDE DEF s
  <2> QED
    BY <2>1, <2>4, <2>5, PluginWrites
<1>5. CASE \E n \in Names : PluginRenames(n)
  <2>1. PICK n \in Names : PluginRenames(n)
    BY <1>5
  <2> DEFINE s == [plug EXCEPT !.name = n]
  <2>2. /\ obsidian = "loaded" /\ Renamed(plug.server, plug.secret, n) /\ SavePlugin(s)
        /\ UNCHANGED <<patch, pc, cmd, torn, overlap>>
    BY <2>1 DEF PluginRenames
  <2>3. plug.server \in Servers
    BY <1>2, <2>2 DEF Settings
  <2>4. [name |-> n, secret |-> plug.secret] \in rows'[plug.server]
    BY <2>2, <2>3, RenamedRow DEF IInv
  <2>5. s \in Settings /\ s.server = plug.server /\ s.name = n /\ s.secret = plug.secret
    BY <1>2, <2>2 DEF Settings
  <2>6. Credentials(s) \in rows'[s.server]
    BY <2>4, <2>5 DEF Credentials
  <2> HIDE DEF s
  <2> QED
    BY <2>2, <2>5, <2>6, PluginWrites
<1>6. CASE \E v \in Servers : PluginMoves(v)
  <2>1. PICK v \in Servers : PluginMoves(v)
    BY <1>6
  <2> DEFINE s == [plug EXCEPT !.server = v, !.secret = issued + 1, !.rev = 0]
  <2>2. /\ obsidian = "loaded" /\ Enrol(v, plug.name) /\ SavePlugin(s)
        /\ UNCHANGED <<patch, pc, cmd, torn, overlap>>
    BY <2>1 DEF PluginMoves
  <2>3. plug \in Settings /\ data' = s /\ data' \in Settings
    BY <1>2, <2>2 DEF SavePlugin, IInv, TypeOK
  <2>4. [name |-> plug.name, secret |-> issued + 1] \in rows'[v]
    BY <2>2, EnrolAdds DEF IInv
  <2>5. s.server = v /\ s.name = plug.name /\ s.secret = issued + 1
    BY <2>3 DEF Settings
  <2>6. Credentials(s) \in rows'[s.server]
    BY <2>4, <2>5 DEF Credentials
  <2> HIDE DEF s
  <2> QED
    BY <2>2, <2>3, <2>6, PluginWrites
<1> QED
  BY <1>1, <1>3, <1>4, <1>5, <1>6 DEF Plugin

(* Every step keeps the credentials. *)
LEMMA StepSecrets ==
  ASSUME IInv, IInv', SInv, [Next]_vars
  PROVE  SInv'
<1>1. CASE AnotherEnrols
  <2>1. PICK s \in Servers, n \in Names : Enrol(s, n)
    BY <1>1 DEF AnotherEnrols
  <2>2. UNCHANGED <<data, patch, pc, cmd, torn, overlap>>
    BY <1>1 DEF AnotherEnrols
  <2>3. Remembered /\ SameCredentials
    BY <2>1, <2>2, EnrolAdds DEF SameCredentials, Credentials, IInv
  <2> QED
    BY <2>2, <2>3, SameSecrets
<1>2. CASE Monitor \/ UNCHANGED vars
  <2>1. UNCHANGED <<rows, data, patch, pc, cmd, torn, overlap>>
    BY <1>2 DEF Monitor, Poll, Publish, vars
  <2>2. Remembered /\ SameCredentials
    BY <2>1 DEF Remembered, SameCredentials, Credentials
  <2> QED
    BY <2>1, <2>2, SameSecrets
<1> QED
  BY <1>1, <1>2, ClientSecrets, CommandSecrets, PluginSecrets DEF Next

(* What the server knows the client by is in data.json whenever no answer  *)
(* is in hand and no program has died with one.                            *)
THEOREM CredentialsKeptHolds == Spec => []CredentialsKept
<1>1. Init => SInv
  BY InitSecrets
<1>2. IInv /\ IInv' /\ SInv /\ [Next]_vars => SInv'
  BY StepSecrets
<1>3. SInv => CredentialsKept
  BY DEF SInv, Secrets, CredentialsKept
<1> QED
  BY <1>1, <1>2, <1>3, HandoverInvariant, PTL DEF Spec
=============================================================================
