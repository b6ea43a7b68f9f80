------------------------------ MODULE Handover ------------------------------
(***************************************************************************)
(* rust-client/src/{daemon,settings,guard,transport,cli}.rs: who may touch *)
(* data.json and with which credentials.  Three programs share the file:   *)
(* the client, which connects, follows the server and makes way while      *)
(* Obsidian runs; the plugin, which keeps the whole file in memory and     *)
(* writes it back whole; and the commands of cli.rs.  The engine is        *)
(* reduced to its cursor here, its operations are in RustClient.           *)
(***************************************************************************)
EXTENDS Naturals, FiniteSets

CONSTANTS
  Servers, Names,
  Tip,          \* bound: every server's last revision
  MaxSecrets,   \* bound: secrets a server has issued
  MaxSessions,  \* bound: times Obsidian is opened
  MaxCommands,  \* bound: runs of status and rename-client
  MaxFaults,    \* bound: failed saves and crashes
  Others,       \* the other processes of this machine
  NoPlugin, NoCommand, NoPatch

ASSUME Bounds ==
  /\ {Tip, MaxSecrets, MaxSessions, MaxCommands, MaxFaults} \subseteq Nat
  /\ MaxSecrets >= 1
  /\ Servers # {} /\ Names # {}

VARIABLES
  rows,       \* the table clients of every server
  data,       \* data.json
  patch,      \* per program: what it read and changed and will write
  mem,        \* the client's Settings
  home,       \* the server whose state directory it uses
  link,       \* the server and the secret of its transport
  pc,         \* where the client is
  noticed,    \* the monitor's flag: Obsidian runs
  suspended,  \* the monitor's flag: touch nothing
  obsidian,   \* "closed", "open", or "loaded" when the plugin runs
  plug,       \* the plugin's settings
  cmd,        \* the command in progress
  origin,     \* history: the server whose revisions data.rev counts
  torn,       \* history: a credential the server changed was never saved
  overlap,    \* history: two programs had data.json in hand at once
  missed,     \* history: a session ended before the client made way for it
  issued, sessions, commands, faults

client == <<mem, home, link, pc>>
monitor == <<noticed, suspended>>
plugin == <<obsidian, plug>>
history == <<origin, torn, overlap, missed>>
bounds == <<issued, sessions, commands, faults>>
vars == <<rows, data, patch, client, monitor, plugin, cmd, history, bounds>>

Secret == 0 .. MaxSecrets   \* 0: "Made by server"
Row == [name : Names, secret : Secret \ {0}]
Settings == [server : Servers, name : Names, secret : Secret, rev : 0 .. Tip,
             marked : BOOLEAN]   \* marked: serverIdentity is recorded
Commanded == [kind : {"rename", "save", "write", "status"}, settings : Settings,
              name : Names]
Writers == {"client", "command"}

ASSUME NoneIsNone == NoCommand \notin Commanded /\ NoPatch \notin Settings

Link(s) == [server |-> s.server, secret |-> s.secret]
Credentials(s) == [name |-> s.name, secret |-> s.secret]

Init ==
  /\ \E s \in Settings :
       /\ s.secret \in {0, 1} /\ s.rev = 0
       /\ data = s /\ mem = s /\ origin = s.server
       /\ home = s.server /\ link = Link(s)
       /\ rows = [v \in Servers |-> IF s.secret = 1 /\ v = s.server
                                    THEN {Credentials(s)} ELSE {}]
  /\ issued = 1
  /\ pc = "down" /\ noticed = FALSE /\ suspended = FALSE
  /\ obsidian = "closed" /\ plug = NoPlugin
  /\ cmd = NoCommand
  /\ patch = [w \in Writers |-> NoPatch]
  /\ torn = FALSE /\ overlap = FALSE /\ missed = FALSE
  /\ sessions = 0 /\ commands = 0 /\ faults = 0
-----------------------------------------------------------------------------
(* settings.rs: whoever changes the file reads it, puts the new fields in, *)
(* and replaces it: two steps, and nothing keeps the others out between.   *)

InHand(w) == patch[w] # NoPatch

Read(w, object) ==
  /\ patch' = [patch EXCEPT ![w] = object]
  /\ overlap' = (overlap \/ \E v \in Writers \ {w} : InHand(v))

Discard(w) == patch' = [patch EXCEPT ![w] = NoPatch]

Write(w) == InHand(w) /\ data' = patch[w] /\ Discard(w)

(* Settings::load: an old file gets its serverIdentity.                    *)
Loaded == [data EXCEPT !.marked = TRUE]

Load(w) == IF data.marked THEN UNCHANGED <<patch, overlap>> ELSE Read(w, Loaded)

(* Mutant: the settings of the start stay in use. *)
ReloadNothing == mem' = mem /\ missed' = FALSE /\ UNCHANGED <<patch, overlap>>

Reload == mem' = Loaded /\ missed' = FALSE /\ Load("client")

(* Mutant: the client's own copy is written, as the plugin does. *)
NextRevisionWhole == [mem EXCEPT !.rev = @ + 1]

NextRevision == [data EXCEPT !.rev = mem.rev + 1]

(* guard.rs: the app, its wrapper, an Electron that runs it; not this      *)
(* client and not another user's.                                          *)
IsObsidian(p) == p.comm = "obsidian" \/ (p.comm = "electron" /\ p.runs = "obsidian")

Processes ==
  Others \cup (IF obsidian = "closed" THEN {}
               ELSE {[uid |-> "owner", comm |-> "obsidian", runs |-> "obsidian"]})

(* Mutant: every user's processes count. *)
ObsidianRunningAnyUser == \E p \in Processes : IsObsidian(p)

ObsidianRunning == \E p \in Processes : p.uid = "owner" /\ IsObsidian(p)

(* The monitor thread.  It polls every second, and publishes ten times as  *)
(* often.                                                                  *)
Poll ==
  /\ pc # "down"
  /\ noticed' = ObsidianRunning
  /\ UNCHANGED <<rows, data, patch, client, suspended, plugin, cmd, history, bounds>>

Publish ==
  /\ pc # "down"
  /\ suspended' = noticed
  /\ UNCHANGED <<rows, data, patch, client, noticed, plugin, cmd, history, bounds>>
-----------------------------------------------------------------------------
(* POST /auth: a row that matches, or the first client of all.             *)

Matches(server, row) == row \in rows[server]

Enrol(server, name) ==
  /\ rows[server] = {} /\ issued < MaxSecrets
  /\ issued' = issued + 1
  /\ rows' = [rows EXCEPT ![server] = {[name |-> name, secret |-> issued + 1]}]

(* POST /reset-client-name: the secret alone says whose; names are unique. *)
Renamed(server, secret, name) ==
  LET mine == {r \in rows[server] : r.secret = secret}
  IN  /\ mine # {} /\ \A r \in rows[server] \ mine : r.name # name
      /\ rows' = [rows EXCEPT ![server] =
                     (@ \ mine) \cup {[r EXCEPT !.name = name] : r \in mine}]

(* Another device is the first. *)
AnotherEnrols ==
  /\ \E s \in Servers, n \in Names : Enrol(s, n)
  /\ UNCHANGED <<data, patch, client, monitor, plugin, cmd, history,
                 sessions, commands, faults>>
-----------------------------------------------------------------------------
(* The client starts *)

(* run up to the first wait: the lock is free, Obsidian is looked for once *)
(* before the monitor starts.                                              *)
Boot ==
  /\ pc = "down" /\ pc' = "wait"
  /\ Reload
  /\ home' = mem'.server
  /\ noticed' = ObsidianRunning /\ suspended' = FALSE
  /\ UNCHANGED <<rows, data, link, plugin, cmd, origin, torn, bounds>>

EndWait ==
  /\ pc = "wait" /\ ~noticed /\ ~InHand("client") /\ pc' = "connect"
  /\ Reload
  /\ link' = Link(mem')
  /\ UNCHANGED <<rows, data, home, monitor, plugin, cmd, origin, torn, bounds>>

(* The second half of a load that found no identity. *)
RecordIdentity ==
  /\ pc \notin {"keeping", "saving"}
  /\ Write("client")
  /\ UNCHANGED <<rows, client, monitor, plugin, cmd, history, bounds>>

(* connect: retried until it succeeds, with the settings of EndWait, and   *)
(* whatever Obsidian does meanwhile.                                       *)
Verified ==
  /\ pc = "connect" /\ ~InHand("client") /\ pc' = "startup"
  /\ Matches(link.server, [name |-> mem.name, secret |-> link.secret])
  /\ UNCHANGED <<rows, data, patch, mem, home, link, monitor, plugin, cmd, history, bounds>>

Enrolled ==
  /\ pc = "connect" /\ ~InHand("client") /\ pc' = "enrolled"
  /\ Enrol(link.server, mem.name)
  /\ overlap' = (overlap \/ obsidian = "loaded")
  /\ UNCHANGED <<data, patch, mem, home, link, monitor, plugin, cmd, origin, torn, missed,
                 sessions, commands, faults>>

(* save_credentials. The answer names the row of this client, the only one *)
(* there was.                                                              *)
KeepCredentials ==
  /\ pc = "enrolled" /\ pc' = "keeping"
  /\ \E row \in rows[link.server] :
       Read("client", [data EXCEPT !.name = row.name, !.secret = row.secret])
  /\ UNCHANGED <<rows, data, mem, home, link, monitor, plugin, cmd, origin, torn, missed,
                 bounds>>

CredentialsSaved ==
  /\ pc = "keeping" /\ pc' = "startup"
  /\ Write("client")
  /\ mem' = [mem EXCEPT !.name = data'.name, !.secret = data'.secret]
  /\ link' = [link EXCEPT !.secret = data'.secret]
  /\ UNCHANGED <<rows, home, monitor, plugin, cmd, history, bounds>>

(* startup_reconcile: see RustClient and MassPush. *)
StartUp ==
  /\ pc = "startup" /\ pc' = "loop"
  /\ UNCHANGED <<rows, data, patch, mem, home, link, monitor, plugin, cmd, history, bounds>>
-----------------------------------------------------------------------------
(* The client follows the server *)

BeginTick ==
  /\ pc = "loop" /\ ~noticed /\ ~suspended /\ ~InHand("client")
  /\ mem.rev < Tip
  /\ pc' = "fetched"
  /\ UNCHANGED <<rows, data, patch, mem, home, link, monitor, plugin, cmd, history, bounds>>

(* assert_active before the file is written, and before the cursor is. *)
ApplyLine ==
  /\ pc = "fetched" /\ ~suspended
  /\ pc' = "applied"
  /\ UNCHANGED <<rows, data, patch, mem, home, link, monitor, plugin, cmd, history, bounds>>

(* Mutant: set_revision does not look. *)
ActiveAlways == TRUE

Active == ~suspended

SetRevision ==
  /\ pc = "applied" /\ Active /\ pc' = "saving"
  /\ Read("client", NextRevision)
  /\ UNCHANGED <<rows, data, mem, home, link, monitor, plugin, cmd, origin, torn, missed,
                 bounds>>

RevisionSaved ==
  /\ pc = "saving" /\ pc' = "loop"
  /\ Write("client")
  /\ mem' = [mem EXCEPT !.rev = @ + 1]
  /\ origin' = link.server
  /\ UNCHANGED <<rows, home, link, monitor, plugin, cmd, torn, overlap, missed, bounds>>

(* write_object fails, before its rename or after it; memory keeps its     *)
(* cursor and the tick ends.                                               *)
RevisionFails ==
  /\ pc = "saving" /\ pc' = "loop"
  /\ faults < MaxFaults /\ faults' = faults + 1
  /\ \/ Discard("client") /\ UNCHANGED <<data, origin>>
     \/ Write("client") /\ origin' = link.server
  /\ UNCHANGED <<rows, mem, home, link, monitor, plugin, cmd, torn, overlap, missed,
                 issued, sessions, commands>>

Interrupted ==
  /\ pc \in {"fetched", "applied"} /\ suspended
  /\ pc' = "loop"
  /\ UNCHANGED <<rows, data, patch, mem, home, link, monitor, plugin, cmd, history, bounds>>

Pause ==
  /\ pc = "loop" /\ noticed /\ ~InHand("client")
  /\ pc' = "paused"
  /\ UNCHANGED <<rows, data, patch, mem, home, link, monitor, plugin, cmd, history, bounds>>

(* pause_for_obsidian after the wait: the cursor and the journals are      *)
(* taken over, the transport keeps its server and its secret.              *)
Resume ==
  /\ pc = "paused" /\ ~noticed
  /\ Reload
  /\ pc' = "loop"
  /\ UNCHANGED <<rows, data, home, link, monitor, plugin, cmd, origin, torn, bounds>>
-----------------------------------------------------------------------------
(* Stops: a crash, an error that ends run, or SIGTERM, and a start of the  *)
(* service.                                                                *)
Stop ==
  /\ pc # "down" /\ pc' = "down"
  /\ faults < MaxFaults /\ faults' = faults + 1
  /\ noticed' = FALSE /\ suspended' = FALSE
  /\ Discard("client")
  /\ torn' = (torn \/ pc \in {"enrolled", "keeping"})
  /\ UNCHANGED <<rows, data, mem, home, link, plugin, cmd, origin, overlap, missed,
                 issued, sessions, commands>>
-----------------------------------------------------------------------------
(* Commands: cli.rs.  Each opens data.json, asks the server, and saves.    *)

Command(kind, name) ==
  /\ cmd = NoCommand /\ commands < MaxCommands /\ commands' = commands + 1
  /\ Load("command")
  /\ cmd' = [kind |-> kind, settings |-> Loaded, name |-> name]
  /\ UNCHANGED <<rows, data, client, monitor, plugin, origin, torn, missed, issued, sessions,
                 faults>>

(* rename-client refuses while Obsidian runs. *)
RenameClient(name) == ~ObsidianRunning /\ Command("rename", name)

(* status may be run at any time. *)
Status == Command("status", data.name)

Asking(kinds) == cmd # NoCommand /\ cmd.kind \in kinds

CommandIdentity ==
  /\ Asking({"rename", "status"})
  /\ Write("command")
  /\ UNCHANGED <<rows, client, monitor, plugin, cmd, history, bounds>>

RenameAnswered ==
  /\ Asking({"rename"}) /\ ~InHand("command")
  /\ Renamed(cmd.settings.server, cmd.settings.secret, cmd.name)
  /\ cmd' = [cmd EXCEPT !.kind = "save"]
  /\ UNCHANGED <<data, patch, client, monitor, plugin, history, bounds>>

(* save_client_name *)
SaveName ==
  /\ Asking({"save"})
  /\ Read("command", [data EXCEPT !.name = cmd.name])
  /\ cmd' = [cmd EXCEPT !.kind = "write"]
  /\ UNCHANGED <<rows, data, client, monitor, plugin, origin, torn, missed, bounds>>

RenameSaved ==
  /\ Asking({"write"})
  /\ Write("command")
  /\ cmd' = NoCommand
  /\ UNCHANGED <<rows, client, monitor, plugin, history, bounds>>

(* The secret in the answer of an empty server is printed nowhere and      *)
(* saved nowhere.                                                          *)
StatusAnswered ==
  /\ Asking({"status"}) /\ ~InHand("command")
  /\ Enrol(cmd.settings.server, cmd.settings.name)
  /\ torn' = TRUE
  /\ cmd' = NoCommand
  /\ UNCHANGED <<data, patch, client, monitor, plugin, origin, overlap, missed,
                 sessions, commands, faults>>

(* Refused, the request failed, or nothing to keep from the answer. *)
CommandEnds ==
  /\ Asking({"rename", "status"}) /\ ~InHand("command")
  /\ cmd' = NoCommand
  /\ UNCHANGED <<rows, data, patch, client, monitor, plugin, history, bounds>>

CommandDies ==
  /\ cmd # NoCommand /\ cmd' = NoCommand
  /\ faults < MaxFaults /\ faults' = faults + 1
  /\ Discard("command")
  /\ torn' = (torn \/ Asking({"save", "write"}))
  /\ UNCHANGED <<rows, data, client, monitor, plugin, origin, overlap, missed,
                 issued, sessions, commands>>
-----------------------------------------------------------------------------
(* Obsidian and the plugin: main.ts.                                       *)

OpenObsidian ==
  /\ obsidian = "closed" /\ sessions < MaxSessions /\ sessions' = sessions + 1
  /\ obsidian' = "open"
  /\ UNCHANGED <<rows, data, patch, client, monitor, plug, cmd, history, issued, commands,
                 faults>>

(* A save, an enrolment or a rename that the plugin cannot see. *)
UnderWay == (\E w \in Writers : InHand(w)) \/ pc = "enrolled" \/ Asking({"rename", "save"})

(* Obsidian takes longer to load a plugin than the monitor to notice it. *)
LoadPlugin ==
  /\ obsidian = "open"
  /\ pc = "down" \/ (noticed /\ suspended)
  /\ obsidian' = "loaded"
  /\ data' = Loaded /\ plug' = Loaded
  /\ overlap' = (overlap \/ UnderWay)
  /\ UNCHANGED <<rows, patch, client, monitor, cmd, origin, torn, missed, bounds>>

SavePlugin(settings) == plug' = settings /\ data' = settings

PluginFollows ==
  /\ obsidian = "loaded" /\ plug.rev < Tip
  /\ SavePlugin([plug EXCEPT !.rev = @ + 1])
  /\ origin' = plug.server
  /\ UNCHANGED <<rows, patch, client, monitor, obsidian, cmd, torn, overlap, missed, bounds>>

PluginEnrols ==
  /\ obsidian = "loaded"
  /\ Enrol(plug.server, plug.name)
  /\ SavePlugin([plug EXCEPT !.secret = issued + 1])
  /\ UNCHANGED <<patch, client, monitor, obsidian, cmd, history, sessions, commands, faults>>

PluginRenames(name) ==
  /\ obsidian = "loaded"
  /\ Renamed(plug.server, plug.secret, name)
  /\ SavePlugin([plug EXCEPT !.name = name])
  /\ UNCHANGED <<patch, client, monitor, obsidian, cmd, history, bounds>>

(* Another server, which the plugin enrols at: its revisions start again.  *)
(* A person does this with the client stopped: its transport and its state *)
(* directory are those of the server it started with.                      *)
PluginMoves(server) ==
  /\ obsidian = "loaded" /\ server # plug.server
  /\ pc = "down"
  /\ Enrol(server, plug.name)
  /\ SavePlugin([plug EXCEPT !.server = server, !.secret = issued + 1, !.rev = 0])
  /\ origin' = server
  /\ UNCHANGED <<patch, client, monitor, obsidian, cmd, torn, overlap, missed,
                 sessions, commands, faults>>

CloseObsidian ==
  /\ obsidian # "closed" /\ obsidian' = "closed"
  /\ plug' = NoPlugin
  /\ missed' = (missed \/ (obsidian = "loaded" /\ pc \notin {"down", "wait", "paused"}))
  /\ UNCHANGED <<rows, data, patch, client, monitor, cmd, origin, torn, overlap, bounds>>
-----------------------------------------------------------------------------
Monitor == Poll \/ Publish

Follow ==
  BeginTick \/ ApplyLine \/ SetRevision \/ RevisionSaved \/ RevisionFails \/ Interrupted

Client ==
  \/ Boot \/ EndWait \/ RecordIdentity \/ Verified
  \/ Enrolled \/ KeepCredentials \/ CredentialsSaved \/ StartUp
  \/ Follow \/ Pause \/ Resume

Commands ==
  \/ \E n \in Names : RenameClient(n)
  \/ Status \/ CommandIdentity \/ StatusAnswered
  \/ RenameAnswered \/ SaveName \/ RenameSaved \/ CommandEnds \/ CommandDies

Plugin ==
  \/ OpenObsidian \/ LoadPlugin \/ PluginFollows \/ PluginEnrols \/ CloseObsidian
  \/ \E n \in Names : PluginRenames(n)
  \/ \E s \in Servers : PluginMoves(s)

Next == Monitor \/ Client \/ Commands \/ Plugin \/ AnotherEnrols \/ Stop

Spec == Init /\ [][Next]_vars

(* Two threads, and systemd starts the client again (Restart=on-failure).  *)
FairSpec == Spec /\ WF_vars(Poll) /\ WF_vars(Publish) /\ WF_vars(Client)
-----------------------------------------------------------------------------
(* Types of all variables. *)
TypeOK ==
  /\ rows \in [Servers -> SUBSET Row]
  /\ data \in Settings /\ mem \in Settings
  /\ patch \in [Writers -> Settings \cup {NoPatch}]
  /\ home \in Servers /\ link \in [server : Servers, secret : Secret]
  /\ pc \in {"down", "wait", "connect", "enrolled", "keeping", "startup", "loop",
              "fetched", "applied", "saving", "paused"}
  /\ noticed \in BOOLEAN /\ suspended \in BOOLEAN
  /\ torn \in BOOLEAN /\ overlap \in BOOLEAN /\ missed \in BOOLEAN
  /\ obsidian \in {"closed", "open", "loaded"}
  /\ plug \in Settings \cup {NoPlugin}
  /\ cmd \in Commanded \cup {NoCommand}
  /\ origin \in Servers /\ issued \in 0 .. MaxSecrets

Working == pc \in {"loop", "fetched", "applied", "saving"}

(* "data.json stays the single source of truth, so the plugin and this     *)
(* client can hand over to each other": as long as no two programs had the *)
(* file in hand at once, nobody changes it behind the copy of a plugin     *)
(* that runs; and a client that works and has taken over every session has *)
(* the file's cursor (one less after a save that failed late), its server  *)
(* and its state directory.                                                *)
OneCopy ==
  ~overlap =>
    /\ obsidian = "loaded" => plug = data
    /\ Working /\ obsidian # "loaded" =>
         /\ link.server = data.server /\ home = data.server
         /\ ~missed => data.rev \in {mem.rev, mem.rev + 1}

(* The cursor in data.json counts the revisions of the server it names: a  *)
(* cursor of another server would skip this server's changes.              *)
CursorOfItsServer == ~overlap => origin = data.server

(* No program takes the cursor of another back, unless two had the file in *)
(* hand at once or the client never made way for a session.                *)
CursorKept ==
  [][~overlap' /\ ~missed /\ data'.server = data.server => data'.rev >= data.rev]_vars

(* An answer of the server that is not in data.json yet. *)
Answered == pc \in {"enrolled", "keeping"} \/ Asking({"save", "write"})

(* "The server row and data.json must change together": what the server    *)
(* knows this client by is in data.json whenever no answer is in hand,     *)
(* unless two programs had the file in hand at once or one died with an    *)
(* answer (or status threw one away).                                      *)
CredentialsKept ==
  data.secret # 0 /\ ~Answered /\ ~torn /\ ~overlap =>
    Credentials(data) \in rows[data.server]

(* A client that started in the middle of a rename, or of a session that   *)
(* changed its credentials: connect goes on with the old ones for as long  *)
(* as the process lives.                                                   *)
Stranded ==
  pc = "connect" /\ ~(mem.name = data.name /\ link.secret = data.secret)

(* People, crashes and Obsidian leave the client alone, its credentials    *)
(* are good and the file was never in two hands.                           *)
Alone ==
  /\ obsidian = "closed" /\ sessions = MaxSessions
  /\ cmd = NoCommand /\ commands = MaxCommands /\ faults = MaxFaults
  /\ Credentials(data) \in rows[data.server] /\ ~Stranded /\ ~overlap

(* "Retrying slowly rather than exiting", "On exit, its revision and       *)
(* journals are picked up": such a client reaches the server's tip.        *)
CatchesUp == Alone ~> data.rev = Tip

(* "Re-reads before patching so a field changed elsewhere is not           *)
(* clobbered": a rename beside the daemon leaves the cursor alone.         *)
NotClobbered == [][Asking({"write"}) => data'.rev >= data.rev]_vars

(* "While Obsidian runs, the plugin owns the vault, `data.json` and the    *)
(* journals": a client that has connected left the file to the plugin.     *)
PluginOwnsFile == obsidian = "loaded" /\ pc = "startup" => plug = data

(* "On exit, its revision and journals are picked up": a client that works *)
(* and sees no Obsidian has the plugin's cursor.                           *)
PickedUp ==
  Working /\ obsidian = "closed" /\ ~noticed /\ ~suspended => mem.rev >= data.rev
=============================================================================
