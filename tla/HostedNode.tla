----------------------------- MODULE HostedNode -----------------------------
(***************************************************************************)
(* One hosted meshtasticd and the sensors it carries: the supervisor that  *)
(* restarts the process, Bounce, the plan an identity is given when it is  *)
(* hosted and whenever attachments change (HostIdentity, SyncSensors,      *)
(* reseed), and the air quality setting that must be on before the process *)
(* boots (checkSensorBoot).  internal/nodes/hosted.go and hosting.go.      *)
(*                                                                         *)
(* h.mu guards what the supervisor and its callers share; it is not held   *)
(* across a run, a file write, or from setting bounce to ending the run.   *)
(***************************************************************************)
EXTENDS Integers

CONSTANTS
  Plans,      \* what can be attached to the identity
  AirPlans,   \* the plans with particulate readings
  Bare,       \* no sensors: a nil *SensorSetup
  MaxChanges, \* bound: changes of the attachments
  MaxFaults   \* bound: files that cannot be written

ASSUME HostedAssumption ==
  /\ AirPlans \subseteq Plans /\ Bare \notin Plans /\ {MaxChanges, MaxFaults} \subseteq Nat

Bouncers == {"sync", "client"}

VARIABLES
  life,      \* HostIdentity: "new", "planned", "started", "registered" (in x.nodes), "stopped"
  attached,  \* the registry: what the identity should publish
  sensors,   \* h.sensors: what the next start gets
  bus,       \* the config file names the I2C bus
  sync,      \* SyncSensors, which the web server runs one at a time
  proc,      \* the supervisor: "none", "taken", "running", "ended", "judged", "backoff", "gone"
  taken,     \* the sensors startRun returned
  carries,   \* what the process found when it scanned the bus
  ended,     \* the run was ended by a Bounce
  bounce,    \* h.bounce
  bouncing,  \* bouncing[b]: the run whose endRun Bounce holds: "none", "this" or "past"
  bounced,   \* supervise's local of that name
  verdict,   \* what recordStop noted last
  recent     \* settings were committed within rebootWindow

\* Air quality.
VARIABLES
  want,      \* n.senTel.air: the setting the node should have
  setting,   \* the node's own setting, kept over restarts
  booted,    \* the setting the running process booted with
  snap,      \* the setting in the client's last snapshot of the node
  conn,      \* the client has read this run of the node
  news,      \* a Configured event waits for Node.Run
  air        \* [read, atBoot, armed]: h.bootRead, h.airAtBoot, h.airArmed

\* History and bounds.
VARIABLES
  missed,    \* a change of attachments did not reach the node: a write failed, or it was not registered
  misread,   \* airAtBoot was taken from what the client had read of an earlier run
  spent,     \* airArmed was used up before the node got its air quality plan, or on such a reading
  changes, faults

syncVars == <<attached, sensors, bus, sync, want, missed, spent, changes, faults>>
runVars == <<proc, taken, carries, ended, bounced, verdict, booted>>
bounceVars == <<bounce, bouncing>>
airVars == <<setting, snap, conn, news, air, misread>>
vars == <<life, attached, sensors, bus, sync, want, missed, spent, changes, faults, proc, taken,
          carries, ended, bounced, verdict, booted, bounce, bouncing, recent, setting, snap, conn, news, air, misread>>

Idle == [at |-> "idle", before |-> Bare, plan |-> Bare]
Stopped == life = "stopped"
IsAir(p) == p \in AirPlans

Init ==
  /\ life = "new" /\ attached \in Plans \cup {Bare} /\ sensors = Bare /\ bus = FALSE /\ sync = Idle
  /\ proc = "none" /\ taken = Bare /\ carries = Bare /\ ended = FALSE
  /\ bounce = FALSE /\ bouncing = [b \in Bouncers |-> "none"] /\ bounced = FALSE
  /\ verdict = "none" /\ recent = FALSE
  /\ want = FALSE /\ setting \in BOOLEAN /\ booted = FALSE /\ snap = FALSE /\ conn = FALSE /\ news = FALSE
  /\ air = [read |-> FALSE, atBoot |-> FALSE, armed |-> FALSE]
  /\ missed = FALSE /\ misread = FALSE /\ spent = FALSE /\ changes = 0 /\ faults = 0

-----------------------------------------------------------------------------
(* HostIdentity *)

\* The plan's files are written first; if that fails the node starts without sensors.
Plan ==
  /\ life = "new" /\ life' = "planned"
  /\ \/ sensors' = attached /\ want' = IsAir(attached) /\ UNCHANGED <<missed, faults>>
     \/ sensors' = Bare /\ want' = FALSE /\ missed' = TRUE
        /\ faults < MaxFaults /\ faults' = faults + 1
  /\ UNCHANGED <<attached, bus, sync, spent, changes, runVars, bounceVars, recent, airVars>>

\* StartHosted writes the config file and starts the supervisor.
StartHosted ==
  /\ life = "planned" /\ life' = "started"
  /\ bus' = (sensors # Bare)
  /\ UNCHANGED <<attached, sensors, sync, want, missed, spent, changes, faults, runVars, bounceVars, recent, airVars>>
Register ==
  /\ life = "started" /\ life' = "registered"
  /\ UNCHANGED <<syncVars, runVars, bounceVars, recent, airVars>>

Stop ==
  /\ life = "registered" /\ life' = "stopped"
  /\ UNCHANGED <<syncVars, runVars, bounceVars, recent, airVars>>

-----------------------------------------------------------------------------
(* supervise *)

\* Mutant: the supervisor starts before the config file is written.
RunsWhilePlanned == ~Stopped /\ life # "new"
\* Mutant: a process that failed stays down.
RunsUnlessFailed == life \in {"started", "registered"} /\ verdict # "failure"
MayRun == life \in {"started", "registered"}

\* A new run has its own context: whoever still holds the last run's endRun ends nothing.
StartRun ==
  /\ MayRun /\ proc \in {"none", "backoff"}
  /\ proc' = "taken" /\ taken' = sensors /\ ended' = FALSE /\ verdict' = "none"
  /\ bouncing' = [b \in Bouncers |-> IF bouncing[b] = "this" THEN "past" ELSE bouncing[b]]
  /\ air' = [air EXCEPT !.read = FALSE]
  /\ misread' = FALSE
  /\ UNCHANGED <<life, syncVars, carries, bounced, booted, bounce, recent, setting, snap, conn, news>>

\* meshtasticd starts, reads its config file and scans the bus once.
Boot ==
  /\ proc = "taken" /\ ~Stopped /\ proc' = "running"
  /\ carries' = IF bus THEN taken ELSE Bare
  /\ booted' = setting /\ taken' = Bare
  /\ UNCHANGED <<life, syncVars, ended, bounced, verdict, bounceVars, recent, airVars>>

\* Launcher.Run returns: the process rebooted or failed, or never came up.
Ends == /\ proc \in {"taken", "running"} /\ ~Stopped /\ proc' = "ended"
        /\ taken' = Bare /\ carries' = Bare /\ booted' = FALSE /\ conn' = FALSE
Exit ==
  /\ Ends
  /\ UNCHANGED <<life, syncVars, ended, bounced, verdict, bounceVars, recent, setting, snap, news, air, misread>>

TookBounce ==
  /\ proc = "ended" /\ ~Stopped /\ proc' = "judged"
  /\ bounced' = bounce /\ bounce' = FALSE
  /\ UNCHANGED <<life, syncVars, taken, carries, ended, verdict, booted, bouncing, recent, airVars>>

\* The back-off's length is left out: only that it ends matters here.
RecordStop ==
  /\ proc = "judged" /\ proc' = "backoff"
  /\ verdict' = IF bounced \/ recent THEN "reboot" ELSE "failure"
  /\ bounced' = FALSE
  /\ UNCHANGED <<life, syncVars, taken, carries, ended, booted, bounceVars, recent, airVars>>

Gone ==
  /\ Stopped /\ proc # "gone" /\ proc' = "gone"
  /\ taken' = Bare /\ carries' = Bare /\ booted' = FALSE
  /\ UNCHANGED <<life, syncVars, ended, bounced, verdict, bounceVars, recent, airVars>>

WindowPasses ==
  /\ recent /\ recent' = FALSE
  /\ UNCHANGED <<life, syncVars, runVars, bounceVars, airVars>>

-----------------------------------------------------------------------------
(* Bounce, in two steps: the flag under the lock, then the run's cancel function. *)

\* Mutant: Bounce does not say that the stop was asked for.
NoFlag(b) ==
  /\ UNCHANGED bounce
  /\ bouncing' = [bouncing EXCEPT ![b] = IF proc = "none" THEN "none" ELSE
                  IF proc \in {"taken", "running"} THEN "this" ELSE "past"]
Bounce(b) ==
  /\ bounce' = (proc # "none")
  /\ bouncing' = [bouncing EXCEPT ![b] = IF proc = "none" THEN "none" ELSE
                  IF proc \in {"taken", "running"} THEN "this" ELSE "past"]

EndRun(b) ==
  /\ bouncing[b] # "none" /\ bouncing' = [bouncing EXCEPT ![b] = "none"]
  /\ \/ bouncing[b] = "this" /\ Ends /\ ended' = TRUE
     \/ ~(bouncing[b] = "this" /\ proc \in {"taken", "running"} /\ ~Stopped)
        /\ UNCHANGED <<proc, ended, taken, carries, booted, conn>>
  /\ UNCHANGED <<life, syncVars, bounced, verdict, bounce, recent, setting, snap, news, air, misread>>

-----------------------------------------------------------------------------
(* Attachments change: applySensors, then SyncSensors over the registered nodes. *)

Attach(p) ==
  /\ sync = Idle /\ bouncing["sync"] = "none" /\ p # attached
  /\ changes < MaxChanges /\ changes' = changes + 1
  /\ attached' = p /\ sync' = [Idle EXCEPT !.at = "list"]
  /\ UNCHANGED <<life, sensors, bus, want, missed, spent, faults, runVars, bounceVars, recent, airVars>>

ListNodes ==
  /\ sync.at = "list"
  /\ sync' = IF life = "registered" THEN [Idle EXCEPT !.at = "plan"] ELSE Idle
  /\ missed' = (missed \/ life \in {"planned", "started"})
  /\ UNCHANGED <<life, attached, sensors, bus, want, spent, changes, faults, runVars, bounceVars, recent, airVars>>

Replan ==
  /\ sync.at = "plan" /\ sync' = [at |-> "seed", before |-> sensors, plan |-> attached]
  /\ UNCHANGED <<life, attached, sensors, bus, want, missed, spent, changes, faults, runVars, bounceVars, recent, airVars>>

\* seedSensors writes the shim and the readings into the directory; SetSensors takes the
\* plan over in memory and then writes the config file.  A failure gives up on this node.
GivesUp == sync' = Idle /\ missed' = TRUE /\ faults < MaxFaults /\ faults' = faults + 1
Seed ==
  /\ sync.at = "seed"
  /\ \/ sync' = [sync EXCEPT !.at = "file"] /\ sensors' = sync.plan
        /\ spent' = (IsAir(sync.plan) /\ air.armed)
        /\ UNCHANGED <<missed, faults>>
     \/ GivesUp /\ UNCHANGED <<sensors, spent>>
  /\ UNCHANGED <<life, attached, bus, want, changes, runVars, bounceVars, recent, airVars>>

\* Mutant: only the readings and the environment change, as for a node that has its bus.
KeepsBus(p) == bus
NamesBus(p) == p # Bare

WriteConfig ==
  /\ sync.at = "file"
  /\ \/ bus' = NamesBus(sensors) /\ want' = IsAir(sensors)
        /\ sync' = [sync EXCEPT !.at = "compare"] /\ UNCHANGED <<missed, faults>>
     \/ GivesUp /\ UNCHANGED <<bus, want>>
  /\ UNCHANGED <<life, attached, sensors, spent, changes, runVars, bounceVars, recent, airVars>>

\* Only a difference is worth a restart.
Compare ==
  /\ sync.at = "compare" /\ sync' = Idle
  /\ IF sync.before = sensors
       THEN UNCHANGED <<missed, bounceVars>>
       ELSE Bounce("sync") /\ missed' = FALSE
  /\ UNCHANGED <<life, attached, sensors, bus, want, spent, changes, faults, runVars, recent, airVars>>

-----------------------------------------------------------------------------
(* The client: it reads the node, pushes the settings, and checks how the node booted. *)

\* A handshake reads the node and tells Node.Run.  The next one is seconds away (rebootWait,
\* a restart): Node.Run has heard of this one by then.
ReadNode ==
  /\ proc = "running" /\ ~Stopped /\ ~news /\ (~conn \/ snap # setting)
  /\ snap' = setting /\ conn' = TRUE /\ news' = TRUE
  /\ UNCHANGED <<life, syncVars, runVars, bounceVars, recent, setting, air, misread>>

\* ApplyConfig commits the setting; whether the node reboots for it is the node's affair.
PushSettings ==
  /\ proc = "running" /\ ~Stopped /\ conn /\ setting # want
  /\ setting' = want /\ recent' = TRUE
  /\ UNCHANGED <<life, syncVars, runVars, bounceVars, snap, conn, news, air, misread>>

\* Mutant: how the node booted is read again every time.
ReadAgain == [air EXCEPT !.read = TRUE, !.atBoot = snap]
ReadOnce == IF air.read THEN air ELSE [air EXCEPT !.read = TRUE, !.atBoot = snap]

CheckSensorBoot ==
  /\ news /\ bouncing["client"] = "none" /\ news' = FALSE
  /\ misread' = (misread \/ (~air.read /\ ~conn))
  /\ LET a == ReadOnce
         need == IsAir(sensors) /\ snap /\ ~a.atBoot /\ ~a.armed
     IN /\ air' = [a EXCEPT !.armed = @ \/ need]
        /\ spent' = (spent \/ (need /\ (~conn \/ misread')))
        /\ IF need THEN Bounce("client") ELSE UNCHANGED bounceVars
  /\ UNCHANGED <<life, attached, sensors, bus, sync, want, missed, changes, faults, runVars, recent, setting, snap, conn>>
-----------------------------------------------------------------------------
Hosting == Plan \/ StartHosted \/ Register
Supervise == StartRun \/ Boot \/ TookBounce \/ RecordStop \/ Gone
Sync == ListNodes \/ Replan \/ Seed \/ WriteConfig \/ Compare
Client == ReadNode \/ PushSettings
Next == \/ Hosting \/ Supervise \/ Sync \/ Client \/ CheckSensorBoot
        \/ \E b \in Bouncers : EndRun(b)
        \/ \E p \in Plans \cup {Bare} : Attach(p)
        \/ Exit \/ WindowPasses \/ Stop

\* The goroutines run; nobody has to attach anything, stop the node, or end a process.
Fairness == /\ WF_vars(Hosting) /\ WF_vars(Supervise) /\ SF_vars(Boot) /\ WF_vars(Sync)
            /\ SF_vars(ReadNode) /\ SF_vars(PushSettings) /\ WF_vars(CheckSensorBoot)
            /\ \A b \in Bouncers : WF_vars(EndRun(b))
Spec == Init /\ [][Next]_vars
FairSpec == Spec /\ Fairness

-----------------------------------------------------------------------------
(* Properties *)

\* The flags apart: they take other provers than the rest.
FlagsOK ==
  /\ bus \in BOOLEAN /\ ended \in BOOLEAN /\ bounce \in BOOLEAN /\ bounced \in BOOLEAN /\ recent \in BOOLEAN
  /\ want \in BOOLEAN /\ setting \in BOOLEAN /\ booted \in BOOLEAN /\ snap \in BOOLEAN /\ conn \in BOOLEAN
  /\ news \in BOOLEAN /\ missed \in BOOLEAN /\ misread \in BOOLEAN /\ spent \in BOOLEAN
TypeOK ==
  /\ FlagsOK
  /\ life \in {"new", "planned", "started", "registered", "stopped"}
  /\ attached \in Plans \cup {Bare} /\ sensors \in Plans \cup {Bare}
  /\ taken \in Plans \cup {Bare} /\ carries \in Plans \cup {Bare}
  /\ life \in {"new", "planned"} => proc = "none"
  /\ sync \in [at : {"idle", "list", "plan", "seed", "file", "compare"},
              before : Plans \cup {Bare}, plan : Plans \cup {Bare}]
  /\ proc \in {"none", "taken", "running", "ended", "judged", "backoff", "gone"}
  /\ bouncing \in [Bouncers -> {"none", "this", "past"}] /\ verdict \in {"none", "reboot", "failure"}
  /\ air \in [read : BOOLEAN, atBoot : BOOLEAN, armed : BOOLEAN] /\ changes \in Nat /\ faults \in Nat

\* A process that runs while no change of attachments is under way carries what is attached
\* to its identity, through crashes and overlapping restarts, unless a change was missed.
CarriesWhatIsAttached ==
  proc = "running" /\ life = "registered" /\ sync = Idle /\ bouncing["sync"] = "none" /\ ~missed
     => carries = attached

\* A run that Bounce ended is never recorded as a failure, though the flag and the end are two
\* steps, two callers may bounce at once and the supervisor reads the flag in between.
AskedIsNotAFailure == proc = "backoff" /\ ended => verdict = "reboot"

\* The process comes back after every stop until the node is stopped.
ComesBack == life = "registered" ~> proc = "running" \/ Stopped

\* A node that keeps an air quality plan runs, sooner or later, as a process that booted with
\* the setting on and with the sensor on its bus, unless its one extra restart was spent before
\* or how it booted was taken from a reading of an earlier run.
AirSensorIsFound ==
  <>[](life = "registered" /\ IsAir(sensors) /\ ~missed /\ ~spent /\ ~misread)
     => []<>(proc = "running" /\ IsAir(carries) /\ booted)
=============================================================================
