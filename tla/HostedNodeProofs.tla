-------------------------- MODULE HostedNodeProofs --------------------------
(***************************************************************************)
(* What a hosted node promises.  First its supervisor, module HostedNode,  *)
(* whatever can be attached and however many changes and faults there are: *)
(* a settled node carries what is attached to it, and a run that was ended *)
(* on purpose is not a failure.  Then its link, module NodeLink, for any   *)
(* settings, tries, pushes and faults: nothing foreign goes on the air,    *)
(* and a node nobody is going to touch again has its key and its settings. *)
(* The two share no variable; the parts about the link are named Link.     *)
(***************************************************************************)
EXTENDS HostedNode, NodeLink, TLAPS

\* The plan a synchronisation works on.  Nothing is attached while one is under way, the
\* first two steps have not touched the node, and its Bounce is its last step.
SyncIsOne ==
  /\ sync.at # "idle" => bouncing["sync"] = "none"
  /\ sync.at \in {"plan", "seed", "file", "compare"} => life \in {"registered", "stopped"}
  /\ sync.at \in {"seed", "file", "compare"} => sync.plan = attached
  /\ sync.at = "seed" => sync.before = sensors
  /\ sync.at \in {"file", "compare"} => sensors = attached
  /\ sync.at = "compare" => bus = NamesBus(sensors)

\* The sensors the supervisor gave this run, or the process found, are the ones in force,
\* or this very run is about to be ended.
RunIsCurrent ==
  /\ bus = NamesBus(sensors)
  /\ proc = "taken" /\ bouncing["sync"] # "this" => taken = sensors
  /\ proc = "running" /\ bouncing["sync"] # "this" => carries = sensors

\* No change is half way, or the one under way changes nothing.
Unchanging == sync.at \in {"file", "compare"} => sync.before = sensors

Settled ==
  ~missed =>
    /\ life \in {"planned", "started", "registered"} /\ sync.at = "idle" => sensors = attached
    /\ life \in {"started", "registered"} /\ Unchanging => RunIsCurrent

\* From the flag to the verdict: a Bounce that still holds this run's end has its flag
\* standing, and so has a run that such an end stopped, until it is judged.
AskedIsKnown ==
  /\ \A b \in Bouncers : bouncing[b] = "this" /\ proc \in {"taken", "running"} => bounce
  /\ ended => proc \in {"ended", "judged", "backoff", "gone"}
  /\ ended /\ proc = "ended" => bounce
  /\ ended /\ proc = "judged" => bounced
  /\ ended /\ proc = "backoff" => verdict = "reboot"

IInv == TypeOK /\ SyncIsOne /\ Settled /\ AskedIsKnown

-----------------------------------------------------------------------------
(* Type correctness. *)

LEMMA InitTypeOK == Init => TypeOK
<1> SUFFICES ASSUME Init PROVE TypeOK
  OBVIOUS
<1>1. FlagsOK
  BY DEF Init, FlagsOK
<1>2. TypeOK
  BY <1>1, HostedAssumption DEF Init, TypeOK, Idle, Bouncers
<1> QED
  BY <1>2

\* The flags by who writes them: the plan, the supervisor with Bounce, and the client.
SyncFlags == bus \in BOOLEAN /\ want \in BOOLEAN /\ missed \in BOOLEAN /\ spent \in BOOLEAN
RunFlags == ended \in BOOLEAN /\ bounced \in BOOLEAN /\ booted \in BOOLEAN /\ bounce \in BOOLEAN /\ recent \in BOOLEAN
AirFlags == setting \in BOOLEAN /\ snap \in BOOLEAN /\ conn \in BOOLEAN /\ news \in BOOLEAN /\ misread \in BOOLEAN

LEMMA FlagsAre == FlagsOK <=> SyncFlags /\ RunFlags /\ AirFlags
  BY DEF FlagsOK, SyncFlags, RunFlags, AirFlags

LEMMA FlagsStay ==
  /\ SyncFlags /\ UNCHANGED syncVars => SyncFlags'
  /\ RunFlags /\ UNCHANGED <<runVars, bounceVars, recent>> => RunFlags'
  /\ AirFlags /\ UNCHANGED airVars => AirFlags'
<1>1. SyncFlags /\ UNCHANGED syncVars => SyncFlags'
  BY DEF SyncFlags, syncVars
<1>2. RunFlags /\ UNCHANGED <<runVars, bounceVars, recent>> => RunFlags'
  BY DEF RunFlags, runVars, bounceVars
<1>3. AirFlags /\ UNCHANGED airVars => AirFlags'
  BY DEF AirFlags, airVars
<1> QED
  BY <1>1, <1>2, <1>3

LEMMA FlagsStep == FlagsOK /\ [Next]_vars => FlagsOK'
<1> SUFFICES ASSUME SyncFlags, RunFlags, AirFlags, [Next]_vars PROVE SyncFlags' /\ RunFlags' /\ AirFlags'
  <2>1. FlagsOK' <=> SyncFlags' /\ RunFlags' /\ AirFlags'
    BY DEF FlagsOK, SyncFlags, RunFlags, AirFlags
  <2> QED
    BY <2>1, FlagsAre
<1> USE DEF IsAir, NamesBus
<1>1. CASE Plan
  <2>1. SyncFlags'
    <3>1. /\ UNCHANGED <<bus, spent>>
          /\ \/ want' = IsAir(attached) /\ UNCHANGED missed
             \/ want' = FALSE /\ missed' = TRUE
      BY <1>1 DEF Plan
    <3>2. IsAir(attached) \in BOOLEAN
      OBVIOUS
    <3>3. CASE want' = IsAir(attached) /\ UNCHANGED missed
      BY <3>1, <3>2, <3>3 DEF SyncFlags
    <3>4. CASE want' = FALSE /\ missed' = TRUE
      BY <3>1, <3>4 DEF SyncFlags
    <3> QED
      BY <3>1, <3>3, <3>4
  <2>2. RunFlags'
    BY <1>1, FlagsStay DEF Plan
  <2>3. AirFlags'
    BY <1>1, FlagsStay DEF Plan
  <2> QED
    BY <2>1, <2>2, <2>3
<1>2. CASE StartHosted
  <2>1. SyncFlags'
    BY <1>2 DEF StartHosted, SyncFlags
  <2>2. RunFlags'
    BY <1>2, FlagsStay DEF StartHosted
  <2>3. AirFlags'
    BY <1>2, FlagsStay DEF StartHosted
  <2> QED
    BY <2>1, <2>2, <2>3
<1>3. CASE Register
  <2>1. SyncFlags'
    BY <1>3, FlagsStay DEF Register
  <2>2. RunFlags'
    BY <1>3, FlagsStay DEF Register
  <2>3. AirFlags'
    BY <1>3, FlagsStay DEF Register
  <2> QED
    BY <2>1, <2>2, <2>3
<1>4. CASE Stop
  <2>1. SyncFlags'
    BY <1>4, FlagsStay DEF Stop
  <2>2. RunFlags'
    BY <1>4, FlagsStay DEF Stop
  <2>3. AirFlags'
    BY <1>4, FlagsStay DEF Stop
  <2> QED
    BY <2>1, <2>2, <2>3
<1>5. CASE StartRun
  <2>1. SyncFlags'
    BY <1>5, FlagsStay DEF StartRun
  <2>2. RunFlags'
    BY <1>5 DEF StartRun, RunFlags
  <2>3. AirFlags'
    BY <1>5 DEF StartRun, AirFlags
  <2> QED
    BY <2>1, <2>2, <2>3
<1>6. CASE Boot
  <2>1. SyncFlags'
    BY <1>6, FlagsStay DEF Boot
  <2>2. RunFlags'
    <3>1. booted' = setting /\ UNCHANGED <<ended, bounced, bounce, recent>>
      BY <1>6 DEF Boot, bounceVars
    <3> QED
      BY <3>1 DEF RunFlags, AirFlags
  <2>3. AirFlags'
    BY <1>6, FlagsStay DEF Boot
  <2> QED
    BY <2>1, <2>2, <2>3
<1>7. CASE Exit
  <2>1. SyncFlags'
    BY <1>7, FlagsStay DEF Exit
  <2>2. RunFlags'
    BY <1>7 DEF Exit, Ends, bounceVars, RunFlags
  <2>3. AirFlags'
    BY <1>7 DEF Exit, Ends, AirFlags
  <2> QED
    BY <2>1, <2>2, <2>3
<1>8. CASE TookBounce
  <2>1. SyncFlags'
    BY <1>8, FlagsStay DEF TookBounce
  <2>2. RunFlags'
    BY <1>8 DEF TookBounce, RunFlags
  <2>3. AirFlags'
    BY <1>8, FlagsStay DEF TookBounce
  <2> QED
    BY <2>1, <2>2, <2>3
<1>9. CASE RecordStop
  <2>1. SyncFlags'
    BY <1>9, FlagsStay DEF RecordStop
  <2>2. RunFlags'
    BY <1>9 DEF RecordStop, bounceVars, RunFlags
  <2>3. AirFlags'
    BY <1>9, FlagsStay DEF RecordStop
  <2> QED
    BY <2>1, <2>2, <2>3
<1>10. CASE Gone
  <2>1. SyncFlags'
    BY <1>10, FlagsStay DEF Gone
  <2>2. RunFlags'
    BY <1>10 DEF Gone, bounceVars, RunFlags
  <2>3. AirFlags'
    BY <1>10, FlagsStay DEF Gone
  <2> QED
    BY <2>1, <2>2, <2>3
<1>11. CASE WindowPasses
  <2>1. SyncFlags'
    BY <1>11, FlagsStay DEF WindowPasses
  <2>2. RunFlags'
    BY <1>11 DEF WindowPasses, runVars, bounceVars, RunFlags
  <2>3. AirFlags'
    BY <1>11, FlagsStay DEF WindowPasses
  <2> QED
    BY <2>1, <2>2, <2>3
<1>12. CASE ListNodes
  <2>1. SyncFlags'
    BY <1>12 DEF ListNodes, SyncFlags
  <2>2. RunFlags'
    BY <1>12, FlagsStay DEF ListNodes
  <2>3. AirFlags'
    BY <1>12, FlagsStay DEF ListNodes
  <2> QED
    BY <2>1, <2>2, <2>3
<1>13. CASE Replan
  <2>1. SyncFlags'
    BY <1>13 DEF Replan, SyncFlags
  <2>2. RunFlags'
    BY <1>13, FlagsStay DEF Replan
  <2>3. AirFlags'
    BY <1>13, FlagsStay DEF Replan
  <2> QED
    BY <2>1, <2>2, <2>3
<1>14. CASE Seed
  <2>1. SyncFlags'
    BY <1>14 DEF Seed, GivesUp, SyncFlags
  <2>2. RunFlags'
    BY <1>14, FlagsStay DEF Seed
  <2>3. AirFlags'
    BY <1>14, FlagsStay DEF Seed
  <2> QED
    BY <2>1, <2>2, <2>3
<1>15. CASE WriteConfig
  <2>1. SyncFlags'
    <3>1. CASE bus' = NamesBus(sensors) /\ want' = IsAir(sensors) /\ UNCHANGED <<missed, spent>>
      BY <3>1 DEF SyncFlags
    <3>2. CASE missed' = TRUE /\ UNCHANGED <<bus, want, spent>>
      BY <3>2 DEF SyncFlags
    <3> QED
      BY <1>15, <3>1, <3>2 DEF WriteConfig, GivesUp
  <2>2. RunFlags'
    BY <1>15, FlagsStay DEF WriteConfig
  <2>3. AirFlags'
    BY <1>15, FlagsStay DEF WriteConfig
  <2> QED
    BY <2>1, <2>2, <2>3
<1>16. CASE Compare
  <2>1. SyncFlags'
    BY <1>16 DEF Compare, SyncFlags
  <2>2. RunFlags'
    BY <1>16 DEF Compare, Bounce, runVars, bounceVars, RunFlags
  <2>3. AirFlags'
    BY <1>16, FlagsStay DEF Compare
  <2> QED
    BY <2>1, <2>2, <2>3
<1>17. CASE ReadNode
  <2>1. SyncFlags'
    BY <1>17, FlagsStay DEF ReadNode
  <2>2. RunFlags'
    BY <1>17, FlagsStay DEF ReadNode
  <2>3. AirFlags'
    BY <1>17 DEF ReadNode, AirFlags
  <2> QED
    BY <2>1, <2>2, <2>3
<1>18. CASE PushSettings
  <2>1. SyncFlags'
    BY <1>18, FlagsStay DEF PushSettings
  <2>2. RunFlags'
    <3>1. recent' = TRUE /\ UNCHANGED <<ended, bounced, booted, bounce>>
      BY <1>18 DEF PushSettings, runVars, bounceVars
    <3> QED
      BY <3>1 DEF RunFlags
  <2>3. AirFlags'
    <3>1. setting' = want /\ UNCHANGED <<snap, conn, news, misread>>
      BY <1>18 DEF PushSettings
    <3> QED
      BY <3>1 DEF AirFlags, SyncFlags
  <2> QED
    BY <2>1, <2>2, <2>3
<1>19. CASE CheckSensorBoot
  <2>1. SyncFlags'
    BY <1>19 DEF CheckSensorBoot, SyncFlags
  <2>2. RunFlags'
    BY <1>19 DEF CheckSensorBoot, Bounce, runVars, bounceVars, RunFlags
  <2>3. AirFlags'
    BY <1>19 DEF CheckSensorBoot, AirFlags
  <2> QED
    BY <2>1, <2>2, <2>3
<1>20. ASSUME NEW b \in Bouncers, EndRun(b) PROVE SyncFlags' /\ RunFlags' /\ AirFlags'
  <2>1. SyncFlags'
    BY <1>20, FlagsStay DEF EndRun
  <2>2. RunFlags'
    BY <1>20 DEF EndRun, Ends, RunFlags
  <2>3. AirFlags'
    BY <1>20 DEF EndRun, Ends, AirFlags
  <2> QED
    BY <2>1, <2>2, <2>3
<1>21. ASSUME NEW p \in Plans \cup {Bare}, Attach(p) PROVE SyncFlags' /\ RunFlags' /\ AirFlags'
  <2>1. SyncFlags'
    BY <1>21 DEF Attach, SyncFlags
  <2>2. RunFlags'
    BY <1>21, FlagsStay DEF Attach
  <2>3. AirFlags'
    BY <1>21, FlagsStay DEF Attach
  <2> QED
    BY <2>1, <2>2, <2>3
<1>22. CASE UNCHANGED vars
  BY <1>22, FlagsStay DEF vars, syncVars, runVars, bounceVars, airVars
<1> QED
  BY <1>1, <1>2, <1>3, <1>4, <1>5, <1>6, <1>7, <1>8, <1>9, <1>10, <1>11, <1>12, <1>13,
     <1>14, <1>15, <1>16, <1>17, <1>18, <1>19, <1>20, <1>21, <1>22
     DEF Next, Hosting, Supervise, Sync, Client

LEMMA TypeStep == TypeOK /\ [Next]_vars => TypeOK'
<1> SUFFICES ASSUME TypeOK, [Next]_vars PROVE TypeOK'
  OBVIOUS
<1> USE FlagsStep, HostedAssumption DEF TypeOK, Idle, Bouncers, IsAir
<1>1. CASE Plan
  BY <1>1 DEF Plan, runVars, bounceVars, airVars
<1>2. CASE StartHosted
  BY <1>2 DEF StartHosted, runVars, bounceVars, airVars
<1>3. CASE Register
  BY <1>3 DEF Register, syncVars, runVars, bounceVars, airVars
<1>4. CASE Stop
  BY <1>4 DEF Stop, syncVars, runVars, bounceVars, airVars
<1>5. CASE StartRun
  BY <1>5 DEF StartRun, MayRun, syncVars
<1>6. CASE Boot
  BY <1>6 DEF Boot, Stopped, syncVars, bounceVars, airVars
<1>7. CASE Exit
  BY <1>7 DEF Exit, Ends, Stopped, syncVars, bounceVars
<1>8. CASE TookBounce
  BY <1>8 DEF TookBounce, Stopped, syncVars, airVars
<1>9. CASE RecordStop
  BY <1>9 DEF RecordStop, syncVars, bounceVars, airVars
<1>10. CASE Gone
  BY <1>10 DEF Gone, Stopped, syncVars, bounceVars, airVars
<1>11. CASE WindowPasses
  BY <1>11 DEF WindowPasses, syncVars, runVars, bounceVars, airVars
<1>12. CASE ListNodes
  BY <1>12 DEF ListNodes, runVars, bounceVars, airVars
<1>13. CASE Replan
  BY <1>13 DEF Replan, runVars, bounceVars, airVars
<1>14. CASE Seed
  BY <1>14 DEF Seed, GivesUp, runVars, bounceVars, airVars
<1>15. CASE WriteConfig
  BY <1>15 DEF WriteConfig, GivesUp, NamesBus, runVars, bounceVars, airVars
<1>16. CASE Compare
  BY <1>16 DEF Compare, Bounce, runVars, bounceVars, airVars
<1>17. CASE ReadNode
  BY <1>17 DEF ReadNode, Stopped, syncVars, runVars, bounceVars
<1>18. CASE PushSettings
  BY <1>18 DEF PushSettings, Stopped, syncVars, runVars, bounceVars
<1>19. CASE CheckSensorBoot
  <2>1. air' \in [read : BOOLEAN, atBoot : BOOLEAN, armed : BOOLEAN]
    <3> DEFINE a == ReadOnce
               need == IsAir(sensors) /\ snap /\ ~a.atBoot /\ ~a.armed
    <3>1. a \in [read : BOOLEAN, atBoot : BOOLEAN, armed : BOOLEAN] /\ (a.armed \/ need) \in BOOLEAN
      BY DEF ReadOnce, FlagsOK
    <3>2. air' = [a EXCEPT !.armed = a.armed \/ need]
      BY <1>19 DEF CheckSensorBoot
    <3> QED
      BY <3>1, <3>2
  <2>2. bouncing' \in [Bouncers -> {"none", "this", "past"}]
    BY <1>19 DEF CheckSensorBoot, Bounce, bounceVars
  <2> QED
    BY <1>19, <2>1, <2>2 DEF CheckSensorBoot, runVars
<1>20. ASSUME NEW b \in Bouncers, EndRun(b) PROVE TypeOK'
  BY <1>20 DEF EndRun, Ends, Stopped, syncVars
<1>21. ASSUME NEW p \in Plans \cup {Bare}, Attach(p) PROVE TypeOK'
  BY <1>21 DEF Attach, runVars, bounceVars, airVars
<1>22. CASE UNCHANGED vars
  BY <1>22 DEF vars
<1> QED
  BY <1>1, <1>2, <1>3, <1>4, <1>5, <1>6, <1>7, <1>8, <1>9, <1>10, <1>11, <1>12, <1>13,
     <1>14, <1>15, <1>16, <1>17, <1>18, <1>19, <1>20, <1>21, <1>22
     DEF Next, Hosting, Supervise, Sync, Client

\* TypeOK of HostedNode: every variable keeps its type, and no process runs before the
\* identity's files are written.
THEOREM HostedTypeCorrect == Spec => []TypeOK
  BY InitTypeOK, TypeStep, PTL DEF Spec

-----------------------------------------------------------------------------
(* The parts of the inductive invariant. *)

LEMMA InitIInv == Init => IInv
<1> SUFFICES ASSUME Init PROVE IInv
  OBVIOUS
<1>1. TypeOK
  BY InitTypeOK
<1>2. SyncIsOne /\ Settled /\ AskedIsKnown
  BY DEF Init, Idle, Bouncers, SyncIsOne, Settled, AskedIsKnown
<1> QED
  BY <1>1, <1>2 DEF IInv

LEMMA SyncIsOneStep == TypeOK /\ SyncIsOne /\ [Next]_vars => SyncIsOne'
<1> SUFFICES ASSUME TypeOK, SyncIsOne, [Next]_vars PROVE SyncIsOne'
  OBVIOUS
<1> USE DEF TypeOK, Idle, Bouncers, SyncIsOne, NamesBus
<1>1. CASE Plan
  BY <1>1 DEF Plan, runVars, bounceVars, airVars
<1>2. CASE StartHosted
  BY <1>2 DEF StartHosted, runVars, bounceVars, airVars
<1>3. CASE Register
  BY <1>3 DEF Register, syncVars, runVars, bounceVars, airVars
<1>4. CASE Stop
  BY <1>4 DEF Stop, syncVars, runVars, bounceVars, airVars
<1>5. CASE StartRun
  BY <1>5 DEF StartRun, MayRun, syncVars
<1>6. CASE Boot
  BY <1>6 DEF Boot, Stopped, syncVars, bounceVars, airVars
<1>7. CASE Exit
  BY <1>7 DEF Exit, Ends, Stopped, syncVars, bounceVars
<1>8. CASE TookBounce
  BY <1>8 DEF TookBounce, Stopped, syncVars, airVars
<1>9. CASE RecordStop
  BY <1>9 DEF RecordStop, syncVars, bounceVars, airVars
<1>10. CASE Gone
  BY <1>10 DEF Gone, Stopped, syncVars, bounceVars, airVars
<1>11. CASE WindowPasses
  BY <1>11 DEF WindowPasses, syncVars, runVars, bounceVars, airVars
<1>12. CASE ListNodes
  BY <1>12 DEF ListNodes, runVars, bounceVars, airVars
<1>13. CASE Replan
  BY <1>13 DEF Replan, runVars, bounceVars, airVars
<1>14. CASE Seed
  BY <1>14 DEF Seed, GivesUp, runVars, bounceVars, airVars
<1>15. CASE WriteConfig
  BY <1>15 DEF WriteConfig, GivesUp, NamesBus, runVars, bounceVars, airVars
<1>16. CASE Compare
  BY <1>16 DEF Compare, Bounce, runVars, bounceVars, airVars
<1>17. CASE ReadNode
  BY <1>17 DEF ReadNode, Stopped, syncVars, runVars, bounceVars
<1>18. CASE PushSettings
  BY <1>18 DEF PushSettings, Stopped, syncVars, runVars, bounceVars
<1>19. CASE CheckSensorBoot
  BY <1>19 DEF CheckSensorBoot, Bounce, ReadOnce, runVars, bounceVars
<1>20. ASSUME NEW b \in Bouncers, EndRun(b) PROVE SyncIsOne'
  BY <1>20 DEF EndRun, Ends, Stopped, syncVars
<1>21. ASSUME NEW p \in Plans \cup {Bare}, Attach(p) PROVE SyncIsOne'
  BY <1>21 DEF Attach, runVars, bounceVars, airVars
<1>22. CASE UNCHANGED vars
  BY <1>22 DEF vars
<1> QED
  BY <1>1, <1>2, <1>3, <1>4, <1>5, <1>6, <1>7, <1>8, <1>9, <1>10, <1>11, <1>12, <1>13,
     <1>14, <1>15, <1>16, <1>17, <1>18, <1>19, <1>20, <1>21, <1>22
     DEF Next, Hosting, Supervise, Sync, Client

LEMMA SettledStep == TypeOK /\ SyncIsOne /\ Settled /\ [Next]_vars => Settled'
<1> SUFFICES ASSUME TypeOK, SyncIsOne, Settled, [Next]_vars PROVE Settled'
  OBVIOUS
<1> USE DEF TypeOK, Idle, Bouncers, SyncIsOne, Settled, Unchanging, RunIsCurrent, NamesBus
<1>1. CASE Plan
  BY <1>1 DEF Plan, runVars, bounceVars, airVars
<1>2. CASE StartHosted
  BY <1>2 DEF StartHosted, runVars, bounceVars, airVars
<1>3. CASE Register
  BY <1>3 DEF Register, syncVars, runVars, bounceVars, airVars
<1>4. CASE Stop
  BY <1>4 DEF Stop, syncVars, runVars, bounceVars, airVars
<1>5. CASE StartRun
  BY <1>5 DEF StartRun, MayRun, syncVars
<1>6. CASE Boot
  BY <1>6 DEF Boot, Stopped, syncVars, bounceVars, airVars
<1>7. CASE Exit
  BY <1>7 DEF Exit, Ends, Stopped, syncVars, bounceVars
<1>8. CASE TookBounce
  BY <1>8 DEF TookBounce, Stopped, syncVars, airVars
<1>9. CASE RecordStop
  BY <1>9 DEF RecordStop, syncVars, bounceVars, airVars
<1>10. CASE Gone
  BY <1>10 DEF Gone, Stopped, syncVars, bounceVars, airVars
<1>11. CASE WindowPasses
  BY <1>11 DEF WindowPasses, syncVars, runVars, bounceVars, airVars
<1>12. CASE ListNodes
  BY <1>12 DEF ListNodes, runVars, bounceVars, airVars
<1>13. CASE Replan
  BY <1>13 DEF Replan, runVars, bounceVars, airVars
<1>14. CASE Seed
  BY <1>14 DEF Seed, GivesUp, runVars, bounceVars, airVars
<1>15. CASE WriteConfig
  BY <1>15 DEF WriteConfig, GivesUp, NamesBus, runVars, bounceVars, airVars
<1>16. CASE Compare
  BY <1>16 DEF Compare, Bounce, runVars, bounceVars, airVars
<1>17. CASE ReadNode
  BY <1>17 DEF ReadNode, Stopped, syncVars, runVars, bounceVars
<1>18. CASE PushSettings
  BY <1>18 DEF PushSettings, Stopped, syncVars, runVars, bounceVars
<1>19. CASE CheckSensorBoot
  BY <1>19 DEF CheckSensorBoot, Bounce, ReadOnce, runVars, bounceVars
<1>20. ASSUME NEW b \in Bouncers, EndRun(b) PROVE Settled'
  BY <1>20 DEF EndRun, Ends, Stopped, syncVars
<1>21. ASSUME NEW p \in Plans \cup {Bare}, Attach(p) PROVE Settled'
  BY <1>21 DEF Attach, runVars, bounceVars, airVars
<1>22. CASE UNCHANGED vars
  BY <1>22 DEF vars
<1> QED
  BY <1>1, <1>2, <1>3, <1>4, <1>5, <1>6, <1>7, <1>8, <1>9, <1>10, <1>11, <1>12, <1>13,
     <1>14, <1>15, <1>16, <1>17, <1>18, <1>19, <1>20, <1>21, <1>22
     DEF Next, Hosting, Supervise, Sync, Client

LEMMA AskedIsKnownStep == TypeOK /\ AskedIsKnown /\ [Next]_vars => AskedIsKnown'
<1> SUFFICES ASSUME TypeOK, AskedIsKnown, [Next]_vars PROVE AskedIsKnown'
  OBVIOUS
<1> USE DEF TypeOK, Bouncers, AskedIsKnown
<1>1. CASE Plan
  BY <1>1 DEF Plan, runVars, bounceVars, airVars
<1>2. CASE StartHosted
  BY <1>2 DEF StartHosted, runVars, bounceVars, airVars
<1>3. CASE Register
  BY <1>3 DEF Register, syncVars, runVars, bounceVars, airVars
<1>4. CASE Stop
  BY <1>4 DEF Stop, syncVars, runVars, bounceVars, airVars
<1>5. CASE StartRun
  BY <1>5 DEF StartRun, MayRun, syncVars
<1>6. CASE Boot
  BY <1>6 DEF Boot, Stopped, syncVars, bounceVars, airVars
<1>7. CASE Exit
  BY <1>7 DEF Exit, Ends, Stopped, syncVars, bounceVars
<1>8. CASE TookBounce
  BY <1>8 DEF TookBounce, Stopped, syncVars, airVars
<1>9. CASE RecordStop
  BY <1>9 DEF RecordStop, syncVars, bounceVars, airVars
<1>10. CASE Gone
  BY <1>10 DEF Gone, Stopped, syncVars, bounceVars, airVars
<1>11. CASE WindowPasses
  BY <1>11 DEF WindowPasses, syncVars, runVars, bounceVars, airVars
<1>12. CASE ListNodes
  BY <1>12 DEF ListNodes, runVars, bounceVars, airVars
<1>13. CASE Replan
  BY <1>13 DEF Replan, runVars, bounceVars, airVars
<1>14. CASE Seed
  BY <1>14 DEF Seed, GivesUp, runVars, bounceVars, airVars
<1>15. CASE WriteConfig
  BY <1>15 DEF WriteConfig, GivesUp, NamesBus, runVars, bounceVars, airVars
<1>16. CASE Compare
  BY <1>16 DEF Compare, Bounce, runVars, bounceVars, airVars
<1>17. CASE ReadNode
  BY <1>17 DEF ReadNode, Stopped, syncVars, runVars, bounceVars
<1>18. CASE PushSettings
  BY <1>18 DEF PushSettings, Stopped, syncVars, runVars, bounceVars
<1>19. CASE CheckSensorBoot
  BY <1>19 DEF CheckSensorBoot, Bounce, ReadOnce, runVars, bounceVars
<1>20. ASSUME NEW b \in Bouncers, EndRun(b) PROVE AskedIsKnown'
  BY <1>20 DEF EndRun, Ends, Stopped, syncVars
<1>21. ASSUME NEW p \in Plans \cup {Bare}, Attach(p) PROVE AskedIsKnown'
  BY <1>21 DEF Attach, runVars, bounceVars, airVars
<1>22. CASE UNCHANGED vars
  BY <1>22 DEF vars
<1> QED
  BY <1>1, <1>2, <1>3, <1>4, <1>5, <1>6, <1>7, <1>8, <1>9, <1>10, <1>11, <1>12, <1>13,
     <1>14, <1>15, <1>16, <1>17, <1>18, <1>19, <1>20, <1>21, <1>22
     DEF Next, Hosting, Supervise, Sync, Client

LEMMA IInvStep == IInv /\ [Next]_vars => IInv'
  BY TypeStep, SyncIsOneStep, SettledStep, AskedIsKnownStep DEF IInv

THEOREM HostedInductive == Spec => []IInv
  BY InitIInv, IInvStep, PTL DEF Spec

-----------------------------------------------------------------------------
(* The safety properties. *)

\* CarriesWhatIsAttached: once SyncSensors is done with a registered node and no write failed,
\* the process that runs carries what is attached, through crashes, restarts the client asks
\* for, and a supervisor that took the sensors before they changed.
THEOREM HostedCarriesWhatIsAttached == Spec => []CarriesWhatIsAttached
<1>1. IInv => CarriesWhatIsAttached
  BY DEF IInv, TypeOK, Settled, Unchanging, RunIsCurrent, CarriesWhatIsAttached, Idle
<1> QED
  BY <1>1, HostedInductive, PTL

\* AskedIsNotAFailure: recordStop never counts a run that Bounce ended among the failures.
THEOREM HostedAskedIsNotAFailure == Spec => []AskedIsNotAFailure
<1>1. IInv => AskedIsNotAFailure
  BY DEF IInv, AskedIsKnown, AskedIsNotAFailure
<1> QED
  BY <1>1, HostedInductive, PTL

-----------------------------------------------------------------------------
(* The node's link: the parts of its inductive invariant. *)

\* What a node does under another key it does after a reading that showed that key.
ForeignIsRead == link = "ready" /\ node.key # SeedKey => ~OnAir

\* Somebody is still going to give the node its key, or it was given up.
KeyIsOwed ==
  link = "ready" /\ read = 0 /\ node.key # SeedKey =>
    \/ seedTries > MaxTries
    \/ asleep["seed"] > 0
    \/ \E c \in Settings : waiting["seed"][c] > 0
    \/ edit.kind = "seed" /\ (edit.at = "wait" \/ (edit.at \in {"set", "key"} /\ edit.fresh))

\* The edit has changed the node, or is going to, and will not end without another reading:
\* of the connection's end it knows nothing yet.
Rereads ==
  \/ edit.at \in {"key", "commit"} /\ ~edit.lost
  \/ edit.at = "commit" /\ edit.fresh /\ ~Has("Disconnected")
  \/ edit.at = "restart" /\ ~Has("Disconnected")

MirrorIsCurrent == link = "ready" /\ ~lapsed /\ ~Rereads => node.cfg = mirror.cfg

\* Somebody is still going to give the node what the host wants now.  Who sleeps after a
\* failure is not needed for it.
SettingsAreOwed ==
  link = "ready" /\ read = 0 /\ ~lapsed /\ node.cfg # wanted /\ seedTries <= MaxTries =>
    \/ \E k \in Kinds : waiting[k][wanted] > 0
    \/ edit.at = "wait" /\ edit.cfg = wanted
    \/ edit.at = "set" /\ ~edit.lost
    \/ Rereads

\* Nothing an edit waits for is lost before it looks at the node.
WaitIsNew == edit.at = "wait" => ~edit.lost

LinkIInv ==
  /\ LinkTypeOK /\ WaitIsNew /\ ForeignIsRead /\ ForeignNeedsAReading
  /\ KeyIsOwed /\ MirrorIsCurrent /\ SettingsAreOwed

-----------------------------------------------------------------------------
(* The node's link: what its helpers do to an edit. *)

\* An event is one more for the edit's subscription at most, and nothing else of the edit.
LEMMA ToldKeeps ==
  ASSUME EditOK(edit), NEW e \in Events
  PROVE  /\ EditOK(Told(e))
         /\ Told(e).at = edit.at /\ Told(e).kind = edit.kind /\ Told(e).cfg = edit.cfg
         /\ Told(e).fresh = edit.fresh /\ Told(e).lost = edit.lost
<1>1. CASE Told(e) = edit
  BY <1>1
<1>2. CASE /\ Told(e) = [edit EXCEPT !.events = Append(edit.events, e)]
           /\ Len(edit.events) < QueueLen
  <2>1. edit.events \in Seq(Events)
    BY DEF EditOK
  <2>2. /\ Append(edit.events, e) \in Seq(Events)
        /\ Len(Append(edit.events, e)) = Len(edit.events) + 1
        /\ Len(edit.events) \in Nat
    BY <2>1
  <2>3. Len(edit.events) + 1 <= QueueLen
    BY <1>2, <2>2, LinkAssumption
  <2> HIDE DEF Events
  <2> QED
    BY <1>2, <2>2, <2>3 DEF EditOK
<1> QED
  BY <1>1, <1>2 DEF Told

LEMMA DetachedKeeps ==
  ASSUME EditOK(edit)
  PROVE  /\ EditOK(Detached)
         /\ Detached.at = edit.at /\ Detached.kind = edit.kind /\ Detached.cfg = edit.cfg
         /\ Detached.fresh = edit.fresh /\ Detached.lost = edit.lost
<1>1. CASE Detached = edit
  BY <1>1
<1>2. CASE Detached = Told("Disconnected")
  BY <1>2, ToldKeeps DEF Events
<1> QED
  BY <1>1, <1>2 DEF Detached

LEMMA NoEditType == EditOK(NoEdit) /\ NoEdit.at = "none" /\ NoEdit.lost = FALSE
<1>1. << >> \in Seq(Events) /\ Len(<< >>) = 0
  OBVIOUS
<1> QED
  BY <1>1, LinkAssumption DEF NoEdit, EditOK, Ats, Kinds

\* The edits that follow from an edit.
LEMMA EditSteps ==
  ASSUME NEW e, EditOK(e), NEW a \in Ats \ {"none"}, NEW b \in BOOLEAN, e.at # "none"
  PROVE  /\ EditOK([e EXCEPT !.at = a]) /\ EditOK([e EXCEPT !.lost = b])
         /\ EditOK([e EXCEPT !.at = a, !.fresh = b])
         /\ EditOK([e EXCEPT !.at = a, !.lost = b])
BY DEF EditOK

LEMMA EditReads ==
  ASSUME NEW e, EditOK(e), e.at # "none", NEW s \in Seq(Events), Len(s) <= QueueLen
  PROVE  EditOK([e EXCEPT !.at = "configured", !.events = s])
BY DEF EditOK, Ats

\* A failed edit is over; what is left of it are tries and a sleeper.
LEMMA FailLeaves ==
  ASSUME GoOK, Fail
  PROVE  /\ edit' = NoEdit /\ pushTries' \in 0..(MaxTries + 1) /\ asleep' \in [Kinds -> Nat]
         /\ asleep'["seed"] = IF edit.kind = "seed" THEN asleep["seed"] + 1 ELSE asleep["seed"]
<1>1. /\ MaxTries \in Nat /\ pushTries \in 0..(MaxTries + 1) /\ asleep \in [Kinds -> Nat]
      /\ edit' = NoEdit /\ {"seed", "push"} \subseteq Kinds
  BY LinkAssumption DEF GoOK, Fail, Kinds
<1>2. CASE edit.kind = "seed" /\ SeedFails /\ UNCHANGED pushTries
  BY <1>1, <1>2 DEF SeedFails
<1>3. CASE edit.kind = "push" /\ PushFails
  <2>1. pushTries' \in 0..(MaxTries + 1)
    BY <1>1, <1>3 DEF PushFails, AtMost
  <2>2. asleep' = asleep \/ asleep' = [asleep EXCEPT !["push"] = @ + 1]
    BY <1>3 DEF PushFails
  <2> QED
    BY <1>1, <1>3, <2>1, <2>2
<1>4. CASE edit.kind = "web" /\ UNCHANGED <<asleep, pushTries>>
  BY <1>1, <1>4
<1> QED
  BY <1>2, <1>3, <1>4 DEF Fail

\* A node that takes a message has what it says and keeps the rest.
LEMMA TakenType ==
  ASSUME NodeOK, EditOK(edit), edit.at # "none"
  PROVE  Taken \in [key : {SeedKey, OtherKey}, cfg : Settings]
BY DEF NodeOK, EditOK, Taken

-----------------------------------------------------------------------------
(* The node's link: type correctness. *)

LEMMA NodeStep == NodeOK /\ EditOK(edit) /\ [LinkNext]_linkVars => NodeOK'
<1> SUFFICES ASSUME NodeOK, EditOK(edit), [LinkNext]_linkVars PROVE NodeOK'
  OBVIOUS
<1> USE DEF nodeVars, clientVars, goVars, triesVars
<1>1. CASE Dial
  BY <1>1 DEF Dial, NodeOK
<1>2. CASE BecomeReady
  BY <1>2 DEF BecomeReady, NodeOK
<1>3. CASE LinkLost
  BY <1>3 DEF LinkLost, NodeOK
<1>4. CASE Crash
  BY <1>4 DEF Crash, NodeOK
<1>5. CASE Transmit
  BY <1>5 DEF Transmit, NodeOK
<1>6. CASE HandleFrame
  BY <1>6 DEF HandleFrame, NodeOK
<1>7. CASE Configured
  BY <1>7 DEF Configured, NodeOK
<1>8. CASE NotReady
  BY <1>8 DEF NotReady, NodeOK
<1>9. CASE Look
  BY <1>9 DEF Look, NodeOK
<1>10. CASE Sent
  BY <1>10, TakenType DEF Sent, NodeOK
<1>11. CASE NotSent
  BY <1>11 DEF NotSent, NodeOK
<1>12. CASE Commit
  BY <1>12 DEF Commit, Commits, NodeOK
<1>13. CASE CommitUnanswered
  BY <1>13 DEF CommitUnanswered, NodeOK
<1>14. CASE SeesRestart
  BY <1>14 DEF SeesRestart, NodeOK
<1>15. CASE RestartTimer
  BY <1>15 DEF RestartTimer, NodeOK
<1>16. CASE SeesConfigured
  BY <1>16 DEF SeesConfigured, NodeOK
<1>17. CASE SentUnheard
  BY <1>17, TakenType DEF SentUnheard, Unheard, NodeOK
<1>18. CASE CommitUnheard
  BY <1>18 DEF CommitUnheard, Unheard, Commits, NodeOK
<1>19. ASSUME NEW c \in Settings, UpdateConfig(c) PROVE NodeOK'
  BY <1>19 DEF UpdateConfig, NodeOK
<1>20. ASSUME NEW k \in Kinds, Wake(k) PROVE NodeOK'
  BY <1>20 DEF Wake, NodeOK
<1>21. ASSUME NEW k \in Kinds, NEW c \in Settings, Lock(k, c) PROVE NodeOK'
  BY <1>21 DEF Lock, NodeOK
<1>22. CASE UNCHANGED linkVars
  BY <1>22 DEF linkVars, NodeOK
<1> QED
  BY <1>1, <1>2, <1>3, <1>4, <1>5, <1>6, <1>7, <1>8, <1>9, <1>10, <1>11, <1>12, <1>13, <1>14, <1>15, <1>16, <1>17, <1>18, <1>19, <1>20, <1>21, <1>22 DEF LinkNext, Edit

LEMMA ClientStep == NodeOK /\ ClientOK /\ [LinkNext]_linkVars => ClientOK'
<1> SUFFICES ASSUME NodeOK, ClientOK, [LinkNext]_linkVars PROVE ClientOK'
  OBVIOUS
<1> USE DEF nodeVars, clientVars, goVars, triesVars
<1>1. CASE Dial
  BY <1>1, LinkAssumption DEF Dial, ClientOK
<1>2. CASE BecomeReady
  <2>1. read' \in 0..QueueLen
    BY <1>2, LinkAssumption DEF BecomeReady, AtMost, ClientOK
  <2>2. mirror' = node /\ link' = "ready" /\ frame' \in {"none", "stale"}
    BY <1>2 DEF BecomeReady
  <2>3. mirror' \in [key : {SeedKey, OtherKey, Unset}, cfg : Settings \cup {Unset}]
    BY <2>2 DEF NodeOK
  <2> QED
    BY <2>1, <2>2, <2>3 DEF ClientOK
<1>3. CASE LinkLost
  BY <1>3, LinkAssumption DEF LinkLost, Drops, ClientOK
<1>4. CASE Crash
  BY <1>4, LinkAssumption DEF Crash, Drops, ClientOK
<1>5. CASE Transmit
  BY <1>5, LinkAssumption DEF Transmit, ClientOK
<1>6. CASE HandleFrame
  BY <1>6, LinkAssumption DEF HandleFrame, ClientOK
<1>7. CASE Configured
  BY <1>7, LinkAssumption DEF Configured, ClientOK
<1>8. CASE NotReady
  BY <1>8, LinkAssumption DEF NotReady, ClientOK
<1>9. CASE Look
  BY <1>9, LinkAssumption DEF Look, ClientOK
<1>10. CASE Sent
  BY <1>10, LinkAssumption DEF Sent, ClientOK
<1>11. CASE NotSent
  BY <1>11, LinkAssumption DEF NotSent, ClientOK
<1>12. CASE Commit
  BY <1>12, LinkAssumption DEF Commit, Drops, ClientOK
<1>13. CASE CommitUnanswered
  BY <1>13, LinkAssumption DEF CommitUnanswered, ClientOK
<1>14. CASE SeesRestart
  BY <1>14, LinkAssumption DEF SeesRestart, ClientOK
<1>15. CASE RestartTimer
  BY <1>15, LinkAssumption DEF RestartTimer, ReadAnew, Reconnected, Drops, ClientOK
<1>16. CASE SeesConfigured
  BY <1>16, LinkAssumption DEF SeesConfigured, ClientOK
<1>17. CASE SentUnheard
  BY <1>17, LinkAssumption DEF SentUnheard, Unheard, Drops, ClientOK
<1>18. CASE CommitUnheard
  BY <1>18, LinkAssumption DEF CommitUnheard, Unheard, Drops, ClientOK
<1>19. ASSUME NEW c \in Settings, UpdateConfig(c) PROVE ClientOK'
  BY <1>19, LinkAssumption DEF UpdateConfig, ClientOK
<1>20. ASSUME NEW k \in Kinds, Wake(k) PROVE ClientOK'
  BY <1>20, LinkAssumption DEF Wake, Reconnected, Drops, ClientOK
<1>21. ASSUME NEW k \in Kinds, NEW c \in Settings, Lock(k, c) PROVE ClientOK'
  BY <1>21, LinkAssumption DEF Lock, ClientOK
<1>22. CASE UNCHANGED linkVars
  BY <1>22, LinkAssumption DEF linkVars, ClientOK
<1> QED
  BY <1>1, <1>2, <1>3, <1>4, <1>5, <1>6, <1>7, <1>8, <1>9, <1>10, <1>11, <1>12, <1>13, <1>14, <1>15, <1>16, <1>17, <1>18, <1>19, <1>20, <1>21, <1>22 DEF LinkNext, Edit

LEMMA PushedType ==
  ASSUME GoOK, NEW c \in Settings
  PROVE  Pushed(c) \in [cfg : Settings \cup {Unset}, same : 0..(MaxTries + 1), stuck : BOOLEAN]
<1>1. MaxTries \in Nat /\ last \in [cfg : Settings \cup {Unset}, same : 0..(MaxTries + 1), stuck : BOOLEAN]
  BY LinkAssumption DEF GoOK
<1>2. CASE last.cfg # c
  BY <1>1, <1>2 DEF Pushed
<1>3. CASE last.cfg = c
  <2> DEFINE l == [last EXCEPT !.same = AtMost(@ + 1, MaxTries + 1)]
  <2>1. AtMost(last.same + 1, MaxTries + 1) \in 0..(MaxTries + 1)
    BY <1>1 DEF AtMost
  <2>2. l \in [cfg : Settings \cup {Unset}, same : 0..(MaxTries + 1), stuck : BOOLEAN]
    BY <1>1, <2>1
  <2>3. HeldBack(l) \in BOOLEAN
    BY DEF HeldBack
  <2>4. Pushed(c) = [l EXCEPT !.stuck = HeldBack(l)]
    BY <1>3 DEF Pushed
  <2> HIDE DEF l
  <2> QED
    BY <2>2, <2>3, <2>4
<1> QED
  BY <1>2, <1>3

LEMMA GoStep == ClientOK /\ GoOK /\ EditOK(edit) /\ [LinkNext]_linkVars => GoOK'
<1> SUFFICES ASSUME ClientOK, GoOK, EditOK(edit), [LinkNext]_linkVars PROVE GoOK'
  OBVIOUS
<1> USE DEF nodeVars, clientVars, goVars, triesVars
<1>1. CASE Dial
  BY <1>1, LinkAssumption DEF Dial, GoOK
<1>2. CASE BecomeReady
  BY <1>2, LinkAssumption DEF BecomeReady, GoOK
<1>3. CASE LinkLost
  BY <1>3, LinkAssumption DEF LinkLost, Fault, GoOK
<1>4. CASE Crash
  BY <1>4, LinkAssumption DEF Crash, Fault, GoOK
<1>5. CASE Transmit
  BY <1>5, LinkAssumption DEF Transmit, GoOK
<1>6. CASE HandleFrame
  BY <1>6, LinkAssumption DEF HandleFrame, GoOK
<1>7. CASE Configured
  <2>1. seedTries' \in 0..(MaxTries + 1)
    BY <1>7, LinkAssumption DEF Configured, GoOK, AtMost
  <2>2. \/ waiting' = waiting
        \/ waiting' = [waiting EXCEPT !["push"][wanted] = @ + 1]
        \/ waiting' = [waiting EXCEPT !["seed"][wanted] = @ + 1]
    BY <1>7 DEF Configured, Ask
  <2>3. waiting' \in [Kinds -> [Settings -> Nat]]
    BY <2>2 DEF GoOK, Kinds
  <2> QED
    BY <1>7, <2>1, <2>3 DEF Configured, GoOK
<1>8. CASE NotReady
  BY <1>8, FailLeaves DEF NotReady, GoOK
<1>9. CASE Look
  <2>1. pushTries' \in 0..(MaxTries + 1)
    BY <1>9, LinkAssumption DEF Look, GoOK, Begin, Done, Succeed
  <2>2. edit.cfg \in Settings /\ mirror \in [key : {SeedKey, OtherKey, Unset}, cfg : Settings \cup {Unset}]
    BY <1>9 DEF Look, EditOK, ClientOK
  <2>3. last' \in [cfg : Settings \cup {Unset}, same : 0..(MaxTries + 1), stuck : BOOLEAN]
    <3>1. CASE UNCHANGED last
      BY <3>1 DEF GoOK
    <3>2. CASE last' = NoPush
      BY <3>2, LinkAssumption DEF NoPush
    <3>3. CASE last' = Pushed(edit.cfg)
      BY <3>3, PushedType, <2>2
    <3> QED
      BY <1>9, <3>1, <3>2, <3>3 DEF Look
  <2>4. lapsed' \in BOOLEAN
    BY <1>9, <2>3 DEF Look, GoOK
  <2> QED
    BY <1>9, <2>1, <2>3, <2>4 DEF Look, GoOK
<1>10. CASE Sent
  BY <1>10, LinkAssumption DEF Sent, GoOK
<1>11. CASE NotSent
  BY <1>11, FailLeaves DEF NotSent, GoOK
<1>12. CASE Commit
  <2>1. lapsed' \in BOOLEAN
    BY <1>12 DEF Commit, GoOK
  <2> QED
    BY <1>12, <2>1 DEF Commit, GoOK
<1>13. CASE CommitUnanswered
  <2>1. CASE UNCHANGED <<asleep, pushTries>>
    BY <1>13, <2>1 DEF CommitUnanswered, GoOK
  <2>2. CASE Fail
    BY <1>13, <2>2, FailLeaves DEF CommitUnanswered, GoOK
  <2> QED
    BY <1>13, <2>1, <2>2 DEF CommitUnanswered
<1>14. CASE SeesRestart
  BY <1>14, LinkAssumption DEF SeesRestart, GoOK
<1>15. CASE RestartTimer
  BY <1>15, LinkAssumption DEF RestartTimer, GoOK
<1>16. CASE SeesConfigured
  BY <1>16, LinkAssumption DEF SeesConfigured, Done, Succeed, GoOK
<1>17. CASE SentUnheard
  BY <1>17, LinkAssumption DEF SentUnheard, Unheard, Fault, GoOK
<1>18. CASE CommitUnheard
  BY <1>18, LinkAssumption DEF CommitUnheard, Unheard, Fault, GoOK
<1>19. ASSUME NEW c \in Settings, UpdateConfig(c) PROVE GoOK'
  <2>1. waiting' = [waiting EXCEPT !["web"][c] = @ + 1]
    BY <1>19 DEF UpdateConfig, Ask
  <2>2. waiting' \in [Kinds -> [Settings -> Nat]]
    BY <2>1 DEF GoOK, Kinds
  <2> QED
    BY <1>19, <2>2, LinkAssumption DEF UpdateConfig, GoOK
<1>20. ASSUME NEW k \in Kinds, Wake(k) PROVE GoOK'
  BY <1>20, LinkAssumption DEF Wake, GoOK
<1>21. ASSUME NEW k \in Kinds, NEW c \in Settings, Lock(k, c) PROVE GoOK'
  BY <1>21, LinkAssumption DEF Lock, GoOK
<1>22. CASE UNCHANGED linkVars
  BY <1>22, LinkAssumption DEF linkVars, GoOK
<1> QED
  BY <1>1, <1>2, <1>3, <1>4, <1>5, <1>6, <1>7, <1>8, <1>9, <1>10, <1>11, <1>12, <1>13, <1>14, <1>15, <1>16, <1>17, <1>18, <1>19, <1>20, <1>21, <1>22 DEF LinkNext, Edit

LEMMA EditStep == EditOK(edit) /\ [LinkNext]_linkVars => EditOK(edit)'
<1> SUFFICES ASSUME EditOK(edit), [LinkNext]_linkVars PROVE EditOK(edit)'
  OBVIOUS
<1> USE DEF nodeVars, clientVars, goVars, triesVars
<1>1. CASE Dial
  BY <1>1 DEF Dial
<1>2. CASE BecomeReady
  BY <1>2, ToldKeeps DEF BecomeReady, Events
<1>3. CASE LinkLost
  BY <1>3, DetachedKeeps DEF LinkLost
<1>4. CASE Crash
  BY <1>4, DetachedKeeps DEF Crash
<1>5. CASE Transmit
  BY <1>5 DEF Transmit
<1>6. CASE HandleFrame
  BY <1>6 DEF HandleFrame
<1>7. CASE Configured
  BY <1>7 DEF Configured
<1>8. CASE NotReady
  BY <1>8, NoEditType DEF NotReady, Fail
<1>9. CASE Look
  <2>1. CASE edit' = NoEdit
    BY <2>1, NoEditType
  <2>2. ASSUME NEW b \in BOOLEAN, Begin(b) PROVE EditOK(edit)'
    <3>1. PICK a \in {"set", "key"} : edit' = [edit EXCEPT !.at = a, !.fresh = b]
      BY <2>2 DEF Begin
    <3> QED
      BY <1>9, <3>1, EditSteps DEF Look, Ats
  <2> QED
    BY <1>9, <2>1, <2>2 DEF Look, Done
<1>10. CASE Sent
  <2>1. NextAt[edit.at] \in Ats \ {"none"}
    BY <1>10 DEF Sent, NextAt, Ats
  <2> QED
    BY <1>10, <2>1, EditSteps DEF Sent
<1>11. CASE NotSent
  BY <1>11, NoEditType DEF NotSent, Fail
<1>12. CASE Commit
  <2>1. edit.at # "none" /\ "restart" \in Ats \ {"none"}
    BY <1>12 DEF Commit, Ats
  <2>2. CASE edit' = [edit EXCEPT !.at = "restart"] \/ edit' = [edit EXCEPT !.lost = TRUE]
    <3>1. EditOK([edit EXCEPT !.at = "restart"]) /\ EditOK([edit EXCEPT !.lost = TRUE])
      BY <2>1, EditSteps
    <3> QED
      BY <2>2, <3>1
  <2>3. CASE edit' = [Detached EXCEPT !.at = "restart"] \/ edit' = [Detached EXCEPT !.lost = TRUE]
    <3>1. EditOK(Detached) /\ Detached.at # "none"
      BY <2>1, DetachedKeeps
    <3>2. EditOK([Detached EXCEPT !.at = "restart"]) /\ EditOK([Detached EXCEPT !.lost = TRUE])
      BY <2>1, <3>1, EditSteps
    <3> QED
      BY <2>3, <3>2
  <2> QED
    BY <1>12, <2>2, <2>3 DEF Commit
<1>13. CASE CommitUnanswered
  <2>1. edit.at # "none" /\ "restart" \in Ats \ {"none"}
    BY <1>13 DEF CommitUnanswered, Ats
  <2>2. CASE edit' = [edit EXCEPT !.at = "restart", !.lost = FALSE]
    BY <2>1, <2>2, EditSteps
  <2>3. CASE edit' = NoEdit
    BY <2>3, NoEditType
  <2> QED
    BY <1>13, <2>2, <2>3 DEF CommitUnanswered, Fail
<1>14. CASE SeesRestart
  <2>1. PICK i \in Firsts("Disconnected") :
          edit' = [edit EXCEPT !.at = "configured", !.events = SubSeq(@, i + 1, Len(@))]
    BY <1>14 DEF SeesRestart
  <2>2. edit.events \in Seq(Events) /\ Len(edit.events) <= QueueLen /\ i \in 1..Len(edit.events)
    BY DEF EditOK, Firsts
  <2>3. /\ SubSeq(edit.events, i + 1, Len(edit.events)) \in Seq(Events)
        /\ Len(SubSeq(edit.events, i + 1, Len(edit.events))) <= QueueLen
    BY <2>2, LinkAssumption
  <2> QED
    BY <1>14, <2>1, <2>3, EditReads DEF SeesRestart
<1>15. CASE RestartTimer
  <2>1. PICK s \in {<<"Disconnected">>, << >>} : edit' = [edit EXCEPT !.at = "configured", !.events = s]
    BY <1>15 DEF RestartTimer, ReadAnew
  <2>2. << >> \in Seq(Events) /\ Len(<< >>) = 0
    OBVIOUS
  <2>3. <<"Disconnected">> \in Seq(Events) /\ Len(<<"Disconnected">>) = 1
    BY DEF Events
  <2>4. s \in Seq(Events) /\ Len(s) <= QueueLen
    <3>1. CASE s = << >>
      BY <2>2, <3>1, LinkAssumption
    <3>2. CASE s = <<"Disconnected">>
      BY <2>3, <3>2, LinkAssumption
    <3> QED
      BY <3>1, <3>2
  <2> QED
    BY <1>15, <2>1, <2>4, EditReads DEF RestartTimer
<1>16. CASE SeesConfigured
  BY <1>16, NoEditType DEF SeesConfigured, Done
<1>17. CASE SentUnheard
  <2>1. edit.at # "none"
    BY <1>17 DEF SentUnheard
  <2> QED
    BY <1>17, <2>1, EditSteps, DetachedKeeps DEF SentUnheard, Unheard, Ats
<1>18. CASE CommitUnheard
  <2>1. edit.at # "none"
    BY <1>18 DEF CommitUnheard
  <2> QED
    BY <1>18, <2>1, EditSteps, DetachedKeeps DEF CommitUnheard, Unheard, Ats
<1>19. ASSUME NEW c \in Settings, UpdateConfig(c) PROVE EditOK(edit)'
  BY <1>19 DEF UpdateConfig
<1>20. ASSUME NEW k \in Kinds, Wake(k) PROVE EditOK(edit)'
  BY <1>20, DetachedKeeps DEF Wake
<1>21. ASSUME NEW k \in Kinds, NEW c \in Settings, Lock(k, c) PROVE EditOK(edit)'
  <2>1. edit' = [NoEdit EXCEPT !.at = "wait", !.kind = k, !.cfg = c]
    BY <1>21 DEF Lock
  <2> QED
    BY <2>1, NoEditType DEF EditOK, Ats
<1>22. CASE UNCHANGED linkVars
  BY <1>22 DEF linkVars
<1> QED
  BY <1>1, <1>2, <1>3, <1>4, <1>5, <1>6, <1>7, <1>8, <1>9, <1>10, <1>11, <1>12, <1>13, <1>14, <1>15, <1>16, <1>17, <1>18, <1>19, <1>20, <1>21, <1>22 DEF LinkNext, Edit

LEMMA LinkTypeStep == LinkTypeOK /\ [LinkNext]_linkVars => LinkTypeOK'
BY NodeStep, ClientStep, GoStep, EditStep DEF LinkTypeOK

LEMMA LinkInitType == LinkInit => LinkTypeOK
<1> SUFFICES ASSUME LinkInit PROVE LinkTypeOK
  OBVIOUS
<1>1. NodeOK
  BY DEF LinkInit, NodeOK
<1>2. ClientOK
  <2>1. [key |-> Unset, cfg |-> Unset] \in [key : {SeedKey, OtherKey, Unset}, cfg : Settings \cup {Unset}]
    OBVIOUS
  <2>2. mirror = [key |-> Unset, cfg |-> Unset] /\ link = "down" /\ read = 0 /\ frame = "none"
    BY DEF LinkInit
  <2>3. 0 \in 0..QueueLen
    BY LinkAssumption
  <2> QED
    BY <2>1, <2>2, <2>3 DEF ClientOK
<1>3. GoOK
  <2>1. NoPush \in [cfg : Settings \cup {Unset}, same : 0..(MaxTries + 1), stuck : BOOLEAN]
    BY LinkAssumption DEF NoPush
  <2>2. [k \in Kinds |-> [c \in Settings |-> 0]] \in [Kinds -> [Settings -> Nat]]
    OBVIOUS
  <2>3. /\ waiting = [k \in Kinds |-> [c \in Settings |-> 0]] /\ asleep = [k \in Kinds |-> 0]
        /\ seedTries = 0 /\ pushTries = 0 /\ updates = 0 /\ linkFaults = 0 /\ lapsed = FALSE
        /\ last = [cfg |-> Unset, same |-> 0, stuck |-> FALSE] /\ wanted = First
    BY DEF LinkInit
  <2>4. 0 \in 0..(MaxTries + 1) /\ 0 \in 0..MaxUpdates /\ 0 \in 0..MaxLinkFaults
    BY LinkAssumption
  <2>5. asleep \in [Kinds -> Nat] /\ last = NoPush
    BY <2>3 DEF NoPush
  <2> QED
    BY <2>1, <2>2, <2>3, <2>4, <2>5, LinkAssumption DEF GoOK
<1>4. EditOK(edit)
  BY NoEditType DEF LinkInit
<1> QED
  BY <1>1, <1>2, <1>3, <1>4 DEF LinkTypeOK

\* Whatever happens, the node, its client, the goroutines' counts and the edit under way are of
\* the kinds above; an edit's subscription and the tries are bounded.
THEOREM LinkTypeCorrect == LinkSpec => []LinkTypeOK
BY LinkInitType, LinkTypeStep, PTL DEF LinkSpec

-----------------------------------------------------------------------------
(* The node's link: its key. *)

LEMMA TakenKey ==
  ASSUME NodeOK
  PROVE  /\ edit.at = "set" => Taken.key = node.key /\ Taken.cfg = edit.cfg
         /\ edit.at # "set" => Taken.key = SeedKey /\ Taken.cfg = node.cfg
BY DEF NodeOK, Taken

LEMMA CommitsKey == NodeOK /\ Commits => node'.key = node.key
BY DEF NodeOK, Commits

LEMMA ForeignStep ==
  ASSUME NodeOK, ForeignIsRead, ForeignNeedsAReading, [LinkNext]_linkVars
  PROVE  (ForeignIsRead /\ ForeignNeedsAReading)'
<1> USE DEF nodeVars, clientVars, goVars, triesVars
<1> USE DEF ForeignIsRead, ForeignNeedsAReading, OnAir
<1>1. CASE Dial
  BY <1>1 DEF Dial
<1>2. CASE BecomeReady
  BY <1>2 DEF BecomeReady
<1>3. CASE LinkLost
  BY <1>3 DEF LinkLost, Drops
<1>4. CASE Crash
  BY <1>4 DEF Crash, Drops
<1>5. CASE Transmit
  BY <1>5 DEF Transmit
<1>6. CASE HandleFrame
  BY <1>6 DEF HandleFrame
<1>7. CASE Configured
  BY <1>7 DEF Configured
<1>8. CASE NotReady
  BY <1>8 DEF NotReady
<1>9. CASE Look
  BY <1>9 DEF Look
<1>10. CASE Sent
  BY <1>10, TakenKey DEF Sent
<1>11. CASE NotSent
  BY <1>11 DEF NotSent
<1>12. CASE Commit
  BY <1>12, CommitsKey DEF Commit, Drops
<1>13. CASE CommitUnanswered
  BY <1>13 DEF CommitUnanswered
<1>14. CASE SeesRestart
  BY <1>14 DEF SeesRestart
<1>15. CASE RestartTimer
  BY <1>15 DEF RestartTimer, ReadAnew, Reconnected, Drops
<1>16. CASE SeesConfigured
  BY <1>16 DEF SeesConfigured
<1>17. CASE SentUnheard
  BY <1>17, TakenKey DEF SentUnheard, Unheard, Drops
<1>18. CASE CommitUnheard
  BY <1>18, CommitsKey DEF CommitUnheard, Unheard, Drops
<1>19. ASSUME NEW c \in Settings, UpdateConfig(c) PROVE (ForeignIsRead /\ ForeignNeedsAReading)'
  BY <1>19 DEF UpdateConfig
<1>20. ASSUME NEW k \in Kinds, Wake(k) PROVE (ForeignIsRead /\ ForeignNeedsAReading)'
  BY <1>20 DEF Wake, Reconnected, Drops
<1>21. ASSUME NEW k \in Kinds, NEW c \in Settings, Lock(k, c) PROVE (ForeignIsRead /\ ForeignNeedsAReading)'
  BY <1>21 DEF Lock
<1>22. CASE UNCHANGED linkVars
  BY <1>22 DEF linkVars
<1> QED
  BY <1>1, <1>2, <1>3, <1>4, <1>5, <1>6, <1>7, <1>8, <1>9, <1>10, <1>11, <1>12, <1>13, <1>14, <1>15, <1>16, <1>17, <1>18, <1>19, <1>20, <1>21, <1>22 DEF LinkNext, Edit

LEMMA KeyStep ==
  ASSUME LinkTypeOK, ForeignIsRead, KeyIsOwed, [LinkNext]_linkVars
  PROVE  KeyIsOwed'
<1> USE DEF nodeVars, clientVars, goVars, triesVars
<1> USE DEF KeyIsOwed, LinkTypeOK
<1>1. CASE Dial
  BY <1>1 DEF Dial
<1>2. CASE BecomeReady
  <2>1. read' > 0
    BY <1>2, LinkAssumption DEF BecomeReady, AtMost, ClientOK
  <2> QED
    BY <2>1
<1>3. CASE LinkLost
  BY <1>3 DEF LinkLost, Drops
<1>4. CASE Crash
  BY <1>4 DEF Crash, Drops
<1>5. CASE Transmit
  BY <1>5 DEF Transmit
<1>6. CASE HandleFrame
  BY <1>6 DEF HandleFrame
<1>7. CASE Configured
  <2>1. link' = link /\ node' = node /\ mirror' = mirror /\ edit' = edit /\ asleep' = asleep
    BY <1>7 DEF Configured
  <2>2. CASE OnAir
    BY <2>1, <2>2 DEF ForeignIsRead
  <2>3. CASE seedTries' > MaxTries
    BY <2>3
  <2>4. CASE waiting' = [waiting EXCEPT !["seed"][wanted] = @ + 1]
    <3>1. waiting'["seed"][wanted] > 0
      BY <2>4 DEF GoOK, Kinds
    <3> QED
      BY <3>1 DEF GoOK
  <2> QED
    BY <1>7, <2>2, <2>3, <2>4 DEF Configured, Ask
<1>8. CASE NotReady
  BY <1>8, FailLeaves DEF NotReady, GoOK, Kinds
<1>9. CASE Look
  <2>1. UNCHANGED <<link, node, mirror, read, seedTries, asleep, waiting>> /\ link = "ready"
    BY <1>9 DEF Look
  <2>2. CASE OnAir
    BY <2>1, <2>2 DEF ForeignIsRead
  <2>3. CASE Begin(TRUE)
    <3>1. edit'.at \in {"set", "key"} /\ edit'.fresh = TRUE /\ edit'.kind = edit.kind
      BY <2>3 DEF Begin, EditOK
    <3> QED
      BY <1>9, <2>1, <3>1 DEF Look
  <2> QED
    BY <1>9, <2>2, <2>3 DEF Look
<1>10. CASE Sent
  <2>1. UNCHANGED <<link, mirror, read, seedTries, asleep, waiting>> /\ node' = Taken
    BY <1>10 DEF Sent
  <2>2. CASE edit.at = "set"
    <3>1. node'.key = node.key
      BY <2>1, <2>2, TakenKey
    <3>2. edit'.kind = edit.kind /\ edit'.fresh = edit.fresh /\ (edit.fresh => edit'.at = "key")
      BY <1>10, <2>2 DEF Sent, NextAt, EditOK
    <3> QED
      BY <2>1, <2>2, <3>1, <3>2
  <2>3. CASE edit.at # "set"
    BY <2>1, <2>3, TakenKey
  <2> QED
    BY <2>2, <2>3
<1>11. CASE NotSent
  BY <1>11, FailLeaves DEF NotSent, GoOK, Kinds
<1>12. CASE Commit
  BY <1>12, CommitsKey DEF Commit, Drops
<1>13. CASE CommitUnanswered
  BY <1>13, FailLeaves DEF CommitUnanswered, GoOK, Kinds
<1>14. CASE SeesRestart
  BY <1>14 DEF SeesRestart
<1>15. CASE RestartTimer
  BY <1>15 DEF RestartTimer, ReadAnew, Reconnected, Drops
<1>16. CASE SeesConfigured
  BY <1>16 DEF SeesConfigured
<1>17. CASE SentUnheard
  <2>1. CASE link' = "down"
    BY <2>1
  <2>2. CASE UNCHANGED clientVars /\ edit' = [edit EXCEPT !.lost = TRUE]
    <3>1. node'.key \in {node.key, SeedKey}
      BY <1>17, TakenKey DEF SentUnheard
    <3>2. edit'.kind = edit.kind /\ edit'.fresh = edit.fresh /\ edit'.at = edit.at
      BY <2>2 DEF EditOK
    <3> QED
      BY <1>17, <2>2, <3>1, <3>2 DEF SentUnheard, Unheard
  <2> QED
    BY <1>17, <2>1, <2>2 DEF SentUnheard, Unheard, Drops
<1>18. CASE CommitUnheard
  <2>1. node'.key = node.key /\ edit.at = "commit" /\ UNCHANGED <<seedTries, asleep, waiting, mirror, read>>
    BY <1>18, CommitsKey DEF CommitUnheard, Unheard, Drops
  <2>2. link' = link \/ link' = "down"
    BY <1>18 DEF CommitUnheard, Unheard, Drops
  <2> QED
    BY <2>1, <2>2
<1>19. ASSUME NEW c \in Settings, UpdateConfig(c) PROVE KeyIsOwed'
  <2>1. waiting' = [waiting EXCEPT !["web"][c] = @ + 1]
    BY <1>19 DEF UpdateConfig, Ask
  <2>2. waiting'["seed"] = waiting["seed"]
    BY <2>1 DEF GoOK, Kinds
  <2> QED
    BY <1>19, <2>2 DEF UpdateConfig
<1>20. ASSUME NEW k \in Kinds, Wake(k) PROVE KeyIsOwed'
  <2>1. CASE link' # "ready"
    BY <2>1
  <2>2. CASE UNCHANGED <<clientVars, edit>> /\ OnAir
    BY <1>20, <2>2 DEF Wake, ForeignIsRead
  <2> QED
    BY <1>20, <2>1, <2>2 DEF Wake, Reconnected, Drops
<1>21. ASSUME NEW k \in Kinds, NEW c \in Settings, Lock(k, c) PROVE KeyIsOwed'
  <2>1. waiting' = [waiting EXCEPT ![k][c] = @ - 1]
    BY <1>21 DEF Lock
  <2>2. CASE k = "seed"
    <3>1. edit'.kind = "seed" /\ edit'.at = "wait"
      BY <1>21, <2>2 DEF Lock, NoEdit
    <3> QED
      BY <3>1
  <2>3. CASE k # "seed"
    <3>1. waiting'["seed"] = waiting["seed"]
      BY <2>1, <2>3 DEF GoOK, Kinds
    <3> QED
      BY <1>21, <3>1 DEF Lock
  <2> QED
    BY <2>2, <2>3
<1>22. CASE UNCHANGED linkVars
  BY <1>22 DEF linkVars
<1> QED
  BY <1>1, <1>2, <1>3, <1>4, <1>5, <1>6, <1>7, <1>8, <1>9, <1>10, <1>11, <1>12, <1>13, <1>14, <1>15, <1>16, <1>17, <1>18, <1>19, <1>20, <1>21, <1>22 DEF LinkNext, Edit

-----------------------------------------------------------------------------
(* The node's link: its settings. *)

\* What the events of an edit tell depends on nothing else of it.
LEMMA SameEvents ==
  ASSUME EditOK(edit), NEW a \in Ats, NEW b \in BOOLEAN
  PROVE  /\ [edit EXCEPT !.at = a].events = edit.events
         /\ [edit EXCEPT !.lost = b].events = edit.events
         /\ [edit EXCEPT !.at = a, !.lost = b].events = edit.events
BY DEF EditOK

\* A commit whose edit has heard nothing leaves it to wait for the node, or ends the connection.
LEMMA CommitWaits ==
  ASSUME EditOK(edit), Commit
  PROVE  lapsed' \/ link' = "down" \/ Rereads'
<1>1. CASE edit.events # << >>
  BY <1>1 DEF Commit
<1>2. CASE edit.events = << >> /\ edit' = [edit EXCEPT !.at = "restart"]
  <2>1. edit'.at = "restart" /\ edit'.events = << >>
    BY <1>2 DEF EditOK
  <2> QED
    BY <2>1 DEF Rereads, Has
<1>3. CASE edit.events = << >> /\ edit.fresh /\ edit' = [edit EXCEPT !.lost = TRUE]
  <2>1. edit'.at = "commit" /\ edit'.events = << >> /\ edit'.fresh
    BY <1>3 DEF EditOK, Commit
  <2> QED
    BY <2>1 DEF Rereads, Has
<1> QED
  BY <1>1, <1>2, <1>3 DEF Commit, Drops

\* An edit whose commit was not answered awaits the restart without a failure only if it was
\* going to have the node read again, or if it knows of the end of the connection already.
LEMMA UnansweredWaits ==
  ASSUME EditOK(edit), CommitUnanswered, link = "ready"
  PROVE  \/ ~edit.fresh /\ ~Rereads /\ edit' = NoEdit
         \/ edit.fresh /\ ~Has("Disconnected") /\ Rereads'
         \/ edit.fresh /\ Has("Disconnected") /\ ~Rereads
<1> USE DEF CommitUnanswered, NoAnswer
<1>1. edit.lost /\ edit.at = "commit"
  OBVIOUS
<1>2. CASE ~edit.fresh
  BY <1>1, <1>2 DEF Rereads, Fail
<1>3. CASE edit.fresh /\ Has("Disconnected")
  BY <1>1, <1>3 DEF Rereads
<1>4. CASE edit.fresh /\ ~Has("Disconnected")
  <2>1. edit'.at = "restart" /\ edit'.events = edit.events
    BY <1>4 DEF EditOK
  <2> QED
    BY <1>4, <2>1 DEF Rereads, Has
<1> QED
  BY <1>2, <1>3, <1>4

\* A message that was taken is followed by another one.
LEMMA SentGoesOn == EditOK(edit) /\ Sent => Rereads'
<1> SUFFICES ASSUME EditOK(edit), Sent PROVE Rereads'
  OBVIOUS
<1>1. edit'.at \in {"key", "commit"} /\ edit'.lost = edit.lost
  BY DEF EditOK, Sent, NextAt
<1> QED
  BY <1>1 DEF Rereads, Sent

LEMMA RestartIsKnown == SeesRestart => ~Rereads
BY DEF SeesRestart, Firsts, Has, Rereads

LEMMA TimerReads == RestartTimer => link' # "ready"
BY DEF RestartTimer, ReadAnew, Reconnected, Drops, clientVars

LEMMA MirrorStep ==
  ASSUME LinkTypeOK, MirrorIsCurrent, [LinkNext]_linkVars
  PROVE  MirrorIsCurrent'
<1> USE DEF nodeVars, clientVars, goVars, triesVars
<1> USE DEF MirrorIsCurrent, LinkTypeOK
<1>1. CASE Dial
  BY <1>1 DEF Dial
<1>2. CASE BecomeReady
  BY <1>2 DEF BecomeReady
<1>3. CASE LinkLost
  BY <1>3 DEF LinkLost, Drops
<1>4. CASE Crash
  BY <1>4 DEF Crash, Drops
<1>5. CASE Transmit
  BY <1>5 DEF Transmit, Rereads, Has
<1>6. CASE HandleFrame
  BY <1>6 DEF HandleFrame, Rereads, Has
<1>7. CASE Configured
  BY <1>7 DEF Configured, Rereads, Has
<1>8. CASE NotReady
  BY <1>8 DEF NotReady
<1>9. CASE Look
  <2>1. ~Rereads /\ UNCHANGED <<link, node, mirror>>
    BY <1>9 DEF Look, Rereads
  <2>2. lapsed => lapsed'
    BY <1>9 DEF Look
  <2> QED
    BY <2>1, <2>2
<1>10. CASE Sent
  BY <1>10, SentGoesOn
<1>11. CASE NotSent
  BY <1>11 DEF NotSent, NoAnswer, Rereads
<1>12. CASE Commit
  BY <1>12, CommitWaits
<1>13. CASE CommitUnanswered
  <2>1. UNCHANGED <<link, node, mirror, lapsed>>
    BY <1>13 DEF CommitUnanswered
  <2> QED
    BY <1>13, <2>1, UnansweredWaits
<1>14. CASE SeesRestart
  <2>1. UNCHANGED <<link, node, mirror, lapsed>>
    BY <1>14 DEF SeesRestart
  <2> QED
    BY <1>14, <2>1, RestartIsKnown
<1>15. CASE RestartTimer
  BY <1>15, TimerReads
<1>16. CASE SeesConfigured
  <2>1. ~Rereads /\ UNCHANGED <<link, node, mirror>> /\ (lapsed => lapsed')
    BY <1>16 DEF SeesConfigured, Rereads
  <2> QED
    BY <2>1
<1>17. CASE SentUnheard
  BY <1>17 DEF SentUnheard, Unheard
<1>18. CASE CommitUnheard
  BY <1>18 DEF CommitUnheard, Unheard
<1>19. ASSUME NEW c \in Settings, UpdateConfig(c) PROVE MirrorIsCurrent'
  BY <1>19 DEF UpdateConfig, Rereads, Has
<1>20. ASSUME NEW k \in Kinds, Wake(k) PROVE MirrorIsCurrent'
  <2>1. CASE link' # "ready"
    BY <2>1
  <2>2. CASE UNCHANGED <<clientVars, edit>>
    BY <1>20, <2>2 DEF Wake, Rereads, Has
  <2> QED
    BY <1>20, <2>1, <2>2 DEF Wake, Reconnected, Drops
<1>21. ASSUME NEW k \in Kinds, NEW c \in Settings, Lock(k, c) PROVE MirrorIsCurrent'
  <2>1. ~Rereads /\ UNCHANGED <<link, node, mirror>> /\ (lapsed => lapsed')
    BY <1>21 DEF Lock, Rereads
  <2> QED
    BY <2>1
<1>22. CASE UNCHANGED linkVars
  BY <1>22 DEF linkVars, Rereads, Has
<1> QED
  BY <1>1, <1>2, <1>3, <1>4, <1>5, <1>6, <1>7, <1>8, <1>9, <1>10, <1>11, <1>12, <1>13, <1>14, <1>15, <1>16, <1>17, <1>18, <1>19, <1>20, <1>21, <1>22 DEF LinkNext, Edit

LEMMA OwedStep ==
  ASSUME LinkTypeOK, WaitIsNew, MirrorIsCurrent, SettingsAreOwed, [LinkNext]_linkVars
  PROVE  SettingsAreOwed'
<1> USE DEF nodeVars, clientVars, goVars, triesVars
<1> USE DEF SettingsAreOwed, LinkTypeOK
<1>1. CASE Dial
  BY <1>1 DEF Dial
<1>2. CASE BecomeReady
  <2>1. read' > 0
    BY <1>2, LinkAssumption DEF BecomeReady, AtMost, ClientOK
  <2> QED
    BY <2>1
<1>3. CASE LinkLost
  BY <1>3 DEF LinkLost, Drops
<1>4. CASE Crash
  BY <1>4 DEF Crash, Drops
<1>5. CASE Transmit
  BY <1>5 DEF Transmit, Rereads, Has
<1>6. CASE HandleFrame
  BY <1>6 DEF HandleFrame, Rereads, Has
<1>7. CASE Configured
  <2>1. /\ wanted' = wanted
        /\ \/ seedTries' > MaxTries
           \/ \E k \in Kinds : waiting' = [waiting EXCEPT ![k][wanted] = @ + 1]
    BY <1>7 DEF Configured, Ask, Kinds
  <2>2. ASSUME NEW k \in Kinds, waiting' = [waiting EXCEPT ![k][wanted] = @ + 1]
        PROVE  waiting'[k][wanted] > 0
    BY <2>2 DEF GoOK
  <2>3. seedTries' \in 0..(MaxTries + 1)
    BY <1>7, GoStep DEF LinkNext, GoOK
  <2> QED
    BY <2>1, <2>2, <2>3, LinkAssumption
<1>8. CASE NotReady
  BY <1>8 DEF NotReady
<1>9. CASE Look
  <2>1. /\ UNCHANGED <<link, read, node, wanted, seedTries, waiting, mirror>> /\ (lapsed => lapsed')
        /\ edit.at = "wait" /\ ~Rereads
    BY <1>9 DEF Look, Rereads
  <2>2. CASE OnAir /\ edit.cfg = mirror.cfg
    \* It looks at a mirror that is current, so that there is nothing to do.
    BY <2>1, <2>2 DEF MirrorIsCurrent
  <2>3. ASSUME NEW b \in BOOLEAN, Begin(b) PROVE SettingsAreOwed'
    <3>1. edit'.at \in {"set", "key"} /\ edit'.lost = edit.lost
      BY <2>3 DEF Begin, EditOK
    <3>2. edit.lost = FALSE
      BY <2>1 DEF WaitIsNew
    <3> QED
      BY <3>1, <3>2 DEF Rereads
  <2>4. CASE lapsed'
    BY <2>4
  <2> QED
    BY <1>9, <2>2, <2>3, <2>4 DEF Look
<1>10. CASE Sent
  BY <1>10, SentGoesOn
<1>11. CASE NotSent
  <2>1. CASE link # "ready"
    BY <1>11, <2>1 DEF NotSent
  <2>2. CASE edit.lost
    BY <1>11, <2>2 DEF NotSent, Rereads
  <2> QED
    BY <1>11, <2>1, <2>2 DEF NotSent, NoAnswer
<1>12. CASE Commit
  BY <1>12, CommitWaits
<1>13. CASE CommitUnanswered
  <2>1. UNCHANGED <<link, read, lapsed, node, wanted, seedTries, waiting>> /\ edit.at = "commit"
    BY <1>13 DEF CommitUnanswered
  <2> QED
    BY <1>13, <2>1, UnansweredWaits
<1>14. CASE SeesRestart
  <2>1. UNCHANGED <<link, read, lapsed, node, wanted, seedTries, waiting>> /\ edit.at = "restart"
    BY <1>14 DEF SeesRestart
  <2> QED
    BY <1>14, <2>1, RestartIsKnown
<1>15. CASE RestartTimer
  BY <1>15, TimerReads
<1>16. CASE SeesConfigured
  BY <1>16 DEF SeesConfigured, Rereads
<1>17. CASE SentUnheard
  BY <1>17 DEF SentUnheard, Unheard
<1>18. CASE CommitUnheard
  BY <1>18 DEF CommitUnheard, Unheard
<1>19. ASSUME NEW c \in Settings, UpdateConfig(c) PROVE SettingsAreOwed'
  <2>1. waiting' = [waiting EXCEPT !["web"][c] = @ + 1] /\ wanted' = c
    BY <1>19 DEF UpdateConfig, Ask
  <2>2. waiting'["web"][c] > 0 /\ "web" \in Kinds
    BY <2>1 DEF GoOK, Kinds
  <2> QED
    BY <2>1, <2>2
<1>20. ASSUME NEW k \in Kinds, Wake(k) PROVE SettingsAreOwed'
  <2>1. CASE link' # "ready"
    BY <2>1
  <2>2. CASE UNCHANGED <<clientVars, edit>>
    BY <1>20, <2>2 DEF Wake, Rereads, Has
  <2> QED
    BY <1>20, <2>1, <2>2 DEF Wake, Reconnected, Drops
<1>21. ASSUME NEW k \in Kinds, NEW c \in Settings, Lock(k, c) PROVE SettingsAreOwed'
  <2>1. /\ UNCHANGED <<link, read, lapsed, node, wanted, seedTries>>
        /\ edit.at = "none" /\ waiting' = [waiting EXCEPT ![k][c] = @ - 1]
    BY <1>21 DEF Lock
  <2>2. CASE c = wanted
    <3>1. edit'.at = "wait" /\ edit'.cfg = wanted
      BY <1>21, <2>2 DEF Lock, NoEdit
    <3> QED
      BY <2>1, <3>1
  <2>3. CASE c # wanted
    <3>1. \A q \in Kinds : waiting'[q][wanted] = waiting[q][wanted]
      BY <2>1, <2>3 DEF GoOK
    <3> QED
      BY <2>1, <3>1 DEF Rereads
  <2> QED
    BY <2>2, <2>3
<1>22. CASE UNCHANGED linkVars
  BY <1>22 DEF linkVars, Rereads, Has
<1> QED
  BY <1>1, <1>2, <1>3, <1>4, <1>5, <1>6, <1>7, <1>8, <1>9, <1>10, <1>11, <1>12, <1>13, <1>14, <1>15, <1>16, <1>17, <1>18, <1>19, <1>20, <1>21, <1>22 DEF LinkNext, Edit

LEMMA WaitStep ==
  ASSUME EditOK(edit), WaitIsNew, [LinkNext]_linkVars
  PROVE  WaitIsNew'
<1> USE DEF nodeVars, clientVars, goVars, triesVars
<1> USE DEF WaitIsNew
<1>1. CASE Dial
  BY <1>1 DEF Dial
<1>2. CASE BecomeReady
  BY <1>2, ToldKeeps DEF BecomeReady, Events
<1>3. CASE LinkLost
  BY <1>3, DetachedKeeps DEF LinkLost
<1>4. CASE Crash
  BY <1>4, DetachedKeeps DEF Crash
<1>5. CASE Transmit
  BY <1>5 DEF Transmit
<1>6. CASE HandleFrame
  BY <1>6 DEF HandleFrame
<1>7. CASE Configured
  BY <1>7 DEF Configured
<1>8. CASE NotReady
  BY <1>8, NoEditType DEF NotReady, Fail
<1>9. CASE Look
  BY <1>9, NoEditType DEF Look, Done, Begin, EditOK
<1>10. CASE Sent
  BY <1>10 DEF Sent, NextAt, EditOK
<1>11. CASE NotSent
  BY <1>11, NoEditType DEF NotSent, Fail
<1>12. CASE Commit
  BY <1>12, DetachedKeeps DEF Commit, EditOK
<1>13. CASE CommitUnanswered
  BY <1>13, NoEditType DEF CommitUnanswered, Fail, EditOK
<1>14. CASE SeesRestart
  BY <1>14 DEF SeesRestart, EditOK
<1>15. CASE RestartTimer
  BY <1>15 DEF RestartTimer, ReadAnew, EditOK
<1>16. CASE SeesConfigured
  BY <1>16, NoEditType DEF SeesConfigured, Done
<1>17. CASE SentUnheard
  BY <1>17, DetachedKeeps DEF SentUnheard, Unheard, EditOK
<1>18. CASE CommitUnheard
  BY <1>18, DetachedKeeps DEF CommitUnheard, Unheard, EditOK
<1>19. ASSUME NEW c \in Settings, UpdateConfig(c) PROVE WaitIsNew'
  BY <1>19 DEF UpdateConfig
<1>20. ASSUME NEW k \in Kinds, Wake(k) PROVE WaitIsNew'
  BY <1>20, DetachedKeeps DEF Wake
<1>21. ASSUME NEW k \in Kinds, NEW c \in Settings, Lock(k, c) PROVE WaitIsNew'
  BY <1>21, NoEditType DEF Lock, EditOK
<1>22. CASE UNCHANGED linkVars
  BY <1>22 DEF linkVars
<1> QED
  BY <1>1, <1>2, <1>3, <1>4, <1>5, <1>6, <1>7, <1>8, <1>9, <1>10, <1>11, <1>12, <1>13, <1>14, <1>15, <1>16, <1>17, <1>18, <1>19, <1>20, <1>21, <1>22 DEF LinkNext, Edit

-----------------------------------------------------------------------------
(* The node's link: the theorems. *)

LEMMA LinkInitIInv == LinkInit => LinkIInv
<1> SUFFICES ASSUME LinkInit PROVE LinkIInv
  OBVIOUS
<1>1. LinkTypeOK
  BY LinkInitType
<1>2. link = "down" /\ frame = "none" /\ edit.at = "none"
  BY DEF LinkInit, NoEdit
<1> QED
  BY <1>1, <1>2 DEF LinkIInv, WaitIsNew, ForeignIsRead, ForeignNeedsAReading, KeyIsOwed, MirrorIsCurrent, SettingsAreOwed

LEMMA LinkIInvStep == LinkIInv /\ [LinkNext]_linkVars => LinkIInv'
<1> SUFFICES ASSUME LinkIInv, [LinkNext]_linkVars PROVE LinkIInv'
  OBVIOUS
<1>1. LinkTypeOK /\ NodeOK /\ EditOK(edit)
  BY DEF LinkIInv, LinkTypeOK
<1>2. LinkTypeOK'
  BY <1>1, LinkTypeStep
<1>3. WaitIsNew'
  BY <1>1, WaitStep DEF LinkIInv
<1>4. (ForeignIsRead /\ ForeignNeedsAReading)'
  BY <1>1, ForeignStep DEF LinkIInv
<1>5. KeyIsOwed'
  BY <1>1, KeyStep DEF LinkIInv
<1>6. MirrorIsCurrent'
  BY <1>1, MirrorStep DEF LinkIInv
<1>7. SettingsAreOwed'
  BY <1>1, OwedStep DEF LinkIInv
<1> QED
  BY <1>2, <1>3, <1>4, <1>5, <1>6, <1>7 DEF LinkIInv

LEMMA LinkIInvHolds == LinkSpec => []LinkIInv
BY LinkInitIInv, LinkIInvStep, PTL DEF LinkSpec

\* However the node restarts, loses its key or is read, a frame it sent under another key passes the
\* check in front of the air (LoRaAir.handleEvent, Node.OnAir) only if the client has read the node
\* since: the check never mistakes an older reading of the right key for the sender's.
THEOREM LinkForeignNeedsAReading == LinkSpec => []ForeignNeedsAReading
<1>1. LinkIInv => ForeignNeedsAReading
  BY DEF LinkIInv
<1> QED
  BY <1>1, LinkIInvHolds, PTL

\* However many pushes wait, are overtaken, fail or are lost, for any number of settings and
\* faults: a node nobody is going to read, edit or reconnect to has its key and the host's
\* settings, or giveKey gave it up, or its settings lapsed (Node.configured, ApplyConfig).
THEOREM LinkQuietIsSettled == LinkSpec => []QuietIsSettled
<1>1. ASSUME LinkIInv, Quiet, seedTries <= MaxTries
      PROVE  node.key = SeedKey /\ (node.cfg = wanted \/ lapsed)
  <2>1. /\ link = "ready" /\ read = 0 /\ edit.at = "none" /\ asleep["seed"] = 0
        /\ \A k \in Kinds, c \in Settings : waiting[k][c] = 0
    BY <1>1 DEF Quiet, NoEdit, Kinds
  <2>2. node.key = SeedKey
    <3>1. ~(seedTries > MaxTries) /\ ~(asleep["seed"] > 0)
      BY <1>1, <2>1, LinkAssumption DEF LinkIInv, LinkTypeOK, GoOK
    <3>2. \A c \in Settings : ~(waiting["seed"][c] > 0)
      BY <2>1 DEF Kinds
    <3> QED
      BY <1>1, <2>1, <3>1, <3>2 DEF LinkIInv, KeyIsOwed
  <2>3. node.cfg = wanted \/ lapsed
    BY <1>1, <2>1 DEF LinkIInv, LinkTypeOK, GoOK, SettingsAreOwed, Rereads
  <2> QED
    BY <2>2, <2>3
<1>2. ASSUME LinkIInv PROVE seedTries <= MaxTries \/ seedTries > MaxTries
  BY <1>2, LinkAssumption DEF LinkIInv, LinkTypeOK, GoOK
<1>3. LinkIInv => QuietIsSettled
  BY <1>1, <1>2 DEF QuietIsSettled
<1> QED
  BY <1>3, LinkIInvHolds, PTL
==============================================================================
