------------------------------ MODULE LazyRadio ------------------------------
(***************************************************************************)
(* A radio that is opened in the background and opened again when it is    *)
(* lost (internal/radio/lazy), between the settings the host wants it to   *)
(* have (configureLoop and setConfig in internal/mesh/host.go) and the     *)
(* device that comes and goes.                                             *)
(*                                                                         *)
(* r.mu is held only to look at or to change r.inner, r.cfg and r.info:    *)
(* opening, configuring and closing a device happen without it.            *)
(***************************************************************************)
EXTENDS Integers

CONSTANTS
  Settings,     \* what radioConfig() can return
  First,        \* the settings the program starts with
  Devices,      \* pairs of driver and device a radio can be pointed at
  Configured,   \* the device in the configuration file at the start
  Requests,     \* web requests that change the settings
  Boot,         \* the host's configureLoop, a caller of its own
  Unset,
  MaxLosses,    \* bound: how often a device goes away
  MaxChanges    \* bound: changes of settings, and of the target

Callers == Requests \cup {Boot}

ASSUME LazyAssumption ==
  /\ First \in Settings /\ Unset \notin Settings /\ Configured \in Devices
  /\ Boot \notin Requests /\ MaxLosses \in Nat /\ MaxChanges \in Nat

VARIABLES
  loop,     \* [at, dev, cfg]: where loop() is, the device and settings it works with
  inner,    \* r.inner, as the number of the opening it came from; 0 for nil
  kept,     \* r.cfg
  target,   \* r.info
  opened,   \* r.opened
  tuned,    \* what the device opened last is tuned to
  live,     \* its Frames are open
  present,  \* devices that can be opened
  rp,       \* the host's settings
  call,     \* call[c]: a Configure under way, its settings and the radio it got hold of
  radioOK,  \* configureLoop is through
  closing   \* Close: "no", "cancelled", "waits" (for r.done), "closed"

\* History and bounds.
VARIABLES
  refused,  \* since the last change: a Configure failed and its caller, or the log, heard
  crossed,  \* since the last change: two Configures overlapped, or one outlived its radio
  losses, changes

loopVars == <<loop, inner, opened, tuned, live>>
hostVars == <<rp, call, radioOK>>
histVars == <<refused, crossed, losses, changes>>
vars == <<loop, inner, kept, target, opened, tuned, live, present, rp, call, radioOK,
          closing, refused, crossed, losses, changes>>

NoCall == [at |-> "idle", cfg |-> Unset, in |-> 0]
Cancelled == closing # "no"

Init ==
  /\ loop = [at |-> "start", dev |-> Configured, cfg |-> Unset]
  /\ inner = 0 /\ kept = Unset /\ target = Configured /\ opened = 0
  /\ tuned = Unset /\ live = FALSE /\ present \in SUBSET Devices
  /\ rp = First /\ call = [c \in Callers |-> NoCall] /\ radioOK = FALSE /\ closing = "no"
  /\ refused = FALSE /\ crossed = FALSE /\ losses = 0 /\ changes = 0

-----------------------------------------------------------------------------
(* The background loop *)

LoopTo(at) == loop' = [loop EXCEPT !.at = at]
OrDone(at) == LoopTo(IF Cancelled THEN "done" ELSE at)

\* loop reads the target under the lock and opens it without: how long that takes, and
\* whether a cancelled context stops it, is the driver's affair.
TakeTarget ==
  /\ loop.at = "start" /\ loop' = [loop EXCEPT !.at = "open", !.dev = target]
  /\ UNCHANGED <<inner, kept, target, opened, tuned, live, present, closing, hostVars, histVars>>
Open ==
  /\ loop.at = "open" /\ loop.dev \in present
  /\ LoopTo("opened") /\ tuned' = Unset /\ live' = TRUE
  /\ UNCHANGED <<inner, kept, target, opened, present, closing, hostVars, histVars>>
OpenFails ==
  /\ loop.at = "open" /\ (loop.dev \notin present \/ Cancelled)
  /\ LoopTo("retry")
  /\ UNCHANGED <<inner, kept, target, opened, tuned, live, present, closing, hostVars, histVars>>

\* waitRetry: the timer, a Retarget or the shutdown ends the wait.
Retry ==
  /\ loop.at = "retry" /\ OrDone("start")
  /\ UNCHANGED <<inner, kept, target, opened, tuned, live, present, closing, hostVars, histVars>>

\* serve reads the settings to apply again, applies them, and only then is the radio r.inner.
\* Mutant: they are only read when the radio is opened for the first time.
ToApplyAtFirst == IF opened = 0 THEN kept ELSE Unset
ToApply == kept

ReadSettings ==
  /\ loop.at = "opened"
  /\ loop' = [loop EXCEPT !.at = "apply", !.cfg = ToApply]
  /\ opened' = opened + 1
  /\ UNCHANGED <<inner, kept, target, tuned, live, present, closing, hostVars, histVars>>
Apply(ok) ==
  /\ loop.at = "apply" /\ (ok => live) /\ LoopTo("publish")
  /\ tuned' = IF ok /\ loop.cfg # Unset THEN loop.cfg ELSE tuned
  /\ refused' = (refused \/ (~ok /\ loop.cfg # Unset))
  /\ UNCHANGED <<inner, kept, target, opened, live, present, closing, hostVars, crossed, losses, changes>>
Publish ==
  /\ loop.at = "publish" /\ inner' = opened /\ LoopTo("forward")
  /\ UNCHANGED <<kept, target, opened, tuned, live, present, closing, hostVars, histVars>>

\* serve's range over Frames ends when they are closed; a lost radio is opened again
\* after a second.
\* Mutant: a lost radio ends the loop like a shutdown.
EndsAtOnce == TRUE
Ends == Cancelled

\* Mutant: callers still find the lost radio.
KeepInner == UNCHANGED inner
ForgetInner == inner' = 0

FramesEnd ==
  /\ loop.at = "forward" /\ ~live
  /\ ForgetInner /\ LoopTo(IF Ends THEN "done" ELSE "pause")
  /\ UNCHANGED <<kept, target, opened, tuned, live, present, closing, hostVars, histVars>>
Pause ==
  /\ loop.at = "pause" /\ OrDone("start")
  /\ UNCHANGED <<inner, kept, target, opened, tuned, live, present, closing, hostVars, histVars>>

\* Retarget: only while no radio is open.
Retarget(d) ==
  /\ inner = 0 /\ d # target /\ changes < MaxChanges /\ ~Cancelled
  /\ target' = d /\ changes' = changes + 1
  /\ UNCHANGED <<loopVars, kept, present, closing, hostVars, refused, crossed, losses>>

-----------------------------------------------------------------------------
(* Configure and its callers *)

InCall(c) == call[c].at # "idle"
Alone(c) == \A o \in Callers \ {c} : ~InCall(o)
Begin(c, s) ==
  /\ ~InCall(c) /\ ~Cancelled
  /\ call' = [call EXCEPT ![c] = [NoCall EXCEPT !.at = "asked", !.cfg = s]]
  /\ refused' = FALSE /\ crossed' = (~Alone(c))

\* setConfig: the host has the new settings first, then the radio is asked to follow.
SetConfig(c, s) ==
  /\ s # rp /\ changes < MaxChanges /\ changes' = changes + 1
  /\ rp' = s /\ Begin(c, s)
  /\ UNCHANGED <<loopVars, kept, target, present, radioOK, closing, losses>>

\* configureLoop asks every ten seconds until it succeeds once.
ConfigureAtBoot ==
  /\ ~radioOK /\ Begin(Boot, rp)
  /\ UNCHANGED <<loopVars, kept, target, present, rp, radioOK, closing, losses, changes>>

Fails(c) ==
  /\ call' = [call EXCEPT ![c] = NoCall]
  /\ refused' = TRUE
  /\ UNCHANGED <<kept, radioOK, tuned, crossed>>

\* get: without a radio the caller hears ErrNotConnected and nothing is remembered.
GetInner(c) ==
  /\ call[c].at = "asked"
  /\ IF inner = 0 THEN Fails(c)
                  ELSE call' = [call EXCEPT ![c].at = "got", ![c].in = inner]
                       /\ UNCHANGED <<kept, radioOK, tuned, refused, crossed>>
  /\ UNCHANGED <<loop, inner, opened, live, target, present, rp, closing, losses, changes>>

\* The radio takes the settings or refuses them; one that is lost refuses, even when the
\* next one is open already.
HoldsOpen(c) == live /\ call[c].in = opened /\ loop.at # "opened"
Configure(c, ok) ==
  /\ call[c].at = "got"
  /\ IF ok THEN /\ HoldsOpen(c) /\ tuned' = call[c].cfg
                /\ call' = [call EXCEPT ![c].at = "accepted"]
                /\ UNCHANGED <<kept, radioOK, refused, crossed>>
           ELSE Fails(c)
  /\ UNCHANGED <<loop, inner, opened, live, target, present, rp, closing, losses, changes>>

\* Mutant: accepted settings are not remembered.
KeptOf(c) == kept
KeepsAccepted(c) == call[c].cfg

Remember(c) ==
  /\ call[c].at = "accepted"
  /\ kept' = KeepsAccepted(c)
  /\ crossed' = (crossed \/ call[c].in # inner)
  /\ radioOK' = (radioOK \/ c = Boot)
  /\ call' = [call EXCEPT ![c] = NoCall]
  /\ UNCHANGED <<loopVars, target, present, rp, closing, refused, losses, changes>>

-----------------------------------------------------------------------------
(* Close, and the device *)

Cancel ==
  /\ closing = "no" /\ closing' = "cancelled"
  /\ UNCHANGED <<loopVars, kept, target, present, hostVars, histVars>>
CloseInner ==
  /\ closing = "cancelled" /\ closing' = "waits"
  /\ live' = (live /\ inner = 0)
  /\ UNCHANGED <<loop, inner, opened, tuned, kept, target, present, hostVars, histVars>>
CloseEnds ==
  /\ closing = "waits" /\ loop.at = "done" /\ closing' = "closed"
  /\ UNCHANGED <<loopVars, kept, target, present, hostVars, histVars>>

\* A device is unplugged: an open SPI radio on it closes itself.
Unplug(d) ==
  /\ d \in present /\ losses < MaxLosses /\ losses' = losses + 1
  /\ present' = present \ {d} /\ live' = (live /\ loop.dev # d)
  /\ UNCHANGED <<loop, inner, opened, tuned, kept, target, closing, hostVars, refused, crossed, changes>>
PlugIn(d) ==
  /\ d \notin present /\ present' = present \cup {d}
  /\ UNCHANGED <<loopVars, kept, target, closing, hostVars, histVars>>
-----------------------------------------------------------------------------
Loop == TakeTarget \/ Open \/ OpenFails \/ Retry \/ ReadSettings
        \/ (\E ok \in BOOLEAN : Apply(ok)) \/ Publish \/ FramesEnd \/ Pause
Calls == \E c \in Callers : GetInner(c) \/ (\E ok \in BOOLEAN : Configure(c, ok)) \/ Remember(c)
Close == CloseInner \/ CloseEnds
Outside == \/ \E d \in Devices : Retarget(d) \/ Unplug(d) \/ PlugIn(d)
           \/ \E c \in Requests, s \in Settings : SetConfig(c, s)
           \/ Cancel
Next == Loop \/ Calls \/ ConfigureAtBoot \/ Close \/ Outside

\* The goroutines run and their timers fire.
Fairness == WF_vars(Loop) /\ WF_vars(Calls) /\ WF_vars(ConfigureAtBoot) /\ WF_vars(Close)
Spec == Init /\ [][Next]_vars
FairSpec == Spec /\ Fairness

-----------------------------------------------------------------------------
(* Properties *)

\* The flags apart: they take other provers than the rest.
FlagsOK == live \in BOOLEAN /\ radioOK \in BOOLEAN /\ refused \in BOOLEAN /\ crossed \in BOOLEAN
TypeOK ==
  /\ FlagsOK
  /\ loop \in [at : {"start", "open", "opened", "apply", "publish", "forward", "pause", "retry", "done"},
               dev : Devices, cfg : Settings \cup {Unset}]
  /\ opened \in 0..(MaxLosses + 1) /\ inner \in {0, opened}
  /\ kept \in Settings \cup {Unset} /\ tuned \in Settings \cup {Unset}
  /\ target \in Devices /\ present \subseteq Devices /\ rp \in Settings
  /\ call \in [Callers -> [at : {"idle", "asked", "got", "accepted"}, cfg : Settings \cup {Unset}, in : Nat]]
  /\ closing \in {"no", "cancelled", "waits", "closed"}
  /\ losses \in 0..MaxLosses /\ changes \in 0..MaxChanges

\* While no Configure is under way, an open radio the host has configured once is tuned to
\* the host's settings, through any losses and reopenings, unless the last change was
\* refused, which its caller was told, or overlapped another.
TunedToHost ==
  radioOK /\ inner # 0 /\ (\A c \in Callers : ~InCall(c)) /\ ~refused /\ ~crossed => tuned = rp

\* A radio that was lost, or was never there, is open again once its device stays present.
OpensAgain == <>[](closing = "no" /\ target \in present) => <>[](inner # 0)

\* Close returns: it waits for a loop that ends.
CloseReturns == closing = "waits" ~> closing = "closed"
=============================================================================
