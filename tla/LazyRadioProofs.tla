--------------------------- MODULE LazyRadioProofs ---------------------------
(***************************************************************************)
(* What module LazyRadio promises, whatever the settings, the callers and  *)
(* the number of losses: the radio that is open follows the host.          *)
(***************************************************************************)
EXTENDS LazyRadio, TLAPS

\* r.inner is the radio whose frames the loop forwards, and a radio that is live has been
\* opened by the loop's last round.
InnerIsServed ==
  /\ inner # 0 <=> loop.at = "forward"
  /\ inner # 0 => inner = opened
  /\ loop.at \in {"apply", "publish", "forward"} => opened > 0
  /\ live => loop.at \in {"opened", "apply", "publish", "forward"}

\* A caller that got hold of a radio holds the one of this round at most, and not before
\* that one was published.
CallsHoldPublished ==
  \A c \in Callers : call[c].at \in {"got", "accepted"} =>
    /\ 0 < call[c].in /\ call[c].in <= opened
    /\ loop.at \in {"apply", "publish"} => call[c].in < opened

\* Every round but the last ended with a lost device, or with the shutdown.
RoundsAreLosses ==
  /\ opened <= losses + 1
  /\ loop.at \in {"start", "open", "retry", "pause", "opened"} => opened <= losses
  /\ loop.at = "opened" /\ ~live => opened + 1 <= losses \/ Cancelled
  /\ loop.at \in {"apply", "publish", "forward"} /\ ~live => opened <= losses \/ Cancelled

\* Calls that did not overlap ask for what the host has, and what the radio that still is
\* r.inner accepted it is tuned to.
CallsFollowHost ==
  ~crossed => \A c \in Callers : InCall(c) =>
    /\ Alone(c) /\ call[c].cfg = rp
    /\ call[c].at = "accepted" /\ call[c].in = inner => tuned = rp

\* Between calls the host's settings are the ones kept, and they are in the loop's hands or
\* in the radio when a new one is opened.
KeptIsHosts ==
  radioOK /\ (\A c \in Callers : ~InCall(c)) /\ ~refused /\ ~crossed =>
    /\ kept = rp
    /\ loop.at \in {"apply", "publish"} => loop.cfg = rp
    /\ loop.at \in {"publish", "forward"} => tuned = rp

IInv == TypeOK /\ InnerIsServed /\ CallsHoldPublished /\ RoundsAreLosses /\ CallsFollowHost /\ KeptIsHosts

-----------------------------------------------------------------------------
(* Type correctness. *)

LEMMA InitIInv == Init => IInv
<1> SUFFICES ASSUME Init PROVE IInv
  OBVIOUS
<1>1. TypeOK
  <2>1. call \in [Callers -> [at : {"idle", "asked", "got", "accepted"}, cfg : Settings \cup {Unset}, in : Nat]]
    BY DEF Init, NoCall
  <2>2. FlagsOK
    BY DEF Init, FlagsOK
  <2> QED
    BY <2>1, <2>2, LazyAssumption DEF Init, TypeOK
<1>2. \A c \in Callers : call[c].at = "idle"
  BY DEF Init, NoCall
<1>3. InnerIsServed /\ CallsHoldPublished /\ RoundsAreLosses /\ CallsFollowHost /\ KeptIsHosts
  BY <1>2 DEF Init, InnerIsServed, CallsHoldPublished, RoundsAreLosses, CallsFollowHost, KeptIsHosts, InCall
<1> QED
  BY <1>1, <1>3 DEF IInv

LEMMA FlagsStep == FlagsOK /\ [Next]_vars => FlagsOK'
<1> SUFFICES ASSUME FlagsOK, [Next]_vars PROVE FlagsOK'
  OBVIOUS
<1> USE DEF FlagsOK
<1>1. CASE TakeTarget
  BY <1>1 DEF TakeTarget, hostVars, histVars
<1>2. CASE Open
  BY <1>2 DEF Open, LoopTo, hostVars, histVars
<1>3. CASE OpenFails
  BY <1>3 DEF OpenFails, LoopTo, hostVars, histVars
<1>4. CASE Retry
  BY <1>4 DEF Retry, OrDone, LoopTo, hostVars, histVars
<1>5. CASE ReadSettings
  BY <1>5 DEF ReadSettings, ToApply, hostVars, histVars
<1>6. ASSUME NEW ok \in BOOLEAN, Apply(ok) PROVE FlagsOK'
  BY <1>6 DEF Apply, LoopTo, hostVars
<1>7. CASE Publish
  BY <1>7 DEF Publish, LoopTo, hostVars, histVars
<1>8. CASE FramesEnd
  BY <1>8 DEF FramesEnd, ForgetInner, Ends, LoopTo, hostVars, histVars
<1>9. CASE Pause
  BY <1>9 DEF Pause, OrDone, LoopTo, hostVars, histVars
<1>10. ASSUME NEW d \in Devices, Retarget(d) PROVE FlagsOK'
  BY <1>10 DEF Retarget, loopVars, hostVars
<1>11. ASSUME NEW c \in Requests, NEW s \in Settings, SetConfig(c, s) PROVE FlagsOK'
  BY <1>11 DEF SetConfig, Begin, loopVars
<1>12. CASE ConfigureAtBoot
  BY <1>12 DEF ConfigureAtBoot, Begin, loopVars
<1>13. ASSUME NEW c \in Callers, GetInner(c) PROVE FlagsOK'
  BY <1>13 DEF GetInner, Fails
<1>14. ASSUME NEW c \in Callers, NEW ok \in BOOLEAN, Configure(c, ok) PROVE FlagsOK'
  BY <1>14 DEF Configure, HoldsOpen, Fails
<1>15. ASSUME NEW c \in Callers, Remember(c) PROVE FlagsOK'
  BY <1>15 DEF Remember, KeepsAccepted, loopVars
<1>16. CASE Cancel
  BY <1>16 DEF Cancel, loopVars, hostVars, histVars
<1>17. CASE CloseInner
  BY <1>17 DEF CloseInner, hostVars, histVars
<1>18. CASE CloseEnds
  BY <1>18 DEF CloseEnds, loopVars, hostVars, histVars
<1>19. ASSUME NEW d \in Devices, Unplug(d) PROVE FlagsOK'
  BY <1>19 DEF Unplug, hostVars
<1>20. ASSUME NEW d \in Devices, PlugIn(d) PROVE FlagsOK'
  BY <1>20 DEF PlugIn, loopVars, hostVars, histVars
<1>21. CASE UNCHANGED vars
  BY <1>21 DEF vars, loopVars, hostVars, histVars
<1> QED
  BY <1>1, <1>2, <1>3, <1>4, <1>5, <1>6, <1>7, <1>8, <1>9, <1>10, <1>11, <1>12, <1>13,
     <1>14, <1>15, <1>16, <1>17, <1>18, <1>19, <1>20, <1>21
     DEF Next, Loop, Calls, Close, Outside

LEMMA RoundsAreLossesStep == TypeOK /\ RoundsAreLosses /\ [Next]_vars => RoundsAreLosses'
<1> SUFFICES ASSUME TypeOK, RoundsAreLosses, [Next]_vars PROVE RoundsAreLosses'
  OBVIOUS
<1> USE LazyAssumption DEF TypeOK, RoundsAreLosses, Cancelled
<1>1. CASE TakeTarget
  BY <1>1 DEF TakeTarget, hostVars, histVars
<1>2. CASE Open
  BY <1>2 DEF Open, LoopTo, hostVars, histVars
<1>3. CASE OpenFails
  BY <1>3 DEF OpenFails, LoopTo, hostVars, histVars
<1>4. CASE Retry
  BY <1>4 DEF Retry, OrDone, LoopTo, hostVars, histVars
<1>5. CASE ReadSettings
  BY <1>5 DEF ReadSettings, ToApply, hostVars, histVars
<1>6. ASSUME NEW ok \in BOOLEAN, Apply(ok) PROVE RoundsAreLosses'
  BY <1>6 DEF Apply, LoopTo, hostVars
<1>7. CASE Publish
  BY <1>7 DEF Publish, LoopTo, hostVars, histVars
<1>8. CASE FramesEnd
  BY <1>8 DEF FramesEnd, ForgetInner, Ends, LoopTo, hostVars, histVars
<1>9. CASE Pause
  BY <1>9 DEF Pause, OrDone, LoopTo, hostVars, histVars
<1>10. ASSUME NEW d \in Devices, Retarget(d) PROVE RoundsAreLosses'
  BY <1>10 DEF Retarget, loopVars, hostVars
<1>11. ASSUME NEW c \in Requests, NEW s \in Settings, SetConfig(c, s) PROVE RoundsAreLosses'
  BY <1>11 DEF SetConfig, Begin, loopVars
<1>12. CASE ConfigureAtBoot
  BY <1>12 DEF ConfigureAtBoot, Begin, loopVars
<1>13. ASSUME NEW c \in Callers, GetInner(c) PROVE RoundsAreLosses'
  BY <1>13 DEF GetInner, Fails
<1>14. ASSUME NEW c \in Callers, NEW ok \in BOOLEAN, Configure(c, ok) PROVE RoundsAreLosses'
  BY <1>14 DEF Configure, HoldsOpen, Fails
<1>15. ASSUME NEW c \in Callers, Remember(c) PROVE RoundsAreLosses'
  BY <1>15 DEF Remember, KeepsAccepted, loopVars
<1>16. CASE Cancel
  BY <1>16 DEF Cancel, loopVars, hostVars, histVars
<1>17. CASE CloseInner
  BY <1>17 DEF CloseInner, hostVars, histVars
<1>18. CASE CloseEnds
  BY <1>18 DEF CloseEnds, loopVars, hostVars, histVars
<1>19. ASSUME NEW d \in Devices, Unplug(d) PROVE RoundsAreLosses'
  BY <1>19 DEF Unplug, hostVars
<1>20. ASSUME NEW d \in Devices, PlugIn(d) PROVE RoundsAreLosses'
  BY <1>20 DEF PlugIn, loopVars, hostVars, histVars
<1>21. CASE UNCHANGED vars
  BY <1>21 DEF vars, loopVars, hostVars, histVars
<1> QED
  BY <1>1, <1>2, <1>3, <1>4, <1>5, <1>6, <1>7, <1>8, <1>9, <1>10, <1>11, <1>12, <1>13,
     <1>14, <1>15, <1>16, <1>17, <1>18, <1>19, <1>20, <1>21
     DEF Next, Loop, Calls, Close, Outside

LEMMA TypeStep == TypeOK /\ InnerIsServed /\ RoundsAreLosses /\ [Next]_vars => TypeOK'
<1> SUFFICES ASSUME TypeOK, InnerIsServed, RoundsAreLosses, [Next]_vars PROVE TypeOK'
  OBVIOUS
<1> USE FlagsStep, LazyAssumption DEF TypeOK, Callers, NoCall, InnerIsServed, RoundsAreLosses
<1>1. CASE TakeTarget
  BY <1>1 DEF TakeTarget, hostVars, histVars
<1>2. CASE Open
  BY <1>2 DEF Open, LoopTo, hostVars, histVars
<1>3. CASE OpenFails
  BY <1>3 DEF OpenFails, LoopTo, hostVars, histVars
<1>4. CASE Retry
  BY <1>4 DEF Retry, OrDone, LoopTo, hostVars, histVars
<1>5. CASE ReadSettings
  <2>1. opened <= losses /\ inner = 0
    BY <1>5 DEF ReadSettings
  <2>2. opened' \in 0..(MaxLosses + 1)
    BY <1>5, <2>1 DEF ReadSettings
  <2> QED
    BY <1>5, <2>1, <2>2 DEF ReadSettings, ToApply, hostVars, histVars
<1>6. ASSUME NEW ok \in BOOLEAN, Apply(ok) PROVE TypeOK'
  BY <1>6 DEF Apply, LoopTo, hostVars
<1>7. CASE Publish
  BY <1>7 DEF Publish, LoopTo, hostVars, histVars
<1>8. CASE FramesEnd
  BY <1>8 DEF FramesEnd, ForgetInner, Ends, LoopTo, hostVars, histVars
<1>9. CASE Pause
  BY <1>9 DEF Pause, OrDone, LoopTo, hostVars, histVars
<1>10. ASSUME NEW d \in Devices, Retarget(d) PROVE TypeOK'
  BY <1>10 DEF Retarget, loopVars, hostVars
<1>11. ASSUME NEW c \in Requests, NEW s \in Settings, SetConfig(c, s) PROVE TypeOK'
  <2>1. call' \in [Callers -> [at : {"idle", "asked", "got", "accepted"}, cfg : Settings \cup {Unset}, in : Nat]]
    BY <1>11 DEF SetConfig, Begin
  <2> QED
    BY <1>11, <2>1 DEF SetConfig, loopVars
<1>12. CASE ConfigureAtBoot
  <2>1. call' \in [Callers -> [at : {"idle", "asked", "got", "accepted"}, cfg : Settings \cup {Unset}, in : Nat]]
    BY <1>12 DEF ConfigureAtBoot, Begin
  <2> QED
    BY <1>12, <2>1 DEF ConfigureAtBoot, loopVars
<1>13. ASSUME NEW c \in Callers, GetInner(c) PROVE TypeOK'
  <2>1. CASE inner = 0
    BY <1>13, <2>1 DEF GetInner, Fails
  <2>2. CASE inner # 0
    BY <1>13, <2>2 DEF GetInner
  <2> QED
    BY <2>1, <2>2
<1>14. ASSUME NEW c \in Callers, NEW ok \in BOOLEAN, Configure(c, ok) PROVE TypeOK'
  <2>1. CASE ok
    BY <1>14, <2>1 DEF Configure
  <2>2. CASE ~ok
    BY <1>14, <2>2 DEF Configure, Fails
  <2> QED
    BY <2>1, <2>2
<1>15. ASSUME NEW c \in Callers, Remember(c) PROVE TypeOK'
  BY <1>15 DEF Remember, KeepsAccepted, loopVars
<1>16. CASE Cancel
  BY <1>16 DEF Cancel, loopVars, hostVars, histVars
<1>17. CASE CloseInner
  BY <1>17 DEF CloseInner, hostVars, histVars
<1>18. CASE CloseEnds
  BY <1>18 DEF CloseEnds, loopVars, hostVars, histVars
<1>19. ASSUME NEW d \in Devices, Unplug(d) PROVE TypeOK'
  BY <1>19 DEF Unplug, hostVars
<1>20. ASSUME NEW d \in Devices, PlugIn(d) PROVE TypeOK'
  BY <1>20 DEF PlugIn, loopVars, hostVars, histVars
<1>21. CASE UNCHANGED vars
  BY <1>21 DEF vars, loopVars, hostVars, histVars
<1> QED
  BY <1>1, <1>2, <1>3, <1>4, <1>5, <1>6, <1>7, <1>8, <1>9, <1>10, <1>11, <1>12, <1>13,
     <1>14, <1>15, <1>16, <1>17, <1>18, <1>19, <1>20, <1>21
     DEF Next, Loop, Calls, Close, Outside

-----------------------------------------------------------------------------
(* The other parts of the inductive invariant. *)

LEMMA InnerIsServedStep == TypeOK /\ InnerIsServed /\ [Next]_vars => InnerIsServed'
<1> SUFFICES ASSUME TypeOK, InnerIsServed, [Next]_vars PROVE InnerIsServed'
  OBVIOUS
<1> USE LazyAssumption DEF TypeOK, Callers, NoCall, InnerIsServed
<1>1. CASE TakeTarget
  BY <1>1 DEF TakeTarget, hostVars, histVars
<1>2. CASE Open
  BY <1>2 DEF Open, LoopTo, hostVars, histVars
<1>3. CASE OpenFails
  BY <1>3 DEF OpenFails, LoopTo, hostVars, histVars
<1>4. CASE Retry
  BY <1>4 DEF Retry, OrDone, LoopTo, hostVars, histVars
<1>5. CASE ReadSettings
  BY <1>5 DEF ReadSettings, ToApply, hostVars, histVars
<1>6. ASSUME NEW ok \in BOOLEAN, Apply(ok) PROVE InnerIsServed'
  BY <1>6 DEF Apply, LoopTo, hostVars
<1>7. CASE Publish
  BY <1>7 DEF Publish, LoopTo, hostVars, histVars
<1>8. CASE FramesEnd
  BY <1>8 DEF FramesEnd, ForgetInner, Ends, LoopTo, hostVars, histVars
<1>9. CASE Pause
  BY <1>9 DEF Pause, OrDone, LoopTo, hostVars, histVars
<1>10. ASSUME NEW d \in Devices, Retarget(d) PROVE InnerIsServed'
  BY <1>10 DEF Retarget, loopVars, hostVars
<1>11. ASSUME NEW c \in Requests, NEW s \in Settings, SetConfig(c, s) PROVE InnerIsServed'
  BY <1>11 DEF SetConfig, Begin, loopVars
<1>12. CASE ConfigureAtBoot
  BY <1>12 DEF ConfigureAtBoot, Begin, loopVars
<1>13. ASSUME NEW c \in Callers, GetInner(c) PROVE InnerIsServed'
  BY <1>13 DEF GetInner, Fails
<1>14. ASSUME NEW c \in Callers, NEW ok \in BOOLEAN, Configure(c, ok) PROVE InnerIsServed'
  BY <1>14 DEF Configure, HoldsOpen, Fails
<1>15. ASSUME NEW c \in Callers, Remember(c) PROVE InnerIsServed'
  BY <1>15 DEF Remember, KeepsAccepted, loopVars
<1>16. CASE Cancel
  BY <1>16 DEF Cancel, loopVars, hostVars, histVars
<1>17. CASE CloseInner
  BY <1>17 DEF CloseInner, hostVars, histVars
<1>18. CASE CloseEnds
  BY <1>18 DEF CloseEnds, loopVars, hostVars, histVars
<1>19. ASSUME NEW d \in Devices, Unplug(d) PROVE InnerIsServed'
  BY <1>19 DEF Unplug, hostVars
<1>20. ASSUME NEW d \in Devices, PlugIn(d) PROVE InnerIsServed'
  BY <1>20 DEF PlugIn, loopVars, hostVars, histVars
<1>21. CASE UNCHANGED vars
  BY <1>21 DEF vars, loopVars, hostVars, histVars
<1> QED
  BY <1>1, <1>2, <1>3, <1>4, <1>5, <1>6, <1>7, <1>8, <1>9, <1>10, <1>11, <1>12, <1>13,
     <1>14, <1>15, <1>16, <1>17, <1>18, <1>19, <1>20, <1>21
     DEF Next, Loop, Calls, Close, Outside

LEMMA CallsHoldPublishedStep == TypeOK /\ InnerIsServed /\ CallsHoldPublished /\ [Next]_vars => CallsHoldPublished'
<1> SUFFICES ASSUME TypeOK, InnerIsServed, CallsHoldPublished, [Next]_vars PROVE CallsHoldPublished'
  OBVIOUS
<1> USE LazyAssumption DEF TypeOK, Callers, NoCall, InnerIsServed, CallsHoldPublished
<1>1. CASE TakeTarget
  BY <1>1 DEF TakeTarget, hostVars, histVars
<1>2. CASE Open
  BY <1>2 DEF Open, LoopTo, hostVars, histVars
<1>3. CASE OpenFails
  BY <1>3 DEF OpenFails, LoopTo, hostVars, histVars
<1>4. CASE Retry
  BY <1>4 DEF Retry, OrDone, LoopTo, hostVars, histVars
<1>5. CASE ReadSettings
  BY <1>5 DEF ReadSettings, ToApply, hostVars, histVars
<1>6. ASSUME NEW ok \in BOOLEAN, Apply(ok) PROVE CallsHoldPublished'
  BY <1>6 DEF Apply, LoopTo, hostVars
<1>7. CASE Publish
  BY <1>7 DEF Publish, LoopTo, hostVars, histVars
<1>8. CASE FramesEnd
  BY <1>8 DEF FramesEnd, ForgetInner, Ends, LoopTo, hostVars, histVars
<1>9. CASE Pause
  BY <1>9 DEF Pause, OrDone, LoopTo, hostVars, histVars
<1>10. ASSUME NEW d \in Devices, Retarget(d) PROVE CallsHoldPublished'
  BY <1>10 DEF Retarget, loopVars, hostVars
<1>11. ASSUME NEW c \in Requests, NEW s \in Settings, SetConfig(c, s) PROVE CallsHoldPublished'
  BY <1>11 DEF SetConfig, Begin, loopVars
<1>12. CASE ConfigureAtBoot
  BY <1>12 DEF ConfigureAtBoot, Begin, loopVars
<1>13. ASSUME NEW c \in Callers, GetInner(c) PROVE CallsHoldPublished'
  BY <1>13 DEF GetInner, Fails
<1>14. ASSUME NEW c \in Callers, NEW ok \in BOOLEAN, Configure(c, ok) PROVE CallsHoldPublished'
  BY <1>14 DEF Configure, HoldsOpen, Fails
<1>15. ASSUME NEW c \in Callers, Remember(c) PROVE CallsHoldPublished'
  BY <1>15 DEF Remember, KeepsAccepted, loopVars
<1>16. CASE Cancel
  BY <1>16 DEF Cancel, loopVars, hostVars, histVars
<1>17. CASE CloseInner
  BY <1>17 DEF CloseInner, hostVars, histVars
<1>18. CASE CloseEnds
  BY <1>18 DEF CloseEnds, loopVars, hostVars, histVars
<1>19. ASSUME NEW d \in Devices, Unplug(d) PROVE CallsHoldPublished'
  BY <1>19 DEF Unplug, hostVars
<1>20. ASSUME NEW d \in Devices, PlugIn(d) PROVE CallsHoldPublished'
  BY <1>20 DEF PlugIn, loopVars, hostVars, histVars
<1>21. CASE UNCHANGED vars
  BY <1>21 DEF vars, loopVars, hostVars, histVars
<1> QED
  BY <1>1, <1>2, <1>3, <1>4, <1>5, <1>6, <1>7, <1>8, <1>9, <1>10, <1>11, <1>12, <1>13,
     <1>14, <1>15, <1>16, <1>17, <1>18, <1>19, <1>20, <1>21
     DEF Next, Loop, Calls, Close, Outside

LEMMA CallsFollowHostStep == TypeOK /\ InnerIsServed /\ CallsHoldPublished /\ CallsFollowHost /\ [Next]_vars => CallsFollowHost'
<1> SUFFICES ASSUME TypeOK, InnerIsServed, CallsHoldPublished, CallsFollowHost, [Next]_vars PROVE CallsFollowHost'
  OBVIOUS
<1> USE LazyAssumption DEF TypeOK, Callers, NoCall, InnerIsServed, CallsHoldPublished, CallsFollowHost, InCall, Alone
<1>1. CASE TakeTarget
  BY <1>1 DEF TakeTarget, hostVars, histVars
<1>2. CASE Open
  BY <1>2 DEF Open, LoopTo, hostVars, histVars
<1>3. CASE OpenFails
  BY <1>3 DEF OpenFails, LoopTo, hostVars, histVars
<1>4. CASE Retry
  BY <1>4 DEF Retry, OrDone, LoopTo, hostVars, histVars
<1>5. CASE ReadSettings
  BY <1>5 DEF ReadSettings, ToApply, hostVars, histVars
<1>6. ASSUME NEW ok \in BOOLEAN, Apply(ok) PROVE CallsFollowHost'
  BY <1>6 DEF Apply, LoopTo, hostVars
<1>7. CASE Publish
  BY <1>7 DEF Publish, LoopTo, hostVars, histVars
<1>8. CASE FramesEnd
  BY <1>8 DEF FramesEnd, ForgetInner, Ends, LoopTo, hostVars, histVars
<1>9. CASE Pause
  BY <1>9 DEF Pause, OrDone, LoopTo, hostVars, histVars
<1>10. ASSUME NEW d \in Devices, Retarget(d) PROVE CallsFollowHost'
  BY <1>10 DEF Retarget, loopVars, hostVars
<1>11. ASSUME NEW c \in Requests, NEW s \in Settings, SetConfig(c, s) PROVE CallsFollowHost'
  <2> SUFFICES ASSUME ~crossed', NEW o \in Callers, InCall(o)' PROVE (Alone(o) /\ call[o].cfg = rp)' /\ call'[o].at = "asked"
    OBVIOUS
  <2>1. \A q \in Callers \ {c} : call[q].at = "idle" /\ call'[q] = call[q]
    BY <1>11 DEF SetConfig, Begin
  <2>2. o = c /\ call'[c].at = "asked" /\ call'[c].cfg = rp'
    BY <1>11, <2>1 DEF SetConfig, Begin
  <2> QED
    BY <2>1, <2>2
<1>12. CASE ConfigureAtBoot
  <2> SUFFICES ASSUME ~crossed', NEW o \in Callers, InCall(o)' PROVE (Alone(o) /\ call[o].cfg = rp)' /\ call'[o].at = "asked"
    OBVIOUS
  <2>1. \A q \in Callers \ {Boot} : call[q].at = "idle" /\ call'[q] = call[q]
    BY <1>12 DEF ConfigureAtBoot, Begin
  <2>2. o = Boot /\ call'[Boot].at = "asked" /\ call'[Boot].cfg = rp'
    BY <1>12, <2>1 DEF ConfigureAtBoot, Begin
  <2> QED
    BY <2>1, <2>2
<1>13. ASSUME NEW c \in Callers, GetInner(c) PROVE CallsFollowHost'
  BY <1>13 DEF GetInner, Fails
<1>14. ASSUME NEW c \in Callers, NEW ok \in BOOLEAN, Configure(c, ok) PROVE CallsFollowHost'
  BY <1>14 DEF Configure, HoldsOpen, Fails
<1>15. ASSUME NEW c \in Callers, Remember(c) PROVE CallsFollowHost'
  BY <1>15 DEF Remember, KeepsAccepted, loopVars
<1>16. CASE Cancel
  BY <1>16 DEF Cancel, loopVars, hostVars, histVars
<1>17. CASE CloseInner
  BY <1>17 DEF CloseInner, hostVars, histVars
<1>18. CASE CloseEnds
  BY <1>18 DEF CloseEnds, loopVars, hostVars, histVars
<1>19. ASSUME NEW d \in Devices, Unplug(d) PROVE CallsFollowHost'
  BY <1>19 DEF Unplug, hostVars
<1>20. ASSUME NEW d \in Devices, PlugIn(d) PROVE CallsFollowHost'
  BY <1>20 DEF PlugIn, loopVars, hostVars, histVars
<1>21. CASE UNCHANGED vars
  BY <1>21 DEF vars, loopVars, hostVars, histVars
<1> QED
  BY <1>1, <1>2, <1>3, <1>4, <1>5, <1>6, <1>7, <1>8, <1>9, <1>10, <1>11, <1>12, <1>13,
     <1>14, <1>15, <1>16, <1>17, <1>18, <1>19, <1>20, <1>21
     DEF Next, Loop, Calls, Close, Outside

LEMMA KeptIsHostsStep == TypeOK /\ InnerIsServed /\ CallsHoldPublished /\ CallsFollowHost /\ KeptIsHosts /\ [Next]_vars => KeptIsHosts'
<1> SUFFICES ASSUME TypeOK, InnerIsServed, CallsHoldPublished, CallsFollowHost, KeptIsHosts, [Next]_vars PROVE KeptIsHosts'
  OBVIOUS
<1> USE LazyAssumption DEF TypeOK, Callers, NoCall, InnerIsServed, CallsFollowHost, KeptIsHosts, InCall, Alone
<1>1. CASE TakeTarget
  BY <1>1 DEF TakeTarget, hostVars, histVars
<1>2. CASE Open
  BY <1>2 DEF Open, LoopTo, hostVars, histVars
<1>3. CASE OpenFails
  BY <1>3 DEF OpenFails, LoopTo, hostVars, histVars
<1>4. CASE Retry
  BY <1>4 DEF Retry, OrDone, LoopTo, hostVars, histVars
<1>5. CASE ReadSettings
  BY <1>5 DEF ReadSettings, ToApply, hostVars, histVars
<1>6. ASSUME NEW ok \in BOOLEAN, Apply(ok) PROVE KeptIsHosts'
  BY <1>6 DEF Apply, LoopTo, hostVars
<1>7. CASE Publish
  BY <1>7 DEF Publish, LoopTo, hostVars, histVars
<1>8. CASE FramesEnd
  BY <1>8 DEF FramesEnd, ForgetInner, Ends, LoopTo, hostVars, histVars
<1>9. CASE Pause
  BY <1>9 DEF Pause, OrDone, LoopTo, hostVars, histVars
<1>10. ASSUME NEW d \in Devices, Retarget(d) PROVE KeptIsHosts'
  BY <1>10 DEF Retarget, loopVars, hostVars
<1>11. ASSUME NEW c \in Requests, NEW s \in Settings, SetConfig(c, s) PROVE KeptIsHosts'
  BY <1>11 DEF SetConfig, Begin, loopVars
<1>12. CASE ConfigureAtBoot
  BY <1>12 DEF ConfigureAtBoot, Begin, loopVars
<1>13. ASSUME NEW c \in Callers, GetInner(c) PROVE KeptIsHosts'
  <2>1. CASE inner = 0
    BY <1>13, <2>1 DEF GetInner, Fails
  <2>2. CASE inner # 0
    <3>1. call'[c].at = "got"
      BY <1>13, <2>2 DEF GetInner
    <3> QED
      BY <3>1
  <2> QED
    BY <2>1, <2>2
<1>14. ASSUME NEW c \in Callers, NEW ok \in BOOLEAN, Configure(c, ok) PROVE KeptIsHosts'
  <2>1. CASE ok
    <3>1. call'[c].at = "accepted"
      BY <1>14, <2>1 DEF Configure
    <3> QED
      BY <3>1
  <2>2. CASE ~ok
    BY <1>14, <2>2 DEF Configure, Fails
  <2> QED
    BY <2>1, <2>2
<1>15. ASSUME NEW c \in Callers, Remember(c) PROVE KeptIsHosts'
  <2> SUFFICES ASSUME ~refused', ~crossed' PROVE /\ kept' = rp' /\ loop'.at = "forward" /\ tuned' = rp'
    OBVIOUS
  <2>1. ~crossed /\ call[c].in = inner /\ call[c].at = "accepted"
    BY <1>15 DEF Remember
  <2>2. inner # 0
    BY <2>1 DEF CallsHoldPublished
  <2> QED
    BY <1>15, <2>1, <2>2 DEF Remember, KeepsAccepted, loopVars
<1>16. CASE Cancel
  BY <1>16 DEF Cancel, loopVars, hostVars, histVars
<1>17. CASE CloseInner
  BY <1>17 DEF CloseInner, hostVars, histVars
<1>18. CASE CloseEnds
  BY <1>18 DEF CloseEnds, loopVars, hostVars, histVars
<1>19. ASSUME NEW d \in Devices, Unplug(d) PROVE KeptIsHosts'
  BY <1>19 DEF Unplug, hostVars
<1>20. ASSUME NEW d \in Devices, PlugIn(d) PROVE KeptIsHosts'
  BY <1>20 DEF PlugIn, loopVars, hostVars, histVars
<1>21. CASE UNCHANGED vars
  BY <1>21 DEF vars, loopVars, hostVars, histVars
<1> QED
  BY <1>1, <1>2, <1>3, <1>4, <1>5, <1>6, <1>7, <1>8, <1>9, <1>10, <1>11, <1>12, <1>13,
     <1>14, <1>15, <1>16, <1>17, <1>18, <1>19, <1>20, <1>21
     DEF Next, Loop, Calls, Close, Outside

LEMMA IInvStep == IInv /\ [Next]_vars => IInv'
  BY TypeStep, InnerIsServedStep, CallsHoldPublishedStep, RoundsAreLossesStep, CallsFollowHostStep,
     KeptIsHostsStep DEF IInv

THEOREM LazyInductive == Spec => []IInv
  BY InitIInv, IInvStep, PTL DEF Spec

-----------------------------------------------------------------------------
(* The theorems. *)

\* TypeOK of LazyRadio, and with it that a radio is opened at most once more often than a
\* device is lost: the loop never opens a second radio beside one it still serves.
THEOREM LazyTypeCorrect == Spec => []TypeOK
  BY LazyInductive, PTL DEF IInv

\* TunedToHost: while no Configure is under way the radio that Send would use is tuned to the
\* host's settings, however often it was lost and opened again in between, unless the last
\* change was refused or overlapped another.
THEOREM LazyTunedToHost == Spec => []TunedToHost
<1>1. IInv => TunedToHost
  BY DEF IInv, InnerIsServed, KeptIsHosts, TunedToHost
<1> QED
  BY <1>1, LazyInductive, PTL
=============================================================================
