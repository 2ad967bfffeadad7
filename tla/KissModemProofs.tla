--------------------------- MODULE KissModemProofs ---------------------------
(***************************************************************************)
(* What module KissModem promises of settings and of sent frames, for any  *)
(* settings, frames, number of sessions, retries and queue length.         *)
(***************************************************************************)
EXTENDS KissModem, TLAPS

IsSet(i, p) == toModem[i].kind = "set" /\ toModem[i].part = p

\* Once the modem has worked through what was written to it, part p of its settings is c's:
\* the last command about p says so or, if there is none, the modem has it already.
Settles(p, c) ==
  /\ \A i \in DOMAIN toModem :
       IsSet(i, p) /\ (\A j \in DOMAIN toModem : j > i => ~IsSet(j, p)) => toModem[i].cfg = c
  /\ (\A i \in DOMAIN toModem : ~IsSet(i, p)) => phy[p] = c

\* Settings are applied to an open session only, and are in doubt while they are.
ApplyOK ==
  /\ apply # NoApply => /\ apply.step \in {1, 2} /\ apply.cfg \in Settings /\ apply.tries # 0
                        /\ link \in {"tuning", "up"} /\ applied = Unset
  /\ apply = NoApply \/ link # "up" \/ (tx.by = "configure" /\ tx.live)
  /\ tx.by = "send" => tx.frame \in Frames

\* The settings applied are the current ones, or connect knows that they are not.
Current ==
  /\ seen <= gen
  /\ cfg = Unset => apply = NoApply /\ applied = Unset
  /\ link = "up" \/ (link = "tuning" /\ seen = gen) =>
       /\ apply # NoApply => apply.cfg = cfg
       /\ applied # Unset => applied = cfg

\* What the modem accepts, and what it is or will be tuned to if no reply was mistaken.
OnlyGoodAccepted ==
  \A i \in DOMAIN toHost : toHost[i].kind = "ok" => toHost[i].answers.cfg \notin Refused
WillBeTuned ==
  ~late =>
    /\ apply # NoApply /\ apply.step = 2 => apply.cfg \notin Refused
    /\ applied # Unset /\ link \in {"tuning", "up"} => applied \notin Refused
    /\ \A c \in Settings \ Refused :
         /\ apply # NoApply /\ apply.cfg = c =>
              Settles("radio", c) /\ (apply.step = 2 => Settles("power", c))
         /\ applied = c /\ link \in {"tuning", "up"} => Settles("radio", c) /\ Settles("power", c)

\* A report of success is true.
ReportsTrue ==
  /\ \A i \in DOMAIN toHost : toHost[i].kind = "done" /\ toHost[i].ok => toHost[i].frame \in aired
  /\ txDone # NoFrame /\ txDone.ok => txDone.frame \in aired

\* While nobody has given up on a frame there is one at most on its way, from the host's wire
\* over the air and the modem's wire to txDone, and it is the transmitter's.
IsData(i) == toModem[i].kind = "data"
IsDone(i) == toHost[i].kind = "done"
OneInFlight ==
  gaveUp = {} =>
    /\ \A i \in DOMAIN toModem : IsData(i) =>
         /\ tx.by = "send" /\ toModem[i].frame = tx.frame
         /\ onAir = NoFrame /\ txDone = NoFrame
         /\ \A j \in DOMAIN toModem : IsData(j) => j = i
         /\ \A j \in DOMAIN toHost : ~IsDone(j)
    /\ onAir # NoFrame =>
         /\ tx.by = "send" /\ onAir = tx.frame /\ txDone = NoFrame
         /\ \A j \in DOMAIN toHost : ~IsDone(j)
    /\ \A i \in DOMAIN toHost : IsDone(i) =>
         /\ tx.by = "send" /\ toHost[i].frame = tx.frame /\ txDone = NoFrame
         /\ \A j \in DOMAIN toHost : IsDone(j) => j = i
    /\ txDone # NoFrame => tx.by = "send" /\ txDone.frame = tx.frame

IInv == /\ TypeOK /\ ApplyOK /\ Current /\ OnlyGoodAccepted /\ WillBeTuned
        /\ ReportsTrue /\ OneInFlight /\ SentMeansTransmitted

-----------------------------------------------------------------------------
(* Lemmas about the wires. *)

LEMMA AppendProps ==
  ASSUME NEW S, NEW s \in Seq(S), NEW e \in S
  PROVE  LET t == Append(s, e) IN
         /\ t \in Seq(S) /\ Len(s) + 1 \in DOMAIN t /\ t[Len(s) + 1] = e
         /\ \A i \in DOMAIN s : i \in DOMAIN t /\ t[i] = s[i]
         /\ \A i \in DOMAIN t : i \in DOMAIN s \/ i = Len(s) + 1
         /\ \A i \in DOMAIN s : i \in Int /\ i < Len(s) + 1
<1> DEFINE t == Append(s, e)
<1>1. t \in Seq(S) /\ Len(t) = Len(s) + 1 /\ t[Len(s) + 1] = e
      /\ \A i \in 1..Len(s) : t[i] = s[i]
  OBVIOUS
<1>2. DOMAIN s = 1..Len(s) /\ DOMAIN t = 1..Len(t) /\ Len(s) \in Nat
  BY <1>1
<1> HIDE DEF t
<1> QED
  BY <1>1, <1>2 DEF t

LEMMA TailProps ==
  ASSUME NEW S, NEW s \in Seq(S), s # <<>>
  PROVE  /\ Tail(s) \in Seq(S) /\ Head(s) \in S /\ 1 \in DOMAIN s /\ Head(s) = s[1]
         /\ \A i \in DOMAIN Tail(s) : i \in Int /\ i + 1 \in DOMAIN s /\ Tail(s)[i] = s[i + 1]
         /\ \A i \in DOMAIN s : i = 1 \/ (i \in Int /\ i > 1 /\ i - 1 \in DOMAIN Tail(s) /\ s[i] = Tail(s)[i - 1])
<1>1. /\ Len(s) \in Nat \ {0} /\ Tail(s) \in Seq(S) /\ Head(s) = s[1] /\ Len(Tail(s)) = Len(s) - 1
      /\ \A i \in 1..Len(Tail(s)) : Tail(s)[i] = s[i + 1]
  OBVIOUS
<1>2. DOMAIN s = 1..Len(s) /\ DOMAIN Tail(s) = 1..Len(Tail(s)) /\ \A i \in 1..Len(s) : s[i] \in S
  BY <1>1
<1> DEFINE t == Tail(s)
<1> HIDE DEF t
<1> QED
  <2>1. \A i \in DOMAIN t : i \in Int /\ i + 1 \in DOMAIN s /\ t[i] = s[i + 1]
    BY <1>1, <1>2 DEF t
  <2>2. \A i \in DOMAIN s : i = 1 \/ (i \in Int /\ i > 1 /\ i - 1 \in DOMAIN t /\ i = (i - 1) + 1)
    BY <1>1, <1>2 DEF t
  <2> QED
    BY <1>1, <1>2, <2>1, <2>2 DEF t

\* A command is written: it settles its part, the other one stays as it was.
LEMMA CommandWritten ==
  ASSUME TypeOK, NEW m \in Writes, m.kind = "set", toModem' = Append(toModem, m), phy' = phy
  PROVE  /\ toModem' \in Seq(Writes)
         /\ \A p, c : m.part = p /\ m.cfg = c => Settles(p, c)'
         /\ \A p, c : m.part # p /\ Settles(p, c) => Settles(p, c)'
         /\ \A i \in DOMAIN toModem' : IsData(i)' => i \in DOMAIN toModem /\ toModem'[i] = toModem[i]
<1> DEFINE t == Append(toModem, m)
           n == Len(toModem) + 1
<1>1. /\ t \in Seq(Writes) /\ n \in DOMAIN t /\ t[n] = m
      /\ \A i \in DOMAIN toModem : i \in DOMAIN t /\ t[i] = toModem[i]
      /\ \A i \in DOMAIN t : i \in DOMAIN toModem \/ i = n
      /\ \A i \in DOMAIN toModem : i \in Int /\ i < n
  BY AppendProps DEF TypeOK
<1>2. toModem' = t
  OBVIOUS
<1> HIDE DEF t, n
<1>3. ASSUME NEW p, NEW c, m.part = p, m.cfg = c PROVE Settles(p, c)'
  BY <1>1, <1>2, <1>3 DEF Settles, IsSet
<1>4. ASSUME NEW p, NEW c, m.part # p, Settles(p, c) PROVE Settles(p, c)'
  <2>1. \A i \in DOMAIN t : IsSet(i, p)' <=> i \in DOMAIN toModem /\ IsSet(i, p)
    BY <1>1, <1>2, <1>4 DEF IsSet
  <2>2. \A i \in DOMAIN t : IsSet(i, p)' /\ (\A j \in DOMAIN t : j > i => ~IsSet(j, p)') =>
          i \in DOMAIN toModem /\ IsSet(i, p) /\ \A j \in DOMAIN toModem : j > i => ~IsSet(j, p)
    BY <1>1, <2>1
  <2> QED
    BY <1>1, <1>2, <1>4, <2>1, <2>2 DEF Settles
<1>5. \A i \in DOMAIN toModem' : IsData(i)' => i \in DOMAIN toModem /\ toModem'[i] = toModem[i]
  BY <1>1, <1>2 DEF IsData
<1> QED
  BY <1>1, <1>2, <1>3, <1>4, <1>5

\* A frame is written: no command is.
LEMMA FrameWritten ==
  ASSUME TypeOK, NEW m \in Writes, m.kind = "data", toModem' = Append(toModem, m), phy' = phy
  PROVE  /\ toModem' \in Seq(Writes)
         /\ \A p, c : Settles(p, c) => Settles(p, c)'
         /\ \A i \in DOMAIN toModem' : IsData(i)' =>
              \/ toModem'[i] = m /\ i = Len(toModem) + 1
              \/ i \in DOMAIN toModem /\ IsData(i) /\ toModem'[i] = toModem[i]
<1> DEFINE t == Append(toModem, m)
           n == Len(toModem) + 1
<1>1. /\ t \in Seq(Writes) /\ n \in DOMAIN t /\ t[n] = m
      /\ \A i \in DOMAIN toModem : i \in DOMAIN t /\ t[i] = toModem[i]
      /\ \A i \in DOMAIN t : i \in DOMAIN toModem \/ i = n
      /\ \A i \in DOMAIN toModem : i \in Int /\ i < n
  BY AppendProps DEF TypeOK
<1>2. toModem' = t
  OBVIOUS
<1> HIDE DEF t, n
<1>3. \A i \in DOMAIN toModem' : IsData(i)' =>
        \/ toModem'[i] = m /\ i = n
        \/ i \in DOMAIN toModem /\ IsData(i) /\ toModem'[i] = toModem[i]
  BY <1>1, <1>2 DEF IsData
<1>4. ASSUME NEW p, NEW c, Settles(p, c) PROVE Settles(p, c)'
  <2>1. \A i \in DOMAIN t : IsSet(i, p)' <=> i \in DOMAIN toModem /\ IsSet(i, p)
    BY <1>1, <1>2 DEF IsSet
  <2>2. \A i \in DOMAIN t : IsSet(i, p)' /\ (\A j \in DOMAIN t : j > i => ~IsSet(j, p)') =>
          i \in DOMAIN toModem /\ IsSet(i, p) /\ \A j \in DOMAIN toModem : j > i => ~IsSet(j, p)
    BY <1>1, <2>1
  <2> QED
    BY <1>1, <1>2, <1>4, <2>1, <2>2 DEF Settles
<1> QED
  BY <1>1, <1>2, <1>3, <1>4 DEF n

\* The modem takes what comes first, and does as it says.
LEMMA ModemTakesProps ==
  ASSUME TypeOK, ModemTakes
  PROVE  /\ toModem' \in Seq(Writes) /\ Head(toModem) \in Writes
         /\ phy' \in [{"radio", "power"} -> Settings \cup {Unset}]
         /\ \A p \in {"radio", "power"}, c \in Settings \ Refused : Settles(p, c) => Settles(p, c)'
         /\ \A i \in DOMAIN toModem' : i + 1 \in DOMAIN toModem /\ i + 1 # 1 /\ toModem'[i] = toModem[i + 1]
         /\ 1 \in DOMAIN toModem /\ toModem[1] = Head(toModem)
<1> DEFINE t == Tail(toModem)
           m == Head(toModem)
<1>1. /\ t \in Seq(Writes) /\ m \in Writes /\ 1 \in DOMAIN toModem /\ m = toModem[1]
      /\ \A i \in DOMAIN t : i \in Int /\ i + 1 \in DOMAIN toModem /\ t[i] = toModem[i + 1]
      /\ \A i \in DOMAIN toModem : i = 1 \/ (i \in Int /\ i > 1 /\ i - 1 \in DOMAIN t /\ toModem[i] = t[i - 1])
  BY TailProps DEF TypeOK, ModemTakes
<1>2. toModem' = t /\ DOMAIN t = 1..Len(t)
  BY <1>1 DEF ModemTakes
<1>3. \/ /\ m.kind = "set" /\ m.part \in {"radio", "power"} /\ m.cfg \in Settings
         /\ phy' = IF m.cfg \in Refused THEN phy ELSE [phy EXCEPT ![m.part] = m.cfg]
      \/ m.kind = "data" /\ phy' = phy
  BY <1>1 DEF ModemTakes, Writes
<1> HIDE DEF t, m
<1>4. phy' \in [{"radio", "power"} -> Settings \cup {Unset}]
  BY <1>3 DEF TypeOK
<1>5. ASSUME NEW p \in {"radio", "power"}, NEW c \in Settings \ Refused, Settles(p, c) PROVE Settles(p, c)'
  <2>1. \A i \in DOMAIN t : IsSet(i, p)' <=> IsSet(i + 1, p)
    BY <1>1, <1>2 DEF IsSet
  <2>2. \A i \in DOMAIN t : IsSet(i, p)' /\ (\A j \in DOMAIN t : j > i => ~IsSet(j, p)') => t[i].cfg = c
    <3> SUFFICES ASSUME NEW i \in DOMAIN t, IsSet(i, p)', \A j \in DOMAIN t : j > i => ~IsSet(j, p)'
                 PROVE  t[i].cfg = c
      OBVIOUS
    <3>1. IsSet(i + 1, p) /\ i + 1 \in DOMAIN toModem
      BY <1>1, <2>1
    <3>2. ASSUME NEW j \in DOMAIN toModem, j > i + 1 PROVE ~IsSet(j, p)
      <4>1. j \in Int /\ i \in Int /\ i >= 1 /\ j - 1 \in DOMAIN t /\ j - 1 > i /\ (j - 1) + 1 = j
        BY <1>1, <1>2, <3>2
      <4> QED
        BY <2>1, <4>1
    <3> QED
      BY <1>1, <1>5, <3>1, <3>2 DEF Settles
  <2>3. (\A i \in DOMAIN t : ~IsSet(i, p)') => phy'[p] = c
    <3> SUFFICES ASSUME \A i \in DOMAIN t : ~IsSet(i, p)' PROVE phy'[p] = c
      OBVIOUS
    <3>1. \A i \in DOMAIN toModem : i # 1 => ~IsSet(i, p)
      <4> SUFFICES ASSUME NEW i \in DOMAIN toModem, i # 1 PROVE ~IsSet(i, p)
        OBVIOUS
      <4>1. i \in Int /\ i - 1 \in DOMAIN t /\ (i - 1) + 1 = i
        BY <1>1
      <4> QED
        BY <2>1, <4>1
    <3>2. CASE IsSet(1, p)
      <4>1. m.cfg = c /\ m.kind = "set" /\ m.part = p
        BY <1>1, <1>5, <3>1, <3>2 DEF Settles, IsSet
      <4> QED
        BY <1>3, <4>1 DEF TypeOK
    <3>3. CASE ~IsSet(1, p)
      <4>1. phy[p] = c
        BY <1>5, <3>1, <3>3 DEF Settles
      <4>2. ~(m.kind = "set" /\ m.part = p)
        BY <1>1, <3>3 DEF IsSet
      <4> QED
        BY <1>3, <4>1, <4>2 DEF TypeOK
    <3> QED
      BY <3>2, <3>3
  <2> QED
    BY <1>2, <2>2, <2>3 DEF Settles
<1>6. \A i \in DOMAIN t : i + 1 # 1
  BY <1>2, <1>1
<1> QED
  BY <1>1, <1>2, <1>4, <1>5, <1>6 DEF m

\* The host's wire.
LEMMA HostPops ==
  ASSUME TypeOK, toHost # <<>>, toHost' = Tail(toHost)
  PROVE  /\ toHost' \in Seq(Replies \cup Reports) /\ Head(toHost) \in Replies \cup Reports
         /\ 1 \in DOMAIN toHost /\ toHost[1] = Head(toHost)
         /\ \A i \in DOMAIN toHost' : i + 1 \in DOMAIN toHost /\ i + 1 # 1 /\ toHost'[i] = toHost[i + 1]
<1>1. /\ Tail(toHost) \in Seq(Replies \cup Reports) /\ Head(toHost) \in Replies \cup Reports
      /\ 1 \in DOMAIN toHost /\ Head(toHost) = toHost[1]
      /\ \A i \in DOMAIN Tail(toHost) : i + 1 \in DOMAIN toHost /\ Tail(toHost)[i] = toHost[i + 1]
  BY TailProps DEF TypeOK
<1>2. \A i \in DOMAIN toHost' : i + 1 # 1
  BY <1>1
<1> QED
  BY <1>1, <1>2

LEMMA HostGets ==
  ASSUME TypeOK, NEW m \in Replies \cup Reports, toHost' = Append(toHost, m)
  PROVE  /\ toHost' \in Seq(Replies \cup Reports)
         /\ \A i \in DOMAIN toHost' : \/ toHost'[i] = m /\ i = Len(toHost) + 1
                                      \/ i \in DOMAIN toHost /\ toHost'[i] = toHost[i]
<1> DEFINE t == Append(toHost, m)
           n == Len(toHost) + 1
<1>1. /\ t \in Seq(Replies \cup Reports) /\ t[n] = m
      /\ \A i \in DOMAIN toHost : t[i] = toHost[i]
      /\ \A i \in DOMAIN t : i \in DOMAIN toHost \/ i = n
  BY AppendProps DEF TypeOK
<1>2. toHost' = t
  OBVIOUS
<1> HIDE DEF t, n
<1>3. \A i \in DOMAIN toHost' : \/ toHost'[i] = m /\ i = n
                                \/ i \in DOMAIN toHost /\ toHost'[i] = toHost[i]
  BY <1>1, <1>2
<1> QED
  BY <1>1, <1>2, <1>3 DEF n

\* Command st of settings c is written.
Wrote(st, c) ==
  /\ apply' \in [cfg : Settings, step : {1, 2}, tries : 0..CmdAttempts]
  /\ apply'.step = st /\ apply'.cfg = c /\ apply' # NoApply /\ apply'.tries # 0
  /\ toModem' \in Seq(Writes)
  /\ st = 1 => /\ \A e : e = c => Settles("radio", e)'
               /\ \A e : Settles("power", e) => Settles("power", e)'
  /\ st = 2 => /\ \A e : e = c => Settles("power", e)'
               /\ \A e : Settles("radio", e) => Settles("radio", e)'
  /\ \A i \in DOMAIN toModem' : IsData(i)' => i \in DOMAIN toModem /\ IsData(i) /\ toModem'[i] = toModem[i]

LEMMA WriteProps ==
  ASSUME TypeOK, NEW a \in [cfg : Settings, step : {1, 2}, tries : 0..CmdAttempts], a.tries # 0,
         WriteCommand(a), phy' = phy
  PROVE  \A st, c : st = a.step /\ c = a.cfg => Wrote(st, c)
<1> SUFFICES ASSUME NEW st, NEW c, st = a.step, c = a.cfg PROVE Wrote(st, c)
  OBVIOUS
<1> DEFINE m == [kind |-> "set", part |-> Parts[a.step], cfg |-> a.cfg]
<1>1. /\ st \in {1, 2} /\ c \in Settings
      /\ m \in Writes /\ m.kind = "set" /\ m.cfg = c
      /\ st = 1 => m.part = "radio"
      /\ st = 2 => m.part = "power"
  BY DEF Writes, Parts
<1>2. toModem' = Append(toModem, m) /\ apply' = a
  BY DEF WriteCommand, CommandOf
<1> HIDE DEF m
<1>3. /\ toModem' \in Seq(Writes)
      /\ \A p, e : m.part = p /\ m.cfg = e => Settles(p, e)'
      /\ \A p, e : m.part # p /\ Settles(p, e) => Settles(p, e)'
      /\ \A i \in DOMAIN toModem' : IsData(i)' => i \in DOMAIN toModem /\ toModem'[i] = toModem[i]
  BY <1>1, <1>2, CommandWritten
<1>4. a # NoApply
  BY DEF NoApply
<1>5. \A i \in DOMAIN toModem' : IsData(i)' => i \in DOMAIN toModem /\ IsData(i) /\ toModem'[i] = toModem[i]
  BY <1>3 DEF IsData
<1> QED
  BY <1>1, <1>2, <1>3, <1>4, <1>5 DEF Wrote

LEMMA BeginProps ==
  ASSUME TypeOK, NEW c \in Settings, Begin(c), phy' = phy PROVE Wrote(1, c)
<1> DEFINE a == [cfg |-> c, step |-> 1, tries |-> 1]
<1>1. a \in [cfg : Settings, step : {1, 2}, tries : 0..CmdAttempts] /\ a.tries # 0 /\ a.step = 1 /\ a.cfg = c
  BY KissAssumption
<1>2. WriteCommand(a)
  BY DEF Begin
<1> HIDE DEF a
<1> QED
  BY <1>1, <1>2, WriteProps

LEMMA RetryProps ==
  ASSUME TypeOK, ApplyOK, apply # NoApply, MayRetry, phy' = phy,
         WriteCommand([apply EXCEPT !.tries = @ + 1])
  PROVE  Wrote(apply.step, apply.cfg)
<1> DEFINE a == [apply EXCEPT !.tries = @ + 1]
           q == apply
<1>1. /\ q \in [cfg : Settings \cup {Unset}, step : 0..Len(Parts), tries : 0..CmdAttempts]
      /\ q.cfg \in Settings /\ q.step \in {1, 2} /\ q.tries + 1 \in 0..CmdAttempts /\ q.tries + 1 # 0
  BY KissAssumption DEF TypeOK, ApplyOK, MayRetry
<1>2. a = [q EXCEPT !.tries = q.tries + 1] /\ WriteCommand(a)
  OBVIOUS
<1> HIDE DEF a, q
<1>3. /\ a \in [cfg : Settings, step : {1, 2}, tries : 0..CmdAttempts] /\ a.tries # 0
      /\ a.step = q.step /\ a.cfg = q.cfg
  BY <1>1, <1>2
<1> QED
  BY <1>2, <1>3, WriteProps DEF q

LEMMA StepProps ==
  ASSUME TypeOK, ApplyOK, apply # NoApply, apply.step < Len(Parts), phy' = phy,
         WriteCommand([apply EXCEPT !.step = @ + 1, !.tries = 1])
  PROVE  apply.step = 1 /\ Wrote(2, apply.cfg)
<1> DEFINE a == [apply EXCEPT !.step = @ + 1, !.tries = 1]
           q == apply
<1>1. apply.step = 1
  BY DEF ApplyOK, Parts
<1>2. /\ q \in [cfg : Settings \cup {Unset}, step : 0..Len(Parts), tries : 0..CmdAttempts]
      /\ q.cfg \in Settings /\ q.step = 1 /\ 1 \in 0..CmdAttempts
  BY <1>1, KissAssumption DEF TypeOK, ApplyOK
<1>3. a = [q EXCEPT !.step = 2, !.tries = 1] /\ WriteCommand(a)
  BY <1>1
<1> HIDE DEF a, q
<1>4. a = [cfg |-> q.cfg, step |-> 2, tries |-> 1]
  BY <1>2, <1>3
<1>5. /\ a \in [cfg : Settings, step : {1, 2}, tries : 0..CmdAttempts] /\ a.tries # 0
      /\ a.step = 2 /\ a.cfg = q.cfg
  BY <1>2, <1>4
<1> QED
  BY <1>1, <1>3, <1>5, WriteProps DEF q

-----------------------------------------------------------------------------
(* Type correctness. *)


LEMMA Constants ==
  /\ Len(Parts) = 2 /\ NoApply \in [cfg : Settings \cup {Unset}, step : 0..2, tries : 0..CmdAttempts]
  /\ NoApply.cfg = Unset /\ NoApply.step = 0 /\ Free.by = "none"
  /\ Free \in [by : {"none", "send", "configure"}, frame : Frames \cup {NoFrame}, live : BOOLEAN]
  /\ Untuned \in [{"radio", "power"} -> Settings \cup {Unset}]
  /\ <<>> \in Seq(Writes) /\ <<>> \in Seq(Replies \cup Reports)
  BY KissAssumption DEF Parts, NoApply, Free, Untuned

LEMMA KissInitInv == Init => IInv
<1> SUFFICES ASSUME Init PROVE IInv
  OBVIOUS
<1>1. TypeOK
  BY Constants DEF Init, TypeOK
<1>2. ApplyOK /\ Current /\ OnlyGoodAccepted /\ WillBeTuned
  BY KissAssumption DEF Init, ApplyOK, Current, OnlyGoodAccepted, WillBeTuned, Free
<1>3. ReportsTrue /\ OneInFlight /\ SentMeansTransmitted
  BY DEF Init, ReportsTrue, OneInFlight, SentMeansTransmitted, IsData, IsDone
<1> QED
  BY <1>1, <1>2, <1>3 DEF IInv

LEMMA KissTypeStep == TypeOK /\ ApplyOK /\ [Next]_vars => TypeOK'
<1> SUFFICES ASSUME TypeOK, ApplyOK, [Next]_vars PROVE TypeOK'
  OBVIOUS
<1>0. /\ Len(Parts) = 2 /\ NoApply \in [cfg : Settings \cup {Unset}, step : 0..2, tries : 0..CmdAttempts]
      /\ Free \in [by : {"none", "send", "configure"}, frame : Frames \cup {NoFrame}, live : BOOLEAN]
      /\ Untuned \in [{"radio", "power"} -> Settings \cup {Unset}]
      /\ <<>> \in Seq(Writes) /\ <<>> \in Seq(Replies \cup Reports)
  BY Constants
<1>1. CASE Dial
  BY <1>1, <1>0 DEF TypeOK, Dial, sessionVars, modemVars, sendVars
<1>2. CASE Retune
  <2>1. CASE cfg \notin Unsupported
    <3>1. Wrote(1, cfg)
      BY <1>2, <2>1, BeginProps DEF Retune, CfgIsCurrent, TypeOK
    <3> QED
      BY <1>2, <2>1, <3>1, <1>0 DEF TypeOK, Wrote, Retune, sessionVars, modemVars, sendVars
  <2>2. CASE ~(cfg \notin Unsupported)
    BY <1>2, <2>2, <1>0 DEF TypeOK, Retune, sessionVars, modemVars, sendVars
  <2> QED
    BY <2>1, <2>2
<1>3. CASE Publish
  BY <1>3, <1>0 DEF TypeOK, Publish, sessionVars, modemVars, sendVars
<1>4. CASE Clear
  BY <1>4, <1>0 DEF TypeOK, Clear, sessionVars, modemVars, sendVars
<1>5. CASE CommandTimeout
  <2>1. CASE MayRetry
    <3>1. Wrote(apply.step, apply.cfg)
      BY <1>5, <2>1, RetryProps DEF CommandTimeout, modemVars
    <3> QED
      BY <1>5, <2>1, <3>1, <1>0 DEF TypeOK, Wrote, CommandTimeout
  <2>2. CASE ~MayRetry
    BY <1>5, <2>2, <1>0 DEF TypeOK, CommandTimeout, Finish
  <2> QED
    BY <2>1, <2>2
<1>6. CASE Reply
  <2>0. /\ toHost' \in Seq(Replies \cup Reports) /\ Head(toHost) \in Replies
        /\ 1 \in DOMAIN toHost /\ toHost[1] = Head(toHost)
        /\ \A i \in DOMAIN toHost' : i + 1 \in DOMAIN toHost /\ i + 1 # 1 /\ toHost'[i] = toHost[i + 1]
    BY <1>6, HostPops DEF Reply, Reports
  <2>1. CASE apply = NoApply
    BY <1>6, <2>0, <2>1, <1>0 DEF TypeOK, Reply
  <2>2. CASE apply # NoApply /\ Head(toHost).kind = "ok" /\ apply.step < Len(Parts)
    <3>1. apply.step = 1 /\ Wrote(2, apply.cfg)
      BY <1>6, <2>2, StepProps DEF Reply
    <3> QED
      BY <1>6, <2>0, <2>2, <3>1, <1>0 DEF TypeOK, Wrote, Reply
  <2>3. CASE apply # NoApply /\ ~(Head(toHost).kind = "ok" /\ apply.step < Len(Parts))
    BY <1>6, <2>0, <2>3, <1>0 DEF TypeOK, Reply, Finish
  <2> QED
    BY <2>1, <2>2, <2>3
<1>7. CASE ConfigureLost
  BY <1>7, <1>0 DEF TypeOK, ConfigureLost, sessionVars, modemVars, sendVars
<1>8. CASE Transmitted
  <2>1. tx.frame \in Frames /\ tx' = Free
    BY <1>8 DEF Transmitted, Release, ApplyOK
  <2>2. result' \in [Frames -> {"new", "waiting", "cancelled", "ok", "failed"}]
    BY <1>8, <2>1 DEF Transmitted, Release, TypeOK
  <2> QED
    BY <1>8, <1>0, <2>1, <2>2 DEF TypeOK, Transmitted, sessionVars, modemVars
<1>9. CASE GiveUp
  <2>1. tx.frame \in Frames /\ tx' = Free
    BY <1>9 DEF GiveUp, Release, ApplyOK
  <2>2. result' \in [Frames -> {"new", "waiting", "cancelled", "ok", "failed"}]
    BY <1>9, <2>1 DEF GiveUp, Release, TypeOK
  <2> QED
    BY <1>9, <1>0, <2>1, <2>2 DEF TypeOK, GiveUp, sessionVars, modemVars
<1>10. CASE HearTxDone
  <2>1. toHost' \in Seq(Replies \cup Reports) /\ Head(toHost) \in Reports
    BY <1>10, HostPops DEF HearTxDone, Replies
  <2> QED
    BY <1>10, <2>1 DEF TypeOK, HearTxDone, sessionVars, modemVars
<1>11. CASE ModemTakes
  <2>1. toModem' \in Seq(Writes) /\ Head(toModem) \in Writes /\ phy' \in [{"radio", "power"} -> Settings \cup {Unset}]
    BY <1>11, ModemTakesProps
  <2>2. CASE Head(toModem).kind = "set"
    <3> DEFINE m == [kind |-> IF Head(toModem).cfg \in Refused THEN "error" ELSE "ok",
                     answers |-> [part |-> Head(toModem).part, cfg |-> Head(toModem).cfg]]
    <3>1. m \in Replies
      BY <2>1, <2>2 DEF Writes, Replies
    <3>2. toHost' = Append(toHost, m)
      BY <1>11, <2>2 DEF ModemTakes
    <3> HIDE DEF m
    <3>3. toHost' \in Seq(Replies \cup Reports)
      BY <3>1, <3>2, HostGets
    <3> QED
      BY <1>11, <2>1, <2>2, <3>3 DEF TypeOK, ModemTakes, sessionVars, sendVars
  <2>3. CASE Head(toModem).kind # "set"
    <3>1. Head(toModem).frame \in Frames
      BY <2>1, <2>3 DEF Writes
    <3> QED
      BY <1>11, <2>1, <2>3, <3>1 DEF TypeOK, ModemTakes, sessionVars, sendVars
  <2> QED
    BY <2>2, <2>3
<1>12. ASSUME NEW ok \in BOOLEAN, ModemTransmits(ok) PROVE TypeOK'
  <2> DEFINE m == [kind |-> "done", frame |-> onAir, ok |-> ok]
  <2>1. m \in Reports /\ onAir \in Frames
    BY <1>12 DEF ModemTransmits, TypeOK, Reports
  <2>2. toHost' = Append(toHost, m) \/ toHost' = toHost
    BY <1>12 DEF ModemTransmits
  <2> HIDE DEF m
  <2>3. toHost' \in Seq(Replies \cup Reports)
    BY <2>1, <2>2, HostGets DEF TypeOK
  <2> QED
    BY <1>12, <2>1, <2>3 DEF TypeOK, ModemTransmits, sessionVars, sendVars
<1>13. CASE ReplyLost
  <2>1. toHost' \in Seq(Replies \cup Reports)
    BY <1>13, HostPops DEF ReplyLost
  <2> QED
    BY <1>13, <2>1 DEF TypeOK, ReplyLost, sessionVars, modemVars, sendVars
<1>14. ASSUME NEW c \in Settings, Configure(c) PROVE TypeOK'
  <2>1. CASE link = "up" /\ c \notin Unsupported
    <3>1. Wrote(1, c)
      BY <1>14, <2>1, BeginProps DEF Configure, CfgIsCurrent, TypeOK
    <3>2. tx' = [by |-> "configure", frame |-> NoFrame, live |-> TRUE] /\ UNCHANGED phy
      BY <1>14, <2>1 DEF Configure
    <3> QED
      BY <1>14, <2>1, <3>1, <3>2, <1>0
         DEF TypeOK, Wrote, Configure, sessionVars, modemVars, sendVars
  <2>2. CASE ~(link = "up" /\ c \notin Unsupported)
    BY <1>14, <2>2, <1>0 DEF TypeOK, Configure, sessionVars, modemVars, sendVars
  <2> QED
    BY <2>1, <2>2
<1>15. ASSUME NEW f \in Frames, Send(f) PROVE TypeOK'
  <2>1. CASE link = "up"
    <3> DEFINE m == [kind |-> "data", frame |-> f]
    <3>1. m \in Writes /\ m.kind = "data" /\ m.frame = f
      BY DEF Writes
    <3>2. /\ toModem' = Append(toModem, m) /\ UNCHANGED phy
          /\ tx' = [by |-> "send", frame |-> f, live |-> TRUE]
          /\ txDone' = NoFrame /\ result' = [result EXCEPT ![f] = "waiting"]
      BY <1>15, <2>1 DEF Send
    <3> HIDE DEF m
    <3>3. /\ toModem' \in Seq(Writes)
          /\ \A p, c : Settles(p, c) => Settles(p, c)'
          /\ \A i \in DOMAIN toModem' : IsData(i)' =>
               \/ toModem'[i] = m /\ i = Len(toModem) + 1
               \/ i \in DOMAIN toModem /\ IsData(i) /\ toModem'[i] = toModem[i]
      BY <3>1, <3>2, FrameWritten
    <3> QED
      BY <1>15, <2>1, <3>1, <3>2, <3>3, <1>0 DEF TypeOK, Send, sessionVars
  <2>2. CASE link # "up"
    BY <1>15, <2>2, <1>0 DEF TypeOK, Send, sessionVars
  <2> QED
    BY <2>1, <2>2
<1>16. CASE Abandon
  BY <1>16, <1>0 DEF TypeOK, Abandon, sessionVars, modemVars, sendVars
<1>17. CASE Fail
  BY <1>17, <1>0 DEF TypeOK, Fail, sessionVars, modemVars, sendVars
<1>18. CASE UNCHANGED vars
  BY <1>18, <1>0 DEF TypeOK, vars
<1> QED
  BY <1>1, <1>2, <1>3, <1>4, <1>5, <1>6, <1>7, <1>8, <1>9, <1>10, <1>11, <1>12, <1>13,
     <1>14, <1>15, <1>16, <1>17, <1>18
     DEF Next, Driver, Modem, Callers

LEMMA ApplyStep == TypeOK /\ ApplyOK /\ [Next]_vars => ApplyOK'
<1> SUFFICES ASSUME TypeOK, ApplyOK, [Next]_vars PROVE ApplyOK'
  OBVIOUS
<1>1. CASE Dial
  BY <1>1 DEF ApplyOK, TypeOK, Dial, sessionVars, modemVars, sendVars, NoApply
<1>2. CASE Retune
  <2>1. CASE cfg \notin Unsupported
    <3>1. Wrote(1, cfg)
      BY <1>2, <2>1, BeginProps DEF Retune, CfgIsCurrent, TypeOK
    <3> QED
      BY <1>2, <2>1, <3>1
         DEF ApplyOK, TypeOK, Wrote, Retune, Free, NoApply, sessionVars, modemVars, sendVars
  <2>2. CASE ~(cfg \notin Unsupported)
    BY <1>2, <2>2 DEF ApplyOK, TypeOK, Retune, Free, NoApply, sessionVars, modemVars, sendVars
  <2> QED
    BY <2>1, <2>2
<1>3. CASE Publish
  BY <1>3 DEF ApplyOK, TypeOK, Publish, sessionVars, modemVars, sendVars
<1>4. CASE Clear
  BY <1>4 DEF ApplyOK, TypeOK, Clear, sessionVars, modemVars, sendVars
<1>5. CASE CommandTimeout
  <2>1. CASE MayRetry
    <3>1. Wrote(apply.step, apply.cfg)
      BY <1>5, <2>1, RetryProps DEF CommandTimeout, modemVars
    <3> QED
      BY <1>5, <2>1, <3>1 DEF ApplyOK, TypeOK, Wrote, CommandTimeout
  <2>2. CASE ~MayRetry
    BY <1>5, <2>2 DEF ApplyOK, TypeOK, CommandTimeout, Finish, Free, NoApply
  <2> QED
    BY <2>1, <2>2
<1>6. CASE Reply
  <2>0. /\ toHost' \in Seq(Replies \cup Reports) /\ Head(toHost) \in Replies
        /\ 1 \in DOMAIN toHost /\ toHost[1] = Head(toHost)
        /\ \A i \in DOMAIN toHost' : i + 1 \in DOMAIN toHost /\ i + 1 # 1 /\ toHost'[i] = toHost[i + 1]
    BY <1>6, HostPops DEF Reply, Reports
  <2>1. CASE apply = NoApply
    BY <1>6, <2>0, <2>1 DEF ApplyOK, TypeOK, Reply
  <2>2. CASE apply # NoApply /\ Head(toHost).kind = "ok" /\ apply.step < Len(Parts)
    <3>1. apply.step = 1 /\ Wrote(2, apply.cfg)
      BY <1>6, <2>2, StepProps DEF Reply
    <3> QED
      BY <1>6, <2>0, <2>2, <3>1 DEF ApplyOK, TypeOK, Wrote, Reply
  <2>3. CASE apply # NoApply /\ ~(Head(toHost).kind = "ok" /\ apply.step < Len(Parts))
    BY <1>6, <2>0, <2>3 DEF ApplyOK, TypeOK, Reply, Finish, Free, NoApply
  <2> QED
    BY <2>1, <2>2, <2>3
<1>7. CASE ConfigureLost
  BY <1>7 DEF ApplyOK, TypeOK, ConfigureLost, Free, sessionVars, modemVars, sendVars
<1>8. CASE Transmitted
  BY <1>8 DEF ApplyOK, TypeOK, Transmitted, Release, Free, sessionVars, modemVars, sendVars
<1>9. CASE GiveUp
  BY <1>9 DEF ApplyOK, TypeOK, GiveUp, Release, Free, sessionVars, modemVars, sendVars
<1>10. CASE HearTxDone
  BY <1>10 DEF ApplyOK, TypeOK, HearTxDone, sessionVars, modemVars, sendVars
<1>11. CASE ModemTakes
  BY <1>11 DEF ApplyOK, TypeOK, ModemTakes, sessionVars, modemVars, sendVars
<1>12. ASSUME NEW ok \in BOOLEAN, ModemTransmits(ok) PROVE ApplyOK'
  BY <1>12 DEF ApplyOK, TypeOK, ModemTransmits, sessionVars, modemVars, sendVars
<1>13. CASE ReplyLost
  BY <1>13 DEF ApplyOK, TypeOK, ReplyLost, sessionVars, modemVars, sendVars
<1>14. ASSUME NEW c \in Settings, Configure(c) PROVE ApplyOK'
  <2>1. CASE link = "up" /\ c \notin Unsupported
    <3>1. Wrote(1, c)
      BY <1>14, <2>1, BeginProps DEF Configure, CfgIsCurrent, TypeOK
    <3> QED
      BY <1>14, <2>1, <3>1
         DEF ApplyOK, TypeOK, Wrote, Configure, Free, NoApply, sessionVars, modemVars, sendVars
  <2>2. CASE ~(link = "up" /\ c \notin Unsupported)
    BY <1>14, <2>2
       DEF ApplyOK, TypeOK, Configure, Free, NoApply, sessionVars, modemVars, sendVars
  <2> QED
    BY <2>1, <2>2
<1>15. ASSUME NEW f \in Frames, Send(f) PROVE ApplyOK'
  <2>1. CASE link = "up"
    <3> DEFINE m == [kind |-> "data", frame |-> f]
    <3>1. m \in Writes /\ m.kind = "data" /\ m.frame = f
      BY DEF Writes
    <3>2. /\ toModem' = Append(toModem, m) /\ UNCHANGED phy
          /\ tx' = [by |-> "send", frame |-> f, live |-> TRUE]
          /\ txDone' = NoFrame /\ result' = [result EXCEPT ![f] = "waiting"]
      BY <1>15, <2>1 DEF Send
    <3> HIDE DEF m
    <3>3. /\ toModem' \in Seq(Writes)
          /\ \A p, c : Settles(p, c) => Settles(p, c)'
          /\ \A i \in DOMAIN toModem' : IsData(i)' =>
               \/ toModem'[i] = m /\ i = Len(toModem) + 1
               \/ i \in DOMAIN toModem /\ IsData(i) /\ toModem'[i] = toModem[i]
      BY <3>1, <3>2, FrameWritten
    <3> QED
      BY <1>15, <2>1, <3>1, <3>2, <3>3 DEF ApplyOK, TypeOK, Free, Send, sessionVars
  <2>2. CASE link # "up"
    BY <1>15, <2>2 DEF ApplyOK, TypeOK, Free, Send, sessionVars
  <2> QED
    BY <2>1, <2>2
<1>16. CASE Abandon
  BY <1>16 DEF ApplyOK, TypeOK, Abandon, sessionVars, modemVars, sendVars
<1>17. CASE Fail
  BY <1>17 DEF ApplyOK, TypeOK, Fail, sessionVars, modemVars, sendVars, NoApply
<1>18. CASE UNCHANGED vars
  BY <1>18 DEF ApplyOK, TypeOK, vars
<1> QED
  BY <1>1, <1>2, <1>3, <1>4, <1>5, <1>6, <1>7, <1>8, <1>9, <1>10, <1>11, <1>12, <1>13,
     <1>14, <1>15, <1>16, <1>17, <1>18
     DEF Next, Driver, Modem, Callers

LEMMA CurrentStep == TypeOK /\ ApplyOK /\ Current /\ [Next]_vars => Current'
<1> SUFFICES ASSUME TypeOK, ApplyOK, Current, [Next]_vars PROVE Current'
  OBVIOUS
<1>1. CASE Dial
  BY <1>1
     DEF Current, ApplyOK, TypeOK, CfgIsCurrent, Dial, sessionVars, modemVars, sendVars, NoApply
<1>2. CASE Retune
  <2>1. CASE cfg \notin Unsupported
    <3>1. Wrote(1, cfg)
      BY <1>2, <2>1, BeginProps DEF Retune, CfgIsCurrent, TypeOK
    <3> QED
      BY <1>2, <2>1, <3>1
         DEF Current, ApplyOK, TypeOK, CfgIsCurrent, Wrote, Retune, Free, NoApply, sessionVars,
             modemVars, sendVars
  <2>2. CASE ~(cfg \notin Unsupported)
    BY <1>2, <2>2
       DEF Current, ApplyOK, TypeOK, CfgIsCurrent, Retune, Free, NoApply, sessionVars,
           modemVars, sendVars
  <2> QED
    BY <2>1, <2>2
<1>3. CASE Publish
  BY <1>3 DEF Current, ApplyOK, TypeOK, CfgIsCurrent, Publish, sessionVars, modemVars, sendVars
<1>4. CASE Clear
  BY <1>4 DEF Current, ApplyOK, TypeOK, CfgIsCurrent, Clear, sessionVars, modemVars, sendVars
<1>5. CASE CommandTimeout
  <2>1. CASE MayRetry
    <3>1. Wrote(apply.step, apply.cfg)
      BY <1>5, <2>1, RetryProps DEF CommandTimeout, modemVars
    <3> QED
      BY <1>5, <2>1, <3>1 DEF Current, ApplyOK, TypeOK, CfgIsCurrent, Wrote, CommandTimeout
  <2>2. CASE ~MayRetry
    BY <1>5, <2>2
       DEF Current, ApplyOK, TypeOK, CfgIsCurrent, CommandTimeout, Finish, Free, NoApply
  <2> QED
    BY <2>1, <2>2
<1>6. CASE Reply
  <2>0. /\ toHost' \in Seq(Replies \cup Reports) /\ Head(toHost) \in Replies
        /\ 1 \in DOMAIN toHost /\ toHost[1] = Head(toHost)
        /\ \A i \in DOMAIN toHost' : i + 1 \in DOMAIN toHost /\ i + 1 # 1 /\ toHost'[i] = toHost[i + 1]
    BY <1>6, HostPops DEF Reply, Reports
  <2>1. CASE apply = NoApply
    BY <1>6, <2>0, <2>1 DEF Current, ApplyOK, TypeOK, CfgIsCurrent, Reply
  <2>2. CASE apply # NoApply /\ Head(toHost).kind = "ok" /\ apply.step < Len(Parts)
    <3>1. apply.step = 1 /\ Wrote(2, apply.cfg)
      BY <1>6, <2>2, StepProps DEF Reply
    <3> QED
      BY <1>6, <2>0, <2>2, <3>1 DEF Current, ApplyOK, TypeOK, CfgIsCurrent, Wrote, Reply
  <2>3. CASE apply # NoApply /\ ~(Head(toHost).kind = "ok" /\ apply.step < Len(Parts))
    BY <1>6, <2>0, <2>3 DEF Current, ApplyOK, TypeOK, CfgIsCurrent, Reply, Finish, Free, NoApply
  <2> QED
    BY <2>1, <2>2, <2>3
<1>7. CASE ConfigureLost
  BY <1>7
     DEF Current, ApplyOK, TypeOK, CfgIsCurrent, ConfigureLost, Free, sessionVars, modemVars,
         sendVars
<1>8. CASE Transmitted
  BY <1>8
     DEF Current, ApplyOK, TypeOK, CfgIsCurrent, Transmitted, Release, Free, sessionVars,
         modemVars, sendVars
<1>9. CASE GiveUp
  BY <1>9
     DEF Current, ApplyOK, TypeOK, CfgIsCurrent, GiveUp, Release, Free, sessionVars, modemVars,
         sendVars
<1>10. CASE HearTxDone
  BY <1>10
     DEF Current, ApplyOK, TypeOK, CfgIsCurrent, HearTxDone, sessionVars, modemVars, sendVars
<1>11. CASE ModemTakes
  BY <1>11
     DEF Current, ApplyOK, TypeOK, CfgIsCurrent, ModemTakes, sessionVars, modemVars, sendVars
<1>12. ASSUME NEW ok \in BOOLEAN, ModemTransmits(ok) PROVE Current'
  BY <1>12
     DEF Current, ApplyOK, TypeOK, CfgIsCurrent, ModemTransmits, sessionVars, modemVars,
         sendVars
<1>13. CASE ReplyLost
  BY <1>13
     DEF Current, ApplyOK, TypeOK, CfgIsCurrent, ReplyLost, sessionVars, modemVars, sendVars
<1>14. ASSUME NEW c \in Settings, Configure(c) PROVE Current'
  <2>1. CASE link = "up" /\ c \notin Unsupported
    <3>1. Wrote(1, c)
      BY <1>14, <2>1, BeginProps DEF Configure, CfgIsCurrent, TypeOK
    <3> QED
      BY <1>14, <2>1, <3>1, KissAssumption
         DEF Current, ApplyOK, TypeOK, Wrote, Configure, Free, NoApply, sessionVars, modemVars,
             sendVars
  <2>2. CASE ~(link = "up" /\ c \notin Unsupported)
    BY <1>14, <2>2, KissAssumption
       DEF Current, ApplyOK, TypeOK, Configure, Free, NoApply, sessionVars, modemVars, sendVars
  <2> QED
    BY <2>1, <2>2
<1>15. ASSUME NEW f \in Frames, Send(f) PROVE Current'
  BY <1>15 DEF Current, ApplyOK, TypeOK, CfgIsCurrent, Send, sessionVars, modemVars, sendVars
<1>16. CASE Abandon
  BY <1>16 DEF Current, ApplyOK, TypeOK, CfgIsCurrent, Abandon, sessionVars, modemVars, sendVars
<1>17. CASE Fail
  BY <1>17
     DEF Current, ApplyOK, TypeOK, CfgIsCurrent, Fail, sessionVars, modemVars, sendVars, NoApply
<1>18. CASE UNCHANGED vars
  BY <1>18 DEF Current, ApplyOK, TypeOK, CfgIsCurrent, vars
<1> QED
  BY <1>1, <1>2, <1>3, <1>4, <1>5, <1>6, <1>7, <1>8, <1>9, <1>10, <1>11, <1>12, <1>13,
     <1>14, <1>15, <1>16, <1>17, <1>18
     DEF Next, Driver, Modem, Callers


-----------------------------------------------------------------------------
(* Settings. *)

LEMMA AcceptedStep == TypeOK /\ ApplyOK /\ OnlyGoodAccepted /\ [Next]_vars => OnlyGoodAccepted'
<1> SUFFICES ASSUME TypeOK, ApplyOK, OnlyGoodAccepted, [Next]_vars PROVE OnlyGoodAccepted'
  OBVIOUS
<1>1. CASE Dial
  BY <1>1 DEF OnlyGoodAccepted, TypeOK, Dial, sessionVars, modemVars, sendVars, NoApply
<1>2. CASE Retune
  <2>1. CASE cfg \notin Unsupported
    <3>1. Wrote(1, cfg)
      BY <1>2, <2>1, BeginProps DEF Retune, CfgIsCurrent, TypeOK
    <3> QED
      BY <1>2, <2>1, <3>1
         DEF OnlyGoodAccepted, TypeOK, Wrote, Retune, Free, NoApply, sessionVars, modemVars,
             sendVars
  <2>2. CASE ~(cfg \notin Unsupported)
    BY <1>2, <2>2
       DEF OnlyGoodAccepted, TypeOK, Retune, Free, NoApply, sessionVars, modemVars, sendVars
  <2> QED
    BY <2>1, <2>2
<1>3. CASE Publish
  BY <1>3 DEF OnlyGoodAccepted, TypeOK, Publish, sessionVars, modemVars, sendVars
<1>4. CASE Clear
  BY <1>4 DEF OnlyGoodAccepted, TypeOK, Clear, sessionVars, modemVars, sendVars
<1>5. CASE CommandTimeout
  <2>1. CASE MayRetry
    <3>1. Wrote(apply.step, apply.cfg)
      BY <1>5, <2>1, RetryProps DEF CommandTimeout, modemVars
    <3> QED
      BY <1>5, <2>1, <3>1 DEF OnlyGoodAccepted, TypeOK, Wrote, CommandTimeout
  <2>2. CASE ~MayRetry
    BY <1>5, <2>2 DEF OnlyGoodAccepted, TypeOK, CommandTimeout, Finish, Free, NoApply
  <2> QED
    BY <2>1, <2>2
<1>6. CASE Reply
  <2>0. /\ toHost' \in Seq(Replies \cup Reports) /\ Head(toHost) \in Replies
        /\ 1 \in DOMAIN toHost /\ toHost[1] = Head(toHost)
        /\ \A i \in DOMAIN toHost' : i + 1 \in DOMAIN toHost /\ i + 1 # 1 /\ toHost'[i] = toHost[i + 1]
    BY <1>6, HostPops DEF Reply, Reports
  <2>1. CASE apply = NoApply
    BY <1>6, <2>0, <2>1 DEF OnlyGoodAccepted, TypeOK, Reply
  <2>2. CASE apply # NoApply /\ Head(toHost).kind = "ok" /\ apply.step < Len(Parts)
    <3>1. apply.step = 1 /\ Wrote(2, apply.cfg)
      BY <1>6, <2>2, StepProps DEF Reply
    <3> QED
      BY <1>6, <2>0, <2>2, <3>1 DEF OnlyGoodAccepted, TypeOK, Wrote, Reply
  <2>3. CASE apply # NoApply /\ ~(Head(toHost).kind = "ok" /\ apply.step < Len(Parts))
    BY <1>6, <2>0, <2>3 DEF OnlyGoodAccepted, TypeOK, Reply, Finish, Free, NoApply
  <2> QED
    BY <2>1, <2>2, <2>3
<1>7. CASE ConfigureLost
  BY <1>7 DEF OnlyGoodAccepted, TypeOK, ConfigureLost, Free, sessionVars, modemVars, sendVars
<1>8. CASE Transmitted
  BY <1>8
     DEF OnlyGoodAccepted, TypeOK, Transmitted, Release, Free, sessionVars, modemVars, sendVars
<1>9. CASE GiveUp
  BY <1>9 DEF OnlyGoodAccepted, TypeOK, GiveUp, Release, Free, sessionVars, modemVars, sendVars
<1>10. CASE HearTxDone
  BY <1>10, HostPops DEF OnlyGoodAccepted, HearTxDone
<1>11. CASE ModemTakes
  <2> DEFINE m == [kind |-> IF Head(toModem).cfg \in Refused THEN "error" ELSE "ok",
                   answers |-> [part |-> Head(toModem).part, cfg |-> Head(toModem).cfg]]
  <2>1. CASE toHost' = Append(toHost, m) /\ Head(toModem).kind = "set"
    <3>1. m \in Replies /\ (m.kind = "ok" => m.answers.cfg \notin Refused)
      BY <1>11, <2>1, ModemTakesProps DEF Writes, Replies
    <3> HIDE DEF m
    <3> QED
      BY <2>1, <3>1, HostGets DEF OnlyGoodAccepted
  <2>2. CASE UNCHANGED toHost
    BY <2>2 DEF OnlyGoodAccepted
  <2> QED
    BY <1>11, <2>1, <2>2 DEF ModemTakes
<1>12. ASSUME NEW ok \in BOOLEAN, ModemTransmits(ok) PROVE OnlyGoodAccepted'
  <2> DEFINE m == [kind |-> "done", frame |-> onAir, ok |-> ok]
  <2>1. m \in Reports /\ m.kind # "ok"
    BY <1>12 DEF ModemTransmits, TypeOK, Reports
  <2>2. toHost' = Append(toHost, m) \/ toHost' = toHost
    BY <1>12 DEF ModemTransmits
  <2> HIDE DEF m
  <2> QED
    BY <2>1, <2>2, HostGets DEF OnlyGoodAccepted
<1>13. CASE ReplyLost
  BY <1>13, HostPops DEF OnlyGoodAccepted, ReplyLost
<1>14. ASSUME NEW c \in Settings, Configure(c) PROVE OnlyGoodAccepted'
  <2>1. CASE link = "up" /\ c \notin Unsupported
    <3>1. Wrote(1, c)
      BY <1>14, <2>1, BeginProps DEF Configure, CfgIsCurrent, TypeOK
    <3> QED
      BY <1>14, <2>1, <3>1
         DEF OnlyGoodAccepted, TypeOK, Wrote, Configure, Free, NoApply, sessionVars, modemVars,
             sendVars
  <2>2. CASE ~(link = "up" /\ c \notin Unsupported)
    BY <1>14, <2>2
       DEF OnlyGoodAccepted, TypeOK, Configure, Free, NoApply, sessionVars, modemVars, sendVars
  <2> QED
    BY <2>1, <2>2
<1>15. ASSUME NEW f \in Frames, Send(f) PROVE OnlyGoodAccepted'
  BY <1>15 DEF OnlyGoodAccepted, TypeOK, Send, sessionVars, modemVars, sendVars
<1>16. CASE Abandon
  BY <1>16 DEF OnlyGoodAccepted, TypeOK, Abandon, sessionVars, modemVars, sendVars
<1>17. CASE Fail
  BY <1>17 DEF OnlyGoodAccepted, TypeOK, Fail, sessionVars, modemVars, sendVars, NoApply
<1>18. CASE UNCHANGED vars
  BY <1>18 DEF OnlyGoodAccepted, TypeOK, vars
<1> QED
  BY <1>1, <1>2, <1>3, <1>4, <1>5, <1>6, <1>7, <1>8, <1>9, <1>10, <1>11, <1>12, <1>13,
     <1>14, <1>15, <1>16, <1>17, <1>18
     DEF Next, Driver, Modem, Callers

LEMMA SameSettles == UNCHANGED <<toModem, phy>> => \A p, c : Settles(p, c)' <=> Settles(p, c)
  BY DEF Settles, IsSet

LEMMA TunedStep == TypeOK /\ ApplyOK /\ OnlyGoodAccepted /\ WillBeTuned /\ [Next]_vars => WillBeTuned'
<1> SUFFICES ASSUME TypeOK, ApplyOK, OnlyGoodAccepted, WillBeTuned, [Next]_vars PROVE WillBeTuned'
  OBVIOUS
<1>1. CASE Dial
  BY <1>1, SameSettles, KissAssumption
     DEF WillBeTuned, ApplyOK, TypeOK, Dial, sessionVars, modemVars, sendVars, NoApply
<1>2. CASE Retune
  <2>1. CASE cfg \notin Unsupported
    <3>1. Wrote(1, cfg)
      BY <1>2, <2>1, BeginProps DEF Retune, CfgIsCurrent, TypeOK
    <3> QED
      BY <1>2, <2>1, <3>1, SameSettles, KissAssumption
         DEF WillBeTuned, ApplyOK, TypeOK, Wrote, Retune, Free, NoApply, sessionVars,
             modemVars, sendVars
  <2>2. CASE ~(cfg \notin Unsupported)
    BY <1>2, <2>2, SameSettles, KissAssumption
       DEF WillBeTuned, ApplyOK, TypeOK, Retune, Free, NoApply, sessionVars, modemVars, sendVars
  <2> QED
    BY <2>1, <2>2
<1>3. CASE Publish
  BY <1>3, SameSettles, KissAssumption
     DEF WillBeTuned, ApplyOK, TypeOK, Publish, sessionVars, modemVars, sendVars
<1>4. CASE Clear
  BY <1>4, SameSettles, KissAssumption
     DEF WillBeTuned, ApplyOK, TypeOK, Clear, sessionVars, modemVars, sendVars
<1>5. CASE CommandTimeout
  <2>1. CASE MayRetry
    <3>1. Wrote(apply.step, apply.cfg)
      BY <1>5, <2>1, RetryProps DEF CommandTimeout, modemVars
    <3> QED
      BY <1>5, <2>1, <3>1, SameSettles, KissAssumption
         DEF WillBeTuned, ApplyOK, TypeOK, Wrote, CommandTimeout
  <2>2. CASE ~MayRetry
    BY <1>5, <2>2, SameSettles, KissAssumption
       DEF WillBeTuned, ApplyOK, TypeOK, CommandTimeout, Finish, Free, NoApply
  <2> QED
    BY <2>1, <2>2
<1>6. CASE Reply
  <2>0. /\ toHost' \in Seq(Replies \cup Reports) /\ Head(toHost) \in Replies
        /\ 1 \in DOMAIN toHost /\ toHost[1] = Head(toHost)
        /\ \A i \in DOMAIN toHost' : i + 1 \in DOMAIN toHost /\ i + 1 # 1 /\ toHost'[i] = toHost[i + 1]
    BY <1>6, HostPops DEF Reply, Reports
  <2>4. ~late' /\ apply # NoApply /\ Head(toHost).kind = "ok" => ~late /\ apply.cfg \notin Refused
    <3> SUFFICES ASSUME ~late', apply # NoApply, Head(toHost).kind = "ok" PROVE ~late /\ apply.cfg \notin Refused
      OBVIOUS
    <3>1. late' = (late \/ Head(toHost).answers # CommandOf(apply))
      BY <1>6 DEF Reply
    <3>2. ~late /\ Head(toHost).answers = CommandOf(apply)
      BY <3>1
    <3>3. Head(toHost).answers.cfg = apply.cfg
      BY <3>2 DEF CommandOf
    <3> QED
      BY <2>0, <3>2, <3>3 DEF OnlyGoodAccepted
  <2>1. CASE apply = NoApply
    BY <1>6, <2>0, <2>1, SameSettles, KissAssumption DEF WillBeTuned, ApplyOK, TypeOK, Reply
  <2>2. CASE apply # NoApply /\ Head(toHost).kind = "ok" /\ apply.step < Len(Parts)
    <3>1. apply.step = 1 /\ Wrote(2, apply.cfg)
      BY <1>6, <2>2, StepProps DEF Reply
    <3> QED
      BY <1>6, <2>0, <2>2, <2>4, <3>1, SameSettles, KissAssumption
         DEF WillBeTuned, ApplyOK, TypeOK, Wrote, Reply
  <2>3. CASE apply # NoApply /\ ~(Head(toHost).kind = "ok" /\ apply.step < Len(Parts))
    BY <1>6, <2>0, <2>3, <2>4, SameSettles, KissAssumption
       DEF WillBeTuned, ApplyOK, TypeOK, Reply, Parts, Finish, Free, NoApply
  <2> QED
    BY <2>1, <2>2, <2>3
<1>7. CASE ConfigureLost
  BY <1>7, SameSettles, KissAssumption
     DEF WillBeTuned, ApplyOK, TypeOK, ConfigureLost, Free, sessionVars, modemVars, sendVars
<1>8. CASE Transmitted
  BY <1>8, SameSettles, KissAssumption
     DEF WillBeTuned, ApplyOK, TypeOK, Transmitted, Release, Free, sessionVars, modemVars,
         sendVars
<1>9. CASE GiveUp
  BY <1>9, SameSettles, KissAssumption
     DEF WillBeTuned, ApplyOK, TypeOK, GiveUp, Release, Free, sessionVars, modemVars, sendVars
<1>10. CASE HearTxDone
  BY <1>10, SameSettles, KissAssumption
     DEF WillBeTuned, ApplyOK, TypeOK, HearTxDone, sessionVars, modemVars, sendVars
<1>11. CASE ModemTakes
  <2>1. \A p \in {"radio", "power"}, c \in Settings \ Refused : Settles(p, c) => Settles(p, c)'
    BY <1>11, ModemTakesProps
  <2> QED
    BY <1>11, <2>1 DEF WillBeTuned, ModemTakes, sessionVars, sendVars
<1>12. ASSUME NEW ok \in BOOLEAN, ModemTransmits(ok) PROVE WillBeTuned'
  BY <1>12, SameSettles, KissAssumption
     DEF WillBeTuned, ApplyOK, TypeOK, ModemTransmits, sessionVars, modemVars, sendVars
<1>13. CASE ReplyLost
  BY <1>13, SameSettles, KissAssumption
     DEF WillBeTuned, ApplyOK, TypeOK, ReplyLost, sessionVars, modemVars, sendVars
<1>14. ASSUME NEW c \in Settings, Configure(c) PROVE WillBeTuned'
  <2>1. CASE link = "up" /\ c \notin Unsupported
    <3>1. Wrote(1, c)
      BY <1>14, <2>1, BeginProps DEF Configure, CfgIsCurrent, TypeOK
    <3> QED
      BY <1>14, <2>1, <3>1, SameSettles, KissAssumption
         DEF WillBeTuned, ApplyOK, TypeOK, Wrote, Configure, Free, NoApply, sessionVars,
             modemVars, sendVars
  <2>2. CASE ~(link = "up" /\ c \notin Unsupported)
    BY <1>14, <2>2, SameSettles, KissAssumption
       DEF WillBeTuned, ApplyOK, TypeOK, Configure, Free, NoApply, sessionVars, modemVars,
           sendVars
  <2> QED
    BY <2>1, <2>2
<1>15. ASSUME NEW f \in Frames, Send(f) PROVE WillBeTuned'
  <2>1. CASE link = "up"
    <3> DEFINE m == [kind |-> "data", frame |-> f]
    <3>1. m \in Writes /\ m.kind = "data" /\ m.frame = f
      BY DEF Writes
    <3>2. /\ toModem' = Append(toModem, m) /\ UNCHANGED phy
          /\ tx' = [by |-> "send", frame |-> f, live |-> TRUE]
          /\ txDone' = NoFrame /\ result' = [result EXCEPT ![f] = "waiting"]
      BY <1>15, <2>1 DEF Send
    <3> HIDE DEF m
    <3>3. /\ toModem' \in Seq(Writes)
          /\ \A p, c : Settles(p, c) => Settles(p, c)'
          /\ \A i \in DOMAIN toModem' : IsData(i)' =>
               \/ toModem'[i] = m /\ i = Len(toModem) + 1
               \/ i \in DOMAIN toModem /\ IsData(i) /\ toModem'[i] = toModem[i]
      BY <3>1, <3>2, FrameWritten
    <3> QED
      BY <1>15, <2>1, <3>1, <3>2, <3>3, SameSettles DEF WillBeTuned, Send, sessionVars
  <2>2. CASE link # "up"
    BY <1>15, <2>2, SameSettles DEF WillBeTuned, Send, sessionVars
  <2> QED
    BY <2>1, <2>2
<1>16. CASE Abandon
  BY <1>16, SameSettles, KissAssumption
     DEF WillBeTuned, ApplyOK, TypeOK, Abandon, sessionVars, modemVars, sendVars
<1>17. CASE Fail
  BY <1>17, SameSettles, KissAssumption
     DEF WillBeTuned, ApplyOK, TypeOK, Fail, sessionVars, modemVars, sendVars, NoApply
<1>18. CASE UNCHANGED vars
  BY <1>18, SameSettles, KissAssumption DEF WillBeTuned, ApplyOK, TypeOK, vars
<1> QED
  BY <1>1, <1>2, <1>3, <1>4, <1>5, <1>6, <1>7, <1>8, <1>9, <1>10, <1>11, <1>12, <1>13,
     <1>14, <1>15, <1>16, <1>17, <1>18
     DEF Next, Driver, Modem, Callers


-----------------------------------------------------------------------------
(* Frames. *)

LEMMA ReportsStep == TypeOK /\ ApplyOK /\ ReportsTrue /\ [Next]_vars => ReportsTrue'
<1> SUFFICES ASSUME TypeOK, ApplyOK, ReportsTrue, [Next]_vars PROVE ReportsTrue'
  OBVIOUS
<1>1. CASE Dial
  BY <1>1 DEF ReportsTrue, Dial, sessionVars, modemVars, sendVars, NoApply
<1>2. CASE Retune
  <2>1. CASE cfg \notin Unsupported
    <3>1. Wrote(1, cfg)
      BY <1>2, <2>1, BeginProps DEF Retune, CfgIsCurrent, TypeOK
    <3> QED
      BY <1>2, <2>1, <3>1
         DEF ReportsTrue, Wrote, Retune, Free, NoApply, sessionVars, modemVars, sendVars
  <2>2. CASE ~(cfg \notin Unsupported)
    BY <1>2, <2>2 DEF ReportsTrue, Retune, Free, NoApply, sessionVars, modemVars, sendVars
  <2> QED
    BY <2>1, <2>2
<1>3. CASE Publish
  BY <1>3 DEF ReportsTrue, Publish, sessionVars, modemVars, sendVars
<1>4. CASE Clear
  BY <1>4 DEF ReportsTrue, Clear, sessionVars, modemVars, sendVars
<1>5. CASE CommandTimeout
  <2>1. CASE MayRetry
    <3>1. Wrote(apply.step, apply.cfg)
      BY <1>5, <2>1, RetryProps DEF CommandTimeout, modemVars
    <3> QED
      BY <1>5, <2>1, <3>1 DEF ReportsTrue, Wrote, CommandTimeout
  <2>2. CASE ~MayRetry
    BY <1>5, <2>2 DEF ReportsTrue, CommandTimeout, Finish, Free, NoApply
  <2> QED
    BY <2>1, <2>2
<1>6. CASE Reply
  <2>0. /\ toHost' \in Seq(Replies \cup Reports) /\ Head(toHost) \in Replies
        /\ 1 \in DOMAIN toHost /\ toHost[1] = Head(toHost)
        /\ \A i \in DOMAIN toHost' : i + 1 \in DOMAIN toHost /\ i + 1 # 1 /\ toHost'[i] = toHost[i + 1]
    BY <1>6, HostPops DEF Reply, Reports
  <2>1. CASE apply = NoApply
    BY <1>6, <2>0, <2>1 DEF ReportsTrue, Reply
  <2>2. CASE apply # NoApply /\ Head(toHost).kind = "ok" /\ apply.step < Len(Parts)
    <3>1. apply.step = 1 /\ Wrote(2, apply.cfg)
      BY <1>6, <2>2, StepProps DEF Reply
    <3> QED
      BY <1>6, <2>0, <2>2, <3>1 DEF ReportsTrue, Wrote, Reply
  <2>3. CASE apply # NoApply /\ ~(Head(toHost).kind = "ok" /\ apply.step < Len(Parts))
    BY <1>6, <2>0, <2>3 DEF ReportsTrue, Reply, Finish, Free, NoApply
  <2> QED
    BY <2>1, <2>2, <2>3
<1>7. CASE ConfigureLost
  BY <1>7 DEF ReportsTrue, ConfigureLost, Free, sessionVars, modemVars, sendVars
<1>8. CASE Transmitted
  BY <1>8 DEF ReportsTrue, Transmitted, Release, Free, sessionVars, modemVars, sendVars
<1>9. CASE GiveUp
  BY <1>9 DEF ReportsTrue, GiveUp, Release, Free, sessionVars, modemVars, sendVars
<1>10. CASE HearTxDone
  BY <1>10, HostPops DEF ReportsTrue, HearTxDone, sessionVars, modemVars, sendVars
<1>11. CASE ModemTakes
  <2> DEFINE m == [kind |-> IF Head(toModem).cfg \in Refused THEN "error" ELSE "ok",
                   answers |-> [part |-> Head(toModem).part, cfg |-> Head(toModem).cfg]]
  <2>1. CASE toHost' = Append(toHost, m) /\ Head(toModem).kind = "set"
    <3>1. m \in Replies /\ m.kind # "done"
      BY <1>11, <2>1, ModemTakesProps DEF Writes, Replies
    <3> HIDE DEF m
    <3> QED
      BY <1>11, <2>1, <3>1, HostGets DEF ReportsTrue, ModemTakes, sendVars
  <2>2. CASE UNCHANGED toHost
    BY <1>11, <2>2 DEF ReportsTrue, ModemTakes, sendVars
  <2> QED
    BY <1>11, <2>1, <2>2 DEF ModemTakes
<1>12. ASSUME NEW ok \in BOOLEAN, ModemTransmits(ok) PROVE ReportsTrue'
  <2> DEFINE m == [kind |-> "done", frame |-> onAir, ok |-> ok]
  <2>1. m \in Reports /\ (m.ok => m.frame \in aired') /\ aired \subseteq aired'
    BY <1>12 DEF ModemTransmits, TypeOK, Reports
  <2>2. toHost' = Append(toHost, m) \/ toHost' = toHost
    BY <1>12 DEF ModemTransmits
  <2>3. txDone' = txDone
    BY <1>12 DEF ModemTransmits, sendVars
  <2> HIDE DEF m
  <2> QED
    BY <2>1, <2>2, <2>3, HostGets DEF ReportsTrue
<1>13. CASE ReplyLost
  BY <1>13, HostPops DEF ReportsTrue, ReplyLost, sessionVars, modemVars, sendVars
<1>14. ASSUME NEW c \in Settings, Configure(c) PROVE ReportsTrue'
  <2>1. CASE link = "up" /\ c \notin Unsupported
    <3>1. Wrote(1, c)
      BY <1>14, <2>1, BeginProps DEF Configure, CfgIsCurrent, TypeOK
    <3> QED
      BY <1>14, <2>1, <3>1
         DEF ReportsTrue, Wrote, Configure, Free, NoApply, sessionVars, modemVars, sendVars
  <2>2. CASE ~(link = "up" /\ c \notin Unsupported)
    BY <1>14, <2>2 DEF ReportsTrue, Configure, Free, NoApply, sessionVars, modemVars, sendVars
  <2> QED
    BY <2>1, <2>2
<1>15. ASSUME NEW f \in Frames, Send(f) PROVE ReportsTrue'
  BY <1>15 DEF ReportsTrue, Send, sessionVars, modemVars, sendVars
<1>16. CASE Abandon
  BY <1>16 DEF ReportsTrue, Abandon, sessionVars, modemVars, sendVars
<1>17. CASE Fail
  BY <1>17 DEF ReportsTrue, Fail, sessionVars, modemVars, sendVars, NoApply
<1>18. CASE UNCHANGED vars
  BY <1>18 DEF ReportsTrue, vars
<1> QED
  BY <1>1, <1>2, <1>3, <1>4, <1>5, <1>6, <1>7, <1>8, <1>9, <1>10, <1>11, <1>12, <1>13,
     <1>14, <1>15, <1>16, <1>17, <1>18
     DEF Next, Driver, Modem, Callers

LEMMA SameData == UNCHANGED toModem => \A i : IsData(i)' <=> IsData(i)
  BY DEF IsData

LEMMA FlightStep == TypeOK /\ ApplyOK /\ OneInFlight /\ [Next]_vars => OneInFlight'
<1> SUFFICES ASSUME TypeOK, ApplyOK, OneInFlight, [Next]_vars PROVE OneInFlight'
  OBVIOUS
<1>1. CASE Dial
  BY <1>1
     DEF OneInFlight, ApplyOK, IsData, IsDone, TypeOK, Dial, sessionVars, modemVars, sendVars,
         NoApply
<1>2. CASE Retune
  <2>1. CASE cfg \notin Unsupported
    <3>1. Wrote(1, cfg)
      BY <1>2, <2>1, BeginProps DEF Retune, CfgIsCurrent, TypeOK
    <3> QED
      BY <1>2, <2>1, <3>1, SameData
         DEF OneInFlight, ApplyOK, IsDone, TypeOK, Wrote, Retune, Free, NoApply, sessionVars,
             modemVars, sendVars
  <2>2. CASE ~(cfg \notin Unsupported)
    BY <1>2, <2>2, SameData
       DEF OneInFlight, ApplyOK, IsDone, TypeOK, Retune, Free, NoApply, sessionVars, modemVars,
           sendVars
  <2> QED
    BY <2>1, <2>2
<1>3. CASE Publish
  BY <1>3
     DEF OneInFlight, ApplyOK, IsData, IsDone, TypeOK, Publish, sessionVars, modemVars, sendVars
<1>4. CASE Clear
  BY <1>4
     DEF OneInFlight, ApplyOK, IsData, IsDone, TypeOK, Clear, sessionVars, modemVars, sendVars
<1>5. CASE CommandTimeout
  <2>1. CASE MayRetry
    <3>1. Wrote(apply.step, apply.cfg)
      BY <1>5, <2>1, RetryProps DEF CommandTimeout, modemVars
    <3> QED
      BY <1>5, <2>1, <3>1, SameData
         DEF OneInFlight, ApplyOK, IsDone, TypeOK, Wrote, CommandTimeout
  <2>2. CASE ~MayRetry
    BY <1>5, <2>2, SameData
       DEF OneInFlight, ApplyOK, IsDone, TypeOK, CommandTimeout, Finish, Free, NoApply
  <2> QED
    BY <2>1, <2>2
<1>6. CASE Reply
  <2>0. /\ toHost' \in Seq(Replies \cup Reports) /\ Head(toHost) \in Replies
        /\ 1 \in DOMAIN toHost /\ toHost[1] = Head(toHost)
        /\ \A i \in DOMAIN toHost' : i + 1 \in DOMAIN toHost /\ i + 1 # 1 /\ toHost'[i] = toHost[i + 1]
    BY <1>6, HostPops DEF Reply, Reports
  <2>1. CASE apply = NoApply
    BY <1>6, <2>0, <2>1, SameData DEF OneInFlight, ApplyOK, IsDone, TypeOK, Reply
  <2>2. CASE apply # NoApply /\ Head(toHost).kind = "ok" /\ apply.step < Len(Parts)
    <3>1. apply.step = 1 /\ Wrote(2, apply.cfg)
      BY <1>6, <2>2, StepProps DEF Reply
    <3> QED
      BY <1>6, <2>0, <2>2, <3>1, SameData DEF OneInFlight, ApplyOK, IsDone, TypeOK, Wrote, Reply
  <2>3. CASE apply # NoApply /\ ~(Head(toHost).kind = "ok" /\ apply.step < Len(Parts))
    BY <1>6, <2>0, <2>3, SameData
       DEF OneInFlight, ApplyOK, IsDone, TypeOK, Reply, Finish, Free, NoApply
  <2> QED
    BY <2>1, <2>2, <2>3
<1>7. CASE ConfigureLost
  BY <1>7
     DEF OneInFlight, ApplyOK, IsData, IsDone, TypeOK, ConfigureLost, Free, sessionVars,
         modemVars, sendVars
<1>8. CASE Transmitted
  BY <1>8
     DEF OneInFlight, ApplyOK, IsData, IsDone, TypeOK, Transmitted, Release, Free, sessionVars,
         modemVars, sendVars
<1>9. CASE GiveUp
  BY <1>9
     DEF OneInFlight, ApplyOK, IsData, IsDone, TypeOK, GiveUp, Release, Free, sessionVars,
         modemVars, sendVars
<1>10. CASE HearTxDone
  BY <1>10
     DEF OneInFlight, ApplyOK, IsData, IsDone, TypeOK, HearTxDone, sessionVars, modemVars,
         sendVars
<1>11. CASE ModemTakes
  <2>1. /\ \A i \in DOMAIN toModem' : i + 1 \in DOMAIN toModem /\ i + 1 # 1 /\ toModem'[i] = toModem[i + 1]
        /\ 1 \in DOMAIN toModem /\ toModem[1] = Head(toModem) /\ Head(toModem) \in Writes
    BY <1>11, ModemTakesProps
  <2>2. UNCHANGED <<tx, txDone, gaveUp>>
    BY <1>11 DEF ModemTakes, sendVars
  <2>3. \A i \in DOMAIN toModem' : IsData(i)' <=> IsData(i + 1)
    BY <2>1 DEF IsData
  <2>4. CASE Head(toModem).kind = "set"
    <3> DEFINE m == [kind |-> IF Head(toModem).cfg \in Refused THEN "error" ELSE "ok",
                     answers |-> [part |-> Head(toModem).part, cfg |-> Head(toModem).cfg]]
    <3>1. toHost' = Append(toHost, m) /\ onAir' = onAir
      BY <1>11, <2>4 DEF ModemTakes
    <3>2. m \in Replies /\ m.kind # "done"
      BY <2>1, <2>4 DEF Writes, Replies
    <3> HIDE DEF m
    <3>3. \A i \in DOMAIN toHost' : IsDone(i)' => i \in DOMAIN toHost /\ IsDone(i) /\ toHost'[i] = toHost[i]
      BY <3>1, <3>2, HostGets DEF IsDone
    <3>4. \A i \in DOMAIN toModem', j \in DOMAIN toModem' : i + 1 = j + 1 => i = j
      BY <2>1, ModemTakesProps DEF ModemTakes, TypeOK
    <3> QED
      BY <2>1, <2>2, <2>3, <3>1, <3>3, <3>4 DEF OneInFlight
  <2>5. CASE Head(toModem).kind # "set"
    <3>1. IsData(1) /\ Head(toModem).kind = "data"
      BY <2>1, <2>5 DEF IsData, Writes
    <3>2. toHost' = toHost /\ onAir' = IF onAir = NoFrame THEN Head(toModem).frame ELSE onAir
      BY <1>11, <2>5 DEF ModemTakes
    <3>3. gaveUp = {} => \A i \in DOMAIN toModem' : ~IsData(i)'
      BY <2>1, <2>3, <3>1 DEF OneInFlight
    <3>4. \A i \in DOMAIN toHost : IsDone(i)' <=> IsDone(i)
      BY <3>2 DEF IsDone
    <3> QED
      BY <2>1, <2>2, <3>1, <3>2, <3>3, <3>4 DEF OneInFlight
  <2> QED
    BY <2>4, <2>5
<1>12. ASSUME NEW ok \in BOOLEAN, ModemTransmits(ok) PROVE OneInFlight'
  BY <1>12
     DEF OneInFlight, ApplyOK, IsData, IsDone, TypeOK, ModemTransmits, sessionVars, modemVars,
         sendVars
<1>13. CASE ReplyLost
  BY <1>13
     DEF OneInFlight, ApplyOK, IsData, IsDone, TypeOK, ReplyLost, sessionVars, modemVars,
         sendVars
<1>14. ASSUME NEW c \in Settings, Configure(c) PROVE OneInFlight'
  <2>1. CASE link = "up" /\ c \notin Unsupported
    <3>1. Wrote(1, c)
      BY <1>14, <2>1, BeginProps DEF Configure, CfgIsCurrent, TypeOK
    <3> QED
      BY <1>14, <2>1, <3>1, SameData
         DEF OneInFlight, ApplyOK, IsDone, TypeOK, Wrote, Configure, Free, NoApply,
             sessionVars, modemVars, sendVars
  <2>2. CASE ~(link = "up" /\ c \notin Unsupported)
    BY <1>14, <2>2, SameData
       DEF OneInFlight, ApplyOK, IsDone, TypeOK, Configure, Free, NoApply, sessionVars,
           modemVars, sendVars
  <2> QED
    BY <2>1, <2>2
<1>15. ASSUME NEW f \in Frames, Send(f) PROVE OneInFlight'
  <2>1. CASE link = "up"
    <3> DEFINE m == [kind |-> "data", frame |-> f]
    <3>1. m \in Writes /\ m.kind = "data" /\ m.frame = f
      BY DEF Writes
    <3>2. /\ toModem' = Append(toModem, m) /\ UNCHANGED phy
          /\ tx' = [by |-> "send", frame |-> f, live |-> TRUE]
          /\ txDone' = NoFrame /\ result' = [result EXCEPT ![f] = "waiting"]
      BY <1>15, <2>1 DEF Send
    <3> HIDE DEF m
    <3>3. /\ toModem' \in Seq(Writes)
          /\ \A p, c : Settles(p, c) => Settles(p, c)'
          /\ \A i \in DOMAIN toModem' : IsData(i)' =>
               \/ toModem'[i] = m /\ i = Len(toModem) + 1
               \/ i \in DOMAIN toModem /\ IsData(i) /\ toModem'[i] = toModem[i]
      BY <3>1, <3>2, FrameWritten
    <3>4. gaveUp = {} =>
            /\ \A i \in DOMAIN toModem : ~IsData(i)
            /\ onAir = NoFrame /\ \A i \in DOMAIN toHost : ~IsDone(i)
      BY <1>15 DEF OneInFlight, Send, Free
    <3> QED
      BY <1>15, <2>1, <3>1, <3>2, <3>3, <3>4 DEF OneInFlight, Free, IsDone, Send, sessionVars
  <2>2. CASE link # "up"
    BY <1>15, <2>2, SameData DEF OneInFlight, Free, IsDone, Send, sessionVars
  <2> QED
    BY <2>1, <2>2
<1>16. CASE Abandon
  BY <1>16
     DEF OneInFlight, ApplyOK, IsData, IsDone, TypeOK, Abandon, sessionVars, modemVars, sendVars
<1>17. CASE Fail
  BY <1>17
     DEF OneInFlight, ApplyOK, IsData, IsDone, TypeOK, Fail, sessionVars, modemVars, sendVars,
         NoApply
<1>18. CASE UNCHANGED vars
  BY <1>18 DEF OneInFlight, ApplyOK, IsData, IsDone, TypeOK, vars
<1> QED
  BY <1>1, <1>2, <1>3, <1>4, <1>5, <1>6, <1>7, <1>8, <1>9, <1>10, <1>11, <1>12, <1>13,
     <1>14, <1>15, <1>16, <1>17, <1>18
     DEF Next, Driver, Modem, Callers

LEMMA SentStep == TypeOK /\ ApplyOK /\ ReportsTrue /\ OneInFlight /\ SentMeansTransmitted /\ [Next]_vars => SentMeansTransmitted'
<1> SUFFICES ASSUME TypeOK, ApplyOK, ReportsTrue, OneInFlight, SentMeansTransmitted, [Next]_vars PROVE SentMeansTransmitted'
  OBVIOUS
<1>1. CASE Dial
  BY <1>1
     DEF SentMeansTransmitted, ReportsTrue, OneInFlight, TypeOK, Dial, sessionVars, modemVars,
         sendVars, NoApply
<1>2. CASE Retune
  <2>1. CASE cfg \notin Unsupported
    <3>1. Wrote(1, cfg)
      BY <1>2, <2>1, BeginProps DEF Retune, CfgIsCurrent, TypeOK
    <3> QED
      BY <1>2, <2>1, <3>1
         DEF SentMeansTransmitted, ReportsTrue, OneInFlight, TypeOK, Wrote, Retune, Free,
             NoApply, sessionVars, modemVars, sendVars
  <2>2. CASE ~(cfg \notin Unsupported)
    BY <1>2, <2>2
       DEF SentMeansTransmitted, ReportsTrue, OneInFlight, TypeOK, Retune, Free, NoApply,
           sessionVars, modemVars, sendVars
  <2> QED
    BY <2>1, <2>2
<1>3. CASE Publish
  BY <1>3
     DEF SentMeansTransmitted, ReportsTrue, OneInFlight, TypeOK, Publish, sessionVars,
         modemVars, sendVars
<1>4. CASE Clear
  BY <1>4
     DEF SentMeansTransmitted, ReportsTrue, OneInFlight, TypeOK, Clear, sessionVars, modemVars,
         sendVars
<1>5. CASE CommandTimeout
  <2>1. CASE MayRetry
    <3>1. Wrote(apply.step, apply.cfg)
      BY <1>5, <2>1, RetryProps DEF CommandTimeout, modemVars
    <3> QED
      BY <1>5, <2>1, <3>1
         DEF SentMeansTransmitted, ReportsTrue, OneInFlight, TypeOK, Wrote, CommandTimeout
  <2>2. CASE ~MayRetry
    BY <1>5, <2>2
       DEF SentMeansTransmitted, ReportsTrue, OneInFlight, TypeOK, CommandTimeout, Finish,
           Free, NoApply
  <2> QED
    BY <2>1, <2>2
<1>6. CASE Reply
  <2>0. /\ toHost' \in Seq(Replies \cup Reports) /\ Head(toHost) \in Replies
        /\ 1 \in DOMAIN toHost /\ toHost[1] = Head(toHost)
        /\ \A i \in DOMAIN toHost' : i + 1 \in DOMAIN toHost /\ i + 1 # 1 /\ toHost'[i] = toHost[i + 1]
    BY <1>6, HostPops DEF Reply, Reports
  <2>1. CASE apply = NoApply
    BY <1>6, <2>0, <2>1 DEF SentMeansTransmitted, ReportsTrue, OneInFlight, TypeOK, Reply
  <2>2. CASE apply # NoApply /\ Head(toHost).kind = "ok" /\ apply.step < Len(Parts)
    <3>1. apply.step = 1 /\ Wrote(2, apply.cfg)
      BY <1>6, <2>2, StepProps DEF Reply
    <3> QED
      BY <1>6, <2>0, <2>2, <3>1
         DEF SentMeansTransmitted, ReportsTrue, OneInFlight, TypeOK, Wrote, Reply
  <2>3. CASE apply # NoApply /\ ~(Head(toHost).kind = "ok" /\ apply.step < Len(Parts))
    BY <1>6, <2>0, <2>3
       DEF SentMeansTransmitted, ReportsTrue, OneInFlight, TypeOK, Reply, Finish, Free, NoApply
  <2> QED
    BY <2>1, <2>2, <2>3
<1>7. CASE ConfigureLost
  BY <1>7
     DEF SentMeansTransmitted, ReportsTrue, OneInFlight, TypeOK, ConfigureLost, Free,
         sessionVars, modemVars, sendVars
<1>8. CASE Transmitted
  BY <1>8
     DEF SentMeansTransmitted, ReportsTrue, OneInFlight, TypeOK, Transmitted, Release, Free,
         sessionVars, modemVars, sendVars
<1>9. CASE GiveUp
  BY <1>9
     DEF SentMeansTransmitted, ReportsTrue, OneInFlight, TypeOK, GiveUp, Release, Free,
         sessionVars, modemVars, sendVars
<1>10. CASE HearTxDone
  BY <1>10
     DEF SentMeansTransmitted, ReportsTrue, OneInFlight, TypeOK, HearTxDone, sessionVars,
         modemVars, sendVars
<1>11. CASE ModemTakes
  BY <1>11
     DEF SentMeansTransmitted, ReportsTrue, OneInFlight, TypeOK, ModemTakes, sessionVars,
         modemVars, sendVars
<1>12. ASSUME NEW ok \in BOOLEAN, ModemTransmits(ok) PROVE SentMeansTransmitted'
  BY <1>12
     DEF SentMeansTransmitted, ReportsTrue, OneInFlight, TypeOK, ModemTransmits, sessionVars,
         modemVars, sendVars
<1>13. CASE ReplyLost
  BY <1>13
     DEF SentMeansTransmitted, ReportsTrue, OneInFlight, TypeOK, ReplyLost, sessionVars,
         modemVars, sendVars
<1>14. ASSUME NEW c \in Settings, Configure(c) PROVE SentMeansTransmitted'
  <2>1. CASE link = "up" /\ c \notin Unsupported
    <3>1. Wrote(1, c)
      BY <1>14, <2>1, BeginProps DEF Configure, CfgIsCurrent, TypeOK
    <3> QED
      BY <1>14, <2>1, <3>1
         DEF SentMeansTransmitted, ReportsTrue, OneInFlight, TypeOK, Wrote, Configure, Free,
             NoApply, sessionVars, modemVars, sendVars
  <2>2. CASE ~(link = "up" /\ c \notin Unsupported)
    BY <1>14, <2>2
       DEF SentMeansTransmitted, ReportsTrue, OneInFlight, TypeOK, Configure, Free, NoApply,
           sessionVars, modemVars, sendVars
  <2> QED
    BY <2>1, <2>2
<1>15. ASSUME NEW f \in Frames, Send(f) PROVE SentMeansTransmitted'
  BY <1>15
     DEF SentMeansTransmitted, ReportsTrue, OneInFlight, TypeOK, Send, sessionVars, modemVars,
         sendVars
<1>16. CASE Abandon
  BY <1>16
     DEF SentMeansTransmitted, ReportsTrue, OneInFlight, TypeOK, Abandon, sessionVars,
         modemVars, sendVars
<1>17. CASE Fail
  BY <1>17
     DEF SentMeansTransmitted, ReportsTrue, OneInFlight, TypeOK, Fail, sessionVars, modemVars,
         sendVars, NoApply
<1>18. CASE UNCHANGED vars
  BY <1>18 DEF SentMeansTransmitted, ReportsTrue, OneInFlight, TypeOK, vars
<1> QED
  BY <1>1, <1>2, <1>3, <1>4, <1>5, <1>6, <1>7, <1>8, <1>9, <1>10, <1>11, <1>12, <1>13,
     <1>14, <1>15, <1>16, <1>17, <1>18
     DEF Next, Driver, Modem, Callers


-----------------------------------------------------------------------------
(* Theorems. *)

LEMMA KissIInvStep == IInv /\ [Next]_vars => IInv'
  BY KissTypeStep, ApplyStep, CurrentStep, AcceptedStep, TunedStep, ReportsStep, FlightStep, SentStep
     DEF IInv

\* What the driver's state, the two wires and the modem keep true together.
THEOREM KissInductive == Spec => []IInv
  BY KissInitInv, KissIInvStep, PTL DEF Spec

\* The variables have their types; only commands and frames travel to the modem, only
\* replies and reports back, and no command is written more often than CmdAttempts.
THEOREM KissTypeCorrect == Spec => []TypeOK
<1>1. IInv => TypeOK
  BY DEF IInv
<1> QED
  BY <1>1, KissInductive, PTL

\* Whatever Configure calls, retries and new sessions come between, a session in use that is
\* not in doubt of its settings has the last ones asked for, and so has its modem when no
\* command is left on the wire, unless a command took the reply to another one.
THEOREM KissTunedToSettings == Spec => []TunedToSettings
<1>1. IInv => TunedToSettings
  <2> SUFFICES ASSUME IInv, link = "up", applied # Unset PROVE TunedToSettings
    BY DEF TunedToSettings
  <2>1. applied = cfg /\ applied \in Settings
    BY DEF IInv, Current, TypeOK
  <2>2. ASSUME ~late, \A i \in DOMAIN toModem : toModem[i].kind # "set"
        PROVE  \A p \in DOMAIN phy : phy[p] = cfg
    <3>1. Settles("radio", applied) /\ Settles("power", applied)
      BY <2>1, <2>2 DEF IInv, WillBeTuned
    <3>2. phy["radio"] = applied /\ phy["power"] = applied
      BY <2>2, <3>1 DEF Settles, IsSet
    <3>3. DOMAIN phy = {"radio", "power"}
      BY DEF IInv, TypeOK
    <3> QED
      BY <2>1, <3>2, <3>3
  <2> QED
    BY <2>1, <2>2 DEF TunedToSettings
<1> QED
  BY <1>1, KissInductive, PTL

\* A Send returns success only for a frame the modem transmitted, as long as no Send has given
\* up before its TxDone: reports carry no number, yet at most one is on its way.
THEOREM KissSentMeansTransmitted == Spec => []SentMeansTransmitted
<1>1. IInv => SentMeansTransmitted
  BY DEF IInv
<1> QED
  BY <1>1, KissInductive, PTL
=============================================================================
