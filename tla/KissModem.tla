------------------------------ MODULE KissModem ------------------------------
(***************************************************************************)
(* The KISS modem driver, internal/radio/kiss: one serial session at a     *)
(* time, reopened by itself, settings remembered and applied again, one    *)
(* frame in flight, and commands that are retried when no reply comes.     *)
(* Replies and TxDone carry no request number, so late ones are the        *)
(* hazard.                                                                 *)
(***************************************************************************)
EXTENDS Integers, Sequences, FiniteSets

CONSTANTS
  Settings,      \* radio.Config values the host asks for
  Refused,       \* those the modem answers with an error
  Unsupported,   \* those its firmware cannot take: apply ends before its first command
  Unset,         \* no settings: Modem.cfg is nil, or a modem nobody has tuned
  Frames,        \* frames handed to Send, each once
  NoFrame,
  MaxSessions,   \* bound: sessions opened
  MaxConfigures, \* bound: calls of Configure
  CmdAttempts,   \* how often a command is written: 3 in the code
  HostQueue      \* bound: messages of the modem the host has not read yet

ASSUME KissAssumption ==
  /\ (Refused \cup Unsupported) \subseteq Settings
  /\ Unset \notin Settings /\ NoFrame \notin Frames
  /\ MaxSessions \in Nat /\ MaxConfigures \in Nat
  /\ CmdAttempts \in Nat \ {0} /\ HostQueue \in Nat \ {0}

\* The settings go out as separate commands; two stand for all of them.
Parts == <<"radio", "power">>

VARIABLES
  link,      \* "down", "tuning" (connect, not yet Modem.sess), "up", "dead" (failed, still Modem.sess)
  cfg, gen,  \* Modem.cfg, Modem.cfgGen
  seen,      \* the generation connect is applying, or -1
  apply,     \* the settings being applied on this session: one command exchange at a time
  applied,   \* settings this session is known to have taken, Unset while in doubt
  tx,        \* who holds Modem.txSem, and for which frame and session
  txDone,    \* session.txDone, a channel of one; the frame is known to the modem only
  toModem, toHost,   \* bytes on the wire, in order
  phy,       \* the modem: what it is tuned to
  onAir,     \* the modem: the frame it has taken and not reported
  result,    \* what became of each Send
  aired,     \* frames the modem really transmitted
  gaveUp,    \* frames whose Send ended before the modem reported them
  late,      \* a command has taken the reply to another one
  sessions   \* opened so far

vars == <<link, cfg, gen, seen, apply, applied, tx, txDone, toModem, toHost, phy, onAir,
          result, aired, gaveUp, late, sessions>>
sessionVars == <<link, seen, apply, applied>>
modemVars == <<toModem, phy, onAir, aired>>
sendVars == <<tx, txDone, result, gaveUp>>

NoApply == [cfg |-> Unset, step |-> 0, tries |-> 0]
Free == [by |-> "none", frame |-> NoFrame, live |-> FALSE]
Untuned == [p \in {"radio", "power"} |-> Unset]

\* command writes its request, and apply starts with its first.
CommandOf(a) == [part |-> Parts[a.step], cfg |-> a.cfg]
WriteCommand(a) ==
  /\ apply' = a
  /\ toModem' = Append(toModem, [kind |-> "set", part |-> CommandOf(a).part, cfg |-> a.cfg])
Begin(c) == WriteCommand([cfg |-> c, step |-> 1, tries |-> 1])

Init ==
  /\ link = "down" /\ cfg = Unset /\ gen = 0 /\ seen = -1
  /\ apply = NoApply /\ applied = Unset
  /\ tx = Free /\ txDone = NoFrame
  /\ toModem = <<>> /\ toHost = <<>> /\ phy = Untuned /\ onAir = NoFrame
  /\ result = [f \in Frames |-> "new"] /\ aired = {} /\ gaveUp = {} /\ late = FALSE
  /\ sessions = 0

-----------------------------------------------------------------------------
(* Sessions *)

\* connect, as far as the handshake: a new session with nothing on its wire. The modem
\* kept its power and what it was doing, or starts afresh.
Dial ==
  /\ link = "down" /\ sessions < MaxSessions /\ sessions' = sessions + 1
  /\ link' = "tuning" /\ seen' = -1 /\ apply' = NoApply /\ applied' = Unset
  /\ toModem' = <<>> /\ toHost' = <<>> /\ txDone' = NoFrame
  /\ \/ UNCHANGED <<phy, onAir>>
     \/ phy' = Untuned /\ onAir' = NoFrame
  /\ UNCHANGED <<cfg, gen, tx, result, aired, gaveUp, late>>

\* connect's loop: apply the settings as they are now, and again until no Configure has
\* changed them meanwhile; then the session is Modem.sess.
\* Mutant: once any settings are applied the session is good.
AnyCfgApplied == seen >= 0 \/ cfg = Unset
CfgIsCurrent == seen = gen \/ cfg = Unset

Retune ==
  /\ link = "tuning" /\ apply = NoApply /\ ~CfgIsCurrent
  /\ seen' = gen
  /\ IF cfg \in Unsupported THEN UNCHANGED <<apply, toModem>> ELSE Begin(cfg)
  /\ applied' = Unset
  /\ UNCHANGED <<link, cfg, gen, toHost, late, sessions, phy, onAir, aired, sendVars>>
Publish ==
  /\ link = "tuning" /\ apply = NoApply /\ CfgIsCurrent
  /\ link' = "up"
  /\ UNCHANGED <<seen, apply, applied, cfg, gen, toHost, late, sessions, modemVars, sendVars>>

\* The link fails while it is Modem.sess: everything waiting on it is told (session.fail).
Fail ==
  /\ link = "up" /\ sessions < MaxSessions
  /\ link' = "dead" /\ apply' = NoApply
  /\ toModem' = <<>> /\ toHost' = <<>>
  /\ UNCHANGED <<seen, applied, cfg, gen, late, sessions, phy, onAir, aired, sendVars>>

\* supervise: the dead session is no longer Modem.sess, reconnect starts.
Clear ==
  /\ link = "dead" /\ link' = "down"
  /\ tx' = [tx EXCEPT !.live = FALSE]
  /\ UNCHANGED <<seen, apply, applied, cfg, gen, toHost, late, sessions, modemVars, txDone, result, gaveUp>>

-----------------------------------------------------------------------------
(* Settings and commands *)

\* Configure, holding txSem: the settings are remembered whether or not there is a
\* session; without one the caller gets ErrNotConnected at once.
Configure(c) ==
  /\ tx = Free /\ gen < MaxConfigures
  /\ cfg' = c /\ gen' = gen + 1
  /\ applied' = IF link = "up" THEN Unset ELSE applied
  /\ IF link = "up" /\ c \notin Unsupported
       THEN Begin(c) /\ tx' = [by |-> "configure", frame |-> NoFrame, live |-> TRUE]
       ELSE UNCHANGED <<apply, toModem, tx>>
  /\ UNCHANGED <<link, seen, txDone, toHost, result, gaveUp, late, sessions, phy, onAir, aired>>

\* What apply's end means: Configure returns and frees the transmitter, a failing
\* connect closes its session, a successful one goes round its loop.
Finish(ok) ==
  /\ apply' = NoApply
  /\ applied' = IF ok THEN apply.cfg ELSE Unset
  /\ link' = IF link = "tuning" /\ ~ok THEN "down" ELSE link
  /\ tx' = IF link = "up" THEN Free ELSE tx

\* A command that hears nothing is written again, CmdAttempts times in all.
\* Mutant: one time too many.
MayRetryOnceMore == apply.tries <= CmdAttempts
MayRetry == apply.tries < CmdAttempts

CommandTimeout ==
  /\ apply # NoApply
  /\ IF MayRetry
       THEN WriteCommand([apply EXCEPT !.tries = @ + 1]) /\ UNCHANGED <<link, applied, tx>>
       ELSE Finish(FALSE) /\ UNCHANGED toModem
  /\ UNCHANGED <<seen, cfg, gen, toHost, txDone, result, gaveUp, late, sessions, phy, onAir, aired>>

\* deliver: a reply is the waiting command's if it has the expected kind, OK or Error,
\* and nobody's between two commands.
Reply ==
  /\ toHost # <<>> /\ Head(toHost).kind \in {"ok", "error"}
  /\ toHost' = Tail(toHost)
  /\ IF apply = NoApply
       THEN UNCHANGED <<link, apply, applied, tx, late, toModem>>
       ELSE /\ late' = (late \/ Head(toHost).answers # CommandOf(apply))
            /\ IF Head(toHost).kind = "ok" /\ apply.step < Len(Parts)
                 THEN /\ WriteCommand([apply EXCEPT !.step = @ + 1, !.tries = 1])
                      /\ UNCHANGED <<link, applied, tx>>
                 ELSE Finish(Head(toHost).kind = "ok") /\ UNCHANGED toModem
  /\ UNCHANGED <<seen, cfg, gen, txDone, result, gaveUp, sessions, phy, onAir, aired>>

\* A Configure whose session died under it returns ErrNotConnected.
ConfigureLost ==
  /\ tx.by = "configure" /\ (link = "dead" \/ ~tx.live)
  /\ tx' = Free
  /\ UNCHANGED <<cfg, gen, toHost, txDone, result, gaveUp, late, sessions, sessionVars, modemVars>>

-----------------------------------------------------------------------------
(* Transmission *)

\* Send takes txSem, forgets a stale TxDone and writes the frame.
Send(f) ==
  /\ tx = Free /\ result[f] = "new"
  /\ IF link = "up"
       THEN /\ tx' = [by |-> "send", frame |-> f, live |-> TRUE]
            /\ txDone' = NoFrame
            /\ toModem' = Append(toModem, [kind |-> "data", frame |-> f])
            /\ result' = [result EXCEPT ![f] = "waiting"]
       ELSE result' = [result EXCEPT ![f] = "failed"] /\ UNCHANGED <<tx, txDone, toModem>>
  /\ UNCHANGED <<cfg, gen, toHost, phy, onAir, aired, gaveUp, late, sessions, sessionVars>>

\* The caller's context ends: Send returns, but the transmitter stays reserved.
\* Mutant: the caller takes its reservation with it.
AbandonAndFree ==
  /\ tx.by = "send" /\ result[tx.frame] = "waiting"
  /\ result' = [result EXCEPT ![tx.frame] = "cancelled"]
  /\ tx' = Free
  /\ UNCHANGED <<cfg, gen, toHost, txDone, gaveUp, late, sessions, sessionVars, modemVars>>

Abandon ==
  /\ tx.by = "send" /\ result[tx.frame] = "waiting"
  /\ result' = [result EXCEPT ![tx.frame] = "cancelled"]
  /\ UNCHANGED <<cfg, gen, toHost, tx, txDone, gaveUp, late, sessions, sessionVars, modemVars>>

\* Whoever waits for TxDone lets go of the transmitter; a caller still there gets outcome.
Release(outcome) ==
  /\ tx' = Free
  /\ result' = [result EXCEPT ![tx.frame] = IF @ = "waiting" THEN outcome ELSE @]

Transmitted ==
  /\ tx.by = "send" /\ txDone # NoFrame
  /\ Release(IF txDone.ok THEN "ok" ELSE "failed")
  /\ txDone' = NoFrame
  /\ UNCHANGED <<cfg, gen, toHost, gaveUp, late, sessions, sessionVars, modemVars>>

\* The timer fires, or the session ends: nobody will take this frame's TxDone.
\* Mutant: only a caller still waiting has a timer.
GiveUpWaiting ==
  /\ tx.by = "send" /\ result[tx.frame] = "waiting"
  /\ Release("failed") /\ gaveUp' = gaveUp \cup {tx.frame}
  /\ UNCHANGED <<cfg, gen, toHost, txDone, late, sessions, sessionVars, modemVars>>

GiveUp ==
  /\ tx.by = "send"
  /\ Release("failed") /\ gaveUp' = gaveUp \cup {tx.frame}
  /\ UNCHANGED <<cfg, gen, toHost, txDone, late, sessions, sessionVars, modemVars>>

\* handleHardware: a TxDone counts for whoever is transmitting on this session now.
HearTxDone ==
  /\ toHost # <<>> /\ Head(toHost).kind = "done"
  /\ toHost' = Tail(toHost)
  /\ txDone' = IF tx.by = "send" /\ tx.live /\ txDone = NoFrame THEN Head(toHost) ELSE txDone
  /\ UNCHANGED <<cfg, gen, tx, result, gaveUp, late, sessions, sessionVars, modemVars>>

-----------------------------------------------------------------------------
(* The modem: it works through its input in order and answers in order. *)

ModemTakes ==
  /\ toModem # <<>> /\ toModem' = Tail(toModem) /\ Len(toHost) < HostQueue
  /\ LET m == Head(toModem) IN
     \/ /\ m.kind = "set"
        /\ phy' = IF m.cfg \in Refused THEN phy ELSE [phy EXCEPT ![m.part] = m.cfg]
        /\ toHost' = Append(toHost, [kind |-> IF m.cfg \in Refused THEN "error" ELSE "ok",
                                     answers |-> [part |-> m.part, cfg |-> m.cfg]])
        /\ UNCHANGED onAir
     \/ /\ m.kind = "data"
        /\ onAir' = IF onAir = NoFrame THEN m.frame ELSE onAir   \* else TxBusy: it is dropped
        /\ UNCHANGED <<phy, toHost>>
  /\ UNCHANGED <<cfg, gen, aired, late, sessions, sessionVars, sendVars>>

ModemTransmits(ok) ==
  /\ onAir # NoFrame /\ onAir' = NoFrame /\ Len(toHost) < HostQueue
  /\ aired' = IF ok THEN aired \cup {onAir} ELSE aired
  /\ toHost' = IF link \in {"tuning", "up"} THEN Append(toHost, [kind |-> "done", frame |-> onAir, ok |-> ok])
                                            ELSE toHost
  /\ UNCHANGED <<cfg, gen, toModem, phy, late, sessions, sessionVars, sendVars>>

\* Its two-frame output queue overflows and a reply is lost.
ReplyLost ==
  /\ toHost # <<>> /\ toHost' = Tail(toHost)
  /\ UNCHANGED <<cfg, gen, late, sessions, sessionVars, modemVars, sendVars>>
-----------------------------------------------------------------------------
Driver == Dial \/ Retune \/ Publish \/ Clear \/ CommandTimeout \/ Reply
          \/ ConfigureLost \/ Transmitted \/ GiveUp \/ HearTxDone
Modem == ModemTakes \/ (\E ok \in BOOLEAN : ModemTransmits(ok)) \/ ReplyLost
Callers == (\E c \in Settings : Configure(c)) \/ (\E f \in Frames : Send(f)) \/ Abandon
Next == Driver \/ Modem \/ Callers \/ Fail

Spec == Init /\ [][Next]_vars

\* The driver's timers fire and its goroutines run; the modem, the link and the callers
\* owe nothing.
Fairness == /\ WF_vars(CommandTimeout \/ Reply)
            /\ WF_vars(ConfigureLost) /\ WF_vars(Transmitted \/ GiveUp)
FairSpec == Spec /\ Fairness

-----------------------------------------------------------------------------
(* Properties *)

\* What goes over the wire.
Writes == [kind : {"set"}, part : {"radio", "power"}, cfg : Settings] \cup [kind : {"data"}, frame : Frames]
Replies == [kind : {"ok", "error"}, answers : [part : {"radio", "power"}, cfg : Settings]]
Reports == [kind : {"done"}, frame : Frames, ok : BOOLEAN]

TypeOK ==
  /\ link \in {"down", "tuning", "up", "dead"}
  /\ cfg \in Settings \cup {Unset} /\ gen \in Nat /\ seen \in {-1} \cup Nat
  /\ applied \in Settings \cup {Unset}
  /\ apply \in [cfg : Settings \cup {Unset}, step : 0..Len(Parts), tries : 0..CmdAttempts]
  /\ tx \in [by : {"none", "send", "configure"}, frame : Frames \cup {NoFrame}, live : BOOLEAN]
  /\ txDone \in Reports \cup {NoFrame}
  /\ toModem \in Seq(Writes) /\ toHost \in Seq(Replies \cup Reports) /\ sessions \in Nat
  /\ phy \in [{"radio", "power"} -> Settings \cup {Unset}] /\ onAir \in Frames \cup {NoFrame}
  /\ result \in [Frames -> {"new", "waiting", "cancelled", "ok", "failed"}]
  /\ aired \subseteq Frames /\ gaveUp \subseteq Frames /\ late \in BOOLEAN

\* A published session whose settings are not in doubt was given the settings asked for
\* last, however Configure and reconnecting interleave; and once the commands have gone
\* through, the modem is tuned to them, unless a command took the reply to another.
TunedToSettings ==
  link = "up" /\ applied # Unset =>
    /\ applied = cfg
    /\ late \/ (\E i \in DOMAIN toModem : toModem[i].kind = "set") \/ (\A p \in DOMAIN phy : phy[p] = cfg)

\* A Send that reports success transmitted its own frame, unless an earlier Send gave up
\* on a frame the modem still reported afterwards.
SentMeansTransmitted ==
  \A f \in Frames : result[f] = "ok" => f \in aired \/ gaveUp # {}

\* The transmitter is never reserved for good: whatever the modem fails to report and
\* whoever stops waiting, the next Send or Configure gets it.
TransmitterComesBack == tx # Free ~> tx = Free
=============================================================================
