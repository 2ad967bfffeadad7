-------------------------------- MODULE Site --------------------------------
(***************************************************************************)
(* The site's transmit gate, internal/site/site.go, and the part of        *)
(* mesh.Host that uses it: the txLoop of each radio asks for its turn      *)
(* (Acquire), sends one frame, gives the turn back (release) and accounts  *)
(* for the airtime, while a web request may retune a radio (setConfig) or  *)
(* change the site's airtime budget, and the host may stop.                *)
(*                                                                         *)
(* s.mu guards onAir and changed.  Waiting is a select on the channel that *)
(* was current when the lock was held: release closes it.                  *)
(***************************************************************************)
EXTENDS Integers, FiniteSets

CONSTANTS
  Hosts,      \* the site's radios, one mesh.Host each
  Keepers,    \* those with a radio that can send on after its Send has returned
  Spans,      \* channels in use: records [lo, hi], a range of frequencies
  InitSpan,   \* InitSpan[h]: the channel radio h starts on
  Limits,     \* settings of the site's budget, in airtime units; 0: none
  MaxLimit,   \* a bound of Limits
  Ms,         \* airtime of one frame
  MaxFrames,  \* bound: frames the radios have to send
  MaxRetunes, \* bound: setConfig calls that change a channel
  None        \* no turn

ASSUME SiteAssumption ==
  /\ IsFiniteSet(Hosts) /\ Keepers \subseteq Hosts
  /\ Spans \subseteq [lo : Int, hi : Int]
  /\ \A sp \in Spans : sp.lo < sp.hi
  /\ InitSpan \in [Hosts -> Spans]
  /\ MaxLimit \in Nat
  /\ Limits \subseteq 0..MaxLimit
  /\ Ms \in Nat \ {0}
  /\ MaxFrames \in Nat
  /\ MaxRetunes \in Nat
  /\ None \notin Spans

VARIABLES
  onAir,    \* onAir[h]: the span recorded for the turn h has, or None
  chan,     \* chan[h]: state of the s.changed that h's Acquire selects on
  limit,    \* dutyPct
  pc,       \* where the txLoop of each host is
  mine,     \* mine[h]: the span Acquire computed for its call
  span,     \* span[h]: the channel in h's configuration (h.rp)
  tuned,    \* tuned[h]: the channel h's radio is tuned to
  freq,     \* freq[h]: the channel of the frame h's radio is sending, or None
  kept,     \* radios that send a frame whose Send has returned
  air,      \* airtime all hosts accounted for in the last hour
  ctx,      \* the hosts' context: "live" or "done"
  sent,     \* history: frames the radios were asked to send
  retunes   \* history: retunes so far

vars == <<onAir, chan, limit, pc, mine, span, tuned, freq, kept, air, ctx, sent, retunes>>

Stages == {"idle", "try", "wait", "turn", "send", "account", "stopped"}

TypeOK ==
  /\ onAir \in [Hosts -> Spans \cup {None}]
  /\ chan \in [Hosts -> {"open", "closed"}]
  /\ limit \in Limits
  /\ pc \in [Hosts -> Stages]
  /\ mine \in [Hosts -> Spans]
  /\ span \in [Hosts -> Spans]
  /\ tuned \in [Hosts -> Spans]
  /\ freq \in [Hosts -> Spans \cup {None}]
  /\ kept \subseteq Keepers
  /\ air \in Nat
  /\ ctx \in {"live", "done"}
  /\ sent \in Nat
  /\ retunes \in Nat

Init ==
  /\ onAir = [h \in Hosts |-> None]
  /\ chan = [h \in Hosts |-> "closed"]
  /\ limit \in Limits
  /\ pc = [h \in Hosts |-> "idle"]
  /\ span = InitSpan /\ mine = InitSpan /\ tuned = InitSpan
  /\ freq = [h \in Hosts |-> None] /\ kept = {}
  /\ air = 0 /\ ctx = "live"
  /\ sent = 0 /\ retunes = 0

\* span.overlaps
Overlap(a, b) == a.lo < b.hi /\ b.lo < a.hi

\* Another host has the turn on a channel that overlaps the one h asks for.
Busy(h) == \E o \in Hosts \ {h} : onAir[o] # None /\ Overlap(mine[h], onAir[o])

\* Mutant: the budget may be used up to and including its last unit.
OverBudgetOffByOne == limit > 0 /\ air > limit

OverBudget == limit > 0 /\ air >= limit

Go(h, stage) == pc' = [pc EXCEPT ![h] = stage]

\* Acquire, before the loop: the budget is looked at once, the span taken once.
Ask(h) ==
  /\ pc[h] = "idle" /\ sent < MaxFrames
  /\ sent' = sent + 1
  /\ \/ OverBudget /\ UNCHANGED <<pc, mine>>       \* ErrSiteDutyCycle
     \/ ~OverBudget /\ Go(h, "try") /\ mine' = [mine EXCEPT ![h] = span[h]]
  /\ UNCHANGED <<onAir, chan, limit, span, tuned, freq, kept, air, ctx, retunes>>

\* Mutant: after a wake-up the turn is taken without looking again.
TakeTurnBlindly(h) ==
  /\ pc[h] = "try"
  /\ Go(h, "turn")
  /\ onAir' = [onAir EXCEPT ![h] = mine[h]]
  /\ UNCHANGED <<chan, limit, mine, span, tuned, freq, kept, air, ctx, sent, retunes>>

\* One turn of Acquire's loop, under s.mu: the turn, or a channel to wait on.
TakeTurn(h) ==
  /\ pc[h] = "try" /\ ~Busy(h)
  /\ Go(h, "turn")
  /\ onAir' = [onAir EXCEPT ![h] = mine[h]]
  /\ UNCHANGED <<chan, limit, mine, span, tuned, freq, kept, air, ctx, sent, retunes>>

Wait(h) ==
  /\ pc[h] = "try" /\ Busy(h)
  /\ Go(h, "wait")
  /\ chan' = [chan EXCEPT ![h] = "open"]
  /\ UNCHANGED <<onAir, limit, mine, span, tuned, freq, kept, air, ctx, sent, retunes>>

\* The select: the channel was closed ...
Wake(h) ==
  /\ pc[h] = "wait" /\ chan[h] = "closed"
  /\ Go(h, "try")
  /\ UNCHANGED <<onAir, chan, limit, mine, span, tuned, freq, kept, air, ctx, sent, retunes>>

\* ... or the context ended, and with it txLoop.
Cancel(h) ==
  /\ pc[h] = "wait" /\ ctx = "done"
  /\ Go(h, "stopped")
  /\ UNCHANGED <<onAir, chan, limit, mine, span, tuned, freq, kept, air, ctx, sent, retunes>>

\* Mutant: the turn is given back and nobody is told.
ReleaseQuietly(h) ==
  /\ onAir' = [onAir EXCEPT ![h] = None]
  /\ UNCHANGED chan

\* release: the turn is given back and whoever waits is woken.
Release(h) ==
  /\ onAir' = [onAir EXCEPT ![h] = None]
  /\ chan' = [o \in Hosts |-> "closed"]

\* Mutant: the early return forgets the release.
KeepTurn(h) ==
  /\ pc[h] = "turn"
  /\ Go(h, "idle")
  /\ UNCHANGED <<onAir, chan, limit, mine, span, tuned, freq, kept, air, ctx, sent, retunes>>

\* transmitNext finds the host switched to monitor or off.
GiveBack(h) ==
  /\ pc[h] = "turn"
  /\ Release(h)
  /\ Go(h, "idle")
  /\ UNCHANGED <<limit, mine, span, tuned, freq, kept, air, ctx, sent, retunes>>

\* Mutant: the turn is given back before the frame is out.
SendAfterRelease(h) ==
  /\ pc[h] = "turn"
  /\ Release(h)
  /\ Go(h, "send")
  /\ freq' = [freq EXCEPT ![h] = tuned[h]]
  /\ UNCHANGED <<limit, mine, span, tuned, kept, air, ctx, sent, retunes>>

\* radio.Send: the frame goes out on the channel the radio is tuned to, once
\* the radio is done with an earlier one it kept.
Send(h) ==
  /\ pc[h] = "turn"
  /\ Go(h, "send")
  /\ freq' = [freq EXCEPT ![h] = IF h \in kept THEN @ ELSE tuned[h]]
  /\ UNCHANGED <<onAir, chan, limit, mine, span, tuned, kept, air, ctx, sent, retunes>>

\* Mutant: a failed Send returns without giving the turn back.
SentKeepsTurnOnError(h) ==
  /\ pc[h] = "send" /\ h \notin kept
  /\ freq' = [freq EXCEPT ![h] = None]
  /\ \/ Release(h) /\ Go(h, "account")
     \/ Go(h, "idle") /\ UNCHANGED <<onAir, chan>>
  /\ UNCHANGED <<limit, mine, span, tuned, kept, air, ctx, sent, retunes>>

\* radio.Send returns with the radio done, transmitNext releases the turn; a
\* failure ends there.
Sent(h) ==
  /\ pc[h] = "send" /\ h \notin kept
  /\ Release(h)
  /\ freq' = [freq EXCEPT ![h] = None]
  /\ Go(h, "account") \/ Go(h, "idle")
  /\ UNCHANGED <<limit, mine, span, tuned, kept, air, ctx, sent, retunes>>

\* It returns, and the turn is released, while the radio has the frame still:
\* the context ended or the modem's report did not come (kiss.Modem), or the
\* board sends it in its own time (nodes.BoardRadio).  The SPI driver and the
\* simulator stop transmitting instead.
Leave(h) ==
  /\ pc[h] = "send" /\ h \in Keepers
  /\ Release(h)
  /\ kept' = kept \cup {h}
  /\ Go(h, "account") \/ Go(h, "idle")
  /\ UNCHANGED <<limit, mine, span, tuned, freq, air, ctx, sent, retunes>>

\* The radio is done with the frame it kept; the next Send has waited for it.
KeptOut(h) ==
  /\ h \in kept
  /\ kept' = kept \ {h}
  /\ freq' = [freq EXCEPT ![h] = IF pc[h] = "send" THEN tuned[h] ELSE None]
  /\ UNCHANGED <<onAir, chan, limit, pc, mine, span, tuned, air, ctx, sent, retunes>>

\* transmitted: the airtime is accounted for after the release.
Account(h) ==
  /\ pc[h] = "account"
  /\ Go(h, "idle")
  /\ air' = air + Ms
  /\ UNCHANGED <<onAir, chan, limit, mine, span, tuned, freq, kept, ctx, sent, retunes>>

\* txLoop returns: Next found nothing due and the context ended.
Stop(h) ==
  /\ pc[h] = "idle" /\ ctx = "done"
  /\ Go(h, "stopped")
  /\ UNCHANGED <<onAir, chan, limit, mine, span, tuned, freq, kept, air, ctx, sent, retunes>>

\* setConfig: the new channel is in the configuration ...
Retune(h, sp) ==
  /\ retunes < MaxRetunes /\ sp # span[h]
  /\ retunes' = retunes + 1
  /\ span' = [span EXCEPT ![h] = sp]
  /\ UNCHANGED <<onAir, chan, limit, pc, mine, tuned, freq, kept, air, ctx, sent>>

\* ... and then the radio takes it (Configure), without asking for a turn.
Configure(h) ==
  /\ tuned[h] # span[h]
  /\ tuned' = [tuned EXCEPT ![h] = span[h]]
  /\ UNCHANGED <<onAir, chan, limit, pc, mine, span, freq, kept, air, ctx, sent, retunes>>

\* SetDutyCyclePct, from the web interface.
SetDutyCyclePct(l) ==
  /\ l # limit
  /\ limit' = l
  /\ UNCHANGED <<onAir, chan, pc, mine, span, tuned, freq, kept, air, ctx, sent, retunes>>

\* A minute's airtime leaves the rolling hour: whole frames.
HourMoves ==
  /\ air > 0
  /\ air' \in {a \in 0..(air - 1) : (air - a) % Ms = 0}
  /\ UNCHANGED <<onAir, chan, limit, pc, mine, span, tuned, freq, kept, ctx, sent, retunes>>

Shutdown ==
  /\ ctx = "live" /\ ctx' = "done"
  /\ UNCHANGED <<onAir, chan, limit, pc, mine, span, tuned, freq, kept, air, sent, retunes>>

\* What the txLoop of h does by itself.
TxLoop(h) ==
  \/ Ask(h) \/ TakeTurn(h) \/ Wait(h) \/ Wake(h) \/ Cancel(h)
  \/ GiveBack(h) \/ Send(h) \/ Sent(h) \/ Leave(h) \/ Account(h) \/ Stop(h)

Next ==
  \/ \E h \in Hosts : TxLoop(h) \/ KeptOut(h) \/ Configure(h) \/ \E sp \in Spans : Retune(h, sp)
  \/ \E l \in Limits : SetDutyCyclePct(l)
  \/ HourMoves
  \/ Shutdown

Spec == Init /\ [][Next]_vars

\* Each radio's txLoop is a goroutine of its own; radio.Send ends by its
\* timeout.  Which waiter gets the lock first is the scheduler's choice.
FairSpec == Spec /\ \A h \in Hosts : WF_vars(TxLoop(h))

-----------------------------------------------------------------------------
(* Properties.                                                             *)

\* The turns given out never overlap, whatever is retuned meanwhile.
TurnsDisjoint ==
  \A h \in Hosts : \A o \in Hosts \ {h} :
    onAir[h] # None /\ onAir[o] # None => ~Overlap(onAir[h], onAir[o])

\* No wake-up is lost: a host waits on a channel that is still open only
\* while another one holds a turn that really is in its way, so the release
\* of that turn is still to come.
NoLostWakeup ==
  \A h \in Hosts : pc[h] = "wait" /\ chan[h] = "open" => Busy(h)

\* A turn belongs to a txLoop that is going to give it back.
TurnIsHeld == \A h \in Hosts : onAir[h] # None <=> pc[h] \in {"turn", "send"}

\* Airtime accounted for and airtime still to be accounted for stay below
\* the largest budget plus one frame of each radio: every radio may pass the
\* budget check before any of the others has accounted for its frame.
Committed == {h \in Hosts : pc[h] \in {"try", "wait", "turn", "send", "account"}}
BudgetBounded ==
  0 \notin Limits =>
    air + Ms * Cardinality(Committed) < MaxLimit + Ms * Cardinality(Hosts)

\* The site's promise: the abstract specification, with the recorded turns.
Promise == INSTANCE AirSpace WITH turn <- onAir
TurnsAreExclusive == Promise!Spec

\* Every radio that waits gets on with it (there are MaxFrames to send, so
\* the others cannot overtake it forever).
WaiterIsServed == \A h \in Hosts : pc[h] = "wait" ~> pc[h] \in {"turn", "stopped"}

\* The package comment: radios on overlapping channels "must never transmit
\* at the same time" - of the frames on air, not of the turns.  It holds of the
\* frames whose Send has not returned, as long as no radio is retuned while the
\* site runs; a frame its radio kept may meet the frame of the next turn.
DisjointInSend ==
  retunes = 0 =>
    \A h \in Hosts \ kept : \A o \in Hosts \ (kept \cup {h}) :
      freq[h] # None /\ freq[o] # None => ~Overlap(freq[h], freq[o])
=============================================================================
