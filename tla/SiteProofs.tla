----------------------------- MODULE SiteProofs -----------------------------
(***************************************************************************)
(* What module Site promises, for every number of radios, every set of     *)
(* channels and every budget.  One inductive invariant, IInv, is proved    *)
(* part by part; the safety properties and the refinement of AirSpace      *)
(* follow from it.                                                         *)
(***************************************************************************)
EXTENDS Site, FiniteSetTheorems, TLAPS

\* A recorded turn is for the channel its holder asked for, and a radio is
\* sending exactly while its txLoop is in radio.Send or it has kept a frame.
TurnIsMine ==
  \A h \in Hosts :
    /\ onAir[h] # None => onAir[h] = mine[h]
    /\ freq[h] # None <=> pc[h] = "send" \/ h \in kept

\* Until somebody retunes a radio, configuration, turn and radio agree.
Tuned ==
  retunes = 0 => \A h \in Hosts :
    /\ tuned[h] = span[h]
    /\ pc[h] \in {"try", "wait", "turn", "send"} => mine[h] = span[h]
    /\ pc[h] = "send" /\ h \notin kept => freq[h] = span[h]

IInv ==
  /\ TypeOK
  /\ TurnIsHeld
  /\ TurnIsMine
  /\ TurnsDisjoint
  /\ NoLostWakeup
  /\ Tuned

-----------------------------------------------------------------------------
(* Type correctness.                                                       *)

LEMMA InitTypeOK == Init => TypeOK
  BY SiteAssumption DEF Init, TypeOK, Stages

LEMMA TypeStep == TypeOK /\ [Next]_vars => TypeOK'
<1> SUFFICES ASSUME TypeOK, [Next]_vars PROVE TypeOK'
  OBVIOUS
<1> USE SiteAssumption DEF TypeOK, Stages
<1>1. ASSUME NEW h \in Hosts, Ask(h) PROVE TypeOK'
  <2>1. CASE UNCHANGED <<pc, mine>>
    BY <1>1, <2>1 DEF Ask
  <2>2. CASE Go(h, "try") /\ mine' = [mine EXCEPT ![h] = span[h]]
    BY <1>1, <2>2 DEF Ask, Go
  <2> QED
    BY <1>1, <2>1, <2>2 DEF Ask
<1>2. ASSUME NEW h \in Hosts, TakeTurn(h) PROVE TypeOK'
  BY <1>2 DEF TakeTurn, Go
<1>3. ASSUME NEW h \in Hosts, Wait(h) PROVE TypeOK'
  BY <1>3 DEF Wait, Go
<1>4. ASSUME NEW h \in Hosts, Wake(h) PROVE TypeOK'
  BY <1>4 DEF Wake, Go
<1>5. ASSUME NEW h \in Hosts, Cancel(h) PROVE TypeOK'
  BY <1>5 DEF Cancel, Go
<1>6. ASSUME NEW h \in Hosts, GiveBack(h) PROVE TypeOK'
  BY <1>6 DEF GiveBack, Release, Go
<1>7. ASSUME NEW h \in Hosts, Send(h) PROVE TypeOK'
  BY <1>7 DEF Send, Go
<1>8. ASSUME NEW h \in Hosts, Sent(h) PROVE TypeOK'
  BY <1>8 DEF Sent, Release, Go
<1>9. ASSUME NEW h \in Hosts, Account(h) PROVE TypeOK'
  BY <1>9 DEF Account, Go
<1>10. ASSUME NEW h \in Hosts, Stop(h) PROVE TypeOK'
  BY <1>10 DEF Stop, Go
<1>11. ASSUME NEW h \in Hosts, Configure(h) PROVE TypeOK'
  BY <1>11 DEF Configure
<1>12. ASSUME NEW h \in Hosts, NEW sp \in Spans, Retune(h, sp) PROVE TypeOK'
  BY <1>12 DEF Retune
<1>13. ASSUME NEW l \in Limits, SetDutyCyclePct(l) PROVE TypeOK'
  BY <1>13 DEF SetDutyCyclePct
<1>14. CASE HourMoves
  BY <1>14 DEF HourMoves
<1>15. CASE Shutdown
  BY <1>15 DEF Shutdown
<1>16. ASSUME NEW h \in Hosts, Leave(h) PROVE TypeOK'
  BY <1>16 DEF Leave, Release, Go
<1>17. ASSUME NEW h \in Hosts, KeptOut(h) PROVE TypeOK'
  BY <1>17 DEF KeptOut
<1>18. CASE UNCHANGED vars
  BY <1>18 DEF vars
<1> QED
  BY <1>1, <1>2, <1>3, <1>4, <1>5, <1>6, <1>7, <1>8, <1>9, <1>10, <1>11,
     <1>12, <1>13, <1>14, <1>15, <1>16, <1>17, <1>18 DEF Next, TxLoop

\* TypeOK of Site: every variable keeps its type, whatever the radios, the
\* web interface and the clock do.
THEOREM SiteTypeCorrect == Spec => []TypeOK
  BY InitTypeOK, TypeStep, PTL DEF Spec
-----------------------------------------------------------------------------
(* The parts of the inductive invariant.                                   *)

LEMMA InitIInv == Init => IInv
<1> SUFFICES ASSUME Init PROVE IInv
  OBVIOUS
<1>1. TypeOK
  BY InitTypeOK
<1>2. TurnIsHeld /\ TurnIsMine /\ TurnsDisjoint /\ NoLostWakeup /\ Tuned
  BY SiteAssumption DEF Init, TurnIsHeld, TurnIsMine, TurnsDisjoint, NoLostWakeup, Tuned
<1> QED
  BY <1>1, <1>2 DEF IInv

LEMMA TurnIsHeldStep == TypeOK /\ TurnIsHeld /\ [Next]_vars => TurnIsHeld'
<1> SUFFICES ASSUME TypeOK, TurnIsHeld, [Next]_vars PROVE TurnIsHeld'
  OBVIOUS
<1> USE SiteAssumption DEF TypeOK, Stages, TurnIsHeld
<1>1. ASSUME NEW h \in Hosts, Ask(h) PROVE TurnIsHeld'
  BY <1>1 DEF Ask, Go
<1>2. ASSUME NEW h \in Hosts, TakeTurn(h) PROVE TurnIsHeld'
  BY <1>2 DEF TakeTurn, Go
<1>3. ASSUME NEW h \in Hosts, Wait(h) PROVE TurnIsHeld'
  BY <1>3 DEF Wait, Go
<1>4. ASSUME NEW h \in Hosts, Wake(h) PROVE TurnIsHeld'
  BY <1>4 DEF Wake, Go
<1>5. ASSUME NEW h \in Hosts, Cancel(h) PROVE TurnIsHeld'
  BY <1>5 DEF Cancel, Go
<1>6. ASSUME NEW h \in Hosts, GiveBack(h) PROVE TurnIsHeld'
  BY <1>6 DEF GiveBack, Release, Go
<1>7. ASSUME NEW h \in Hosts, Send(h) PROVE TurnIsHeld'
  BY <1>7 DEF Send, Go
<1>8. ASSUME NEW h \in Hosts, Sent(h) PROVE TurnIsHeld'
  BY <1>8 DEF Sent, Release, Go
<1>9. ASSUME NEW h \in Hosts, Account(h) PROVE TurnIsHeld'
  BY <1>9 DEF Account, Go
<1>10. ASSUME NEW h \in Hosts, Stop(h) PROVE TurnIsHeld'
  BY <1>10 DEF Stop, Go
<1>11. ASSUME NEW h \in Hosts, Configure(h) PROVE TurnIsHeld'
  BY <1>11 DEF Configure
<1>12. ASSUME NEW h \in Hosts, NEW sp \in Spans, Retune(h, sp) PROVE TurnIsHeld'
  BY <1>12 DEF Retune
<1>13. CASE (\E l \in Limits : SetDutyCyclePct(l)) \/ HourMoves \/ Shutdown \/ UNCHANGED vars
  BY <1>13 DEF SetDutyCyclePct, HourMoves, Shutdown, vars
<1>14. ASSUME NEW h \in Hosts, Leave(h) PROVE TurnIsHeld'
  BY <1>14 DEF Leave, Release, Go
<1>15. ASSUME NEW h \in Hosts, KeptOut(h) PROVE TurnIsHeld'
  BY <1>15 DEF KeptOut
<1> QED
  BY <1>1, <1>2, <1>3, <1>4, <1>5, <1>6, <1>7, <1>8, <1>9, <1>10, <1>11,
     <1>12, <1>13, <1>14, <1>15 DEF Next, TxLoop

LEMMA TurnIsMineStep == TypeOK /\ TurnIsHeld /\ TurnIsMine /\ [Next]_vars => TurnIsMine'
<1> SUFFICES ASSUME TypeOK, TurnIsHeld, TurnIsMine, [Next]_vars PROVE TurnIsMine'
  OBVIOUS
<1> USE SiteAssumption DEF TypeOK, Stages, TurnIsHeld, TurnIsMine
<1>1. ASSUME NEW h \in Hosts, Ask(h) PROVE TurnIsMine'
  BY <1>1 DEF Ask, Go
<1>2. ASSUME NEW h \in Hosts, TakeTurn(h) PROVE TurnIsMine'
  BY <1>2 DEF TakeTurn, Go
<1>3. ASSUME NEW h \in Hosts, Wait(h) PROVE TurnIsMine'
  BY <1>3 DEF Wait, Go
<1>4. ASSUME NEW h \in Hosts, Wake(h) PROVE TurnIsMine'
  BY <1>4 DEF Wake, Go
<1>5. ASSUME NEW h \in Hosts, Cancel(h) PROVE TurnIsMine'
  BY <1>5 DEF Cancel, Go
<1>6. ASSUME NEW h \in Hosts, GiveBack(h) PROVE TurnIsMine'
  BY <1>6 DEF GiveBack, Release, Go
<1>7. ASSUME NEW h \in Hosts, Send(h) PROVE TurnIsMine'
  BY <1>7 DEF Send, Go
<1>8. ASSUME NEW h \in Hosts, Sent(h) PROVE TurnIsMine'
  BY <1>8 DEF Sent, Release, Go
<1>9. ASSUME NEW h \in Hosts, Account(h) PROVE TurnIsMine'
  BY <1>9 DEF Account, Go
<1>10. ASSUME NEW h \in Hosts, Stop(h) PROVE TurnIsMine'
  BY <1>10 DEF Stop, Go
<1>11. ASSUME NEW h \in Hosts, Configure(h) PROVE TurnIsMine'
  BY <1>11 DEF Configure
<1>12. ASSUME NEW h \in Hosts, NEW sp \in Spans, Retune(h, sp) PROVE TurnIsMine'
  BY <1>12 DEF Retune
<1>13. CASE (\E l \in Limits : SetDutyCyclePct(l)) \/ HourMoves \/ Shutdown \/ UNCHANGED vars
  BY <1>13 DEF SetDutyCyclePct, HourMoves, Shutdown, vars
<1>14. ASSUME NEW h \in Hosts, Leave(h) PROVE TurnIsMine'
  BY <1>14 DEF Leave, Release, Go
<1>15. ASSUME NEW h \in Hosts, KeptOut(h) PROVE TurnIsMine'
  BY <1>15 DEF KeptOut
<1> QED
  BY <1>1, <1>2, <1>3, <1>4, <1>5, <1>6, <1>7, <1>8, <1>9, <1>10, <1>11,
     <1>12, <1>13, <1>14, <1>15 DEF Next, TxLoop

LEMMA TurnsDisjointStep == TypeOK /\ TurnsDisjoint /\ [Next]_vars => TurnsDisjoint'
<1> SUFFICES ASSUME TypeOK, TurnsDisjoint, [Next]_vars PROVE TurnsDisjoint'
  OBVIOUS
<1> USE SiteAssumption DEF TypeOK, Stages, TurnsDisjoint, Overlap
<1>1. ASSUME NEW h \in Hosts, Ask(h) PROVE TurnsDisjoint'
  BY <1>1 DEF Ask, Go
<1>2. ASSUME NEW h \in Hosts, TakeTurn(h) PROVE TurnsDisjoint'
  BY <1>2 DEF TakeTurn, Go, Busy
<1>3. ASSUME NEW h \in Hosts, Wait(h) PROVE TurnsDisjoint'
  BY <1>3 DEF Wait, Go
<1>4. ASSUME NEW h \in Hosts, Wake(h) PROVE TurnsDisjoint'
  BY <1>4 DEF Wake, Go
<1>5. ASSUME NEW h \in Hosts, Cancel(h) PROVE TurnsDisjoint'
  BY <1>5 DEF Cancel, Go
<1>6. ASSUME NEW h \in Hosts, GiveBack(h) PROVE TurnsDisjoint'
  BY <1>6 DEF GiveBack, Release, Go
<1>7. ASSUME NEW h \in Hosts, Send(h) PROVE TurnsDisjoint'
  BY <1>7 DEF Send, Go
<1>8. ASSUME NEW h \in Hosts, Sent(h) PROVE TurnsDisjoint'
  BY <1>8 DEF Sent, Release, Go
<1>9. ASSUME NEW h \in Hosts, Account(h) PROVE TurnsDisjoint'
  BY <1>9 DEF Account, Go
<1>10. ASSUME NEW h \in Hosts, Stop(h) PROVE TurnsDisjoint'
  BY <1>10 DEF Stop, Go
<1>11. ASSUME NEW h \in Hosts, Configure(h) PROVE TurnsDisjoint'
  BY <1>11 DEF Configure
<1>12. ASSUME NEW h \in Hosts, NEW sp \in Spans, Retune(h, sp) PROVE TurnsDisjoint'
  BY <1>12 DEF Retune
<1>13. CASE (\E l \in Limits : SetDutyCyclePct(l)) \/ HourMoves \/ Shutdown \/ UNCHANGED vars
  BY <1>13 DEF SetDutyCyclePct, HourMoves, Shutdown, vars
<1>14. ASSUME NEW h \in Hosts, Leave(h) PROVE TurnsDisjoint'
  BY <1>14 DEF Leave, Release, Go
<1>15. ASSUME NEW h \in Hosts, KeptOut(h) PROVE TurnsDisjoint'
  BY <1>15 DEF KeptOut
<1> QED
  BY <1>1, <1>2, <1>3, <1>4, <1>5, <1>6, <1>7, <1>8, <1>9, <1>10, <1>11,
     <1>12, <1>13, <1>14, <1>15 DEF Next, TxLoop

LEMMA NoLostWakeupStep == TypeOK /\ TurnIsHeld /\ NoLostWakeup /\ [Next]_vars => NoLostWakeup'
<1> SUFFICES ASSUME TypeOK, TurnIsHeld, NoLostWakeup, [Next]_vars PROVE NoLostWakeup'
  OBVIOUS
<1> USE SiteAssumption DEF TypeOK, Stages, TurnIsHeld, NoLostWakeup, Busy, Overlap
<1>1. ASSUME NEW h \in Hosts, Ask(h) PROVE NoLostWakeup'
  BY <1>1 DEF Ask, Go
<1>2. ASSUME NEW h \in Hosts, TakeTurn(h) PROVE NoLostWakeup'
  BY <1>2 DEF TakeTurn, Go
<1>3. ASSUME NEW h \in Hosts, Wait(h) PROVE NoLostWakeup'
  BY <1>3 DEF Wait, Go
<1>4. ASSUME NEW h \in Hosts, Wake(h) PROVE NoLostWakeup'
  BY <1>4 DEF Wake, Go
<1>5. ASSUME NEW h \in Hosts, Cancel(h) PROVE NoLostWakeup'
  BY <1>5 DEF Cancel, Go
<1>6. ASSUME NEW h \in Hosts, GiveBack(h) PROVE NoLostWakeup'
  BY <1>6 DEF GiveBack, Release, Go
<1>7. ASSUME NEW h \in Hosts, Send(h) PROVE NoLostWakeup'
  BY <1>7 DEF Send, Go
<1>8. ASSUME NEW h \in Hosts, Sent(h) PROVE NoLostWakeup'
  BY <1>8 DEF Sent, Release, Go
<1>9. ASSUME NEW h \in Hosts, Account(h) PROVE NoLostWakeup'
  BY <1>9 DEF Account, Go
<1>10. ASSUME NEW h \in Hosts, Stop(h) PROVE NoLostWakeup'
  BY <1>10 DEF Stop, Go
<1>11. ASSUME NEW h \in Hosts, Configure(h) PROVE NoLostWakeup'
  BY <1>11 DEF Configure
<1>12. ASSUME NEW h \in Hosts, NEW sp \in Spans, Retune(h, sp) PROVE NoLostWakeup'
  BY <1>12 DEF Retune
<1>13. CASE (\E l \in Limits : SetDutyCyclePct(l)) \/ HourMoves \/ Shutdown \/ UNCHANGED vars
  BY <1>13 DEF SetDutyCyclePct, HourMoves, Shutdown, vars
<1>14. ASSUME NEW h \in Hosts, Leave(h) PROVE NoLostWakeup'
  BY <1>14 DEF Leave, Release, Go
<1>15. ASSUME NEW h \in Hosts, KeptOut(h) PROVE NoLostWakeup'
  BY <1>15 DEF KeptOut
<1> QED
  BY <1>1, <1>2, <1>3, <1>4, <1>5, <1>6, <1>7, <1>8, <1>9, <1>10, <1>11,
     <1>12, <1>13, <1>14, <1>15 DEF Next, TxLoop

LEMMA TunedStep == TypeOK /\ Tuned /\ [Next]_vars => Tuned'
<1> SUFFICES ASSUME TypeOK, Tuned, [Next]_vars PROVE Tuned'
  OBVIOUS
<1> USE SiteAssumption DEF TypeOK, Stages, Tuned
<1>1. ASSUME NEW h \in Hosts, Ask(h) PROVE Tuned'
  BY <1>1 DEF Ask, Go
<1>2. ASSUME NEW h \in Hosts, TakeTurn(h) PROVE Tuned'
  BY <1>2 DEF TakeTurn, Go
<1>3. ASSUME NEW h \in Hosts, Wait(h) PROVE Tuned'
  BY <1>3 DEF Wait, Go
<1>4. ASSUME NEW h \in Hosts, Wake(h) PROVE Tuned'
  BY <1>4 DEF Wake, Go
<1>5. ASSUME NEW h \in Hosts, Cancel(h) PROVE Tuned'
  BY <1>5 DEF Cancel, Go
<1>6. ASSUME NEW h \in Hosts, GiveBack(h) PROVE Tuned'
  BY <1>6 DEF GiveBack, Release, Go
<1>7. ASSUME NEW h \in Hosts, Send(h) PROVE Tuned'
  BY <1>7 DEF Send, Go
<1>8. ASSUME NEW h \in Hosts, Sent(h) PROVE Tuned'
  BY <1>8 DEF Sent, Release, Go
<1>9. ASSUME NEW h \in Hosts, Account(h) PROVE Tuned'
  BY <1>9 DEF Account, Go
<1>10. ASSUME NEW h \in Hosts, Stop(h) PROVE Tuned'
  BY <1>10 DEF Stop, Go
<1>11. ASSUME NEW h \in Hosts, Configure(h) PROVE Tuned'
  BY <1>11 DEF Configure
<1>12. ASSUME NEW h \in Hosts, NEW sp \in Spans, Retune(h, sp) PROVE Tuned'
  BY <1>12 DEF Retune
<1>13. CASE (\E l \in Limits : SetDutyCyclePct(l)) \/ HourMoves \/ Shutdown \/ UNCHANGED vars
  BY <1>13 DEF SetDutyCyclePct, HourMoves, Shutdown, vars
<1>14. ASSUME NEW h \in Hosts, Leave(h) PROVE Tuned'
  BY <1>14 DEF Leave, Release, Go
<1>15. ASSUME NEW h \in Hosts, KeptOut(h) PROVE Tuned'
  BY <1>15 DEF KeptOut
<1> QED
  BY <1>1, <1>2, <1>3, <1>4, <1>5, <1>6, <1>7, <1>8, <1>9, <1>10, <1>11,
     <1>12, <1>13, <1>14, <1>15 DEF Next, TxLoop

LEMMA IInvStep == IInv /\ [Next]_vars => IInv'
  BY TypeStep, TurnIsHeldStep, TurnIsMineStep, TurnsDisjointStep, NoLostWakeupStep,
     TunedStep DEF IInv

LEMMA IInvHolds == Spec => []IInv
  BY InitIInv, IInvStep, PTL DEF Spec

-----------------------------------------------------------------------------
(* The promises of the gate.                                               *)

\* TurnsDisjoint of Site: no two radios with overlapping channels have the
\* turn at the same time, however Acquire calls and releases interleave.
THEOREM TurnsNeverOverlap == Spec => []TurnsDisjoint
<1>1. IInv => TurnsDisjoint
  BY DEF IInv
<1> QED
  BY <1>1, IInvHolds, PTL

\* TurnIsHeld of Site: every turn belongs to a txLoop that will release it,
\* so no early return of transmitNext leaks one.
THEOREM NoTurnLeaks == Spec => []TurnIsHeld
<1>1. IInv => TurnIsHeld
  BY DEF IInv
<1> QED
  BY <1>1, IInvHolds, PTL

\* NoLostWakeup of Site: who waits on an open channel waits for a turn whose
\* release is still to come, though the channel was read before the select.
THEOREM WakeupsAreNotLost == Spec => []NoLostWakeup
<1>1. IInv => NoLostWakeup
  BY DEF IInv
<1> QED
  BY <1>1, IInvHolds, PTL

\* DisjointInSend of Site: as long as no web request retunes a radio, the
\* frames on air inside their radio.Send keep apart, for the turns are for the
\* channels in use and a Send runs within its turn.  The package comment wants
\* it of all frames: those a radio kept when its Send returned are not covered.
THEOREM RadiosKeepApart == Spec => []DisjointInSend
<1>1. IInv => DisjointInSend
  <2> SUFFICES ASSUME IInv, retunes = 0, NEW h \in Hosts \ kept,
                      NEW o \in Hosts \ (kept \cup {h}), freq[h] # None, freq[o] # None
               PROVE  ~Overlap(freq[h], freq[o])
    BY DEF DisjointInSend
  <2>1. pc[h] = "send" /\ pc[o] = "send"
    BY DEF IInv, TurnIsMine
  <2>2. onAir[h] = freq[h] /\ onAir[o] = freq[o]
    BY <2>1 DEF IInv, TurnIsHeld, TurnIsMine, Tuned
  <2> QED
    BY <2>2 DEF IInv, TurnsDisjoint
<1> QED
  BY <1>1, IInvHolds, PTL

-----------------------------------------------------------------------------
(* The airtime budget.                                                     *)

LEMMA SomeHosts ==
  ASSUME NEW S \in SUBSET Hosts
  PROVE  /\ IsFiniteSet(S) /\ Cardinality(S) \in Nat
         /\ Cardinality(Hosts) \in Nat
         /\ Cardinality(S) <= Cardinality(Hosts)
<1>1. IsFiniteSet(Hosts)
  BY SiteAssumption
<1> QED
  BY <1>1, FS_Subset, FS_CardinalityType

\* Committed airtime never grows by more than a frame, and only in Ask, which
\* finds the budget not yet spent.
LEMMA BudgetStep == TypeOK /\ BudgetBounded /\ [Next]_vars => BudgetBounded'
<1> SUFFICES ASSUME TypeOK, BudgetBounded, [Next]_vars, 0 \notin Limits
             PROVE  air' + Ms * Cardinality(Committed')
                      < MaxLimit + Ms * Cardinality(Hosts)
  BY DEF BudgetBounded
<1> DEFINE M == Cardinality(Hosts)
           C == Cardinality(Committed)
           D == Cardinality(Committed')
<1>1. /\ C \in Nat /\ D \in Nat /\ M \in Nat /\ D <= M
      /\ IsFiniteSet(Committed)
  <2>1. Committed \in SUBSET Hosts /\ Committed' \in SUBSET Hosts
    BY DEF Committed
  <2> QED
    BY <2>1, SomeHosts
<1>2. /\ Ms \in Nat \ {0} /\ MaxLimit \in Nat /\ air \in Nat
      /\ limit \in Nat /\ limit > 0 /\ limit <= MaxLimit
  BY SiteAssumption DEF TypeOK
<1>3. air + Ms * C < MaxLimit + Ms * M
  BY DEF BudgetBounded
<1>4. ASSUME air' = air, Committed' = Committed
      PROVE  air' + Ms * D < MaxLimit + Ms * M
  BY <1>3, <1>4
<1>5. ASSUME air' = air, NEW h \in Hosts, Committed' = Committed \ {h}
      PROVE  air' + Ms * D < MaxLimit + Ms * M
  <2>1. D <= C
    BY <1>1, <1>5, FS_RemoveElement
  <2>2. Ms * D <= Ms * C
    BY <1>1, <1>2, <2>1
  <2> QED
    BY <1>1, <1>2, <1>3, <1>5, <2>2
<1>6. ASSUME NEW h \in Hosts, Ask(h)
      PROVE  air' + Ms * D < MaxLimit + Ms * M
  <2>1. CASE OverBudget
    BY <1>4, <1>6, <2>1 DEF Ask, Committed
  <2>2. CASE ~OverBudget
    <3>1. air' = air /\ air < MaxLimit
      BY <1>2, <1>6, <2>2 DEF Ask, OverBudget
    <3>2. Ms * D <= Ms * M
      BY <1>1, <1>2
    <3> QED
      BY <1>1, <1>2, <3>1, <3>2
  <2> QED
    BY <2>1, <2>2
<1>7. ASSUME NEW h \in Hosts, Account(h)
      PROVE  air' + Ms * D < MaxLimit + Ms * M
  <2>1. h \in Committed /\ Committed' = Committed \ {h}
    BY <1>7 DEF Account, Go, Committed, TypeOK, Stages
  <2>2. D = C - 1
    BY <1>1, <2>1, FS_RemoveElement
  <2>3. Ms * D = Ms * C - Ms
    BY <1>1, <1>2, <2>2
  <2> QED
    BY <1>1, <1>2, <1>3, <1>7, <2>3 DEF Account
<1>8. ASSUME NEW h \in Hosts, GiveBack(h) \/ Cancel(h) \/ Sent(h) \/ Leave(h)
      PROVE  air' + Ms * D < MaxLimit + Ms * M
  <2>1. air' = air /\ (Committed' = Committed \ {h} \/ Committed' = Committed)
    BY <1>8 DEF GiveBack, Cancel, Sent, Leave, Release, Go, Committed, TypeOK, Stages
  <2> QED
    BY <1>4, <1>5, <2>1
<1>9. ASSUME NEW h \in Hosts,
             \/ TakeTurn(h) \/ Wait(h) \/ Wake(h) \/ Send(h) \/ Stop(h)
             \/ KeptOut(h) \/ Configure(h) \/ \E sp \in Spans : Retune(h, sp)
      PROVE  air' + Ms * D < MaxLimit + Ms * M
  <2>1. air' = air /\ Committed' = Committed
    BY <1>9 DEF TakeTurn, Wait, Wake, Send, Stop, KeptOut, Configure, Retune, Go,
                Committed, TypeOK, Stages
  <2> QED
    BY <1>4, <2>1
<1>10. CASE (\E l \in Limits : SetDutyCyclePct(l)) \/ Shutdown \/ UNCHANGED vars
  BY <1>4, <1>10 DEF SetDutyCyclePct, Shutdown, vars, Committed
<1>11. CASE HourMoves
  <2>1. air' \in Nat /\ air' < air /\ Committed' = Committed
    BY <1>2, <1>11 DEF HourMoves, Committed
  <2> QED
    BY <1>1, <1>2, <1>3, <2>1
<1> QED
  BY <1>6, <1>7, <1>8, <1>9, <1>10, <1>11 DEF Next, TxLoop

\* BudgetBounded of Site: with n radios the site's budget is overrun by less
\* than n frames, although Acquire looks at it before it waits and airtime is
\* accounted for after the turn was given back.
THEOREM BudgetIsBounded == Spec => []BudgetBounded
<1>1. Init => BudgetBounded
  <2> SUFFICES ASSUME Init, 0 \notin Limits
               PROVE  air + Ms * Cardinality(Committed)
                        < MaxLimit + Ms * Cardinality(Hosts)
    BY DEF BudgetBounded
  <2>1. Cardinality(Committed) = 0
    <3>1. Committed = {}
      BY DEF Init, Committed
    <3> QED
      BY <3>1, FS_EmptySet
  <2>2. Ms * Cardinality(Committed) = 0
    BY <2>1, SiteAssumption
  <2>3. Ms * Cardinality(Hosts) \in Nat
    BY SomeHosts, SiteAssumption
  <2>4. MaxLimit \in Nat /\ MaxLimit > 0
    <3>1. limit \in 0..MaxLimit /\ limit # 0
      BY SiteAssumption DEF Init
    <3> QED
      BY <3>1, SiteAssumption
  <2> QED
    BY <2>2, <2>3, <2>4, SiteAssumption DEF Init
<1> QED
  BY <1>1, BudgetStep, InitTypeOK, TypeStep, PTL DEF Spec

-----------------------------------------------------------------------------
(* The gate implements AirSpace.                                           *)

LEMMA InitRefines == Init => Promise!Init
  BY DEF Init, Promise!Init

LEMMA StepRefines == IInv /\ [Next]_vars => [Promise!Next]_onAir
<1> SUFFICES ASSUME IInv, [Next]_vars, onAir' # onAir PROVE Promise!Next
  OBVIOUS
<1> USE SiteAssumption DEF IInv, TypeOK, Stages
<1>1. ASSUME NEW h \in Hosts, TakeTurn(h) PROVE Promise!Next
  <2>1. mine[h] \in Spans /\ onAir[h] = None
    BY <1>1 DEF TakeTurn, TurnIsHeld
  <2>2. Promise!KeyUp(h, mine[h])
    BY <1>1, <2>1 DEF TakeTurn, Busy, Overlap, Promise!KeyUp, Promise!Overlap
  <2> QED
    BY <2>1, <2>2 DEF Promise!Next
<1>2. ASSUME NEW h \in Hosts, GiveBack(h) \/ Sent(h) \/ Leave(h) PROVE Promise!Next
  <2>1. onAir' = [onAir EXCEPT ![h] = None] /\ onAir[h] # None
    BY <1>2 DEF GiveBack, Sent, Leave, Release, TurnIsHeld
  <2>2. Promise!KeyDown(h)
    BY <2>1 DEF Promise!KeyDown
  <2> QED
    BY <2>2 DEF Promise!Next
<1>3. \E h \in Hosts : TakeTurn(h) \/ GiveBack(h) \/ Sent(h) \/ Leave(h)
  BY DEF Next, TxLoop, Ask, Wait, Wake, Cancel, Send, Account, Stop, KeptOut, Configure,
         Retune, SetDutyCyclePct, HourMoves, Shutdown, vars
<1> QED
  BY <1>1, <1>2, <1>3

\* TurnsAreExclusive of Site: Acquire, release and everything around them
\* implement the abstract gate of AirSpace, with the recorded spans as turns.
THEOREM SiteImplementsAirSpace == Spec => TurnsAreExclusive
  BY InitRefines, StepRefines, IInvHolds, PTL DEF Spec, TurnsAreExclusive, Promise!Spec
=============================================================================
