--------------------------- MODULE ChatStoreProofs ---------------------------
(***************************************************************************)
(* What module ChatStore promises for every set of identities, messages    *)
(* and limits.  What is said about the file holds where the node numbers   *)
(* of the host fit a positive int (IdsFit): always where int has 64 bits,  *)
(* and for the lower half of the node numbers where it has 32.             *)
(***************************************************************************)
EXTENDS ChatStore, SequenceTheorems, TLAPS

IdsFit == \A n \in Ids : n < 2^(IntBits - 1)

Pending(m) == m.dir = "out" /\ m.status \in {"queued", "sent"}

\* A list in a file is no longer than a chat.
FileIsShort(f) == f # None => \A t \in DOMAIN f : Len(f[t]) <= MaxKept
FilesAreShort == FileIsShort(file) /\ FileIsShort(writing)

\* f brings the chats p back.
Restores(f, p) == \A n \in Ids : Loaded(NoChats, f)[n] = FailUnacked(p[n])

\* Loops run between Load and Stop: only then is a file being written.
Saving ==
  /\ writing # None => up = "up"
  /\ up = "starting" /\ ~dirty => per = NoChats

\* What is on its way to the file is what the chats are, unless they changed since.
WritingIsCurrent == writing # None /\ ~dirty => Restores(writing, per)

\* What a clean stop left is what the file will bring back at the next start.
KeptIsInFile ==
  kept # None => up \in {"down", "starting"} /\ \A n \in Ids : Loaded(NoChats, file)[n] = kept[n]

Inv == TypeOK /\ FilesAreShort /\ Saving /\ PendingIsFresh
IInv == Inv /\ WritingIsCurrent /\ CleanMeansSaved /\ KeptIsInFile

-----------------------------------------------------------------------------
(* Lemmas about the chats: what failUnacked, Add and SetStatus make of one. *)

LEMMA EmptyChat == NoChats \in Chats /\ FailUnacked(<<>>) = <<>>
  BY DEF NoChats, Chats, FailUnacked

LEMMA FailedIsMessage ==
  ASSUME NEW m \in Messages PROVE [m EXCEPT !.status = "failed"] \in Messages
  BY DEF Messages, Statuses

LEMMA FailUnackedSeq ==
  ASSUME NEW l \in Seq(Messages)
  PROVE  /\ FailUnacked(l) \in Seq(Messages) /\ Len(FailUnacked(l)) = Len(l)
         /\ \A i \in 1..Len(l) : ~Pending(FailUnacked(l)[i])
         /\ FailUnacked(FailUnacked(l)) = FailUnacked(l)
<1> DEFINE k == FailUnacked(l)
<1>1. \A i \in 1..Len(l) : l[i] \in Messages
  BY ElementOfSeq
<1>2. Len(l) \in Nat
  BY LenProperties
<1>3. k = [i \in 1..Len(l) |-> k[i]] /\ \A i \in 1..Len(l) :
        k[i] = IF Pending(l[i]) THEN [l[i] EXCEPT !.status = "failed"] ELSE l[i]
  BY DEF FailUnacked, Pending
<1>4. \A i \in 1..Len(l) : k[i] \in Messages /\ ~Pending(k[i])
  BY <1>1, <1>3, FailedIsMessage DEF Pending, Messages
<1> HIDE DEF k
<1>5. k \in [1..Len(l) -> Messages]
  BY <1>3, <1>4
<1>6. k \in Seq(Messages) /\ Len(k) = Len(l)
  BY <1>2, <1>5
<1>7. FailUnacked(k) = [i \in 1..Len(k) |-> IF Pending(k[i]) THEN [k[i] EXCEPT !.status = "failed"] ELSE k[i]]
  BY DEF FailUnacked, Pending
<1>8. FailUnacked(k) = [i \in 1..Len(l) |-> k[i]]
  BY <1>4, <1>6, <1>7
<1> QED
  BY <1>3, <1>4, <1>6, <1>8 DEF k

LEMMA AddedSeq ==
  ASSUME NEW l \in Seq(Messages), NEW m \in Messages, Len(l) <= MaxKept
  PROVE  /\ Added(l, m) \in Seq(Messages) /\ Len(Added(l, m)) <= MaxKept
         /\ \A i \in 1..Len(Added(l, m)) :
              Added(l, m)[i] = m \/ \E j \in 1..Len(l) : Added(l, m)[i] = l[j]
<1> DEFINE all == Append(l, m)
<1>1. all \in Seq(Messages) /\ Len(all) = Len(l) + 1 /\ Len(l) \in Nat
  OBVIOUS
<1>2. \A i \in 1..Len(all) : all[i] \in Messages /\ (all[i] = m \/ \E j \in 1..Len(l) : all[i] = l[j])
  OBVIOUS
<1> HIDE DEF all
<1>3. CASE Len(all) <= MaxKept
  <2>1. Added(l, m) = all
    BY <1>1, <1>3, ChatAssumption DEF Added, all
  <2> QED
    BY <1>1, <1>2, <1>3, <2>1
<1>4. CASE Len(all) > MaxKept
  <2> DEFINE a == Len(all) - MaxKept + 1
  <2>1. Added(l, m) = SubSeq(all, a, Len(all)) /\ a \in 1..Len(all) /\ Len(all) - a + 1 = MaxKept
    BY <1>1, <1>4, ChatAssumption DEF Added, all
  <2>2. \A i \in a..Len(all) : all[i] \in Messages
    BY <1>2, <2>1, <1>1
  <2> HIDE DEF a
  <2>3. /\ SubSeq(all, a, Len(all)) \in Seq(Messages)
        /\ Len(SubSeq(all, a, Len(all))) = MaxKept
        /\ \A i \in 1..MaxKept : SubSeq(all, a, Len(all))[i] = all[a + i - 1]
    <3>1. a \in Int /\ Len(all) \in Int /\ a <= Len(all)
      BY <1>1, <2>1
    <3>2. SubSeq(all, a, Len(all)) \in Seq(Messages)
          /\ Len(SubSeq(all, a, Len(all))) = (IF a <= Len(all) THEN Len(all) - a + 1 ELSE 0)
          /\ \A i \in 1..Len(all) - a + 1 : SubSeq(all, a, Len(all))[i] = all[a + i - 1]
      BY <3>1, <2>2, SubSeqProperties
    <3> QED
      BY <2>1, <3>1, <3>2
  <2>4. \A i \in 1..MaxKept : a + i - 1 \in 1..Len(all)
    BY <1>1, <2>1, ChatAssumption
  <2> QED
    BY <1>2, <2>1, <2>3, <2>4, ChatAssumption
<1> QED
  BY <1>1, <1>3, <1>4, ChatAssumption

-----------------------------------------------------------------------------
(* Lemmas about the file: what Save writes and Load reads. *)

LEMMA SavedIsFile ==
  ASSUME NEW p \in Chats, \A n \in Ids : Len(p[n]) <= MaxKept
  PROVE  IsFile(Saved(p)) /\ Saved(p) # None /\ FileIsShort(Saved(p))
<1> DEFINE ids == {n \in Ids : p[n] # <<>>}
           texts == {Text(n) : n \in ids}
<1>1. Saved(p) = [t \in texts |-> p[CHOOSE n \in ids : Text(n) = t]]
  BY DEF Saved
<1>2. \A t \in texts : (CHOOSE n \in ids : Text(n) = t) \in Ids
  OBVIOUS
<1>3. \A t \in texts : Saved(p)[t] \in Seq(Messages) /\ Len(Saved(p)[t]) <= MaxKept
  BY <1>1, <1>2 DEF Chats
<1>4. texts \in SUBSET {Text(n) : n \in Ids} /\ Saved(p) \in [texts -> Seq(Messages)]
  BY <1>1, <1>3
<1>5. IsFile(Saved(p))
  BY <1>4 DEF IsFile
<1> QED
  BY <1>1, <1>3, <1>5, ChatAssumption DEF FileIsShort

\* A chat that can be read is the same whatever was in memory, and failUnacked has seen it.
LEMMA LoadedEntry ==
  ASSUME NEW f, IsFile(f), FileIsShort(f), f # None, NEW n \in Readable(f)
  PROVE  \E l \in Seq(Messages) : Len(l) <= MaxKept /\ \A p : Loaded(p, f)[n] = FailUnacked(l)
<1> DEFINE t == CHOOSE t \in DOMAIN f : n \in Parsed(t)
<1>1. n \in Ids /\ t \in DOMAIN f
  BY DEF Readable
<1>2. f[t] \in Seq(Messages) /\ Len(f[t]) <= MaxKept
  BY <1>1 DEF IsFile, FileIsShort
<1>3. \A p : Loaded(p, f)[n] = FailUnacked(f[t])
  BY <1>1 DEF Loaded
<1> QED
  BY <1>2, <1>3

LEMMA LoadedChats ==
  ASSUME NEW p \in Chats, \A n \in Ids : Len(p[n]) <= MaxKept, NEW f, f = None \/ IsFile(f), FileIsShort(f)
  PROVE  /\ Loaded(p, f) \in Chats /\ \A n \in Ids : Len(Loaded(p, f)[n]) <= MaxKept
         /\ Loaded(NoChats, f) \in Chats
         /\ \A n \in Ids : FailUnacked(Loaded(NoChats, f)[n]) = Loaded(NoChats, f)[n]
         /\ \A n \in Ids : IF n \in Readable(f)
              THEN /\ Loaded(p, f)[n] = Loaded(NoChats, f)[n]
                   /\ \A i \in 1..Len(Loaded(p, f)[n]) : ~Pending(Loaded(p, f)[n][i])
              ELSE Loaded(p, f)[n] = p[n] /\ Loaded(NoChats, f)[n] = <<>>
<1>1. ASSUME NEW n \in Ids, n \notin Readable(f)
      PROVE  Loaded(p, f)[n] = p[n] /\ Loaded(NoChats, f)[n] = <<>>
  BY <1>1 DEF Loaded, NoChats
<1>2. ASSUME NEW n \in Readable(f)
      PROVE  /\ Loaded(p, f)[n] \in Seq(Messages) /\ Len(Loaded(p, f)[n]) <= MaxKept
             /\ Loaded(p, f)[n] = Loaded(NoChats, f)[n]
             /\ FailUnacked(Loaded(p, f)[n]) = Loaded(p, f)[n]
             /\ \A i \in 1..Len(Loaded(p, f)[n]) : ~Pending(Loaded(p, f)[n][i])
  <2>1. f # None /\ IsFile(f)
    BY <1>2, ChatAssumption DEF Readable
  <2>2. PICK l \in Seq(Messages) : Len(l) <= MaxKept /\ \A q : Loaded(q, f)[n] = FailUnacked(l)
    BY <1>2, <2>1, LoadedEntry
  <2> QED
    BY <2>2, FailUnackedSeq
<1>3. \A q : Loaded(q, f) = [n \in Ids |-> Loaded(q, f)[n]]
  BY DEF Loaded
<1>4. \A n \in Ids : Loaded(p, f)[n] \in Seq(Messages) /\ Len(Loaded(p, f)[n]) <= MaxKept
  BY <1>1, <1>2 DEF Chats
<1>5. \A n \in Ids : Loaded(NoChats, f)[n] \in Seq(Messages)
  BY <1>1, <1>2, EmptySeq
<1>6. Loaded(p, f) \in Chats /\ Loaded(NoChats, f) \in Chats
  BY <1>3, <1>4, <1>5 DEF Chats
<1> QED
  BY <1>1, <1>2, <1>4, <1>6, EmptyChat

\* "Load restores messages saved by Save", where an int holds every node number of the host.
LEMMA SavedComesBack ==
  ASSUME IdsFit, NEW p \in Chats, \A n \in Ids : Len(p[n]) <= MaxKept
  PROVE  Restores(Saved(p), p)
<1> SUFFICES ASSUME NEW n \in Ids PROVE Loaded(NoChats, Saved(p))[n] = FailUnacked(p[n])
  BY DEF Restores
<1> DEFINE ids == {k \in Ids : p[k] # <<>>}
           f == Saved(p)
<1>1. \A k \in Ids : Text(k) = k /\ k \in 0..(2^NodeBits - 1)
  BY ChatAssumption DEF IdsFit, Text, GoInt
<1>2. {Text(k) : k \in ids} = ids
  BY <1>1
<1>3. f = [t \in ids |-> p[CHOOSE k \in ids : Text(k) = t]]
  BY <1>2 DEF Saved
<1>4. \A t \in ids : (CHOOSE k \in ids : Text(k) = t) = t
  BY <1>1
<1>5. DOMAIN f = ids /\ \A t \in ids : f[t] = p[t]
  BY <1>3, <1>4
<1>6. f # None
  BY SavedIsFile
<1> HIDE DEF f
<1>7. CASE n \in ids
  <2>1. \A t \in ids : n \in Parsed(t) <=> t = n
    BY <1>1, <1>7 DEF Parsed
  <2>2. n \in Readable(f) /\ (CHOOSE t \in DOMAIN f : n \in Parsed(t)) = n
    BY <1>5, <1>6, <1>7, <2>1 DEF Readable
  <2> QED
    BY <1>5, <1>7, <2>2 DEF Loaded, f
<1>8. CASE n \notin ids
  <2>1. n \notin Readable(f)
    BY <1>5, <1>8 DEF Readable, Parsed
  <2>2. Loaded(NoChats, f)[n] = <<>>
    BY <2>1 DEF Loaded, NoChats
  <2> QED
    BY <1>8, <2>2, EmptyChat DEF f
<1> QED
  BY <1>7, <1>8

-----------------------------------------------------------------------------
(* Lemmas about the two operations on chats. *)

LEMMA AddChats ==
  ASSUME TypeOK, NEW n \in Ids, NEW m \in NewMessages, Add(n, m)
  PROVE  /\ m \in Messages /\ per' = [per EXCEPT ![n] = Added(per[n], m)]
         /\ per' \in Chats /\ \A k \in Ids : Len(per'[k]) <= MaxKept
<1>1. m \in Messages /\ per \in [Ids -> Seq(Messages)] /\ Len(per[n]) <= MaxKept
  BY DEF NewMessages, TypeOK, Chats
<1>2. Added(per[n], m) \in Seq(Messages) /\ Len(Added(per[n], m)) <= MaxKept
  BY <1>1, AddedSeq
<1> QED
  BY <1>1, <1>2 DEF Add, TypeOK, Chats

LEMMA StatusChats ==
  ASSUME TypeOK, NEW n \in Ids, NEW id \in MsgIds, NEW s \in {"sent", "acked", "failed"}, SetStatus(n, id, s)
  PROVE  /\ per' \in Chats /\ \A k \in Ids : Len(per'[k]) = Len(per[k])
         /\ \A k \in Ids : \A j \in 1..Len(per[k]) :
              \/ per'[k][j] = per[k][j]
              \/ per'[k][j].id = id /\ per'[k][j].status = s
<1>1. PICK i \in 1..Len(per[n]) : per[n][i].id = id /\ per' = [per EXCEPT ![n][i].status = s]
  BY DEF SetStatus
<1> DEFINE e == [per[n][i] EXCEPT !.status = s]
<1>2. per \in [Ids -> Seq(Messages)] /\ per[n] \in Seq(Messages)
  BY DEF TypeOK, Chats
<1>3. per[n][i] \in Messages
  BY <1>2, ElementOfSeq
<1>4. e \in Messages /\ e.id = id /\ e.status = s
  BY <1>1, <1>3 DEF Messages, Statuses
<1>5. per' = [per EXCEPT ![n] = [per[n] EXCEPT ![i] = e]]
  BY <1>1, <1>2
<1> HIDE DEF e
<1>6. /\ [per[n] EXCEPT ![i] = e] \in Seq(Messages)
      /\ Len([per[n] EXCEPT ![i] = e]) = Len(per[n])
      /\ \A j \in 1..Len(per[n]) : [per[n] EXCEPT ![i] = e][j] = IF j = i THEN e ELSE per[n][j]
  BY <1>2, <1>4, ExceptSeq
<1> QED
  BY <1>2, <1>4, <1>5, <1>6 DEF Chats

LEMMA FailedChats ==
  ASSUME TypeOK PROVE [n \in Ids |-> FailUnacked(per[n])] \in Chats
  BY FailUnackedSeq DEF TypeOK, Chats

-----------------------------------------------------------------------------
(* Type correctness, with the lengths of the lists in files. *)

LEMMA InitInv == Init => Inv
<1> SUFFICES ASSUME Init PROVE Inv
  OBVIOUS
<1>1. \A n \in Ids : Len(per[n]) <= MaxKept
  BY ChatAssumption, EmptySeq DEF Init, NoChats
<1>2. FlagsOK
  BY DEF Init, FlagsOK
<1>3. TypeOK
  BY <1>1, <1>2, EmptyChat DEF Init, TypeOK, Stages
<1> QED
  BY <1>3 DEF Init, Inv, FilesAreShort, FileIsShort, Saving, PendingIsFresh

LEMMA FlagsStep == FlagsOK /\ [Next]_vars => FlagsOK'
<1> SUFFICES ASSUME FlagsOK, [Next]_vars PROVE FlagsOK'
  OBVIOUS
<1> USE DEF FlagsOK
<1>1. CASE Start
  BY <1>1 DEF Start
<1>2. CASE Load
  BY <1>2 DEF Load
<1>3. ASSUME NEW n \in Ids, NEW m \in NewMessages, Add(n, m) PROVE FlagsOK'
  BY <1>3 DEF Add
<1>4. ASSUME NEW n \in Ids, NEW id \in MsgIds, NEW s \in {"sent", "acked", "failed"}, SetStatus(n, id, s) PROVE FlagsOK'
  BY <1>4 DEF SetStatus, histVars
<1>5. CASE BeginSave
  BY <1>5 DEF BeginSave, histVars
<1>6. CASE Written
  BY <1>6 DEF Written
<1>7. CASE WriteFails
  BY <1>7 DEF WriteFails
<1>8. CASE Stop
  BY <1>8 DEF Stop, histVars
<1>9. ASSUME NEW ok \in BOOLEAN, LastSave(ok) PROVE FlagsOK'
  BY <1>9 DEF LastSave
<1>10. CASE Exit
  BY <1>10 DEF Exit
<1>11. CASE Crash
  BY <1>11 DEF Crash
<1>12. CASE UNCHANGED vars
  BY <1>12 DEF vars
<1> QED
  BY <1>1, <1>2, <1>3, <1>4, <1>5, <1>6, <1>7, <1>8, <1>9, <1>10, <1>11, <1>12
     DEF Next

LEMMA SavingStep == TypeOK /\ Saving /\ [Next]_vars => Saving'
<1> SUFFICES ASSUME TypeOK, Saving, [Next]_vars PROVE Saving'
  OBVIOUS
<1> USE DEF Saving
<1>1. CASE Start
  BY <1>1 DEF Start, TypeOK
<1>2. CASE Load
  BY <1>2 DEF Load
<1>3. ASSUME NEW n \in Ids, NEW m \in NewMessages, Add(n, m) PROVE Saving'
  BY <1>3 DEF Add
<1>4. ASSUME NEW n \in Ids, NEW id \in MsgIds, NEW s \in {"sent", "acked", "failed"}, SetStatus(n, id, s) PROVE Saving'
  BY <1>4 DEF SetStatus, histVars
<1>5. CASE BeginSave
  BY <1>5 DEF BeginSave, histVars
<1>6. CASE Written
  BY <1>6 DEF Written
<1>7. CASE WriteFails
  BY <1>7 DEF WriteFails
<1>8. CASE Stop
  BY <1>8 DEF Stop, histVars
<1>9. ASSUME NEW ok \in BOOLEAN, LastSave(ok) PROVE Saving'
  BY <1>9 DEF LastSave
<1>10. CASE Exit
  BY <1>10 DEF Exit, TypeOK
<1>11. CASE Crash
  BY <1>11 DEF Crash
<1>12. CASE UNCHANGED vars
  BY <1>12 DEF vars
<1> QED
  BY <1>1, <1>2, <1>3, <1>4, <1>5, <1>6, <1>7, <1>8, <1>9, <1>10, <1>11, <1>12
     DEF Next

LEMMA FilesAreShortStep == TypeOK /\ FilesAreShort /\ [Next]_vars => FilesAreShort'
<1> SUFFICES ASSUME TypeOK, FilesAreShort, [Next]_vars PROVE FilesAreShort'
  OBVIOUS
<1> USE DEF FilesAreShort, FileIsShort
<1>1. CASE Start
  BY <1>1 DEF Start
<1>2. CASE Load
  BY <1>2 DEF Load
<1>3. ASSUME NEW n \in Ids, NEW m \in NewMessages, Add(n, m) PROVE FilesAreShort'
  BY <1>3 DEF Add
<1>4. ASSUME NEW n \in Ids, NEW id \in MsgIds, NEW s \in {"sent", "acked", "failed"}, SetStatus(n, id, s) PROVE FilesAreShort'
  BY <1>4 DEF SetStatus, histVars
<1>5. CASE BeginSave
  <2>1. writing' = Saved(per) /\ FileIsShort(Saved(per))
    BY <1>5, SavedIsFile DEF BeginSave, TypeOK
  <2> QED
    BY <1>5, <2>1 DEF BeginSave, histVars
<1>6. CASE Written
  BY <1>6 DEF Written
<1>7. CASE WriteFails
  BY <1>7 DEF WriteFails
<1>8. CASE Stop
  BY <1>8 DEF Stop, histVars
<1>9. ASSUME NEW ok \in BOOLEAN, LastSave(ok) PROVE FilesAreShort'
  <2>1. FileIsShort(Saved(per))
    BY SavedIsFile DEF TypeOK
  <2> QED
    BY <1>9, <2>1 DEF LastSave
<1>10. CASE Exit
  BY <1>10 DEF Exit
<1>11. CASE Crash
  BY <1>11 DEF Crash
<1>12. CASE UNCHANGED vars
  BY <1>12 DEF vars
<1> QED
  BY <1>1, <1>2, <1>3, <1>4, <1>5, <1>6, <1>7, <1>8, <1>9, <1>10, <1>11, <1>12
     DEF Next

LEMMA TypeStep == TypeOK /\ FilesAreShort /\ Saving /\ [Next]_vars => TypeOK'
<1> SUFFICES ASSUME TypeOK, FilesAreShort, Saving, [Next]_vars PROVE TypeOK'
  OBVIOUS
<1> USE FlagsStep DEF TypeOK, Stages
<1>1. CASE Start
  BY <1>1 DEF Start
<1>2. CASE Load
  <2>1. Loaded(per, file) \in Chats /\ \A n \in Ids : Len(Loaded(per, file)[n]) <= MaxKept
    BY LoadedChats DEF FilesAreShort
  <2> QED
    BY <1>2, <2>1 DEF Load
<1>3. ASSUME NEW n \in Ids, NEW m \in NewMessages, Add(n, m) PROVE TypeOK'
  <2>1. per' \in Chats /\ (\A k \in Ids : Len(per'[k]) <= MaxKept) /\ m \in Messages
    BY <1>3, AddChats
  <2> QED
    BY <1>3, <2>1 DEF Add, Messages
<1>4. ASSUME NEW n \in Ids, NEW id \in MsgIds, NEW s \in {"sent", "acked", "failed"}, SetStatus(n, id, s) PROVE TypeOK'
  <2>1. per' \in Chats /\ \A k \in Ids : Len(per'[k]) <= MaxKept
    BY <1>4, StatusChats
  <2> QED
    BY <1>4, <2>1 DEF SetStatus, histVars
<1>5. CASE BeginSave
  <2>1. IsFile(Saved(per))
    BY SavedIsFile
  <2> QED
    BY <1>5, <2>1 DEF BeginSave, histVars
<1>6. CASE Written
  BY <1>6 DEF Written
<1>7. CASE WriteFails
  BY <1>7 DEF WriteFails
<1>8. CASE Stop
  BY <1>8 DEF Stop, histVars
<1>9. ASSUME NEW ok \in BOOLEAN, LastSave(ok) PROVE TypeOK'
  <2>1. IsFile(Saved(per))
    BY SavedIsFile
  <2> QED
    BY <1>9, <2>1 DEF LastSave
<1>10. CASE Exit
  <2>1. NoChats \in Chats /\ \A n \in Ids : Len(NoChats[n]) <= MaxKept
    BY EmptyChat, EmptySeq, ChatAssumption DEF NoChats
  <2> QED
    BY <1>10, <2>1, FailedChats DEF Exit, Saving
<1>11. CASE Crash
  <2>1. NoChats \in Chats /\ \A n \in Ids : Len(NoChats[n]) <= MaxKept
    BY EmptyChat, EmptySeq, ChatAssumption DEF NoChats
  <2> QED
    BY <1>11, <2>1 DEF Crash
<1>12. CASE UNCHANGED vars
  BY <1>12 DEF vars
<1> QED
  BY <1>1, <1>2, <1>3, <1>4, <1>5, <1>6, <1>7, <1>8, <1>9, <1>10, <1>11, <1>12
     DEF Next
LEMMA PendingStep == TypeOK /\ FilesAreShort /\ PendingIsFresh /\ [Next]_vars => PendingIsFresh'
<1> SUFFICES ASSUME TypeOK, FilesAreShort, PendingIsFresh, [Next]_vars PROVE PendingIsFresh'
  OBVIOUS
<1> USE DEF PendingIsFresh
<1>1. CASE Start
  <2>1. \A n \in Ids : Len(per'[n]) = 0
    BY <1>1, EmptySeq DEF Start, TypeOK, NoChats
  <2> QED
    BY <1>1, <2>1
<1>2. CASE Load
  <2>1. ASSUME NEW n \in Ids, NEW i \in 1..Len(per'[n]), Pending(per'[n][i]) PROVE per'[n][i].id \in fresh'
    <3>1. per' = Loaded(per, file) /\ fresh' = fresh /\ up = "starting"
      BY <1>2 DEF Load
    <3>2. n \notin Readable(file) /\ per'[n] = per[n]
      BY <2>1, <3>1, LoadedChats DEF TypeOK, FilesAreShort
    <3> QED
      BY <2>1, <3>1, <3>2 DEF Pending
  <2> QED
    BY <2>1 DEF Pending
<1>3. ASSUME NEW n \in Ids, NEW m \in NewMessages, Add(n, m) PROVE PendingIsFresh'
  <2>1. ASSUME NEW k \in Ids, NEW i \in 1..Len(per'[k]), Pending(per'[k][i]) PROVE per'[k][i].id \in fresh'
    <3>1. per' = [per EXCEPT ![n] = Added(per[n], m)] /\ m \in Messages /\ per \in [Ids -> Seq(Messages)]
      BY <1>3, AddChats DEF TypeOK, Chats
    <3>2. up # "down" /\ fresh' = IF m.dir = "out" THEN fresh \cup {m.id} ELSE fresh
      BY <1>3 DEF Add
    <3>3. CASE k # n
      BY <2>1, <3>1, <3>2, <3>3 DEF Pending
    <3>4. CASE k = n
      <4>1. per'[n][i] = m \/ \E j \in 1..Len(per[n]) : per'[n][i] = per[n][j]
        BY <2>1, <3>1, <3>4, AddedSeq DEF TypeOK
      <4> QED
        BY <2>1, <3>2, <3>4, <4>1 DEF Pending
    <3> QED
      BY <3>3, <3>4
  <2> QED
    BY <2>1 DEF Pending
<1>4. ASSUME NEW n \in Ids, NEW id \in MsgIds, NEW s \in {"sent", "acked", "failed"}, SetStatus(n, id, s) PROVE PendingIsFresh'
  <2>1. ASSUME NEW k \in Ids, NEW i \in 1..Len(per'[k]), Pending(per'[k][i]) PROVE per'[k][i].id \in fresh'
    <3>1. i \in 1..Len(per[k])
      BY <1>4, StatusChats
    <3>2. per'[k][i] = per[k][i] \/ (per'[k][i].id = id /\ per'[k][i].status = s)
      BY <1>4, <3>1, StatusChats
    <3>3. up # "down" /\ (s = "sent" => id \in fresh) /\ fresh' = fresh
      BY <1>4 DEF SetStatus, histVars
    <3> QED
      BY <2>1, <3>1, <3>2, <3>3 DEF Pending
  <2> QED
    BY <2>1 DEF Pending
<1>5. CASE BeginSave
  BY <1>5 DEF BeginSave, histVars
<1>6. CASE Written
  BY <1>6 DEF Written
<1>7. CASE WriteFails
  BY <1>7 DEF WriteFails
<1>8. CASE Stop
  BY <1>8 DEF Stop, histVars
<1>9. ASSUME NEW ok \in BOOLEAN, LastSave(ok) PROVE PendingIsFresh'
  BY <1>9 DEF LastSave
<1>10. CASE Exit
  BY <1>10 DEF Exit
<1>11. CASE Crash
  BY <1>11 DEF Crash
<1>12. CASE UNCHANGED vars
  BY <1>12 DEF vars
<1> QED
  BY <1>1, <1>2, <1>3, <1>4, <1>5, <1>6, <1>7, <1>8, <1>9, <1>10, <1>11, <1>12
     DEF Next

LEMMA InvStep == Inv /\ [Next]_vars => Inv'
  BY TypeStep, FilesAreShortStep, SavingStep, PendingStep DEF Inv

THEOREM ChatInductive == Spec => []Inv
  BY InitInv, InvStep, PTL DEF Spec

\* TypeOK of ChatStore: among others no chat ever holds more than MaxKept messages, added
\* one by one or restored from the file.
THEOREM ChatTypeCorrect == Spec => []TypeOK
  BY ChatInductive, PTL DEF Inv

\* PendingIsFresh: no process shows a message as queued or sent that an earlier one sent,
\* whatever is added before the file is loaded and wherever the earlier one died.
THEOREM ChatPendingIsFresh == Spec => []PendingIsFresh
  BY ChatInductive, PTL DEF Inv

-----------------------------------------------------------------------------
(* The chats and their file. *)

LEMMA WritingStep == IdsFit /\ Inv /\ WritingIsCurrent /\ [Next]_vars => WritingIsCurrent'
<1> SUFFICES ASSUME IdsFit, Inv, WritingIsCurrent, [Next]_vars PROVE WritingIsCurrent'
  OBVIOUS
<1> USE DEF Inv, Saving, WritingIsCurrent
<1>1. CASE Start
  BY <1>1 DEF Start, TypeOK
<1>2. CASE Load
  BY <1>2 DEF Load
<1>3. ASSUME NEW n \in Ids, NEW m \in NewMessages, Add(n, m) PROVE WritingIsCurrent'
  BY <1>3 DEF Add
<1>4. ASSUME NEW n \in Ids, NEW id \in MsgIds, NEW s \in {"sent", "acked", "failed"}, SetStatus(n, id, s) PROVE WritingIsCurrent'
  BY <1>4 DEF SetStatus, histVars
<1>5. CASE BeginSave
  <2>1. Restores(Saved(per), per)
    BY SavedComesBack DEF Inv, TypeOK
  <2> QED
    BY <1>5, <2>1 DEF BeginSave, histVars
<1>6. CASE Written
  BY <1>6 DEF Written
<1>7. CASE WriteFails
  BY <1>7 DEF WriteFails
<1>8. CASE Stop
  BY <1>8 DEF Stop, histVars
<1>9. ASSUME NEW ok \in BOOLEAN, LastSave(ok) PROVE WritingIsCurrent'
  BY <1>9 DEF LastSave
<1>10. CASE Exit
  BY <1>10 DEF Exit
<1>11. CASE Crash
  BY <1>11 DEF Crash
<1>12. CASE UNCHANGED vars
  BY <1>12 DEF vars
<1> QED
  BY <1>1, <1>2, <1>3, <1>4, <1>5, <1>6, <1>7, <1>8, <1>9, <1>10, <1>11, <1>12
     DEF Next

LEMMA CleanStep == IdsFit /\ Inv /\ WritingIsCurrent /\ CleanMeansSaved /\ [Next]_vars => CleanMeansSaved'
<1> SUFFICES ASSUME IdsFit, Inv, WritingIsCurrent, CleanMeansSaved, [Next]_vars PROVE CleanMeansSaved'
  OBVIOUS
<1> USE DEF Inv, Saving, CleanMeansSaved
<1>1. CASE Start
  BY <1>1 DEF Start
<1>2. CASE Load
  <2> SUFFICES ASSUME ~dirty PROVE \A n \in Ids : Loaded(NoChats, file')[n] = FailUnacked(per'[n])
    BY <1>2 DEF Load
  <2>1. per' = Loaded(NoChats, file) /\ file' = file
    BY <1>2 DEF Load
  <2>2. \A n \in Ids : FailUnacked(Loaded(NoChats, file)[n]) = Loaded(NoChats, file)[n]
    BY LoadedChats DEF TypeOK, FilesAreShort
  <2> QED
    BY <2>1, <2>2
<1>3. ASSUME NEW n \in Ids, NEW m \in NewMessages, Add(n, m) PROVE CleanMeansSaved'
  BY <1>3 DEF Add
<1>4. ASSUME NEW n \in Ids, NEW id \in MsgIds, NEW s \in {"sent", "acked", "failed"}, SetStatus(n, id, s) PROVE CleanMeansSaved'
  BY <1>4 DEF SetStatus, histVars
<1>5. CASE BeginSave
  <2>1. Saved(per) # None
    BY SavedIsFile DEF TypeOK
  <2> QED
    BY <1>5, <2>1 DEF BeginSave
<1>6. CASE Written
  BY <1>6 DEF Written, WritingIsCurrent, Restores
<1>7. CASE WriteFails
  BY <1>7 DEF WriteFails
<1>8. CASE Stop
  BY <1>8 DEF Stop, histVars
<1>9. ASSUME NEW ok \in BOOLEAN, LastSave(ok) PROVE CleanMeansSaved'
  <2>1. Restores(Saved(per), per)
    BY SavedComesBack DEF Inv, TypeOK
  <2> QED
    BY <1>9, <2>1 DEF LastSave, Restores
<1>10. CASE Exit
  BY <1>10 DEF Exit
<1>11. CASE Crash
  BY <1>11 DEF Crash
<1>12. CASE UNCHANGED vars
  BY <1>12 DEF vars
<1> QED
  BY <1>1, <1>2, <1>3, <1>4, <1>5, <1>6, <1>7, <1>8, <1>9, <1>10, <1>11, <1>12
     DEF Next

LEMMA KeptStep == IdsFit /\ Inv /\ CleanMeansSaved /\ KeptIsInFile /\ [Next]_vars => KeptIsInFile'
<1> SUFFICES ASSUME IdsFit, Inv, CleanMeansSaved, KeptIsInFile, [Next]_vars PROVE KeptIsInFile'
  OBVIOUS
<1> USE DEF Inv, Saving, KeptIsInFile
<1>1. CASE Start
  BY <1>1 DEF Start
<1>2. CASE Load
  BY <1>2 DEF Load
<1>3. ASSUME NEW n \in Ids, NEW m \in NewMessages, Add(n, m) PROVE KeptIsInFile'
  BY <1>3 DEF Add
<1>4. ASSUME NEW n \in Ids, NEW id \in MsgIds, NEW s \in {"sent", "acked", "failed"}, SetStatus(n, id, s) PROVE KeptIsInFile'
  BY <1>4 DEF SetStatus, histVars
<1>5. CASE BeginSave
  BY <1>5 DEF BeginSave, histVars
<1>6. CASE Written
  BY <1>6 DEF Written
<1>7. CASE WriteFails
  BY <1>7 DEF WriteFails
<1>8. CASE Stop
  BY <1>8 DEF Stop, histVars
<1>9. ASSUME NEW ok \in BOOLEAN, LastSave(ok) PROVE KeptIsInFile'
  BY <1>9 DEF LastSave
<1>10. CASE Exit
  <2> SUFFICES ASSUME kept' # None PROVE \A n \in Ids : Loaded(NoChats, file)[n] = kept'[n]
    BY <1>10 DEF Exit
  <2>1. ~stale /\ ~dirty /\ up = "saved" /\ kept' = [n \in Ids |-> FailUnacked(per[n])]
    BY <1>10 DEF Exit
  <2> QED
    BY <2>1 DEF CleanMeansSaved
<1>11. CASE Crash
  BY <1>11 DEF Crash
<1>12. CASE UNCHANGED vars
  BY <1>12 DEF vars
<1> QED
  BY <1>1, <1>2, <1>3, <1>4, <1>5, <1>6, <1>7, <1>8, <1>9, <1>10, <1>11, <1>12
     DEF Next

LEMMA FitStep == IdsFit /\ IInv /\ [Next]_vars => IInv'
  BY InvStep, WritingStep, CleanStep, KeptStep DEF IInv, Inv

THEOREM ChatFileInductive == ASSUME IdsFit PROVE Spec => []IInv
<1>1. Init => IInv
  BY InitInv DEF Init, IInv, WritingIsCurrent, CleanMeansSaved, KeptIsInFile
<1>2. IInv /\ [Next]_vars => IInv'
  BY FitStep, IdsFit
<1> QED
  BY <1>1, <1>2, PTL DEF Spec

\* CleanMeansSaved: whenever MessageStore.dirty is off, no save is under way and none failed,
\* the file on disk would bring every chat back as it is.
THEOREM ChatCleanMeansSaved == ASSUME IdsFit PROVE Spec => []CleanMeansSaved
  BY ChatFileInductive, IdsFit, PTL DEF IInv

\* CleanRestartKeepsChats: what a clean stop left is there again when Run has loaded the
\* file, whatever was added before it did.
THEOREM ChatCleanRestartKeepsChats == ASSUME IdsFit PROVE Spec => CleanRestartKeepsChats
<1> DEFINE Back == up = "starting" /\ up' = "up" /\ kept # None =>
                     \A n \in Ids : kept[n] # <<>> => per'[n] = kept[n]
<1>1. IInv /\ [Next]_vars => [Back]_vars
  <2> SUFFICES ASSUME IInv, Next, up = "starting", up' = "up", kept # None, NEW n \in Ids, kept[n] # <<>>
               PROVE  per'[n] = kept[n]
    OBVIOUS
  <2>1. Load
    BY DEF Next, Start, Add, SetStatus, BeginSave, Written, WriteFails, Stop, LastSave, Exit, Crash, histVars
  <2>2. per' = Loaded(per, file) /\ Loaded(NoChats, file)[n] = kept[n]
    BY <2>1 DEF Load, IInv, KeptIsInFile
  <2>3. Loaded(per, file)[n] = Loaded(NoChats, file)[n]
    BY <2>2, LoadedChats DEF IInv, Inv, TypeOK, FilesAreShort
  <2> QED
    BY <2>2, <2>3
<1>2. Spec => [][Back]_vars
  BY <1>1, ChatFileInductive, IdsFit, PTL DEF Spec
<1> QED
  BY <1>2 DEF CleanRestartKeepsChats
-----------------------------------------------------------------------------
(* Save and Load as snapshots: the store implements SavedChats.            *)

\* Save writes no empty list, so that what can be read of a file is what it has chats of.
FileHasChats(f) == f # None => \A t \in DOMAIN f : f[t] # <<>>
FilesHaveChats == FileHasChats(file) /\ FileHasChats(writing)

LEMMA SavedHasChats == ASSUME NEW p \in Chats PROVE FileHasChats(Saved(p))
<1> DEFINE ids == {n \in Ids : p[n] # <<>>}
<1>1. Saved(p) = [t \in {Text(n) : n \in ids} |-> p[CHOOSE n \in ids : Text(n) = t]]
  BY DEF Saved
<1>2. \A t \in {Text(n) : n \in ids} : (CHOOSE n \in ids : Text(n) = t) \in ids
  OBVIOUS
<1> QED
  BY <1>1, <1>2 DEF FileHasChats

LEMMA FilesHaveChatsStep == TypeOK /\ FilesHaveChats /\ [Next]_vars => FilesHaveChats'
<1> SUFFICES ASSUME TypeOK, FilesHaveChats, [Next]_vars PROVE FilesHaveChats'
  OBVIOUS
<1> USE DEF FilesHaveChats, FileHasChats
<1>1. FileHasChats(Saved(per))
  BY SavedHasChats DEF TypeOK
<1>2. CASE BeginSave
  BY <1>1, <1>2 DEF BeginSave
<1>3. CASE Written \/ WriteFails \/ Crash
  BY <1>3 DEF Written, WriteFails, Crash
<1>4. ASSUME NEW ok \in BOOLEAN, LastSave(ok) PROVE FilesHaveChats'
  BY <1>1, <1>4 DEF LastSave
<1>5. CASE UNCHANGED <<file, writing>>
  BY <1>5
<1> QED
  BY <1>2, <1>3, <1>4, <1>5 DEF Next, Start, Load, Add, SetStatus, Stop, Exit, histVars, vars

\* Where Load finds a list it gives that, elsewhere it leaves what was there.
LEMMA LoadedIsRestored ==
  ASSUME TypeOK, FilesAreShort, FilesHaveChats, NEW n \in Ids
  PROVE  FailUnacked(Loaded(per, file)[n]) = IF OnDisk[n] # <<>> THEN OnDisk[n] ELSE Shown[n]
<1>1. CASE n \in Readable(file)
  <2> DEFINE t == CHOOSE t \in DOMAIN file : n \in Parsed(t)
  <2>1. file # None /\ t \in DOMAIN file
    BY <1>1 DEF Readable
  <2>2. IsFile(file) /\ file[t] \in Seq(Messages) /\ file[t] # <<>>
    BY <2>1 DEF TypeOK, IsFile, FilesHaveChats, FileHasChats
  <2>3. Loaded(per, file)[n] = FailUnacked(file[t]) /\ OnDisk[n] = FailUnacked(file[t])
    BY <1>1 DEF Loaded, OnDisk
  <2>4. FailUnacked(FailUnacked(file[t])) = FailUnacked(file[t]) /\ FailUnacked(file[t]) # <<>>
    BY <2>2, FailUnackedSeq, EmptySeq
  <2> QED
    BY <2>3, <2>4
<1>2. CASE n \notin Readable(file)
  BY <1>2 DEF Loaded, NoChats, OnDisk, Shown
<1> QED
  BY <1>1, <1>2

LEMMA ShownChats ==
  ASSUME TypeOK PROVE Shown \in Chats /\ \A n \in Ids : Shown[n] = FailUnacked(per[n])
  BY FailedChats DEF Shown

\* What a save takes is what is shown.
LEMMA TakenIsShown == ASSUME IdsFit, TypeOK PROVE Loaded(NoChats, Saved(per)) = Shown
<1>1. \A n \in Ids : Loaded(NoChats, Saved(per))[n] = FailUnacked(per[n])
  BY SavedComesBack DEF TypeOK, Restores
<1>2. Loaded(NoChats, Saved(per)) = [n \in Ids |-> Loaded(NoChats, Saved(per))[n]]
  BY DEF Loaded
<1> QED
  BY <1>1, <1>2 DEF Shown

\* One chat changes.
LEMMA ChangeRefines ==
  ASSUME TypeOK, TypeOK', NEW n \in Ids, up # "down", per' = [per EXCEPT ![n] = per'[n]],
         UNCHANGED <<up, writing, file>>
  PROVE  Snapshots!Change(n)
<1>1. Shown' \in Chats /\ \A k \in Ids : Shown'[k] = FailUnacked(per'[k])
  <2>1. Shown' = [k \in Ids |-> FailUnacked(per'[k])]
    BY DEF Shown
  <2>2. \A k \in Ids : FailUnacked(per'[k]) \in Seq(Messages)
    BY FailUnackedSeq DEF TypeOK, Chats
  <2> QED
    BY <2>1, <2>2 DEF Chats
<1>2. Shown' = [Shown EXCEPT ![n] = Shown'[n]]
  BY <1>1, ShownChats DEF TypeOK, Chats, Shown
<1>3. Stage # "down" /\ UNCHANGED <<Stage, OnItsWay, OnDisk>>
  BY DEF Stage, OnItsWay, OnDisk
<1> QED
  BY <1>1, <1>2, <1>3 DEF Snapshots!Change, Chats

LEMMA SnapshotsInit == Init => Snapshots!Init
<1> SUFFICES ASSUME Init PROVE Snapshots!Init
  OBVIOUS
<1>1. OnDisk = NoChats /\ Shown = NoChats
  BY EmptyChat DEF Init, OnDisk, Loaded, Readable, Shown, NoChats
<1> QED
  BY <1>1 DEF Init, Snapshots!Init, Snapshots!NoChats, NoChats, Stage, OnItsWay

LEMMA SnapshotsStep ==
  IdsFit /\ Inv /\ Inv' /\ FilesHaveChats /\ [Next]_vars => [Snapshots!Next]_<<Stage, Shown, OnItsWay, OnDisk>>
<1> SUFFICES ASSUME IdsFit, Inv, Inv', FilesHaveChats, [Next]_vars
             PROVE  Snapshots!Next \/ UNCHANGED <<Stage, Shown, OnItsWay, OnDisk>>
  OBVIOUS
<1> USE DEF Inv
<1>1. CASE Start
  <2>1. Snapshots!Boot
    BY <1>1 DEF Start, Snapshots!Boot, Stage, Shown, OnItsWay, OnDisk
  <2> QED
    BY <2>1 DEF Snapshots!Next
<1>2. CASE Load
  <2>1. Stage = "starting" /\ Stage' = "up" /\ UNCHANGED <<OnItsWay, OnDisk>>
    BY <1>2 DEF Load, Stage, OnItsWay, OnDisk
  <2>2. Shown' = [n \in Ids |-> FailUnacked(Loaded(per, file)[n])]
    BY <1>2 DEF Load, Shown
  <2>3. Shown' = [n \in Ids |-> IF OnDisk[n] # <<>> THEN OnDisk[n] ELSE Shown[n]]
    BY <2>2, LoadedIsRestored
  <2>4. Snapshots!Restore
    BY <2>1, <2>3 DEF Snapshots!Restore
  <2> QED
    BY <2>4 DEF Snapshots!Next
<1>3. ASSUME NEW n \in Ids, NEW m \in NewMessages, Add(n, m) PROVE Snapshots!Next
  <2>1. per' = [per EXCEPT ![n] = per'[n]]
    BY <1>3, AddChats DEF TypeOK, Chats
  <2>2. Snapshots!Change(n)
    BY <1>3, <2>1, ChangeRefines DEF Add
  <2> QED
    BY <2>2 DEF Snapshots!Next
<1>4. ASSUME NEW n \in Ids, NEW id \in MsgIds, NEW s \in {"sent", "acked", "failed"}, SetStatus(n, id, s)
      PROVE  Snapshots!Next
  <2>1. PICK i \in 1..Len(per[n]) : per' = [per EXCEPT ![n][i].status = s]
    BY <1>4 DEF SetStatus
  <2>2. per' = [per EXCEPT ![n] = per'[n]]
    BY <2>1 DEF TypeOK, Chats
  <2>3. Snapshots!Change(n)
    BY <1>4, <2>2, ChangeRefines DEF SetStatus
  <2> QED
    BY <2>3 DEF Snapshots!Next
<1>5. CASE BeginSave
  <2>1. Saved(per) # None
    BY SavedIsFile DEF TypeOK
  <2>2. OnItsWay = None /\ OnItsWay' = Shown
    BY <1>5, <2>1, TakenIsShown DEF BeginSave, OnItsWay
  <2>3. Snapshots!Take
    BY <1>5, <2>2 DEF BeginSave, Snapshots!Take, Stage, Shown, OnDisk
  <2> QED
    BY <2>3 DEF Snapshots!Next
<1>6. CASE Written \/ WriteFails
  <2>1. OnItsWay = Loaded(NoChats, writing) /\ OnItsWay' = None
    BY <1>6 DEF Written, WriteFails, OnItsWay
  <2>2. OnItsWay # None
    BY <1>6, <2>1, LoadedChats, ChatAssumption DEF Written, WriteFails, TypeOK, FilesAreShort
  <2>3. Snapshots!Put \/ Snapshots!Fail
    BY <1>6, <2>1, <2>2 DEF Written, WriteFails, Snapshots!Put, Snapshots!Fail, Stage, Shown, OnDisk
  <2> QED
    BY <2>3 DEF Snapshots!Next
<1>7. CASE Stop
  BY <1>7 DEF Stop, Stage, Shown, OnItsWay, OnDisk
<1>8. ASSUME NEW ok \in BOOLEAN, LastSave(ok)
      PROVE  Snapshots!Next \/ UNCHANGED <<Stage, Shown, OnItsWay, OnDisk>>
  <2>1. Stage = "up" /\ OnItsWay = None /\ UNCHANGED <<Stage, Shown, OnItsWay>>
    BY <1>8 DEF LastSave, Saving, Stage, Shown, OnItsWay
  <2>2. CASE file' = file
    BY <2>1, <2>2 DEF OnDisk
  <2>3. CASE file' = Saved(per)
    <3>1. OnDisk' = Shown
      BY <2>3, TakenIsShown DEF OnDisk
    <3>2. Snapshots!PutNow
      BY <2>1, <3>1 DEF Snapshots!PutNow
    <3> QED
      BY <3>2 DEF Snapshots!Next
  <2> QED
    BY <1>8, <2>2, <2>3 DEF LastSave
<1>9. CASE Exit \/ Crash
  <2>1. per' = NoChats /\ up # "down" /\ up' = "down" /\ writing' = None /\ file' = file
    BY <1>9 DEF Exit, Crash, Saving
  <2>2. Shown' = NoChats
    BY <2>1, EmptyChat DEF Shown, NoChats
  <2>3. Snapshots!Die
    BY <2>1, <2>2 DEF Snapshots!Die, Snapshots!NoChats, NoChats, Stage, OnItsWay, OnDisk
  <2> QED
    BY <2>3 DEF Snapshots!Next
<1>10. CASE UNCHANGED vars
  BY <1>10 DEF vars, Stage, Shown, OnItsWay, OnDisk
<1> QED
  BY <1>1, <1>2, <1>3, <1>4, <1>5, <1>6, <1>7, <1>8, <1>9, <1>10 DEF Next

\* SavesAreWhole: with int wide enough for the node numbers, MessageStore's Save and Load, the
\* writing of the file and the ends of the process implement the store of module SavedChats.
THEOREM ChatImplementsSavedChats == ASSUME IdsFit PROVE Spec => SavesAreWhole
<1>1. Init => FilesHaveChats
  BY DEF Init, FilesHaveChats, FileHasChats
<1>2. Inv /\ FilesHaveChats /\ [Next]_vars => FilesHaveChats'
  BY FilesHaveChatsStep DEF Inv
<1>3. Spec => []FilesHaveChats
  BY <1>1, <1>2, ChatInductive, PTL DEF Spec
<1>4. Inv /\ Inv' /\ FilesHaveChats /\ [Next]_vars => [Snapshots!Next]_<<Stage, Shown, OnItsWay, OnDisk>>
  BY SnapshotsStep, IdsFit
<1> QED
  BY <1>3, <1>4, ChatInductive, SnapshotsInit, PTL DEF Spec, SavesAreWhole, Snapshots!Spec
=============================================================================
