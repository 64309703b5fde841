--------------------------- MODULE RecordingProofs ---------------------------
(***************************************************************************)
(* What holds of Recording for any number of channels, any batch size and  *)
(* any number of samples.                                                  *)
(***************************************************************************)
EXTENDS Recording, SequenceTheorems, TLAPS

\* drainTo() splits the queue: what it takes and what it leaves are sequences
\* of samples that make up the queue again.
LEMMA DrainSplitsQueue ==
  ASSUME NEW q \in Seq(Sample), NEW n \in 0..Len(q)
  PROVE  /\ SubSeq(q, 1, n) \in Seq(Sample)
         /\ SubSeq(q, n + 1, Len(q)) \in Seq(Sample)
         /\ Len(SubSeq(q, 1, n)) = n
         /\ Len(SubSeq(q, n + 1, Len(q))) = Len(q) - n
         /\ SubSeq(q, 1, n) \o SubSeq(q, n + 1, Len(q)) = q
<1>1. /\ Len(q) \in Nat
      /\ n \in Nat /\ n <= Len(q)
      /\ \A i \in 1..Len(q) : q[i] \in Sample
  BY LenProperties
<1>2. /\ SubSeq(q, 1, n) \in Seq(Sample)
      /\ Len(SubSeq(q, 1, n)) = n
  <2>1. \A i \in 1..n : q[i] \in Sample
    BY <1>1
  <2>2. 1 \in Int /\ n \in Int
    BY <1>1
  <2>3. Len(SubSeq(q, 1, n)) = IF 1 <= n THEN n - 1 + 1 ELSE 0
    BY <2>1, <2>2, SubSeqProperties
  <2>4. SubSeq(q, 1, n) \in Seq(Sample)
    BY <2>1, <2>2, SubSeqProperties
  <2> QED BY <1>1, <2>3, <2>4
<1>3. /\ SubSeq(q, n + 1, Len(q)) \in Seq(Sample)
      /\ Len(SubSeq(q, n + 1, Len(q))) = Len(q) - n
  <2>1. \A i \in (n + 1)..Len(q) : q[i] \in Sample
    BY <1>1
  <2>2. n + 1 \in Int /\ Len(q) \in Int
    BY <1>1
  <2>3. Len(SubSeq(q, n + 1, Len(q)))
          = IF n + 1 <= Len(q) THEN Len(q) - (n + 1) + 1 ELSE 0
    BY <2>1, <2>2, SubSeqProperties
  <2>4. SubSeq(q, n + 1, Len(q)) \in Seq(Sample)
    BY <2>1, <2>2, SubSeqProperties
  <2> QED BY <1>1, <2>3, <2>4
<1>4. SubSeq(q, 1, n) \o SubSeq(q, n + 1, Len(q)) = q
  <2>1. 1 \in 1..(Len(q) + 1) /\ n \in (1 - 1)..Len(q) /\ Len(q) \in n..Len(q)
    BY <1>1
  <2>2. SubSeq(q, 1, n) \o SubSeq(q, n + 1, Len(q)) = SubSeq(q, 1, Len(q))
    BY <2>1, ConcatAdjacentSubSeq
  <2> QED BY <2>2, SubSeqFull
<1> QED BY <1>2, <1>3, <1>4

LEMMA SampleConcat ==
  ASSUME NEW a \in Seq(Sample), NEW b \in Seq(Sample), NEW c \in Seq(Sample)
  PROVE  (a \o b) \o c = a \o (b \o c)
  BY ConcatAssociative

LEMMA SampleConcatEmpty ==
  ASSUME NEW a \in Seq(Sample)
  PROVE  a \o <<>> = a
  BY ConcatEmptySeq

\* The samples past the old end of a Signal are exactly the appended batch.
LEMMA FreshIsBatch ==
  ASSUME NEW old \in Seq(Sample), NEW batch \in Seq(Sample)
  PROVE  SubSeq(old \o batch, Len(old) + 1, Len(old \o batch)) = batch
<1>1. /\ Len(old) \in Nat /\ Len(batch) \in Nat
      /\ old \o batch \in Seq(Sample)
      /\ Len(old \o batch) = Len(old) + Len(batch)
  BY LenProperties, ConcatProperties
<1>2. CASE batch = <<>>
  <2>1. Len(batch) = 0
    BY <1>2, EmptySeq
  <2>2. SubSeq(old \o batch, Len(old) + 1, Len(old \o batch)) = <<>>
    <3>1. /\ Len(old) + 1 \in Int /\ Len(old \o batch) \in Int
          /\ Len(old \o batch) < Len(old) + 1
      BY <1>1, <2>1
    <3> QED BY <3>1, SubSeqEmpty
  <2> QED BY <1>2, <2>2
<1>3. CASE batch # <<>>
  <2>1. Len(batch) > 0
    BY <1>1, <1>3, EmptySeq
  <2>2. /\ Len(old) + 1 \in (Len(old) + 1)..(Len(old) + Len(batch))
        /\ Len(old \o batch) \in (Len(old) + 1)..(Len(old) + Len(batch))
    BY <1>1, <2>1
  <2>3. SubSeq(old \o batch, Len(old) + 1, Len(old \o batch))
          = SubSeq(batch, (Len(old) + 1) - Len(old), Len(old \o batch) - Len(old))
    BY <2>2, SubSeqOfConcat2
  <2>4. (Len(old) + 1) - Len(old) = 1 /\ Len(old \o batch) - Len(old) = Len(batch)
    BY <1>1
  <2> QED BY <2>3, <2>4, SubSeqFull
<1> QED BY <1>2, <1>3

\* drainTo() never takes more than is queued.
LEMMA DrainableBounded ==
  ASSUME TypeOK, NEW s \in Slot, NEW n \in Drainable(s)
  PROVE  n \in 0..Len(queue[s]) /\ queue[s] \in Seq(Sample)
<1>1. queue[s] \in Seq(Sample) /\ Len(queue[s]) \in Nat /\ armed[s] \in BOOLEAN
  BY LenProperties DEF TypeOK
<1>2. AtMostBatch(s) \in 0..Len(queue[s])
  BY <1>1, BatchAssumption DEF AtMostBatch
<1> QED BY <1>1, <1>2 DEF Drainable

-----------------------------------------------------------------------------
LEMMA TypeInit == Init => TypeOK
<1> SUFFICES ASSUME Init PROVE TypeOK
  OBVIOUS
<1>1. <<>> \in Seq(Sample)
  BY EmptySeq
<1>2. 1 \in 1..(NSlots + 1)
  BY SlotsAssumption
<1> QED BY <1>1, <1>2 DEF Init, TypeOK

LEMMA NewSample ==
  ASSUME TypeOK, NEW s \in Slot
  PROVE  <<s, sent[s] + 1>> \in Sample
  BY DEF TypeOK, Sample

LEMMA TypeStep == TypeOK /\ [Next]_vars => TypeOK'
<1> SUFFICES ASSUME TypeOK, [Next]_vars PROVE TypeOK'
  OBVIOUS
<1> USE DEF clientVars, uiVars, adsVars, fileVars
<1>1. ASSUME NEW s \in Slot, OnAdsSample(s) PROVE TypeOK'
  <2>1. <<s, sent[s] + 1>> \in Sample
    BY NewSample
  <2>2. /\ delivered' \in [Slot -> Seq(Sample)]
        /\ queue' \in [Slot -> Seq(Sample)]
    BY <1>1, <2>1, AppendProperties DEF TypeOK, OnAdsSample
  <2> QED BY <1>1, <2>2 DEF TypeOK, OnAdsSample
<1>2. ASSUME NEW s \in Slot, OnAdsSampleRefused(s) PROVE TypeOK'
  BY <1>2 DEF TypeOK, OnAdsSampleRefused
<1>3. CASE ConnectionLost
  BY <1>3 DEF TypeOK, ConnectionLost
<1>4. CASE OnConnectClicked
  BY <1>4 DEF TypeOK, OnConnectClicked
<1>5. CASE OnDisconnectClicked
  <2>1. leaving' \in BOOLEAN
    BY <1>5, Zenon DEF TypeOK, OnDisconnectClicked
  <2>2. pc' \in {"idle", "running"} \cup Loops /\ cur' \in 1..(NSlots + 1)
    BY <1>5, SlotsAssumption DEF TypeOK, OnDisconnectClicked, Loops
  <2>3. conn' \in {"none", "up", "lost"}
    BY <1>5 DEF TypeOK, OnDisconnectClicked
  <2> QED BY <1>5, <2>1, <2>2, <2>3 DEF TypeOK, OnDisconnectClicked
<1>6. CASE OnStartClicked
  <2>1. <<>> \in Seq(Sample) /\ 1 \in 1..(NSlots + 1)
    BY EmptySeq, SlotsAssumption
  <2> QED BY <1>6, <2>1 DEF TypeOK, OnStartClicked, NewSlots, Loops
<1>7. CASE OnStartClickedNoFile
  <2>1. <<>> \in Seq(Sample)
    BY EmptySeq
  <2> QED BY <1>7, <2>1 DEF TypeOK, OnStartClickedNoFile, NewSlots
<1>8. CASE OnStopClicked
  BY <1>8, SlotsAssumption DEF TypeOK, OnStopClicked, Loops
<1>9. CASE OnDrainTick
  BY <1>9, SlotsAssumption DEF TypeOK, OnDrainTick, Loops
<1>10. ASSUME NEW ok \in BOOLEAN, StartSlot(ok) PROVE TypeOK'
  <2>1. cur \in Slot /\ cur + 1 \in 1..(NSlots + 1)
    BY <1>10, SlotsAssumption DEF StartSlot, Slot
  <2>2. channels' \in SUBSET Name
    <3>1. ChannelName[cur] \in Name
      BY <2>1, NamesAssumption
    <3> QED BY <1>10, <3>1, Zenon DEF TypeOK, StartSlot, AddChannel
  <2> QED BY <1>10, <2>1, <2>2 DEF TypeOK, StartSlot
<1>11. ASSUME NEW ok \in BOOLEAN, StartSlotFails(ok) PROVE TypeOK'
  <2>1. channels' \in SUBSET Name
    BY <1>11, NamesAssumption DEF TypeOK, StartSlotFails, AddChannel
  <2>2. 1 \in 1..(NSlots + 1)
    BY SlotsAssumption
  <2> QED BY <1>11, <2>1, <2>2 DEF TypeOK, StartSlotFails, Loops
<1>12. CASE StartDone
  BY <1>12, SlotsAssumption DEF TypeOK, StartDone
<1>13. ASSUME NEW s \in Slot, DisarmSlot(s) PROVE TypeOK'
  <2>1. Len(queue[s]) \in Nat
    BY LenProperties DEF TypeOK
  <2>2. armed' \in [Slot -> BOOLEAN]
    BY <1>13, Zenon DEF TypeOK, DisarmSlot
  <2>3. backlog' \in [Slot -> Nat] /\ cur' \in 1..(NSlots + 1)
    BY <1>13, <2>1, SlotsAssumption DEF TypeOK, DisarmSlot, Slot
  <2> QED BY <1>13, <2>2, <2>3 DEF TypeOK, DisarmSlot
<1>14. ASSUME NEW s \in Slot, NEW ok \in BOOLEAN, NEW n \in Drainable(s),
              DrainSlot(s, n, ok)
       PROVE TypeOK'
  <2>1. n \in 0..Len(queue[s]) /\ queue[s] \in Seq(Sample)
    BY DrainableBounded
  <2>2. /\ SubSeq(queue[s], 1, n) \in Seq(Sample)
        /\ Remaining(s, n) \in Seq(Sample)
    BY <2>1, DrainSplitsQueue DEF Remaining
  <2>3. Grown(s, n) \in Seq(Sample) /\ signal[s] \in Seq(Sample)
    BY <2>2, ConcatProperties DEF Grown, TypeOK
  <2>4. signal' \in [Slot -> Seq(Sample)] /\ queue' \in [Slot -> Seq(Sample)]
    BY <1>14, <2>2, <2>3 DEF DrainSlot, TypeOK
  <2>5. Fresh(s, Len(signal[s])) \in Seq(Sample)
    <3>1. signal'[s] = signal[s] \o SubSeq(queue[s], 1, n)
      BY <1>14 DEF DrainSlot, TypeOK, Grown
    <3> QED BY <2>2, <2>3, <3>1, FreshIsBatch DEF Fresh
  <2>6. ChannelName[s] \in Name /\ file[ChannelName[s]] \in Seq(Sample)
    BY NamesAssumption DEF TypeOK
  <2>7. file[ChannelName[s]] \o Fresh(s, Len(signal[s])) \in Seq(Sample)
    BY <2>5, <2>6, ConcatProperties
  <2>8. file' \in [Name -> Seq(Sample)] /\ writeFailed' \in [Slot -> BOOLEAN]
    BY <1>14, <2>6, <2>7 DEF DrainSlot, AppendSamples, TypeOK
  <2>9. lastOverruns' \in [Slot -> Nat] /\ cur' \in 1..(NSlots + 1)
    BY <1>14, SlotsAssumption DEF DrainSlot, Reported, TypeOK, Slot
  <2> QED BY <1>14, <2>4, <2>8, <2>9 DEF DrainSlot, TypeOK
<1>15. CASE DisarmDone
  BY <1>15, SlotsAssumption DEF TypeOK, DisarmDone, Loops
<1>16. CASE TickDone
  BY <1>16, SlotsAssumption DEF TypeOK, TickDone
<1>17. CASE FileClosed
  <2>1. hdf5' \in BOOLEAN
    BY <1>17, Zenon DEF FileClosed
  <2>2. pc' \in {"idle", "running"} \cup Loops /\ cur' \in 1..(NSlots + 1)
    BY <1>17, SlotsAssumption DEF FileClosed, Loops
  <2> QED BY <1>17, <2>1, <2>2 DEF TypeOK, FileClosed
<1>18. CASE SessionDestroyed
  <2>1. leaving' \in BOOLEAN /\ conn' \in {"none", "up", "lost"}
    BY <1>18, Zenon DEF TypeOK, SessionDestroyed
  <2>2. pc' \in {"idle", "running"} \cup Loops /\ cur' \in 1..(NSlots + 1)
    BY <1>18, SlotsAssumption DEF SessionDestroyed
  <2> QED BY <1>18, <2>1, <2>2 DEF TypeOK, SessionDestroyed
<1>19. CASE UNCHANGED vars
  BY <1>19 DEF TypeOK, vars
<1> QED
  BY <1>1, <1>2, <1>3, <1>4, <1>5, <1>6, <1>7, <1>8, <1>9, <1>10, <1>11,
     <1>12, <1>13, <1>14, <1>15, <1>16, <1>17, <1>18, <1>19
     DEF Next, Ads, User, LoopStep

\* Every state of a recording has the type TypeOK.
THEOREM TypeCorrect == Spec => []TypeOK
  BY TypeInit, TypeStep, PTL DEF Spec

-----------------------------------------------------------------------------
LEMMA StopInit == Init => StopInv
<1> SUFFICES ASSUME Init PROVE StopInv
  OBVIOUS
<1>1. <<>> \o <<>> = <<>>
  BY EmptySeq, ConcatEmptySeq
<1> QED
  BY <1>1 DEF Init, StopInv, Conservation, FileFollowsSignal,
     NoCallbackWithoutSession, FileOpenWhileRecording, DisarmedBehindCur,
     BacklogSettled, OverrunsSettled, ClosedFileComplete

\* A loop that starts at slot 1 has passed nobody; one at NSlots + 1 everybody.
LEMMA LoopEnds ==
  \A s \in Slot : s \in Nat /\ ~(s < 1) /\ s >= 1 /\ s < NSlots + 1 /\ ~(s >= NSlots + 1)
  BY SlotsAssumption DEF Slot

LEMMA StopStep == TypeOK /\ StopInv /\ [Next]_vars => StopInv'
<1> SUFFICES ASSUME TypeOK, StopInv, [Next]_vars PROVE StopInv'
  OBVIOUS
<1> USE DEF clientVars, uiVars, adsVars, fileVars, StopInv, Conservation,
        FileFollowsSignal, NoCallbackWithoutSession, FileOpenWhileRecording,
        DisarmedBehindCur, BacklogSettled, OverrunsSettled, ClosedFileComplete
<1>1. CASE ConnectionLost
  BY <1>1 DEF ConnectionLost
<1>2. CASE OnConnectClicked
  BY <1>2 DEF OnConnectClicked
<1>3. CASE OnDisconnectClicked
  <2>1. CASE pc = "idle"
    BY <1>3, <2>1 DEF OnDisconnectClicked
  <2>2. CASE pc = "running"
    BY <1>3, <2>2, LoopEnds DEF OnDisconnectClicked
  <2> QED BY <1>3, <2>1, <2>2 DEF OnDisconnectClicked
<1>4. CASE OnStopClicked
  BY <1>4, LoopEnds DEF OnStopClicked
<1>5. CASE OnDrainTick
  BY <1>5 DEF OnDrainTick
<1>6. CASE StartDone
  BY <1>6 DEF StartDone
<1>7. CASE TickDone
  BY <1>7 DEF TickDone
<1>8. CASE UNCHANGED vars
  BY <1>8 DEF vars
<1>9. CASE DisarmDone
  <2>1. \A s \in Slot : ~armed[s] /\ backlog[s] = Len(queue[s])
    BY <1>9, LoopEnds DEF DisarmDone
  <2> QED BY <1>9, <2>1, LoopEnds DEF DisarmDone
<1>10. CASE OnStartClicked
  <2>1. <<>> \o <<>> = <<>>
    BY EmptySeq, ConcatEmptySeq
  <2>2. \A s \in Slot : ChannelName[s] \in Name
    BY NamesAssumption
  <2> QED BY <1>10, <2>1, <2>2 DEF OnStartClicked, NewSlots
<1>11. CASE OnStartClickedNoFile
  <2>1. <<>> \o <<>> = <<>>
    BY EmptySeq, ConcatEmptySeq
  <2> QED BY <1>11, <2>1 DEF OnStartClickedNoFile, NewSlots
<1>12. ASSUME NEW ok \in BOOLEAN, StartSlot(ok) PROVE StopInv'
  BY <1>12 DEF StartSlot
<1>13. ASSUME NEW ok \in BOOLEAN, StartSlotFails(ok) PROVE StopInv'
  BY <1>13, LoopEnds DEF StartSlotFails
<1>14. CASE FileClosed
  <2>1. \A s \in Slot : backlog[s] <= MaxBatch => queue[s] = <<>>
    BY <1>14, LoopEnds DEF FileClosed
  <2>2. \A s \in Slot : lastOverruns[s] = overruns[s]
    BY <1>14, LoopEnds DEF FileClosed
  <2>3. \A s \in Slot : queue[s] = <<>> => delivered[s] = signal[s]
    <3> SUFFICES ASSUME NEW s \in Slot, queue[s] = <<>> PROVE delivered[s] = signal[s]
      OBVIOUS
    <3>1. signal[s] \o <<>> = signal[s]
      BY SampleConcatEmpty DEF TypeOK
    <3>2. delivered[s] = signal[s] \o queue[s]
      OBVIOUS
    <3> QED BY <3>1, <3>2
  <2>4. \A s \in Slot : OwnName(s) /\ ~writeFailed[s] /\ backlog[s] <= MaxBatch
                          => file[ChannelName[s]] = delivered[s]
    <3>1. hdf5 = TRUE
      BY <1>14 DEF FileClosed, TypeOK
    <3> QED BY <2>1, <2>3, <3>1
  <2>5. ClosedFileComplete'
    BY <1>14, <2>4 DEF FileClosed, OwnName
  <2> QED BY <1>14, <2>1, <2>2, <2>5 DEF FileClosed
<1>15. CASE SessionDestroyed
  BY <1>15, LoopEnds DEF SessionDestroyed
<1>16. ASSUME NEW s \in Slot, OnAdsSample(s) PROVE StopInv'
  <2> DEFINE x == <<s, sent[s] + 1>>
  <2>1. x \in Sample
    BY NewSample
  <2>2. Append(signal[s] \o queue[s], x) = signal[s] \o Append(queue[s], x)
    <3>1. signal[s] \in Seq(Sample) /\ queue[s] \in Seq(Sample)
          /\ <<x>> \in Seq(Sample) /\ signal[s] \o queue[s] \in Seq(Sample)
      BY <2>1, ConcatProperties DEF TypeOK
    <3>2. /\ Append(signal[s] \o queue[s], x) = (signal[s] \o queue[s]) \o <<x>>
          /\ Append(queue[s], x) = queue[s] \o <<x>>
      BY <2>1, <3>1, AppendIsConcat
    <3>3. (signal[s] \o queue[s]) \o <<x>> = signal[s] \o (queue[s] \o <<x>>)
      BY <3>1, SampleConcat
    <3> QED BY <3>2, <3>3
  <2>3. Conservation'
    BY <1>16, <2>2 DEF OnAdsSample, TypeOK
  <2>4. pc \notin {"idle", "dtorDrain", "finalDrain"} /\ (pc = "disarming" => ~(s < cur))
    BY <1>16 DEF OnAdsSample
  <2> QED BY <1>16, <2>3, <2>4 DEF OnAdsSample, TypeOK
<1>17. ASSUME NEW s \in Slot, OnAdsSampleRefused(s) PROVE StopInv'
  <2>1. pc \notin {"idle", "dtorDrain", "finalDrain"}
    BY <1>17 DEF OnAdsSampleRefused
  <2> QED BY <1>17, <2>1 DEF OnAdsSampleRefused, TypeOK
<1>18. ASSUME NEW s \in Slot, DisarmSlot(s) PROVE StopInv'
  <2>1. \A t \in Slot : t < cur' <=> (t < cur \/ t = s)
    BY <1>18, SlotsAssumption DEF DisarmSlot, Slot
  <2>2. DisarmedBehindCur'
    BY <1>18, <2>1 DEF DisarmSlot, TypeOK
  <2>3. BacklogSettled'
    BY <1>18, <2>1 DEF DisarmSlot, TypeOK
  <2> QED BY <1>18, <2>2, <2>3 DEF DisarmSlot
<1>19. ASSUME NEW s \in Slot, NEW ok \in BOOLEAN, NEW n \in Drainable(s),
              DrainSlot(s, n, ok)
       PROVE  StopInv'
  <2> DEFINE batch == SubSeq(queue[s], 1, n)
  <2>1. n \in 0..Len(queue[s]) /\ queue[s] \in Seq(Sample) /\ signal[s] \in Seq(Sample)
    BY DrainableBounded DEF TypeOK
  <2>2. /\ batch \in Seq(Sample) /\ Remaining(s, n) \in Seq(Sample)
        /\ Len(Remaining(s, n)) = Len(queue[s]) - n
        /\ batch \o Remaining(s, n) = queue[s]
    BY <2>1, DrainSplitsQueue DEF Remaining
  <2>3. signal'[s] = signal[s] \o batch /\ queue'[s] = Remaining(s, n)
    BY <1>19 DEF DrainSlot, Grown, TypeOK
  <2>4. \A t \in Slot : t # s => signal'[t] = signal[t] /\ queue'[t] = queue[t]
    BY <1>19 DEF DrainSlot, TypeOK
  <2>5. Conservation'
    <3>1. (signal[s] \o batch) \o Remaining(s, n) = signal[s] \o (batch \o Remaining(s, n))
      BY <2>1, <2>2, SampleConcat
    <3>2. signal'[s] \o queue'[s] = delivered[s]
      BY <2>2, <2>3, <3>1
    <3> QED BY <1>19, <2>4, <3>2 DEF DrainSlot
  <2>6. Fresh(s, Len(signal[s])) = batch
    BY <2>1, <2>2, <2>3, FreshIsBatch DEF Fresh
  <2>7. FileFollowsSignal'
    <3> SUFFICES ASSUME NEW t \in Slot, hdf5, OwnName(t), ~writeFailed'[t]
                 PROVE  file'[ChannelName[t]] = signal'[t]
      BY <1>19 DEF DrainSlot, OwnName
    <3>1. CASE t # s
      <4>1. ChannelName[t] # ChannelName[s]
        BY <3>1 DEF OwnName
      <4>3. file'[ChannelName[t]] = file[ChannelName[t]]
        <5>1. \/ file' = file
              \/ file' = [file EXCEPT ![ChannelName[s]] = @ \o Fresh(s, Len(signal[s]))]
          BY <1>19 DEF DrainSlot, AppendSamples
        <5>2. ChannelName[t] \in Name
          BY NamesAssumption
        <5> QED BY <4>1, <5>1, <5>2 DEF TypeOK
      <4>2. ~writeFailed[t]
        BY <1>19, <3>1 DEF DrainSlot, AppendSamples, TypeOK
      <4> QED BY <2>4, <3>1, <4>2, <4>3
    <3>2. CASE t = s
      <4>1. ~writeFailed[s] /\ file[ChannelName[s]] = signal[s]
        BY <1>19, <3>2 DEF DrainSlot, AppendSamples, TypeOK
      <4>2. CASE batch = <<>>
        <5>1. file' = file
          BY <1>19, <2>6, <4>2 DEF DrainSlot, AppendSamples
        <5>2. signal'[s] = signal[s]
          BY <2>1, <2>3, <4>2, ConcatEmptySeq
        <5> QED BY <3>2, <4>1, <5>1, <5>2
      <4>3. CASE batch # <<>>
        <5>1. file' = [file EXCEPT ![ChannelName[s]] = @ \o batch]
          BY <1>19, <2>6, <3>2, <4>3 DEF DrainSlot, AppendSamples, TypeOK
        <5> QED BY <2>3, <3>2, <4>1, <5>1, NamesAssumption DEF TypeOK
      <4> QED BY <4>2, <4>3
    <3> QED BY <3>1, <3>2
  <2>8. BacklogSettled'
    <3>1. \A t \in Slot : (t < cur' <=> (t < cur \/ t = s)) /\ (t >= cur' => t >= cur /\ t # s)
      BY <1>19, SlotsAssumption DEF DrainSlot, Slot
    <3>2. pc \in {"finalDrain", "dtorDrain"} /\ Len(queue[s]) <= MaxBatch => queue'[s] = <<>>
      <4> SUFFICES ASSUME pc \in {"finalDrain", "dtorDrain"}, Len(queue[s]) <= MaxBatch
                   PROVE  queue'[s] = <<>>
        OBVIOUS
      <4>1. ~armed[s]
        OBVIOUS
      <4>2. Len(queue[s]) \in Nat
        BY <2>1, LenProperties
      <4>3. n = Len(queue[s])
        BY <4>1, <4>2, BatchAssumption DEF Drainable, AtMostBatch
      <4>4. Len(Remaining(s, n)) = 0
        BY <2>2, <4>2, <4>3
      <4> QED BY <2>2, <2>3, <4>4, EmptySeq
    <3>3. pc = "dtorDrain" /\ queue[s] = <<>> => Len(queue[s]) <= MaxBatch
      BY BatchAssumption, EmptySeq
    <3>4. backlog' = backlog /\ pc' = pc /\ pc \in DrainLoops /\ cur = s
      BY <1>19 DEF DrainSlot
    <3>5. pc = "finalDrain" => backlog[s] = Len(queue[s])
      BY <3>4, LoopEnds
    <3> QED BY <2>4, <3>1, <3>2, <3>3, <3>4, <3>5 DEF DrainLoops
  <2>9. OverrunsSettled'
    <3>1. \A t \in Slot : t < cur' => (t < cur \/ t = s)
      BY <1>19, SlotsAssumption DEF DrainSlot, Slot
    <3> QED BY <1>19, <3>1 DEF DrainSlot, Reported, TypeOK
  <2>10. ClosedFileComplete'
    <3>1. pc \in {"dtorDrain", "idle"} => file' = file /\ writeFailed' = writeFailed
      BY <1>19 DEF DrainSlot, AppendSamples
    <3> QED BY <1>19, <3>1 DEF DrainSlot, OwnName
  <2>11. NoCallbackWithoutSession' /\ FileOpenWhileRecording' /\ DisarmedBehindCur'
    BY <1>19 DEF DrainSlot, DrainLoops
  <2> QED BY <2>5, <2>7, <2>8, <2>9, <2>10, <2>11
<1> QED
  BY <1>1, <1>2, <1>3, <1>4, <1>5, <1>6, <1>7, <1>8, <1>9, <1>10, <1>11,
     <1>12, <1>13, <1>14, <1>15, <1>16, <1>17, <1>18, <1>19
     DEF Next, Ads, User, LoopStep

\* StopInv, the phases of a recording from start() to the destructor's
\* stop(), is invariant.
THEOREM StopInvariant == Spec => []StopInv
  BY TypeInit, TypeStep, StopInit, StopStep, PTL DEF Spec

\* No sample is lost, duplicated or reordered between onAdsSample() and the
\* Signal, whatever the interleaving of ADS threads, timer and buttons.
THEOREM NothingLostBeforeTheSignal == Spec => []Conservation
<1>1. StopInv => Conservation
  BY DEF StopInv
<1> QED BY <1>1, StopInvariant, PTL

\* The open file holds exactly the samples of the Signal.
THEOREM FileEqualsSignal == Spec => []FileFollowsSignal
<1>1. StopInv => FileFollowsSignal
  BY DEF StopInv
<1> QED BY <1>1, StopInvariant, PTL

\* A stopped recording that had at most one batch queued is complete on disk.
THEOREM StopIsLosslessUpToABatch == Spec => []StopKeepsABatch
<1>1. StopInv => StopKeepsABatch
  BY DEF StopInv, ClosedFileComplete, StopKeepsABatch
<1> QED BY <1>1, StopInvariant, PTL

\* No ADS thread can enter a NotifyChannel whose session is gone.
THEOREM CallbacksEndWithTheSession == Spec => []NoCallbackWithoutSession
<1>1. StopInv => NoCallbackWithoutSession
  BY DEF StopInv
<1> QED BY <1>1, StopInvariant, PTL

\* Every overrun has been reported when the session is gone.
THEOREM AllOverrunsReported == Spec => []OverrunsReported
<1>1. StopInv => OverrunsReported
  BY DEF StopInv, OverrunsSettled, OverrunsReported
<1> QED BY <1>1, StopInvariant, PTL
=============================================================================
