------------------------------ MODULE Recording ------------------------------
(***************************************************************************)
(* One recording of the Recorder: NotifyChannel (a lock-free queue per     *)
(* channel, filled by the ADS client's thread), RecordingSession (the      *)
(* 50 ms drain timer of the UI thread that moves the queues into Signals   *)
(* and into the HDF5 file) and the buttons of RecorderWidget that create,  *)
(* stop and destroy a session.                                             *)
(*                                                                         *)
(* The UI thread runs a loop over the slots in start(), stop() and         *)
(* onDrainTick(); ADS threads deliver samples between any two iterations,  *)
(* so each iteration is an action of its own: pc names the loop and cur    *)
(* the slot it is at.  While no session exists (pc = "idle") the slot      *)
(* variables keep what the last session ended with.                        *)
(***************************************************************************)
EXTENDS Naturals, Sequences, FiniteSets

CONSTANTS
  NSlots,       \* channels of the recording, in table order
  Name,         \* channel names
  ChannelName,  \* the name in each row of the channel table
  MaxBatch,     \* drainTo()'s maxBatch, 4096 in the code
  MaxSamples,   \* bound: samples an ADS thread sends per slot and session
  MaxSessions   \* bound: recordings started

Slot == 1..NSlots

ASSUME SlotsAssumption   == NSlots \in Nat
ASSUME NamesAssumption   == ChannelName \in [Slot -> Name]
ASSUME BatchAssumption   == MaxBatch \in Nat \ {0}
ASSUME BoundsAssumption  == MaxSamples \in Nat /\ MaxSessions \in Nat

VARIABLES
  conn,         \* client_: "none", "up", or "lost" (the peer went away)
  sessions,     \* recordings started so far
  pc, cur,      \* the UI thread's loop and the slot it is at
  leaving,      \* stop() runs inside onDisconnectClicked()
  armed,        \* handle_ # 0, per slot
  sent,         \* samples the ADS thread produced for the slot
  delivered,    \* history: the samples that entered the queue, in order
  queue,        \* NotifyChannel::queue_
  overruns,     \* NotifyChannel::overrunCount_
  lastOverruns, \* Slot::lastOverruns, the count last reported
  signal,       \* the slot's Signal
  hdf5,         \* is hdf5_ open
  channels,     \* names addChannel() registered in the open file
  file,         \* the file's data set of each name
  writeFailed,  \* history: a write of this slot's samples was refused
  backlog       \* history: length of the queue when the slot was disarmed

clientVars == <<conn, sessions>>
uiVars     == <<pc, cur, leaving>>
adsVars    == <<sent, delivered>>
fileVars   == <<hdf5, channels, file>>
vars == <<clientVars, uiVars, armed, adsVars, queue, overruns, lastOverruns,
          signal, fileVars, writeFailed, backlog>>

\* A sample is identified by its slot and by its place in the slot's stream.
Sample == Slot \X (Nat \ {0})

Loops      == {"starting", "ticking", "disarming", "finalDrain", "dtorDrain"}
DrainLoops == {"ticking", "finalDrain", "dtorDrain"}

TypeOK ==
  /\ conn \in {"none", "up", "lost"}
  /\ sessions \in Nat
  /\ pc \in {"idle", "running"} \cup Loops
  /\ cur \in 1..(NSlots + 1)
  /\ leaving \in BOOLEAN
  /\ armed \in [Slot -> BOOLEAN]
  /\ sent \in [Slot -> Nat]
  /\ delivered \in [Slot -> Seq(Sample)]
  /\ queue \in [Slot -> Seq(Sample)]
  /\ overruns \in [Slot -> Nat]
  /\ lastOverruns \in [Slot -> Nat]
  /\ signal \in [Slot -> Seq(Sample)]
  /\ hdf5 \in BOOLEAN
  /\ channels \in SUBSET Name
  /\ file \in [Name -> Seq(Sample)]
  /\ writeFailed \in [Slot -> BOOLEAN]
  /\ backlog \in [Slot -> Nat]

Init ==
  /\ conn = "none"
  /\ sessions = 0
  /\ pc = "idle"
  /\ cur = 1
  /\ leaving = FALSE
  /\ armed = [s \in Slot |-> FALSE]
  /\ sent = [s \in Slot |-> 0]
  /\ delivered = [s \in Slot |-> <<>>]
  /\ queue = [s \in Slot |-> <<>>]
  /\ overruns = [s \in Slot |-> 0]
  /\ lastOverruns = [s \in Slot |-> 0]
  /\ signal = [s \in Slot |-> <<>>]
  /\ hdf5 = FALSE
  /\ channels = {}
  /\ file = [n \in Name |-> <<>>]
  /\ writeFailed = [s \in Slot |-> FALSE]
  /\ backlog = [s \in Slot |-> 0]

-----------------------------------------------------------------------------
(* The ADS client's threads.                                               *)

\* onAdsSample(): the sample has the expected size and enters the queue.
OnAdsSample(s) ==
  /\ armed[s] /\ conn = "up" /\ sent[s] < MaxSamples
  /\ sent' = [sent EXCEPT ![s] = @ + 1]
  /\ delivered' = [delivered EXCEPT ![s] = Append(@, <<s, sent[s] + 1>>)]
  /\ queue' = [queue EXCEPT ![s] = Append(@, <<s, sent[s] + 1>>)]
  /\ UNCHANGED <<clientVars, uiVars, armed, overruns, lastOverruns, signal,
                 fileVars, writeFailed, backlog>>

\* onAdsSample(): the size is wrong, or enqueue() found no memory.
OnAdsSampleRefused(s) ==
  /\ armed[s] /\ conn = "up" /\ sent[s] < MaxSamples
  /\ sent' = [sent EXCEPT ![s] = @ + 1]
  /\ overruns' = [overruns EXCEPT ![s] = @ + 1]
  /\ UNCHANGED <<clientVars, uiVars, armed, delivered, queue, lastOverruns,
                 signal, fileVars, writeFailed, backlog>>

\* The peer closes the connection: isConnected() becomes FALSE, no more
\* samples arrive; the widget notices nothing.
ConnectionLost ==
  /\ conn = "up"
  /\ conn' = "lost"
  /\ UNCHANGED <<sessions, uiVars, armed, adsVars, queue, overruns,
                 lastOverruns, signal, fileVars, writeFailed, backlog>>

-----------------------------------------------------------------------------
(* RecorderWidget's buttons.                                               *)

\* onConnectClicked() with a client that connects; a failing one is reset and
\* changes nothing.
OnConnectClicked ==
  /\ pc = "idle" /\ conn = "none"
  /\ conn' = "up"
  /\ UNCHANGED <<sessions, uiVars, armed, adsVars, queue, overruns,
                 lastOverruns, signal, fileVars, writeFailed, backlog>>

\* onStartClicked() up to the loop of start(): a new session whose slots get
\* an empty Signal each (addNotifyChannels), then the temp file is created.
NewSlots ==
  /\ armed' = [s \in Slot |-> FALSE]
  /\ sent' = [s \in Slot |-> 0]
  /\ delivered' = [s \in Slot |-> <<>>]
  /\ queue' = [s \in Slot |-> <<>>]
  /\ overruns' = [s \in Slot |-> 0]
  /\ lastOverruns' = [s \in Slot |-> 0]
  /\ signal' = [s \in Slot |-> <<>>]
  /\ writeFailed' = [s \in Slot |-> FALSE]
  /\ backlog' = [s \in Slot |-> 0]

OnStartClicked ==
  /\ pc = "idle" /\ conn = "up" /\ sessions < MaxSessions
  /\ sessions' = sessions + 1
  /\ NewSlots
  /\ hdf5' = TRUE
  /\ channels' = {}
  /\ file' = [n \in Name |-> <<>>]
  /\ pc' = "starting" /\ cur' = 1
  /\ UNCHANGED <<conn, leaving>>

\* Hdf5Session::create() fails: the session is destroyed at once; its stop()
\* finds nothing armed and nothing queued.  The captures of the previous
\* session are gone all the same.
OnStartClickedNoFile ==
  /\ pc = "idle" /\ conn = "up" /\ sessions < MaxSessions
  /\ sessions' = sessions + 1
  /\ NewSlots
  /\ UNCHANGED <<conn, uiVars, fileVars>>

\* One iteration of start()'s loop.  addChannel() throws for a name whose
\* data sets exist, or on an I/O error; both are logged and recording goes on.
AddChannel(s, ok) ==
  channels' = IF ok /\ ChannelName[s] \notin channels
                THEN channels \cup {ChannelName[s]}
                ELSE channels

StartSlot(ok) ==
  /\ pc = "starting" /\ cur \in Slot
  /\ conn = "up"
  /\ AddChannel(cur, ok)
  /\ armed' = [armed EXCEPT ![cur] = TRUE]
  /\ cur' = cur + 1
  /\ UNCHANGED <<clientVars, pc, leaving, adsVars, queue, overruns, lastOverruns,
                 signal, hdf5, file, writeFailed, backlog>>

\* arm() fails: start() calls stop() and returns FALSE.
MutantStartSlotFails(ok) ==
  /\ pc = "starting" /\ cur \in Slot
  /\ AddChannel(cur, ok)
  /\ pc' = "idle" /\ cur' = 1
  /\ UNCHANGED <<clientVars, leaving, armed, adsVars, queue, overruns,
                 lastOverruns, signal, hdf5, file, writeFailed, backlog>>

StartSlotFails(ok) ==
  /\ pc = "starting" /\ cur \in Slot
  /\ AddChannel(cur, ok)
  /\ pc' = "disarming" /\ cur' = 1
  /\ UNCHANGED <<clientVars, leaving, armed, adsVars, queue, overruns, lastOverruns,
                 signal, hdf5, file, writeFailed, backlog>>

StartDone ==
  /\ pc = "starting" /\ cur = NSlots + 1
  /\ pc' = "running" /\ cur' = 1
  /\ UNCHANGED <<clientVars, leaving, armed, adsVars, queue, overruns, lastOverruns,
                 signal, fileVars, writeFailed, backlog>>

\* onStopClicked(): session_->stop().
OnStopClicked ==
  /\ pc = "running"
  /\ pc' = "disarming" /\ cur' = 1
  /\ UNCHANGED <<clientVars, leaving, armed, adsVars, queue, overruns,
                 lastOverruns, signal, fileVars, writeFailed, backlog>>

\* onDisconnectClicked(): onStopClicked(), then the client is dropped.
OnDisconnectClicked ==
  /\ conn \in {"up", "lost"}
  /\ \/ /\ pc = "idle"
        /\ conn' = "none"
        /\ UNCHANGED uiVars
     \/ /\ pc = "running"
        /\ pc' = "disarming" /\ cur' = 1 /\ leaving' = TRUE
        /\ UNCHANGED conn
  /\ UNCHANGED <<sessions, armed, adsVars, queue, overruns, lastOverruns,
                 signal, fileVars, writeFailed, backlog>>

-----------------------------------------------------------------------------
(* The drain timer and stop().                                             *)

OnDrainTick ==
  /\ pc = "running"
  /\ pc' = "ticking" /\ cur' = 1
  /\ UNCHANGED <<clientVars, leaving, armed, adsVars, queue, overruns, lastOverruns,
                 signal, fileVars, writeFailed, backlog>>

\* How many samples drainTo() may take: at most MaxBatch; a concurrent
\* producer's latest samples may not be visible to try_dequeue() yet.
MutantAtMostBatch(s) == IF Len(queue[s]) < MaxBatch THEN Len(queue[s]) ELSE MaxBatch - 1
AtMostBatch(s) == IF Len(queue[s]) < MaxBatch THEN Len(queue[s]) ELSE MaxBatch

Drainable(s) == IF armed[s] THEN 0..AtMostBatch(s) ELSE {AtMostBatch(s)}

\* drainTo(): the Signal gets the first n queued samples at its end.
Grown(s, n) == signal[s] \o SubSeq(queue[s], 1, n)

MutantRemaining(s, n) == IF n = 0 THEN queue[s] ELSE SubSeq(queue[s], n + 2, Len(queue[s]))
Remaining(s, n) == SubSeq(queue[s], n + 1, Len(queue[s]))

\* onDrainTick(): the part of the Signal to write is what lies past preCount.
MutantFresh(s, preCount) == signal'[s]
Fresh(s, preCount) == SubSeq(signal'[s], preCount + 1, Len(signal'[s]))

\* appendSamples() looks the data set up by the channel's NAME; it is refused
\* for an unknown name or on an I/O error, which is only logged.
AppendSamples(s, preCount, ok) ==
  LET n       == ChannelName[s]
      written == ok /\ n \in channels
  IN  IF hdf5 /\ Fresh(s, preCount) # <<>>
        THEN /\ file' = IF written
                         THEN [file EXCEPT ![n] = @ \o Fresh(s, preCount)]
                         ELSE file
             /\ writeFailed' = [writeFailed EXCEPT ![s] = @ \/ ~written]
        ELSE UNCHANGED <<file, writeFailed>>

\* channelOverrun is emitted when the count has moved, drained or not.
MutantReported(s, n) == IF n > 0 THEN overruns[s] ELSE lastOverruns[s]
Reported(s, n) == overruns[s]

\* One iteration of onDrainTick() for slot s.
DrainSlot(s, n, ok) ==
  /\ pc \in DrainLoops /\ cur = s
  /\ n \in Drainable(s)
  /\ signal' = [signal EXCEPT ![s] = Grown(s, n)]
  /\ queue' = [queue EXCEPT ![s] = Remaining(s, n)]
  /\ AppendSamples(s, Len(signal[s]), ok)
  /\ lastOverruns' = [lastOverruns EXCEPT ![s] = Reported(s, n)]
  /\ cur' = cur + 1
  /\ UNCHANGED <<clientVars, pc, leaving, armed, adsVars, overruns, hdf5,
                 channels, backlog>>

TickDone ==
  /\ pc = "ticking" /\ cur = NSlots + 1
  /\ pc' = "running" /\ cur' = 1
  /\ UNCHANGED <<clientVars, leaving, armed, adsVars, queue, overruns, lastOverruns,
                 signal, fileVars, writeFailed, backlog>>

\* stop(): disarm() returns when the client's thread no longer runs the
\* handler (MockAdsClient joins it).
DisarmSlot(s) ==
  /\ pc = "disarming" /\ cur = s
  /\ armed' = [armed EXCEPT ![s] = FALSE]
  /\ backlog' = [backlog EXCEPT ![s] = Len(queue[s])]
  /\ cur' = cur + 1
  /\ UNCHANGED <<clientVars, pc, leaving, adsVars, queue, overruns, lastOverruns,
                 signal, fileVars, writeFailed>>

\* flush(), then the final onDrainTick() with the file still open.
MutantDisarmDone ==
  /\ pc = "disarming" /\ cur = NSlots + 1
  /\ hdf5' = FALSE
  /\ pc' = "finalDrain" /\ cur' = 1
  /\ UNCHANGED <<clientVars, leaving, armed, adsVars, queue, overruns,
                 lastOverruns, signal, channels, file, writeFailed, backlog>>

DisarmDone ==
  /\ pc = "disarming" /\ cur = NSlots + 1
  /\ pc' = "finalDrain" /\ cur' = 1
  /\ UNCHANGED <<clientVars, leaving, armed, adsVars, queue, overruns, lastOverruns,
                 signal, fileVars, writeFailed, backlog>>

\* hdf5_.reset() ends stop(); session_.reset() then runs the destructor, whose
\* stop() disarms nothing and drains once more, without a file.
FileClosed ==
  /\ pc = "finalDrain" /\ cur = NSlots + 1
  /\ hdf5' = FALSE
  /\ pc' = "dtorDrain" /\ cur' = 1
  /\ UNCHANGED <<clientVars, leaving, armed, adsVars, queue, overruns, lastOverruns,
                 signal, channels, file, writeFailed, backlog>>

\* The session and its queues are destroyed; onDisconnectClicked() then
\* disconnects and resets the client.
SessionDestroyed ==
  /\ pc = "dtorDrain" /\ cur = NSlots + 1
  /\ pc' = "idle" /\ cur' = 1 /\ leaving' = FALSE
  /\ conn' = IF leaving THEN "none" ELSE conn
  /\ UNCHANGED <<sessions, armed, adsVars, queue, overruns, lastOverruns,
                 signal, fileVars, writeFailed, backlog>>

-----------------------------------------------------------------------------
Ads == \E s \in Slot : OnAdsSample(s) \/ OnAdsSampleRefused(s)

User == OnConnectClicked \/ OnDisconnectClicked \/ OnStartClicked
        \/ OnStartClickedNoFile \/ OnStopClicked

\* What the UI thread does by itself once a button or the timer started it.
LoopStep ==
  \/ \E ok \in BOOLEAN : StartSlot(ok) \/ StartSlotFails(ok)
  \/ StartDone
  \/ \E s \in Slot : DisarmSlot(s)
  \/ \E s \in Slot, ok \in BOOLEAN : \E n \in Drainable(s) : DrainSlot(s, n, ok)
  \/ DisarmDone \/ TickDone \/ FileClosed \/ SessionDestroyed

Next == Ads \/ ConnectionLost \/ User \/ OnDrainTick \/ LoopStep

Spec == Init /\ [][Next]_vars

(* The UI thread keeps running its loop and its timer keeps firing; a       *)
(* sample that stays in a queue is visible to try_dequeue() sooner or       *)
(* later, so a drain that is asked again and again takes a full batch.      *)
(* Nothing is assumed of the user, the PLC or the network.                  *)
Fairness ==
  /\ WF_vars(LoopStep)
  /\ WF_vars(OnDrainTick)
  /\ \A s \in Slot :
       SF_vars(\E ok \in BOOLEAN : DrainSlot(s, AtMostBatch(s), ok))

FairSpec == Spec /\ Fairness

-----------------------------------------------------------------------------
(* Properties.                                                             *)

\* The slots whose name no other row of the table carries.
OwnName(s) == \A t \in Slot : ChannelName[t] = ChannelName[s] => t = s

\* Nothing is lost, duplicated or reordered between the ADS callback and the
\* Signal: what entered the queue is what the Signal holds followed by what
\* is still queued (onAdsSample / drainTo).
Conservation == \A s \in Slot : delivered[s] = signal[s] \o queue[s]

\* The file follows the Signal: while hdf5_ is open and no write of the slot
\* was refused, the data set holds exactly the Signal's samples, so
\* preCount/drained in onDrainTick() never skip or repeat one.
FileFollowsSignal ==
  \A s \in Slot :
    hdf5 /\ OwnName(s) /\ ~writeFailed[s] => file[ChannelName[s]] = signal[s]

\* A recording that ended with no more than one batch queued at disarm is
\* complete in the file: the final drain of stop() is enough for it.
StopKeepsABatch ==
  pc = "idle" =>
    \A s \in Slot :
      OwnName(s) /\ ~writeFailed[s] /\ sent[s] > 0 /\ backlog[s] <= MaxBatch
        => file[ChannelName[s]] = delivered[s]

\* Every overrun is reported by the time the session is gone (the final tick
\* of stop() emits channelOverrun for what the timer had not seen).
OverrunsReported ==
  pc = "idle" => \A s \in Slot : lastOverruns[s] = overruns[s]

\* A callback can only run while its session exists: when the session is
\* destroyed (stop() returned), no slot is armed and no thread can touch the
\* NotifyChannel that `this` in the handler points to.
NoCallbackWithoutSession ==
  pc \in {"idle", "dtorDrain", "finalDrain"} => \A s \in Slot : ~armed[s]

\* The phases of stop(): what each loop has established for the slots it has
\* passed.  hdf5_ is open from create() to the end of the final drain; a
\* disarmed queue keeps its length until it is drained; the final drain
\* empties every queue that held a batch at most and reports its overruns.
FileOpenWhileRecording == hdf5 <=> pc \notin {"idle", "dtorDrain"}

DisarmedBehindCur == pc = "disarming" => \A s \in Slot : s < cur => ~armed[s]

BacklogSettled ==
  /\ pc = "disarming" =>
       \A s \in Slot : s < cur => backlog[s] = Len(queue[s])
  /\ pc = "finalDrain" =>
       \A s \in Slot : s >= cur => backlog[s] = Len(queue[s])
  /\ pc \in {"finalDrain", "dtorDrain", "idle"} =>
       \A s \in Slot : (pc = "finalDrain" => s < cur) /\ backlog[s] <= MaxBatch
                         => queue[s] = <<>>

OverrunsSettled ==
  pc \in {"finalDrain", "dtorDrain", "idle"} =>
    \A s \in Slot : (pc = "finalDrain" => s < cur) => lastOverruns[s] = overruns[s]

ClosedFileComplete ==
  pc \in {"dtorDrain", "idle"} =>
    \A s \in Slot :
      OwnName(s) /\ ~writeFailed[s] /\ sent[s] > 0 /\ backlog[s] <= MaxBatch
        => file[ChannelName[s]] = delivered[s]

StopInv ==
  /\ Conservation
  /\ FileFollowsSignal
  /\ NoCallbackWithoutSession
  /\ FileOpenWhileRecording
  /\ DisarmedBehindCur
  /\ BacklogSettled
  /\ OverrunsSettled
  /\ ClosedFileComplete

\* A sample that entered a queue reaches the Signal, unless the session ends
\* first (the drain timer and stop() empty the queues).
QueuedIsRecorded ==
  \A s \in Slot, k \in 1..MaxSamples :
    (Len(delivered[s]) >= k) ~> (Len(signal[s]) >= k \/ pc = "idle")
=============================================================================
