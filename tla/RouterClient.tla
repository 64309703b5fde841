---------------------------- MODULE RouterClient ----------------------------
(***************************************************************************)
(* RouterAdsClient: the ADS connection of the Recorder.  The UI thread     *)
(* issues synchronous requests (connect, read, AddNote, DelNote); a reader *)
(* thread takes frames off the TCP stream, completes the request a reply   *)
(* belongs to, and runs the notification handlers.  The two meet at        *)
(* pendMtx (the map of pending requests), at the mutex m of the Pending    *)
(* record on the requester's stack, and at byNotif.                        *)
(*                                                                         *)
(* Every step between two lock operations is one action.  A request is     *)
(* named by its invoke id, which also names its Pending record and, for    *)
(* AddNote, the notification handle the PLC assigns.                       *)
(***************************************************************************)
EXTENDS Naturals, Sequences, FiniteSets

CONSTANTS
  MaxRequests,  \* bound: requests sent, over all connections
  MaxSamples,   \* bound: notification frames the PLC sends
  MaxConnects   \* bound: calls of connect()

ASSUME BoundsAssumption ==
  MaxRequests \in Nat /\ MaxSamples \in Nat /\ MaxConnects \in Nat

Inv    == 1..MaxRequests
NoInv  == 0
Owner  == {"free", "ui", "reader"}
Op     == {"state", "call", "add", "del"}
\* A frame on the wire: the reply to request inv, or a sample of the
\* notification that request inv created.
Frame  == [kind : {"reply", "note"}, inv : Inv, err : BOOLEAN]
NoFrame == [kind |-> "none", inv |-> NoInv, err |-> FALSE]

VARIABLES
  connects, samples,  \* how much of the bounds is used
  connected,          \* Impl::connected
  sock,               \* "none", "open", or "eof" (closed by the peer)
  uipc, op, inv, target, \* the UI thread: where it is, and its request
  invokeCtr,          \* Impl::invokeCtr - 1
  pendMtx,            \* owner of pendMtx
  pending,            \* keys of Impl::pending
  pm,                 \* owner of Pending::m
  done, amsError,     \* Pending::done / amsError # 0, per request
  byNotif,            \* notifications with a handler
  freed,              \* history: removeNotification() returned
  rpc, frame,         \* the reader thread and the frame it holds
  stream,             \* frames on their way to the reader
  plcQueue,           \* requests on their way to the PLC
  plcNotes,           \* notifications the PLC is sending
  abandoned, lateDel  \* history: requests that ended by their timeout, and
                      \* the notifications whose DelNote did

boundVars == <<connects, samples>>
uiVars    == <<uipc, op, inv, target>>
reqVars   == <<invokeCtr, pending>>
waitVars  == <<done, amsError>>
subVars   == <<byNotif, freed>>
readVars  == <<rpc, frame>>
plcVars   == <<stream, plcQueue, plcNotes>>
lateVars  == <<abandoned, lateDel>>
vars == <<boundVars, connected, sock, uiVars, reqVars, pendMtx, pm, waitVars,
          subVars, readVars, plcVars, lateVars>>

UiPc     == {"idle", "register", "lockP", "waiting", "timedOut", "joining"}
ReaderPc == {"none", "recv", "handle", "lockP", "callback", "exiting",
             "exitWake", "exited"}

TypeOK ==
  /\ connects \in Nat /\ samples \in Nat
  /\ connected \in BOOLEAN
  /\ sock \in {"none", "open", "eof"}
  /\ uipc \in UiPc /\ op \in Op
  /\ inv \in Inv \cup {NoInv} /\ target \in Inv \cup {NoInv}
  /\ invokeCtr \in Inv \cup {NoInv}
  /\ pendMtx \in Owner
  /\ pending \in SUBSET Inv
  /\ pm \in [Inv -> Owner]
  /\ done \in SUBSET Inv /\ amsError \in SUBSET Inv
  /\ byNotif \in SUBSET Inv /\ freed \in SUBSET Inv
  /\ rpc \in ReaderPc /\ frame \in Frame \cup {NoFrame}
  /\ stream \in Seq(Frame)
  /\ plcQueue \in SUBSET [inv : Inv, op : Op, target : Inv \cup {NoInv}]
  /\ plcNotes \in SUBSET Inv
  /\ abandoned \in SUBSET Inv /\ lateDel \in SUBSET Inv

Init ==
  /\ connects = 0 /\ samples = 0
  /\ connected = FALSE
  /\ sock = "none"
  /\ uipc = "idle" /\ op = "call" /\ inv = NoInv /\ target = NoInv
  /\ invokeCtr = 0
  /\ pendMtx = "free"
  /\ pending = {}
  /\ pm = [i \in Inv |-> "free"]
  /\ done = {} /\ amsError = {}
  /\ byNotif = {} /\ freed = {}
  /\ rpc = "none" /\ frame = NoFrame
  /\ stream = <<>> /\ plcQueue = {} /\ plcNotes = {}
  /\ abandoned = {} /\ lateDel = {}

-----------------------------------------------------------------------------
(* The UI thread: calls of the IAdsClient interface.                       *)

\* connect() once the socket is up and the router assigned a port: start the
\* reader and ask the PLC for its state.
Connect ==
  /\ uipc = "idle" /\ sock = "none"
  /\ connects < MaxConnects /\ invokeCtr < MaxRequests
  /\ connects' = connects + 1
  /\ sock' = "open" /\ connected' = TRUE
  /\ rpc' = "recv" /\ frame' = NoFrame
  /\ uipc' = "register" /\ op' = "state" /\ target' = NoInv
  /\ UNCHANGED <<samples, inv, reqVars, pendMtx, pm, waitVars, subVars,
                 plcVars, lateVars>>

\* read(), listSymbols(), resolveSymbol() and addNotification() return at once
\* when not connected.
Call(o) ==
  /\ uipc = "idle" /\ connected /\ o \in {"call", "add"}
  /\ invokeCtr < MaxRequests
  /\ uipc' = "register" /\ op' = o /\ target' = NoInv
  /\ UNCHANGED <<boundVars, connected, sock, inv, reqVars, pendMtx, pm,
                 waitVars, subVars, readVars, plcVars, lateVars>>

\* removeNotification(): the handler goes first; then DelNote is requested and
\* its reply awaited, unless the connection is gone.  On return the caller may
\* destroy the NotifyChannel.
MutantRemoveNotification(n) ==
  /\ uipc = "idle" /\ n \in byNotif
  /\ byNotif' = byNotif \ {n}
  /\ freed' = freed \cup {n}
  /\ UNCHANGED <<boundVars, connected, sock, uiVars, reqVars, pendMtx, pm,
                 waitVars, readVars, plcVars, lateVars>>
RemoveNotification(n) ==
  /\ uipc = "idle" /\ n \in byNotif
  /\ byNotif' = byNotif \ {n}
  /\ \/ /\ connected /\ invokeCtr < MaxRequests
        /\ uipc' = "register" /\ op' = "del" /\ target' = n
        /\ UNCHANGED freed
     \/ /\ ~connected
        /\ freed' = freed \cup {n}
        /\ UNCHANGED <<uipc, op, target>>
  /\ UNCHANGED <<boundVars, connected, sock, inv, reqVars, pendMtx, pm,
                 waitVars, readVars, plcVars, lateVars>>

\* close(): shut the socket down and join the reader.  The router forgets the
\* port's notifications.
MutantClose ==
  /\ connected' = FALSE
  /\ uipc' = "joining"
  /\ UNCHANGED <<sock, plcVars>>
Close ==
  /\ connected' = FALSE /\ sock' = "none"
  /\ stream' = <<>> /\ plcQueue' = {} /\ plcNotes' = {}
  /\ uipc' = "joining"

Disconnect ==
  /\ uipc = "idle" /\ sock # "none"
  /\ byNotif' = {}
  /\ Close
  /\ UNCHANGED <<boundVars, op, inv, target, reqVars, pendMtx, pm, waitVars,
                 freed, readVars, lateVars>>

Joined ==
  /\ uipc = "joining" /\ rpc = "exited"
  /\ uipc' = "idle" /\ rpc' = "none" /\ frame' = NoFrame
  /\ UNCHANGED <<boundVars, connected, sock, op, inv, target, reqVars, pendMtx,
                 pm, waitVars, subVars, plcVars, lateVars>>

-----------------------------------------------------------------------------
(* The UI thread inside request().                                         *)

\* sendAms() and the registration, under pendMtx; a send on a dead socket is
\* not noticed.
NextInv == invokeCtr + 1

Register ==
  /\ uipc = "register" /\ pendMtx = "free"
  /\ invokeCtr' = invokeCtr + 1
  /\ inv' = NextInv
  /\ pending' = pending \cup {NextInv}
  /\ plcQueue' = IF sock = "open"
                   THEN plcQueue \cup {[inv |-> NextInv, op |-> op, target |-> target]}
                   ELSE plcQueue
  /\ uipc' = "lockP"
  /\ UNCHANGED <<boundVars, connected, sock, op, target, pendMtx, pm, waitVars,
                 subVars, readVars, stream, plcNotes, lateVars>>

\* What request() returning means for the call that issued it; the Pending
\* record is gone afterwards.  A failed state request makes connect() close
\* the connection.
Return(ok) ==
  /\ \/ /\ op = "state" /\ ~ok
        /\ Close
        /\ UNCHANGED subVars
     \/ /\ op = "state" /\ ok
        /\ uipc' = "idle"
        /\ UNCHANGED <<connected, sock, plcVars, subVars>>
     \/ /\ op = "call"
        /\ uipc' = "idle"
        /\ UNCHANGED <<connected, sock, plcVars, subVars>>
     \/ /\ op = "add"
        /\ uipc' = "idle"
        /\ byNotif' = IF ok THEN byNotif \cup {inv} ELSE byNotif
        /\ UNCHANGED <<connected, sock, plcVars, freed>>
     \/ /\ op = "del"
        /\ uipc' = "idle"
        /\ freed' = freed \cup {target}
        /\ UNCHANGED <<connected, sock, plcVars, byNotif>>
  /\ UNCHANGED <<op, inv, target>>

\* unique_lock lk(p.m), then the predicate: p.done, or wait and release p.m.
LockAndWait ==
  /\ uipc = "lockP" /\ pm[inv] = "free" /\ inv \notin done
  /\ uipc' = "waiting"
  /\ UNCHANGED <<boundVars, connected, sock, op, inv, target, reqVars, pendMtx,
                 pm, waitVars, subVars, readVars, plcVars, lateVars>>

\* The predicate holds under p.m: the reply is moved out.
Completed ==
  /\ uipc \in {"lockP", "waiting"} /\ pm[inv] = "free" /\ inv \in done
  /\ Return(inv \notin amsError)
  /\ UNCHANGED <<boundVars, reqVars, pendMtx, pm, waitVars, readVars, lateVars>>

\* wait_for() gives up with the predicate FALSE: p.m is held from here on.
Timeout ==
  /\ uipc = "waiting" /\ pm[inv] = "free" /\ inv \notin done
  /\ pm' = [pm EXCEPT ![inv] = "ui"]
  /\ uipc' = "timedOut"
  /\ UNCHANGED <<boundVars, connected, sock, op, inv, target, reqVars, pendMtx,
                 waitVars, subVars, readVars, plcVars, lateVars>>

\* lock_guard g(pendMtx); pending.erase(inv); return 1861.
GiveUp ==
  /\ abandoned' = abandoned \cup {inv}
  /\ lateDel' = IF op = "del" THEN lateDel \cup {target} ELSE lateDel
MutantEraseAndReturn ==
  /\ uipc = "timedOut"
  /\ pm' = [pm EXCEPT ![inv] = "free"]
  /\ GiveUp
  /\ Return(FALSE)
  /\ UNCHANGED <<boundVars, reqVars, pendMtx, waitVars, readVars>>
EraseAndReturn ==
  /\ uipc = "timedOut" /\ pendMtx = "free"
  /\ pending' = pending \ {inv}
  /\ pm' = [pm EXCEPT ![inv] = "free"]
  /\ GiveUp
  /\ Return(FALSE)
  /\ UNCHANGED <<boundVars, invokeCtr, pendMtx, waitVars, readVars>>

-----------------------------------------------------------------------------
(* The reader thread.                                                      *)

RecvFrame ==
  /\ rpc = "recv" /\ sock # "none" /\ stream # <<>>
  /\ frame' = Head(stream) /\ stream' = Tail(stream)
  /\ rpc' = "handle"
  /\ UNCHANGED <<boundVars, connected, sock, uiVars, reqVars, pendMtx, pm,
                 waitVars, subVars, plcQueue, plcNotes, lateVars>>

\* recvAll() fails: the peer closed and everything it sent is read, or close()
\* shut the socket down.
RecvFails ==
  /\ rpc = "recv" /\ \/ sock = "none"
                     \/ sock = "eof" /\ stream = <<>>
  /\ connected' = FALSE
  /\ rpc' = "exiting" /\ frame' = NoFrame
  /\ UNCHANGED <<boundVars, sock, uiVars, reqVars, pendMtx, pm, waitVars,
                 subVars, plcVars, lateVars>>

\* Back to the top of while (connected).
NextFrame ==
  /\ rpc' = IF connected THEN "recv" ELSE "exiting"
  /\ frame' = NoFrame

\* A reply: under pendMtx, find and forget the pending request.  Unknown ids
\* (a reply that comes after the timeout) are ignored.
MutantFindPending(i) == pending
FindPending(i) == {i} \cap pending

TakeReply ==
  /\ rpc = "handle" /\ frame.kind = "reply" /\ pendMtx = "free"
  /\ \/ /\ FindPending(frame.inv) = {}
        /\ NextFrame
        /\ UNCHANGED <<pendMtx, pending>>
     \/ \E i \in FindPending(frame.inv) :
        /\ pending' = pending \ {i}
        /\ pendMtx' = "reader"
        /\ frame' = [frame EXCEPT !.inv = i]
        /\ rpc' = "lockP"
  /\ UNCHANGED <<boundVars, connected, sock, uiVars, invokeCtr, pm, waitVars,
                 subVars, plcVars, lateVars>>

\* lock_guard g(p->m), still under pendMtx: fill the Pending in and notify.
CompleteRequest ==
  /\ rpc = "lockP" /\ pm[frame.inv] = "free"
  /\ done' = done \cup {frame.inv}
  /\ amsError' = IF frame.err THEN amsError \cup {frame.inv} ELSE amsError
  /\ pendMtx' = "free"
  /\ NextFrame
  /\ UNCHANGED <<boundVars, connected, sock, uiVars, reqVars, pm, subVars,
                 plcVars, lateVars>>

\* dispatchNotifications(): copy the handler under subMtx; a frame for a
\* handle nobody registered is dropped.
CopyHandler ==
  /\ rpc = "handle" /\ frame.kind = "note"
  /\ \/ /\ frame.inv \in byNotif
        /\ rpc' = "callback"
        /\ UNCHANGED frame
     \/ /\ frame.inv \notin byNotif
        /\ NextFrame
  /\ UNCHANGED <<boundVars, connected, sock, uiVars, reqVars, pendMtx, pm,
                 waitVars, subVars, plcVars, lateVars>>

\* cb(smp): NotifyChannel::onAdsSample runs on this thread.
RunHandler ==
  /\ rpc = "callback"
  /\ NextFrame
  /\ UNCHANGED <<boundVars, connected, sock, uiVars, reqVars, pendMtx, pm,
                 waitVars, subVars, plcVars, lateVars>>

\* After the loop: connected = false, then every waiter is completed with
\* error 1861 under pendMtx.
ExitLock ==
  /\ rpc = "exiting" /\ pendMtx = "free"
  /\ connected' = FALSE
  /\ pendMtx' = "reader"
  /\ rpc' = "exitWake"
  /\ UNCHANGED <<boundVars, sock, uiVars, reqVars, pm, waitVars, subVars, frame,
                 plcVars, lateVars>>

MutantExitWake(i) ==
  /\ rpc = "exitWake" /\ i \in pending \ done /\ pm[i] = "free"
  /\ pending' = pending \ {i}
  /\ UNCHANGED <<boundVars, connected, sock, uiVars, invokeCtr, pendMtx, pm, subVars,
                 waitVars, readVars, plcVars, lateVars>>
ExitWake(i) ==
  /\ rpc = "exitWake" /\ i \in pending \ done /\ pm[i] = "free"
  /\ done' = done \cup {i} /\ amsError' = amsError \cup {i}
  /\ UNCHANGED <<boundVars, connected, sock, uiVars, reqVars, pendMtx, pm,
                 subVars, readVars, plcVars, lateVars>>

ExitDone ==
  /\ rpc = "exitWake" /\ pending \subseteq done
  /\ pending' = {}
  /\ pendMtx' = "free"
  /\ rpc' = "exited"
  /\ UNCHANGED <<boundVars, connected, sock, uiVars, invokeCtr, pm, waitVars,
                 subVars, frame, plcVars, lateVars>>

-----------------------------------------------------------------------------
(* The PLC behind the router (external): it answers requests in any order,  *)
(* late or never, and sends samples for the notifications it accepted.      *)

Reply(i, err) == [kind |-> "reply", inv |-> i, err |-> err]

PlcAnswers(r, err) ==
  /\ r \in plcQueue
  /\ plcQueue' = plcQueue \ {r}
  /\ stream' = Append(stream, Reply(r.inv, err))
  /\ plcNotes' = IF r.op = "add" /\ ~err THEN plcNotes \cup {r.inv}
                 ELSE IF r.op = "del" THEN plcNotes \ {r.target}
                 ELSE plcNotes
  /\ r.op = "del" => ~err
  /\ UNCHANGED <<boundVars, connected, sock, uiVars, reqVars, pendMtx, pm,
                 waitVars, subVars, readVars, lateVars>>

PlcSendsSample(n) ==
  /\ sock = "open" /\ n \in plcNotes /\ samples < MaxSamples
  /\ samples' = samples + 1
  /\ stream' = Append(stream, [kind |-> "note", inv |-> n, err |-> FALSE])
  /\ UNCHANGED <<connects, connected, sock, uiVars, reqVars, pendMtx, pm,
                 waitVars, subVars, readVars, plcQueue, plcNotes, lateVars>>

PeerCloses ==
  /\ sock = "open"
  /\ sock' = "eof"
  /\ plcQueue' = {} /\ plcNotes' = {}
  /\ UNCHANGED <<boundVars, connected, uiVars, reqVars, pendMtx, pm, waitVars,
                 subVars, readVars, stream, lateVars>>

-----------------------------------------------------------------------------
UserCalls == \/ Connect \/ Disconnect
             \/ \E o \in {"call", "add"} : Call(o)
             \/ \E n \in Inv : RemoveNotification(n)

Requester == Register \/ LockAndWait \/ Completed \/ EraseAndReturn \/ Joined

Reader == \/ RecvFrame \/ RecvFails \/ TakeReply \/ CompleteRequest
          \/ CopyHandler \/ RunHandler
          \/ ExitLock \/ ExitDone \/ \E i \in Inv : ExitWake(i)

Plc == \/ \E r \in plcQueue, err \in BOOLEAN : PlcAnswers(r, err)
       \/ \E n \in Inv : PlcSendsSample(n)
       \/ PeerCloses

Next == UserCalls \/ Requester \/ Timeout \/ Reader \/ Plc

Spec == Init /\ [][Next]_vars

(* Both threads are scheduled and the 5 s timer of wait_for() expires.      *)
(* Nothing is assumed of the user, the PLC or the network.                  *)
Fairness == WF_vars(Requester) /\ WF_vars(Timeout) /\ WF_vars(Reader)

FairSpec == Spec /\ Fairness

-----------------------------------------------------------------------------
(* Properties.                                                             *)

\* The Pending records that exist: the stack frame of the request under way.
Live == IF uipc \in {"lockP", "waiting", "timedOut"} THEN {inv} ELSE {}

\* The reader never touches a Pending whose stack frame is gone: a pointer in
\* the map, or the one it took out of it, belongs to a request that has not
\* returned.  (At reader exit the map may still list requests already woken;
\* those are not touched again.)
PendingPointsToLiveFrame ==
  /\ \A i \in pending : i \in Live \/ (rpc = "exitWake" /\ i \in done)
  /\ rpc = "lockP" => frame.inv \in Live

\* What PendingPointsToLiveFrame rests on: the lock protocol of pendMtx, the
\* invoke ids handed out so far, and that a request is completed only after
\* it left the map (the exiting reader completes first and clears last).
PendMtxInv ==
  /\ pendMtx # "ui"
  /\ pendMtx = "reader" <=> rpc \in {"lockP", "exitWake"}
IdsInv ==
  /\ pending \cup done \subseteq 1..invokeCtr
  /\ inv <= invokeCtr
  /\ uipc = "register" => invokeCtr < MaxRequests
  /\ uipc \in {"lockP", "waiting", "timedOut"} => inv # NoInv
  /\ uipc \in {"register", "lockP", "waiting", "timedOut"} /\ op = "del"
       => target # NoInv
CompletionInv ==
  /\ rpc # "exitWake" => done \cap pending = {}
  /\ rpc = "lockP" => frame.inv \notin done \cup pending
ReaderInv == sock = "none" /\ uipc # "joining" => rpc = "none"

FrameInv == /\ PendingPointsToLiveFrame /\ PendMtxInv /\ IdsInv
            /\ CompletionInv /\ ReaderInv

\* A reply completes the request it answers and no other: a late answer to a
\* timed-out request cannot be taken for the answer of the next one.
ReplyBelongsToRequest ==
  \A i \in done \ amsError : \A r \in plcQueue : r.inv # i

\* A handler that the reader is about to run belongs to a NotifyChannel that
\* still exists, because removeNotification() waits for the DelNote reply,
\* which the same thread reads after it ran the handler.  Only a DelNote that
\* timed out breaks this.
HandlerOutlivesDispatch ==
  rpc = "callback" => frame.inv \notin freed \/ frame.inv \in lateDel

\* Every notification the PLC keeps sending has a handler, or its AddNote or
\* DelNote is still under way, or one of the two timed out: there are no
\* other orphans.
InFlight(n) ==
  \/ uipc \in {"lockP", "waiting", "timedOut"} /\ op = "add" /\ inv = n
  \/ uipc \in {"register", "lockP", "waiting", "timedOut"} /\ op = "del" /\ target = n
NotificationsAccountedFor ==
  \A n \in plcNotes : n \in byNotif \cup abandoned \cup lateDel \/ InFlight(n)

\* disconnect() comes back: the reader notices the closed socket and exits, so
\* the join ends.
DisconnectReturns == uipc = "joining" ~> uipc = "idle"

\* No wake-up is lost: a request that still waits is in the map, or in the
\* hands of the reader that is about to complete it.  So a reply, or the exit of
\* the reader, reaches it, whatever it was doing when it came.
NoRequestForgotten ==
  uipc \in {"lockP", "waiting"} /\ inv \notin done
    => inv \in pending \/ (rpc = "lockP" /\ frame.inv = inv)

\* What the four invariants above rest on, besides FrameInv.  The connection:
\* connected goes FALSE and the reader leaves its loop only when the peer can
\* no longer answer, and outside close() the reader is then past every handler.
Requesting == uipc \in {"lockP", "waiting", "timedOut"}
Exiting == {"exiting", "exitWake", "exited"}
ConnectionInv ==
  /\ sock # "open" => plcQueue = {} /\ plcNotes = {}
  /\ ~connected \/ rpc \in Exiting => sock # "open"
  /\ ~connected /\ uipc # "joining" => rpc \in Exiting \cup {"none"}

\* A request the PLC has not answered is not completed, is alone with its id,
\* and either the UI thread still waits for it or it was given up.
QueueInv ==
  /\ \A r \in plcQueue : r.inv \in 1..invokeCtr /\ r.inv \notin done \cup plcNotes
  /\ \A r, q \in plcQueue : r.inv = q.inv => r = q
  /\ \A r \in plcQueue :
       r.inv \in abandoned \/ (Requesting /\ r = [inv |-> inv, op |-> op, target |-> target])
  /\ abandoned \subseteq 1..invokeCtr /\ (Requesting => inv \notin abandoned)

\* A reply on its way: the request has left the PLC's queue, an AddNote that
\* failed created nothing, and an answered DelNote ended its notification.
ReplySound(f) ==
  f.kind = "reply" =>
    /\ f.inv \in 1..invokeCtr
    /\ \A r \in plcQueue : r.inv # f.inv
    /\ f.err => f.inv \notin plcNotes
    /\ Requesting /\ op = "del" /\ inv = f.inv => target \notin plcNotes
ReplyInv ==
  /\ ReplySound(frame) /\ \A k \in 1..Len(stream) : ReplySound(stream[k])
  /\ rpc = "lockP" => frame.kind = "reply"

\* Handlers: one exists only for a completed AddNote and never for one whose
\* removal began; once its DelNote is completed the PLC is silent and the
\* reader is not inside the handler.
HandlerInv ==
  /\ amsError \cup byNotif \cup freed \subseteq done
  /\ plcNotes \subseteq 1..invokeCtr
  /\ amsError \cap plcNotes = {} /\ freed \cap byNotif = {}
  /\ Requesting => inv \notin byNotif \cup freed
  /\ uipc = "register" \/ Requesting =>
       (op = "del" => target \in done \ byNotif)
  /\ Requesting /\ op = "del" /\ inv \in done =>
       target \notin plcNotes /\ ~(rpc = "callback" /\ frame.inv = target)

SessionInv ==
  /\ ConnectionInv /\ QueueInv /\ ReplyInv /\ HandlerInv
  /\ NoRequestForgotten /\ NotificationsAccountedFor /\ HandlerOutlivesDispatch

\* RouterAdsClient.cpp:279: "Wake any waiters so they time out / unblock."
\* Once the reader has left its loop, a request under way returns.
ExitUnblocksWaiters ==
  (uipc \in {"lockP", "waiting", "timedOut"} /\ rpc \in {"exiting", "exitWake"})
    ~> (uipc \notin {"lockP", "waiting", "timedOut"})
=============================================================================
