------------------------- MODULE RouterClientProofs -------------------------
(***************************************************************************)
(* Memory safety of RouterAdsClient's request / reader hand-over, and what *)
(* it promises about replies, waiters, notifications and their handlers,   *)
(* for any number of requests, samples and connections.                    *)
(***************************************************************************)
EXTENDS RouterClient, SequenceTheorems, TLAPS

USE DEF NoInv, Inv, boundVars, uiVars, reqVars, waitVars, subVars, readVars,
        plcVars, lateVars

LEMMA TypeInit == Init => TypeOK
<1> SUFFICES ASSUME Init PROVE TypeOK
  OBVIOUS
<1>1. <<>> \in Seq(Frame)
  BY EmptySeq
<1> QED BY <1>1, BoundsAssumption DEF Init, TypeOK, UiPc, ReaderPc, Op, Owner

\* The type of the state after request() returned to its caller.
LEMMA TypeReturn ==
  ASSUME TypeOK, uipc \in {"lockP", "waiting", "timedOut"}, NEW ok \in BOOLEAN,
         Return(ok), op = "add" => inv \in Inv, op = "del" => target \in Inv
  PROVE  /\ uipc' \in UiPc /\ op' \in Op
         /\ inv' \in Inv \cup {NoInv} /\ target' \in Inv \cup {NoInv}
         /\ connected' \in BOOLEAN /\ sock' \in {"none", "open", "eof"}
         /\ byNotif' \in SUBSET Inv /\ freed' \in SUBSET Inv
         /\ stream' \in Seq(Frame)
         /\ plcQueue' \in SUBSET [inv : Inv, op : Op, target : Inv \cup {NoInv}]
         /\ plcNotes' \in SUBSET Inv
<1>1. <<>> \in Seq(Frame)
  BY EmptySeq
<1>2. connected' \in BOOLEAN
  BY Zenon DEF Return, Close, TypeOK
<1> QED BY <1>1, <1>2 DEF Return, Close, TypeOK, UiPc

LEMMA TypeStep == TypeOK /\ FrameInv /\ [Next]_vars => TypeOK'
<1> SUFFICES ASSUME TypeOK, FrameInv, [Next]_vars PROVE TypeOK'
  OBVIOUS
<1> USE BoundsAssumption
<1>1. CASE Connect
  BY <1>1 DEF Connect, TypeOK, UiPc, ReaderPc, Op, Owner
<1>2. ASSUME NEW o \in {"call", "add"}, Call(o) PROVE TypeOK'
  BY <1>2 DEF Call, TypeOK, UiPc, ReaderPc, Op, Owner
<1>3. ASSUME NEW n \in Inv, RemoveNotification(n) PROVE TypeOK'
  <2>1. byNotif' \in SUBSET Inv
    BY <1>3 DEF RemoveNotification, TypeOK
  <2>2. freed' \in SUBSET Inv /\ uipc' \in UiPc /\ op' \in Op /\ target' \in Inv \cup {NoInv}
    BY <1>3 DEF RemoveNotification, TypeOK, UiPc, Op
  <2> QED BY <1>3, <2>1, <2>2 DEF RemoveNotification, TypeOK
<1>4. CASE Disconnect
  <2>1. <<>> \in Seq(Frame)
    BY EmptySeq
  <2>2. connected' \in BOOLEAN
    BY <1>4, Zenon DEF Disconnect, Close
  <2> QED BY <1>4, <2>1, <2>2 DEF Disconnect, Close, TypeOK, UiPc
<1>5. CASE Register
  <2>1. NextInv \in Inv /\ invokeCtr' \in Inv \cup {NoInv} /\ inv' \in Inv \cup {NoInv}
    BY <1>5 DEF Register, NextInv, TypeOK, FrameInv, IdsInv
  <2>2. [inv |-> NextInv, op |-> op, target |-> target]
          \in [inv : Inv, op : Op, target : Inv \cup {NoInv}]
    BY <2>1 DEF TypeOK
  <2>3. plcQueue' \in SUBSET [inv : Inv, op : Op, target : Inv \cup {NoInv}]
    BY <1>5, <2>2 DEF Register, TypeOK
  <2>4. pending' \in SUBSET Inv
    BY <1>5, <2>1 DEF Register, TypeOK
  <2> QED BY <1>5, <2>1, <2>3, <2>4 DEF Register, TypeOK, UiPc
<1>6. CASE LockAndWait
  BY <1>6 DEF LockAndWait, TypeOK, UiPc, ReaderPc, Op, Owner
<1>7. CASE Completed
  <2>1. op = "add" => inv \in Inv
    BY <1>7 DEF Completed, TypeOK, FrameInv, IdsInv
  <2>2. op = "del" => target \in Inv
    BY <1>7 DEF Completed, TypeOK, FrameInv, IdsInv
  <2>3. /\ uipc' \in UiPc /\ op' \in Op
        /\ inv' \in Inv \cup {NoInv} /\ target' \in Inv \cup {NoInv}
        /\ connected' \in BOOLEAN /\ sock' \in {"none", "open", "eof"}
        /\ byNotif' \in SUBSET Inv /\ freed' \in SUBSET Inv
        /\ stream' \in Seq(Frame)
        /\ plcQueue' \in SUBSET [inv : Inv, op : Op, target : Inv \cup {NoInv}]
        /\ plcNotes' \in SUBSET Inv
    BY <1>7, <2>1, <2>2, TypeReturn DEF Completed
  <2> QED BY <1>7, <2>3 DEF Completed, TypeOK
<1>8. CASE EraseAndReturn
  <2>1. op = "add" => inv \in Inv
    BY <1>8 DEF EraseAndReturn, TypeOK, FrameInv, IdsInv
  <2>2. op = "del" => target \in Inv
    BY <1>8 DEF EraseAndReturn, TypeOK, FrameInv, IdsInv
  <2>3. /\ uipc' \in UiPc /\ op' \in Op
        /\ inv' \in Inv \cup {NoInv} /\ target' \in Inv \cup {NoInv}
        /\ connected' \in BOOLEAN /\ sock' \in {"none", "open", "eof"}
        /\ byNotif' \in SUBSET Inv /\ freed' \in SUBSET Inv
        /\ stream' \in Seq(Frame)
        /\ plcQueue' \in SUBSET [inv : Inv, op : Op, target : Inv \cup {NoInv}]
        /\ plcNotes' \in SUBSET Inv
    BY <1>8, <2>1, <2>2, TypeReturn DEF EraseAndReturn
  <2>4. pending' \in SUBSET Inv /\ pm' \in [Inv -> Owner]
    BY <1>8 DEF EraseAndReturn, TypeOK, Owner
  <2>5. abandoned' \in SUBSET Inv /\ lateDel' \in SUBSET Inv
    BY <1>8, <2>2 DEF EraseAndReturn, GiveUp, TypeOK, FrameInv, IdsInv
  <2> QED BY <1>8, <2>3, <2>4, <2>5 DEF EraseAndReturn, TypeOK
<1>9. CASE Joined
  BY <1>9 DEF Joined, TypeOK, UiPc, ReaderPc, Op, Owner
<1>10. CASE Timeout
  <2>1. pm' \in [Inv -> Owner]
    BY <1>10 DEF Timeout, TypeOK, Owner
  <2> QED BY <1>10, <2>1 DEF Timeout, TypeOK, UiPc
<1>11. CASE RecvFrame
  BY <1>11 DEF RecvFrame, TypeOK, UiPc, ReaderPc, Op, Owner
<1>12. CASE RecvFails
  BY <1>12 DEF RecvFails, TypeOK, UiPc, ReaderPc, Op, Owner
<1>13. CASE TakeReply
  <2>1. frame \in Frame
    BY <1>13 DEF TakeReply, TypeOK, NoFrame
  <2>2. frame' \in Frame \cup {NoFrame} /\ rpc' \in ReaderPc
    <3>1. CASE FindPending(frame.inv) = {} /\ NextFrame
      BY <3>1 DEF NextFrame, ReaderPc
    <3>2. ASSUME NEW i \in FindPending(frame.inv),
                 frame' = [frame EXCEPT !.inv = i], rpc' = "lockP"
          PROVE  frame' \in Frame \cup {NoFrame} /\ rpc' \in ReaderPc
      <4>1. i \in Inv
        BY DEF FindPending, TypeOK
      <4> QED BY <2>1, <3>2, <4>1 DEF Frame, ReaderPc
    <3> QED BY <1>13, <3>1, <3>2 DEF TakeReply
  <2>3. pending' \in SUBSET Inv /\ pendMtx' \in Owner
    BY <1>13 DEF TakeReply, TypeOK, Owner
  <2> QED BY <1>13, <2>2, <2>3 DEF TakeReply, TypeOK
<1>14. CASE CompleteRequest
  <2>1. frame.inv \in Inv
    BY <1>14 DEF CompleteRequest, FrameInv, IdsInv, PendingPointsToLiveFrame, Live, TypeOK
  <2>2. done' \in SUBSET Inv /\ amsError' \in SUBSET Inv
    BY <1>14, <2>1 DEF CompleteRequest, TypeOK
  <2> QED BY <1>14, <2>2 DEF CompleteRequest, NextFrame, TypeOK, ReaderPc, Owner
<1>15. CASE CopyHandler
  BY <1>15 DEF CopyHandler, NextFrame, TypeOK, UiPc, ReaderPc, Op, Owner
<1>16. CASE RunHandler
  BY <1>16 DEF RunHandler, NextFrame, TypeOK, UiPc, ReaderPc, Op, Owner
<1>17. CASE ExitLock
  BY <1>17 DEF ExitLock, TypeOK, UiPc, ReaderPc, Op, Owner
<1>18. ASSUME NEW i \in Inv, ExitWake(i) PROVE TypeOK'
  BY <1>18 DEF ExitWake, TypeOK, UiPc, ReaderPc, Op, Owner
<1>19. CASE ExitDone
  BY <1>19 DEF ExitDone, TypeOK, UiPc, ReaderPc, Op, Owner
<1>20. ASSUME NEW r \in plcQueue, NEW err \in BOOLEAN, PlcAnswers(r, err) PROVE TypeOK'
  <2>1. r.inv \in Inv /\ Reply(r.inv, err) \in Frame
    BY DEF TypeOK, Reply, Frame
  <2>2. stream' \in Seq(Frame)
    BY <1>20, <2>1, AppendProperties DEF PlcAnswers, TypeOK
  <2>3. plcNotes' \in SUBSET Inv
    BY <1>20, <2>1 DEF PlcAnswers, TypeOK
  <2>4. plcQueue' \in SUBSET [inv : Inv, op : Op, target : Inv \cup {NoInv}]
    BY <1>20 DEF PlcAnswers, TypeOK
  <2> QED BY <1>20, <2>2, <2>3, <2>4 DEF PlcAnswers, TypeOK
<1>21. ASSUME NEW n \in Inv, PlcSendsSample(n) PROVE TypeOK'
  <2>1. [kind |-> "note", inv |-> n, err |-> FALSE] \in Frame
    BY DEF Frame
  <2>2. stream' \in Seq(Frame)
    BY <1>21, <2>1, AppendProperties DEF PlcSendsSample, TypeOK
  <2> QED BY <1>21, <2>2 DEF PlcSendsSample, TypeOK
<1>22. CASE PeerCloses
  BY <1>22 DEF PeerCloses, TypeOK, UiPc, ReaderPc, Op, Owner
<1>23. CASE UNCHANGED vars
  BY <1>23 DEF vars, TypeOK, UiPc, ReaderPc, Op, Owner
<1> QED
  BY <1>1, <1>2, <1>3, <1>4, <1>5, <1>6, <1>7, <1>8, <1>9, <1>10, <1>11, <1>12, <1>13, <1>14, <1>15, <1>16, <1>17, <1>18, <1>19, <1>20, <1>21, <1>22, <1>23
     DEF Next, UserCalls, Requester, Reader, Plc

\* Where a returning request leaves the UI thread.
LEMMA ReturnLeaves ==
  ASSUME NEW ok, Return(ok)
  PROVE  /\ uipc' \in {"idle", "joining"} /\ inv' = inv
         /\ sock' = "none" => uipc' = "joining" \/ sock = "none"
  BY DEF Return, Close

LEMMA FrameStep == TypeOK /\ FrameInv /\ [Next]_vars => FrameInv'
<1> SUFFICES ASSUME TypeOK, FrameInv, [Next]_vars PROVE FrameInv'
  OBVIOUS
<1> USE BoundsAssumption DEF FrameInv, PendingPointsToLiveFrame, PendMtxInv, IdsInv,
        CompletionInv, ReaderInv, Live
<1>1. CASE Connect
  BY <1>1 DEF Connect, TypeOK
<1>2. ASSUME NEW o \in {"call", "add"}, Call(o) PROVE FrameInv'
  BY <1>2 DEF Call, TypeOK
<1>3. ASSUME NEW n \in Inv, RemoveNotification(n) PROVE FrameInv'
  BY <1>3 DEF RemoveNotification, TypeOK
<1>4. CASE Disconnect
  BY <1>4 DEF Disconnect, Close, TypeOK
<1>5. CASE Register
  BY <1>5 DEF Register, NextInv, TypeOK
<1>6. CASE LockAndWait
  BY <1>6 DEF LockAndWait, TypeOK
<1>7. CASE Completed
  <2>1. /\ uipc' \in {"idle", "joining"} /\ inv' = inv
        /\ sock' = "none" => uipc' = "joining" \/ sock = "none"
    BY <1>7, ReturnLeaves DEF Completed
  <2>2. rpc # "exitWake" => pending = {}
    BY <1>7 DEF Completed
  <2>3. rpc # "lockP"
    BY <1>7 DEF Completed
  <2>4. PendingPointsToLiveFrame'
    BY <1>7, <2>1, <2>2, <2>3 DEF Completed
  <2> QED BY <1>7, <2>1, <2>4 DEF Completed
<1>8. CASE EraseAndReturn
  <2>1. /\ uipc' \in {"idle", "joining"} /\ inv' = inv
        /\ sock' = "none" => uipc' = "joining" \/ sock = "none"
    BY <1>8, ReturnLeaves DEF EraseAndReturn
  <2>2. rpc \notin {"lockP", "exitWake"} /\ pending' = {}
    BY <1>8 DEF EraseAndReturn
  <2> QED BY <1>8, <2>1, <2>2 DEF EraseAndReturn
<1>9. CASE Joined
  BY <1>9 DEF Joined, TypeOK
<1>10. CASE Timeout
  BY <1>10 DEF Timeout, TypeOK
<1>11. CASE RecvFrame
  BY <1>11 DEF RecvFrame, TypeOK
<1>12. CASE RecvFails
  BY <1>12 DEF RecvFails, TypeOK
<1>13. CASE TakeReply
  <2>1. rpc = "handle" /\ pendMtx = "free" /\ done \cap pending = {}
    BY <1>13 DEF TakeReply
  <2>2. CASE pending' = pending /\ pendMtx' = pendMtx /\ NextFrame
    BY <1>13, <2>1, <2>2 DEF TakeReply, NextFrame
  <2>3. ASSUME NEW i \in FindPending(frame.inv), pending' = pending \ {i},
               pendMtx' = "reader", frame' = [frame EXCEPT !.inv = i], rpc' = "lockP"
        PROVE  FrameInv'
    <3>1. i \in pending /\ i \in Live
      BY <2>1, <2>3 DEF FindPending
    <3>2. frame'.inv = i
      <4>1. frame \in Frame
        BY <1>13 DEF TakeReply, TypeOK, NoFrame
      <4> QED BY <2>3, <4>1 DEF Frame
    <3> QED BY <1>13, <2>1, <2>3, <3>1, <3>2 DEF TakeReply
  <2> QED BY <1>13, <2>2, <2>3 DEF TakeReply
<1>14. CASE CompleteRequest
  <2>1. frame.inv \in Live /\ rpc = "lockP" /\ pendMtx = "reader"
    BY <1>14 DEF CompleteRequest
  <2>2. rpc' \in {"recv", "exiting"}
    BY <1>14 DEF CompleteRequest, NextFrame
  <2>5. frame.inv \notin pending /\ done \cap pending = {}
    BY <2>1
  <2>6. frame.inv = inv /\ inv \in 1..invokeCtr
    BY <2>1 DEF TypeOK
  <2>7. /\ done' = done \cup {inv} /\ pending' = pending
        /\ invokeCtr' = invokeCtr
    BY <1>14, <2>6 DEF CompleteRequest
  <2>3. done' \cap pending' = {} /\ pending' \cup done' \subseteq 1..invokeCtr'
    BY <2>5, <2>6, <2>7
  <2>4. PendingPointsToLiveFrame' /\ PendMtxInv' /\ ReaderInv'
    BY <1>14, <2>1, <2>2 DEF CompleteRequest
  <2> QED BY <1>14, <2>2, <2>3, <2>4 DEF CompleteRequest
<1>15. CASE CopyHandler
  BY <1>15 DEF CopyHandler, NextFrame, TypeOK
<1>16. CASE RunHandler
  BY <1>16 DEF RunHandler, NextFrame, TypeOK
<1>17. CASE ExitLock
  BY <1>17 DEF ExitLock, TypeOK
<1>18. ASSUME NEW i \in Inv, ExitWake(i) PROVE FrameInv'
  BY <1>18 DEF ExitWake, TypeOK
<1>19. CASE ExitDone
  BY <1>19 DEF ExitDone, TypeOK
<1>20. ASSUME NEW r \in plcQueue, NEW err \in BOOLEAN, PlcAnswers(r, err) PROVE FrameInv'
  BY <1>20 DEF PlcAnswers, Reply, TypeOK
<1>21. ASSUME NEW n \in Inv, PlcSendsSample(n) PROVE FrameInv'
  BY <1>21 DEF PlcSendsSample, TypeOK
<1>22. CASE PeerCloses
  BY <1>22 DEF PeerCloses, TypeOK
<1>23. CASE UNCHANGED vars
  BY <1>23 DEF vars, TypeOK
<1> QED
  BY <1>1, <1>2, <1>3, <1>4, <1>5, <1>6, <1>7, <1>8, <1>9, <1>10, <1>11, <1>12, <1>13, <1>14, <1>15, <1>16, <1>17, <1>18, <1>19, <1>20, <1>21, <1>22, <1>23
     DEF Next, UserCalls, Requester, Reader, Plc

LEMMA FrameInit == Init => FrameInv
  BY BoundsAssumption
     DEF Init, FrameInv, PendingPointsToLiveFrame, PendMtxInv, IdsInv,
         CompletionInv, ReaderInv, Live

\* Every state of the client has the type TypeOK.
THEOREM TypeCorrect == Spec => []TypeOK
  BY TypeInit, TypeStep, FrameInit, FrameStep, PTL DEF Spec

\* The reader thread never touches the Pending record of a request that has
\* returned, neither through the map nor through the pointer it took from it,
\* for any number of requests, timeouts, late replies and reconnects.
THEOREM NoDanglingPending == Spec => []PendingPointsToLiveFrame
<1>1. FrameInv => PendingPointsToLiveFrame
  BY DEF FrameInv
<1> QED BY <1>1, TypeInit, TypeStep, FrameInit, FrameStep, PTL DEF Spec

-----------------------------------------------------------------------------
(* Replies, waiters, notifications and handlers: SessionInv is inductive    *)
(* relative to TypeOK and FrameInv.                                         *)

\* No step of either thread loses a request that still waits.
LEMMA ForgottenStep ==
  TypeOK /\ FrameInv /\ NoRequestForgotten /\ [Next]_vars
    => NoRequestForgotten'
<1> SUFFICES ASSUME TypeOK, FrameInv, NoRequestForgotten, [Next]_vars PROVE NoRequestForgotten'
  OBVIOUS
<1> USE BoundsAssumption
    DEF FrameInv, PendingPointsToLiveFrame, PendMtxInv,
        IdsInv, CompletionInv, Live, NoRequestForgotten
<1>1. CASE Connect
  BY <1>1 DEF Connect, TypeOK
<1>2. ASSUME NEW o \in {"call", "add"}, Call(o) PROVE NoRequestForgotten'
  BY <1>2 DEF Call, TypeOK
<1>3. ASSUME NEW n \in Inv, RemoveNotification(n) PROVE NoRequestForgotten'
  BY <1>3 DEF RemoveNotification, TypeOK
<1>4. CASE Disconnect
  BY <1>4 DEF Disconnect, Close, TypeOK
<1>5. CASE Register
  BY <1>5 DEF Register, NextInv, TypeOK
<1>6. CASE LockAndWait
  BY <1>6 DEF LockAndWait, TypeOK
<1>7. CASE Completed
  BY <1>7 DEF Completed, Return, Close, TypeOK
<1>8. CASE EraseAndReturn
  BY <1>8 DEF EraseAndReturn, Return, Close, GiveUp, TypeOK
<1>9. CASE Joined
  BY <1>9 DEF Joined, TypeOK
<1>10. CASE Timeout
  BY <1>10 DEF Timeout, TypeOK
<1>11. CASE RecvFrame
  BY <1>11 DEF RecvFrame, TypeOK
<1>12. CASE RecvFails
  BY <1>12 DEF RecvFails, TypeOK
<1>13. CASE TakeReply
  <2>1. CASE UNCHANGED pending
    BY <1>13, <2>1 DEF TakeReply, TypeOK
  <2>2. ASSUME NEW i \in FindPending(frame.inv), pending' = pending \ {i},
               frame' = [frame EXCEPT !.inv = i], rpc' = "lockP"
        PROVE  NoRequestForgotten'
    <3>1. frame'.inv = i
      BY <1>13, <2>2 DEF TakeReply, TypeOK, Frame, NoFrame
    <3>2. rpc # "lockP"
      BY <1>13 DEF TakeReply
    <3> QED BY <1>13, <2>2, <3>1, <3>2 DEF TakeReply
  <2> QED BY <1>13, <2>1, <2>2 DEF TakeReply
<1>14. CASE CompleteRequest
  BY <1>14 DEF CompleteRequest, NextFrame, TypeOK
<1>15. CASE CopyHandler
  BY <1>15 DEF CopyHandler, NextFrame, TypeOK
<1>16. CASE RunHandler
  BY <1>16 DEF RunHandler, NextFrame, TypeOK
<1>17. CASE ExitLock
  BY <1>17 DEF ExitLock, TypeOK
<1>18. ASSUME NEW i \in Inv, ExitWake(i) PROVE NoRequestForgotten'
  BY <1>18 DEF ExitWake, TypeOK
<1>19. CASE ExitDone
  BY <1>19 DEF ExitDone, TypeOK
<1>20. ASSUME NEW r \in plcQueue, NEW err \in BOOLEAN, PlcAnswers(r, err) PROVE NoRequestForgotten'
  BY <1>20 DEF PlcAnswers, Reply, TypeOK
<1>21. ASSUME NEW n \in Inv, PlcSendsSample(n) PROVE NoRequestForgotten'
  BY <1>21 DEF PlcSendsSample, TypeOK
<1>22. CASE PeerCloses
  BY <1>22 DEF PeerCloses, TypeOK
<1>23. CASE UNCHANGED vars
  BY <1>23 DEF vars, TypeOK
<1> QED
  BY <1>1, <1>2, <1>3, <1>4, <1>5, <1>6, <1>7, <1>8, <1>9, <1>10, <1>11,
     <1>12, <1>13, <1>14, <1>15, <1>16, <1>17, <1>18, <1>19, <1>20, <1>21, <1>22, <1>23
     DEF Next, UserCalls, Requester, Reader, Plc

\* The connection part of the invariant needs nothing of the messages.
LEMMA ConnectionStep ==
  TypeOK /\ FrameInv /\ ConnectionInv /\ [Next]_vars
    => ConnectionInv'
<1> SUFFICES ASSUME TypeOK, FrameInv, ConnectionInv, [Next]_vars PROVE ConnectionInv'
  OBVIOUS
<1> USE BoundsAssumption
    DEF ReaderInv, FrameInv,
        ConnectionInv, Exiting, Requesting
<1>1. CASE Connect
  BY <1>1 DEF Connect, TypeOK
<1>2. ASSUME NEW o \in {"call", "add"}, Call(o) PROVE ConnectionInv'
  BY <1>2 DEF Call, TypeOK
<1>3. ASSUME NEW n \in Inv, RemoveNotification(n) PROVE ConnectionInv'
  BY <1>3 DEF RemoveNotification, TypeOK
<1>4. CASE Disconnect
  BY <1>4 DEF Disconnect, Close, TypeOK
<1>5. CASE Register
  BY <1>5 DEF Register, NextInv, TypeOK
<1>6. CASE LockAndWait
  BY <1>6 DEF LockAndWait, TypeOK
<1>7. CASE Completed
  <2>1. CASE Close /\ UNCHANGED readVars
    BY <2>1 DEF Close, TypeOK
  <2>2. CASE UNCHANGED <<connected, sock, plcVars, readVars>> /\ uipc' = "idle"
    BY <1>7, <2>2 DEF Completed, TypeOK
  <2> QED BY <1>7, <2>1, <2>2 DEF Completed, Return
<1>8. CASE EraseAndReturn
  BY <1>8 DEF EraseAndReturn, Return, Close, GiveUp, TypeOK
<1>9. CASE Joined
  BY <1>9 DEF Joined, TypeOK
<1>10. CASE Timeout
  BY <1>10 DEF Timeout, TypeOK
<1>11. CASE RecvFrame
  BY <1>11 DEF RecvFrame, TypeOK
<1>12. CASE RecvFails
  BY <1>12 DEF RecvFails, TypeOK
<1>13. CASE TakeReply
  BY <1>13 DEF TakeReply, NextFrame, FindPending, TypeOK
<1>14. CASE CompleteRequest
  BY <1>14 DEF CompleteRequest, NextFrame, TypeOK
<1>15. CASE CopyHandler
  BY <1>15 DEF CopyHandler, NextFrame, TypeOK
<1>16. CASE RunHandler
  BY <1>16 DEF RunHandler, NextFrame, TypeOK
<1>17. CASE ExitLock
  BY <1>17 DEF ExitLock, TypeOK
<1>18. ASSUME NEW i \in Inv, ExitWake(i) PROVE ConnectionInv'
  BY <1>18 DEF ExitWake, TypeOK
<1>19. CASE ExitDone
  BY <1>19 DEF ExitDone, TypeOK
<1>20. ASSUME NEW r \in plcQueue, NEW err \in BOOLEAN, PlcAnswers(r, err) PROVE ConnectionInv'
  BY <1>20 DEF PlcAnswers, Reply, TypeOK
<1>21. ASSUME NEW n \in Inv, PlcSendsSample(n) PROVE ConnectionInv'
  BY <1>21 DEF PlcSendsSample, TypeOK
<1>22. CASE PeerCloses
  BY <1>22 DEF PeerCloses, TypeOK
<1>23. CASE UNCHANGED vars
  BY <1>23 DEF vars, TypeOK
<1> QED
  BY <1>1, <1>2, <1>3, <1>4, <1>5, <1>6, <1>7, <1>8, <1>9, <1>10, <1>11,
     <1>12, <1>13, <1>14, <1>15, <1>16, <1>17, <1>18, <1>19, <1>20, <1>21, <1>22, <1>23
     DEF Next, UserCalls, Requester, Reader, Plc

\* The requests on their way to the PLC.
LEMMA QueueStep ==
  TypeOK /\ FrameInv /\ ConnectionInv /\ QueueInv /\ ReplyInv /\ HandlerInv /\ [Next]_vars
    => QueueInv'
<1> SUFFICES ASSUME TypeOK, FrameInv, ConnectionInv, QueueInv, ReplyInv, HandlerInv, [Next]_vars PROVE QueueInv'
  OBVIOUS
<1> USE BoundsAssumption
    DEF FrameInv, IdsInv, PendingPointsToLiveFrame, Live, ConnectionInv,
        QueueInv, HandlerInv, ReplyInv, ReplySound, Exiting, Requesting
<1>1. CASE Connect
  BY <1>1 DEF Connect, TypeOK
<1>2. ASSUME NEW o \in {"call", "add"}, Call(o) PROVE QueueInv'
  BY <1>2 DEF Call, TypeOK
<1>3. ASSUME NEW n \in Inv, RemoveNotification(n) PROVE QueueInv'
  BY <1>3 DEF RemoveNotification, TypeOK
<1>4. CASE Disconnect
  BY <1>4 DEF Disconnect, Close, TypeOK
<1>5. CASE Register
  BY <1>5 DEF Register, NextInv, TypeOK
<1>6. CASE LockAndWait
  BY <1>6 DEF LockAndWait, TypeOK
<1>7. CASE Completed
  BY <1>7 DEF Completed, Return, Close, TypeOK
<1>8. CASE EraseAndReturn
  BY <1>8 DEF EraseAndReturn, Return, Close, GiveUp, TypeOK
<1>9. CASE Joined
  BY <1>9 DEF Joined, TypeOK
<1>10. CASE Timeout
  BY <1>10 DEF Timeout, TypeOK
<1>11. CASE RecvFrame
  BY <1>11 DEF RecvFrame, TypeOK
<1>12. CASE RecvFails
  BY <1>12 DEF RecvFails, TypeOK
<1>13. CASE TakeReply
  BY <1>13 DEF TakeReply, NextFrame, FindPending, TypeOK
<1>14. CASE CompleteRequest
  BY <1>14 DEF CompleteRequest, NextFrame, TypeOK
<1>15. CASE CopyHandler
  BY <1>15 DEF CopyHandler, NextFrame, TypeOK
<1>16. CASE RunHandler
  BY <1>16 DEF RunHandler, NextFrame, TypeOK
<1>17. CASE ExitLock
  BY <1>17 DEF ExitLock, TypeOK
<1>18. ASSUME NEW i \in Inv, ExitWake(i) PROVE QueueInv'
  BY <1>18 DEF ExitWake, TypeOK
<1>19. CASE ExitDone
  BY <1>19 DEF ExitDone, TypeOK
<1>20. ASSUME NEW r \in plcQueue, NEW err \in BOOLEAN, PlcAnswers(r, err) PROVE QueueInv'
  BY <1>20 DEF PlcAnswers, Reply, TypeOK
<1>21. ASSUME NEW n \in Inv, PlcSendsSample(n) PROVE QueueInv'
  BY <1>21 DEF PlcSendsSample, TypeOK
<1>22. CASE PeerCloses
  BY <1>22 DEF PeerCloses, TypeOK
<1>23. CASE UNCHANGED vars
  BY <1>23 DEF vars, TypeOK
<1> QED
  BY <1>1, <1>2, <1>3, <1>4, <1>5, <1>6, <1>7, <1>8, <1>9, <1>10, <1>11,
     <1>12, <1>13, <1>14, <1>15, <1>16, <1>17, <1>18, <1>19, <1>20, <1>21, <1>22, <1>23
     DEF Next, UserCalls, Requester, Reader, Plc

\* The replies on their way to the reader.
LEMMA ReplyStep ==
  TypeOK /\ FrameInv /\ ConnectionInv /\ QueueInv /\ ReplyInv /\ HandlerInv /\ [Next]_vars
    => ReplyInv'
<1> SUFFICES ASSUME TypeOK, FrameInv, ConnectionInv, QueueInv, ReplyInv, HandlerInv, [Next]_vars PROVE ReplyInv'
  OBVIOUS
<1> USE BoundsAssumption
    DEF FrameInv, IdsInv, QueueInv, HandlerInv,
        ReplyInv, ReplySound, Requesting, NoFrame
<1>1. CASE Connect
  BY <1>1 DEF Connect, TypeOK
<1>2. ASSUME NEW o \in {"call", "add"}, Call(o) PROVE ReplyInv'
  BY <1>2 DEF Call, TypeOK
<1>3. ASSUME NEW n \in Inv, RemoveNotification(n) PROVE ReplyInv'
  BY <1>3 DEF RemoveNotification, TypeOK
<1>4. CASE Disconnect
  BY <1>4 DEF Disconnect, Close, TypeOK
<1>5. CASE Register
  BY <1>5 DEF Register, NextInv, TypeOK
<1>6. CASE LockAndWait
  BY <1>6 DEF LockAndWait, TypeOK
<1>7. CASE Completed
  BY <1>7 DEF Completed, Return, Close, TypeOK
<1>8. CASE EraseAndReturn
  BY <1>8 DEF EraseAndReturn, Return, Close, GiveUp, TypeOK
<1>9. CASE Joined
  BY <1>9 DEF Joined, TypeOK
<1>10. CASE Timeout
  BY <1>10 DEF Timeout, TypeOK
<1>11. CASE RecvFrame
  BY <1>11 DEF RecvFrame, TypeOK
<1>12. CASE RecvFails
  BY <1>12 DEF RecvFails, TypeOK
<1>13. CASE TakeReply
  <2>1. frame \in Frame
    BY <1>13 DEF TakeReply, TypeOK
  <2>2. CASE frame' = NoFrame /\ rpc' # "lockP"
    BY <1>13, <2>2 DEF TakeReply, TypeOK
  <2>3. ASSUME NEW i \in FindPending(frame.inv), frame' = [frame EXCEPT !.inv = i]
        PROVE  ReplyInv'
    <3>1. frame' = frame
      BY <2>1, <2>3 DEF FindPending, Frame
    <3> QED BY <1>13, <3>1 DEF TakeReply, TypeOK
  <2> QED BY <1>13, <2>2, <2>3 DEF TakeReply, NextFrame
<1>14. CASE CompleteRequest
  BY <1>14 DEF CompleteRequest, NextFrame, TypeOK
<1>15. CASE CopyHandler
  BY <1>15 DEF CopyHandler, NextFrame, TypeOK
<1>16. CASE RunHandler
  BY <1>16 DEF RunHandler, NextFrame, TypeOK
<1>17. CASE ExitLock
  BY <1>17 DEF ExitLock, TypeOK
<1>18. ASSUME NEW i \in Inv, ExitWake(i) PROVE ReplyInv'
  BY <1>18 DEF ExitWake, TypeOK
<1>19. CASE ExitDone
  BY <1>19 DEF ExitDone, TypeOK
<1>20. ASSUME NEW r \in plcQueue, NEW err \in BOOLEAN, PlcAnswers(r, err) PROVE ReplyInv'
  <2>1. ASSUME NEW f \in Frame, ReplySound(f) PROVE ReplySound(f)'
    BY <1>20, <2>1 DEF PlcAnswers, TypeOK
  <2>2. ReplySound(Reply(r.inv, err))'
    <3>1. r.inv \in 1..invokeCtr' /\ \A q \in plcQueue' : q.inv # r.inv
      BY <1>20 DEF PlcAnswers, TypeOK
    <3>2. err => r.inv \notin plcNotes'
      BY <1>20 DEF PlcAnswers, TypeOK
    <3>3. (Requesting /\ op = "del" /\ inv = r.inv => target \notin plcNotes)'
      BY <1>20 DEF PlcAnswers, TypeOK
    <3> QED BY <3>1, <3>2, <3>3 DEF Reply
  <2>3. ReplySound(frame)'
    <3>1. CASE frame \in Frame
      BY <1>20, <2>1, <3>1 DEF PlcAnswers
    <3>2. CASE frame = NoFrame
      BY <1>20, <3>2 DEF PlcAnswers
    <3> QED BY <3>1, <3>2 DEF TypeOK
  <2>4. ASSUME NEW k \in 1..Len(stream') PROVE ReplySound(stream[k])'
    <3>1. /\ Len(stream') = Len(stream) + 1
          /\ stream'[Len(stream) + 1] = Reply(r.inv, err)
          /\ k # Len(stream) + 1 => stream'[k] = stream[k] /\ stream[k] \in Frame
      BY <1>20, AppendProperties DEF PlcAnswers, TypeOK
    <3>2. CASE k = Len(stream) + 1
      BY <2>2, <3>1, <3>2
    <3>3. CASE k # Len(stream) + 1
      BY <2>1, <3>1, <3>3 DEF TypeOK
    <3> QED BY <3>2, <3>3
  <2> QED BY <1>20, <2>3, <2>4 DEF PlcAnswers
<1>21. ASSUME NEW n \in Inv, PlcSendsSample(n) PROVE ReplyInv'
  BY <1>21 DEF PlcSendsSample, TypeOK
<1>22. CASE PeerCloses
  BY <1>22 DEF PeerCloses, TypeOK
<1>23. CASE UNCHANGED vars
  BY <1>23 DEF vars, TypeOK
<1> QED
  BY <1>1, <1>2, <1>3, <1>4, <1>5, <1>6, <1>7, <1>8, <1>9, <1>10, <1>11,
     <1>12, <1>13, <1>14, <1>15, <1>16, <1>17, <1>18, <1>19, <1>20, <1>21, <1>22, <1>23
     DEF Next, UserCalls, Requester, Reader, Plc

\* The handlers and the notifications behind them.
LEMMA HandlerStep ==
  TypeOK /\ FrameInv /\ ConnectionInv /\ QueueInv /\ ReplyInv /\ HandlerInv /\ [Next]_vars
    => HandlerInv'
<1> SUFFICES ASSUME TypeOK, FrameInv, ConnectionInv, QueueInv, ReplyInv, HandlerInv, [Next]_vars PROVE HandlerInv'
  OBVIOUS
<1> USE BoundsAssumption
    DEF FrameInv, IdsInv, PendingPointsToLiveFrame, Live, ConnectionInv,
        QueueInv, HandlerInv, ReplyInv, ReplySound, Exiting, Requesting
<1>1. CASE Connect
  BY <1>1 DEF Connect, TypeOK
<1>2. ASSUME NEW o \in {"call", "add"}, Call(o) PROVE HandlerInv'
  BY <1>2 DEF Call, TypeOK
<1>3. ASSUME NEW n \in Inv, RemoveNotification(n) PROVE HandlerInv'
  <2>1. /\ n \in done /\ n \notin freed /\ byNotif' = byNotif \ {n}
        /\ UNCHANGED <<amsError, done, plcNotes, invokeCtr, inv>>
    BY <1>3 DEF RemoveNotification, TypeOK
  <2>2. CASE uipc' = "register" /\ target' = n /\ UNCHANGED freed
    BY <2>1, <2>2
  <2>3. CASE freed' = freed \cup {n} /\ UNCHANGED <<uipc, op, target>>
    BY <1>3, <2>1, <2>3 DEF RemoveNotification
  <2> QED BY <1>3, <2>2, <2>3 DEF RemoveNotification
<1>4. CASE Disconnect
  BY <1>4 DEF Disconnect, Close, TypeOK
<1>5. CASE Register
  BY <1>5 DEF Register, NextInv, TypeOK
<1>6. CASE LockAndWait
  BY <1>6 DEF LockAndWait, TypeOK
<1>7. CASE Completed
  <2>1. inv \in done /\ uipc' \in {"idle", "joining"}
    BY <1>7, ReturnLeaves DEF Completed
  <2>2. UNCHANGED <<invokeCtr, done, amsError>> /\ plcNotes' \subseteq plcNotes
    BY <1>7 DEF Completed, Return, Close
  <2>3. /\ byNotif' \subseteq byNotif \cup {inv} /\ freed' \subseteq freed \cup {target}
        /\ byNotif' = byNotif \/ (freed' = freed /\ inv \notin freed)
        /\ freed' = freed \/ (byNotif' = byNotif /\ target \in done \ byNotif)
    BY <1>7 DEF Completed, Return
  <2> QED BY <2>1, <2>2, <2>3
<1>8. CASE EraseAndReturn
  <2>1. uipc' \in {"idle", "joining"}
    BY <1>8, ReturnLeaves DEF EraseAndReturn
  <2>2. UNCHANGED <<invokeCtr, done, amsError>> /\ plcNotes' \subseteq plcNotes
    BY <1>8 DEF EraseAndReturn, Return, Close
  <2>3. /\ byNotif' = byNotif /\ freed' \subseteq freed \cup {target}
        /\ freed' = freed \/ target \in done \ byNotif
    BY <1>8 DEF EraseAndReturn, Return
  <2> QED BY <2>1, <2>2, <2>3
<1>9. CASE Joined
  BY <1>9 DEF Joined, TypeOK
<1>10. CASE Timeout
  BY <1>10 DEF Timeout, TypeOK
<1>11. CASE RecvFrame
  BY <1>11 DEF RecvFrame, TypeOK
<1>12. CASE RecvFails
  BY <1>12 DEF RecvFails, TypeOK
<1>13. CASE TakeReply
  BY <1>13 DEF TakeReply, NextFrame, FindPending, TypeOK
<1>14. CASE CompleteRequest
  <2>1. /\ frame.inv = inv /\ Requesting /\ ReplySound(frame)
        /\ frame.kind = "reply" /\ done' = done \cup {inv}
    BY <1>14 DEF CompleteRequest
  <2>2. amsError' \subseteq done' /\ amsError' \cap plcNotes' = {}
    BY <1>14, <2>1 DEF CompleteRequest
  <2>3. rpc' # "callback" /\ UNCHANGED <<uiVars, byNotif, freed, plcNotes, invokeCtr>>
    BY <1>14 DEF CompleteRequest, NextFrame
  <2>4. op = "del" => target \notin plcNotes
    BY <2>1
  <2> QED BY <2>1, <2>2, <2>3, <2>4
<1>15. CASE CopyHandler
  BY <1>15 DEF CopyHandler, NextFrame, TypeOK
<1>16. CASE RunHandler
  BY <1>16 DEF RunHandler, NextFrame, TypeOK
<1>17. CASE ExitLock
  BY <1>17 DEF ExitLock, TypeOK
<1>18. ASSUME NEW i \in Inv, ExitWake(i) PROVE HandlerInv'
  BY <1>18 DEF ExitWake, TypeOK
<1>19. CASE ExitDone
  BY <1>19 DEF ExitDone, TypeOK
<1>20. ASSUME NEW r \in plcQueue, NEW err \in BOOLEAN, PlcAnswers(r, err) PROVE HandlerInv'
  <2>1. /\ plcNotes' \subseteq plcNotes \cup {r.inv} /\ r.inv \notin done
        /\ r.inv \in 1..invokeCtr
    BY <1>20 DEF PlcAnswers, TypeOK
  <2>2. UNCHANGED <<uiVars, amsError, done, byNotif, freed, invokeCtr, readVars>>
    BY <1>20 DEF PlcAnswers
  <2> QED BY <2>1, <2>2
<1>21. ASSUME NEW n \in Inv, PlcSendsSample(n) PROVE HandlerInv'
  BY <1>21 DEF PlcSendsSample, TypeOK
<1>22. CASE PeerCloses
  BY <1>22 DEF PeerCloses, TypeOK
<1>23. CASE UNCHANGED vars
  BY <1>23 DEF vars, TypeOK
<1> QED
  BY <1>1, <1>2, <1>3, <1>4, <1>5, <1>6, <1>7, <1>8, <1>9, <1>10, <1>11,
     <1>12, <1>13, <1>14, <1>15, <1>16, <1>17, <1>18, <1>19, <1>20, <1>21, <1>22, <1>23
     DEF Next, UserCalls, Requester, Reader, Plc

\* Every notification the PLC sends stays accounted for.
LEMMA AccountedStep ==
  TypeOK /\ FrameInv /\ ConnectionInv /\ QueueInv /\ HandlerInv /\ NotificationsAccountedFor /\ [Next]_vars
    => NotificationsAccountedFor'
<1> SUFFICES ASSUME TypeOK, FrameInv, ConnectionInv, QueueInv, HandlerInv, NotificationsAccountedFor, [Next]_vars PROVE NotificationsAccountedFor'
  OBVIOUS
<1> USE BoundsAssumption
    DEF ConnectionInv, QueueInv, HandlerInv,
        Exiting, Requesting, InFlight, NotificationsAccountedFor
<1>1. CASE Connect
  BY <1>1 DEF Connect, TypeOK
<1>2. ASSUME NEW o \in {"call", "add"}, Call(o) PROVE NotificationsAccountedFor'
  BY <1>2 DEF Call, TypeOK
<1>3. ASSUME NEW n \in Inv, RemoveNotification(n) PROVE NotificationsAccountedFor'
  BY <1>3 DEF RemoveNotification, TypeOK
<1>4. CASE Disconnect
  BY <1>4 DEF Disconnect, Close, TypeOK
<1>5. CASE Register
  BY <1>5 DEF Register, NextInv, TypeOK
<1>6. CASE LockAndWait
  BY <1>6 DEF LockAndWait, TypeOK
<1>7. CASE Completed
  BY <1>7 DEF Completed, Return, Close, TypeOK
<1>8. CASE EraseAndReturn
  BY <1>8 DEF EraseAndReturn, Return, Close, GiveUp, TypeOK
<1>9. CASE Joined
  BY <1>9 DEF Joined, TypeOK
<1>10. CASE Timeout
  BY <1>10 DEF Timeout, TypeOK
<1>11. CASE RecvFrame
  BY <1>11 DEF RecvFrame, TypeOK
<1>12. CASE RecvFails
  BY <1>12 DEF RecvFails, TypeOK
<1>13. CASE TakeReply
  BY <1>13 DEF TakeReply, NextFrame, FindPending, TypeOK
<1>14. CASE CompleteRequest
  BY <1>14 DEF CompleteRequest, NextFrame, TypeOK
<1>15. CASE CopyHandler
  BY <1>15 DEF CopyHandler, NextFrame, TypeOK
<1>16. CASE RunHandler
  BY <1>16 DEF RunHandler, NextFrame, TypeOK
<1>17. CASE ExitLock
  BY <1>17 DEF ExitLock, TypeOK
<1>18. ASSUME NEW i \in Inv, ExitWake(i) PROVE NotificationsAccountedFor'
  BY <1>18 DEF ExitWake, TypeOK
<1>19. CASE ExitDone
  BY <1>19 DEF ExitDone, TypeOK
<1>20. ASSUME NEW r \in plcQueue, NEW err \in BOOLEAN, PlcAnswers(r, err) PROVE NotificationsAccountedFor'
  BY <1>20 DEF PlcAnswers, Reply, TypeOK
<1>21. ASSUME NEW n \in Inv, PlcSendsSample(n) PROVE NotificationsAccountedFor'
  BY <1>21 DEF PlcSendsSample, TypeOK
<1>22. CASE PeerCloses
  BY <1>22 DEF PeerCloses, TypeOK
<1>23. CASE UNCHANGED vars
  BY <1>23 DEF vars, TypeOK
<1> QED
  BY <1>1, <1>2, <1>3, <1>4, <1>5, <1>6, <1>7, <1>8, <1>9, <1>10, <1>11,
     <1>12, <1>13, <1>14, <1>15, <1>16, <1>17, <1>18, <1>19, <1>20, <1>21, <1>22, <1>23
     DEF Next, UserCalls, Requester, Reader, Plc

\* The channel of a running handler stays alive.
LEMMA OutlivesStep ==
  TypeOK /\ FrameInv /\ ConnectionInv /\ HandlerInv /\ HandlerOutlivesDispatch /\ [Next]_vars
    => HandlerOutlivesDispatch'
<1> SUFFICES ASSUME TypeOK, FrameInv, ConnectionInv, HandlerInv, HandlerOutlivesDispatch, [Next]_vars PROVE HandlerOutlivesDispatch'
  OBVIOUS
<1> USE BoundsAssumption
    DEF ConnectionInv, HandlerInv,
        HandlerOutlivesDispatch, Exiting, Requesting
<1>1. CASE Connect
  BY <1>1 DEF Connect, TypeOK
<1>2. ASSUME NEW o \in {"call", "add"}, Call(o) PROVE HandlerOutlivesDispatch'
  BY <1>2 DEF Call, TypeOK
<1>3. ASSUME NEW n \in Inv, RemoveNotification(n) PROVE HandlerOutlivesDispatch'
  BY <1>3 DEF RemoveNotification, TypeOK
<1>4. CASE Disconnect
  BY <1>4 DEF Disconnect, Close, TypeOK
<1>5. CASE Register
  BY <1>5 DEF Register, NextInv, TypeOK
<1>6. CASE LockAndWait
  BY <1>6 DEF LockAndWait, TypeOK
<1>7. CASE Completed
  BY <1>7 DEF Completed, Return, Close, TypeOK
<1>8. CASE EraseAndReturn
  BY <1>8 DEF EraseAndReturn, Return, Close, GiveUp, TypeOK
<1>9. CASE Joined
  BY <1>9 DEF Joined, TypeOK
<1>10. CASE Timeout
  BY <1>10 DEF Timeout, TypeOK
<1>11. CASE RecvFrame
  BY <1>11 DEF RecvFrame, TypeOK
<1>12. CASE RecvFails
  BY <1>12 DEF RecvFails, TypeOK
<1>13. CASE TakeReply
  BY <1>13 DEF TakeReply, NextFrame, FindPending, TypeOK
<1>14. CASE CompleteRequest
  BY <1>14 DEF CompleteRequest, NextFrame, TypeOK
<1>15. CASE CopyHandler
  BY <1>15 DEF CopyHandler, NextFrame, TypeOK
<1>16. CASE RunHandler
  BY <1>16 DEF RunHandler, NextFrame, TypeOK
<1>17. CASE ExitLock
  BY <1>17 DEF ExitLock, TypeOK
<1>18. ASSUME NEW i \in Inv, ExitWake(i) PROVE HandlerOutlivesDispatch'
  BY <1>18 DEF ExitWake, TypeOK
<1>19. CASE ExitDone
  BY <1>19 DEF ExitDone, TypeOK
<1>20. ASSUME NEW r \in plcQueue, NEW err \in BOOLEAN, PlcAnswers(r, err) PROVE HandlerOutlivesDispatch'
  BY <1>20 DEF PlcAnswers, Reply, TypeOK
<1>21. ASSUME NEW n \in Inv, PlcSendsSample(n) PROVE HandlerOutlivesDispatch'
  BY <1>21 DEF PlcSendsSample, TypeOK
<1>22. CASE PeerCloses
  BY <1>22 DEF PeerCloses, TypeOK
<1>23. CASE UNCHANGED vars
  BY <1>23 DEF vars, TypeOK
<1> QED
  BY <1>1, <1>2, <1>3, <1>4, <1>5, <1>6, <1>7, <1>8, <1>9, <1>10, <1>11,
     <1>12, <1>13, <1>14, <1>15, <1>16, <1>17, <1>18, <1>19, <1>20, <1>21, <1>22, <1>23
     DEF Next, UserCalls, Requester, Reader, Plc

LEMMA SessionInit == Init => SessionInv
<1> SUFFICES ASSUME Init PROVE SessionInv
  OBVIOUS
<1>1. ConnectionInv /\ QueueInv /\ ReplyInv /\ HandlerInv
  BY DEF Init, ConnectionInv, QueueInv, ReplyInv, ReplySound, HandlerInv, Requesting,
         Exiting, NoFrame
<1>2. NoRequestForgotten /\ NotificationsAccountedFor /\ HandlerOutlivesDispatch
  BY DEF Init, NoRequestForgotten, NotificationsAccountedFor, HandlerOutlivesDispatch
<1> QED BY <1>1, <1>2 DEF SessionInv

LEMMA SessionStep == TypeOK /\ FrameInv /\ SessionInv /\ [Next]_vars => SessionInv'
  BY ForgottenStep, ConnectionStep, QueueStep, ReplyStep, HandlerStep, AccountedStep,
     OutlivesStep
     DEF SessionInv

LEMMA SessionCorrect == Spec => []SessionInv
  BY TypeInit, TypeStep, FrameInit, FrameStep, SessionInit, SessionStep, PTL DEF Spec

\* A request that is completed without an error has left the PLC's queue: what
\* the reader hands to request() is the answer to that request, however late
\* or out of order the PLC answers and however often the client reconnects.
THEOREM RepliesMatch == Spec => []ReplyBelongsToRequest
<1>1. SessionInv => ReplyBelongsToRequest
  BY DEF SessionInv, QueueInv, ReplyBelongsToRequest
<1> QED BY <1>1, SessionCorrect, PTL

\* A request that waits is in the pending map or in the reader's hands: no
\* reply, timeout or exit of the reader leaves a waiter nobody will wake.
THEOREM NoWaiterForgotten == Spec => []NoRequestForgotten
<1>1. SessionInv => NoRequestForgotten
  BY DEF SessionInv
<1> QED BY <1>1, SessionCorrect, PTL

\* While the reader runs a notification handler, removeNotification() has not
\* returned for it, unless its DelNote timed out: the NotifyChannel that the
\* handler points to still exists.
THEOREM HandlersOutliveDispatch == Spec => []HandlerOutlivesDispatch
<1>1. SessionInv => HandlerOutlivesDispatch
  BY DEF SessionInv
<1> QED BY <1>1, SessionCorrect, PTL

\* A notification the PLC keeps sending has a handler, or its AddNote or
\* DelNote is under way, or one of the two timed out.
THEOREM NoOrphanNotifications == Spec => []NotificationsAccountedFor
<1>1. SessionInv => NotificationsAccountedFor
  BY DEF SessionInv
<1> QED BY <1>1, SessionCorrect, PTL
=============================================================================
