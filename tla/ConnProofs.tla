----------------------------- MODULE ConnProofs -----------------------------
(***************************************************************************)
(* Proofs about Conn for every set of requests, MID space, channel depth   *)
(* and number of fragments.  The inductive invariant is ConnIInv (module   *)
(* ConnInv); InvStep takes it through every action.  On top of it CallIInv *)
(* says what becomes of each call on a connection that may go down at any  *)
(* moment: from it follow that MIDs are not held for nothing, that a       *)
(* settled request returns settled, that no goroutine panics and that the  *)
(* connection implements Calls.                                            *)
(***************************************************************************)
EXTENDS ConnInv, ConnCalls, TLAPS

USE RequestsAssumption, SizesAssumption

\* What a response channel may hold.
Messages == Requests \cup {NoReq, Down}

\* c.nextMID++ wraps within the MID space.
LEMMA MIDAfterTyped == ASSUME NEW m \in MIDs PROVE MIDAfter(m) \in MIDs
BY DEF MIDAfter, MIDs

\* Receiving from a channel: the head is taken and the rest moves up by one.
LEMMA TailFacts ==
  ASSUME NEW S, NEW s \in Seq(S), s # <<>>
  PROVE  /\ Tail(s) \in Seq(S)
         /\ Len(s) \in Nat \ {0}
         /\ Len(Tail(s)) = Len(s) - 1
         /\ \A i \in 1 .. Len(Tail(s)) : i + 1 \in 1 .. Len(s) /\ Tail(s)[i] = s[i + 1]
         /\ Head(s) = s[1]
         /\ Head(s) \in S
OBVIOUS

\* A non-blocking send appends the message to the channels it is meant for, or
\* drops it, and touches no other.
LEMMA PushFacts ==
  ASSUME TypeOK, NEW rs, NEW msg \in Messages
  PROVE  /\ Push(rs, msg) \in [Requests -> Seq(Messages)]
         /\ \A q \in Requests : q \notin rs => Push(rs, msg)[q] = respCh[q]
         /\ \A q \in Requests : Len(Push(rs, msg)[q]) <= Len(respCh[q]) + 1
         /\ \A q \in Requests : \A i \in 1 .. Len(Push(rs, msg)[q]) :
               \/ i \in 1 .. Len(respCh[q]) /\ Push(rs, msg)[q][i] = respCh[q][i]
               \/ q \in rs /\ Push(rs, msg)[q][i] = msg
<1> USE DEF TypeOK, Messages
<1>1. ASSUME NEW q \in Requests
      PROVE /\ Append(respCh[q], msg) \in Seq(Messages)
            /\ Len(Append(respCh[q], msg)) = Len(respCh[q]) + 1
            /\ Len(respCh[q]) \in Nat
            /\ \A i \in 1 .. Len(respCh[q]) + 1 :
                  \/ i \in 1 .. Len(respCh[q]) /\ Append(respCh[q], msg)[i] = respCh[q][i]
                  \/ Append(respCh[q], msg)[i] = msg
  <2>1. respCh[q] \in Seq(Messages) OBVIOUS
  <2>2. QED BY SMTT(30), <2>1
<1>2. \A q \in Requests : Push(rs, msg)[q] = IF q \in rs /\ Len(respCh[q]) < QueueDepth
                        THEN Append(respCh[q], msg)
                        ELSE respCh[q]
  BY DEF Push
<1>3. Push(rs, msg) \in [Requests -> Seq(Messages)] BY <1>1 DEF Push
<1>4. ASSUME NEW q \in Requests
      PROVE  /\ q \notin rs => Push(rs, msg)[q] = respCh[q]
             /\ Len(Push(rs, msg)[q]) <= Len(respCh[q]) + 1
             /\ \A i \in 1 .. Len(Push(rs, msg)[q]) :
                   \/ i \in 1 .. Len(respCh[q]) /\ Push(rs, msg)[q][i] = respCh[q][i]
                   \/ q \in rs /\ Push(rs, msg)[q][i] = msg
  <2>1. CASE q \in rs /\ Len(respCh[q]) < QueueDepth
    <3>1. Push(rs, msg)[q] = Append(respCh[q], msg) BY <1>2, <2>1
    <3>2. QED BY SMTT(30), <1>1, <2>1, <3>1
  <2>2. CASE ~(q \in rs /\ Len(respCh[q]) < QueueDepth)
    <3>1. Push(rs, msg)[q] = respCh[q] BY <1>2, <2>2
    <3>2. QED BY <1>1, <3>1
  <2>3. QED BY <2>1, <2>2
<1>5. QED BY <1>3, <1>4


\* setErrorLocked leaves a closed connection alone; on an open one it empties the
\* pending map and adds nothing but teardown messages to the channels.
LEMMA SetErrorFacts ==
  ASSUME TypeOK, NEW err \in {"closed", "exhausted", "read", "write"}, SetErrorLocked(err)
  PROVE  /\ down' \in {"closed", "exhausted", "read", "write"}
         /\ pending' \in [MIDs -> Requests \cup {NoReq}]
         /\ respCh' \in [Requests -> Seq(Messages)]
         /\ IsDone => pending' = pending
         /\ ~IsDone => pending' = NothingPending
         /\ \A q \in Requests : \A i \in 1 .. Len(respCh'[q]) :
               \/ i \in 1 .. Len(respCh[q]) /\ respCh'[q][i] = respCh[q][i]
               \/ respCh'[q][i] = Down
<1>1. Down \in Messages BY DEF Messages
<1>2. CASE IsDone BY <1>2 DEF SetErrorLocked, IsDone, TypeOK, Messages
<1>3. CASE ~IsDone
  <2>1. respCh' = Push(Registered, Down) /\ down' = err /\ pending' = NothingPending
    BY <1>3 DEF SetErrorLocked
  <2>2. QED BY <1>1, <1>3, <2>1, PushFacts DEF NothingPending
<1>4. QED BY <1>2, <1>3

\* Every step of the connection keeps the types.
LEMMA TypeStep == ASSUME TypeOK, [Next]_vars PROVE TypeOK'
<1> USE DEF TypeOK, MIDs, Closers, Results, callerVars, connVars, rxVars, closeVars, serverVars, reservedMID
<1>1. ASSUME NEW r \in Requests, EndContext(r) PROVE TypeOK'
  BY <1>1 DEF EndContext
<1>2. ASSUME NEW r \in Requests, BeginRefused(r) PROVE TypeOK'
  BY <1>2 DEF BeginRefused
<1>3. ASSUME NEW r \in Requests, BeginRegister(r) PROVE TypeOK'
  <2>1. PICK m \in MIDs : /\ mid' = [mid EXCEPT ![r] = m]
                          /\ pending' = [pending EXCEPT ![m] = r]
                          /\ nextMID' = MIDAfter(m)
    BY <1>3 DEF BeginRegister
  <2>2. nextMID' \in MIDs BY <2>1, MIDAfterTyped
  <2>3. QED BY <1>3, <2>1, <2>2 DEF BeginRegister
<1>4. ASSUME NEW r \in Requests, BeginExhausted(r) PROVE TypeOK'
  BY <1>4, SetErrorFacts DEF BeginExhausted, Messages
<1>5. ASSUME NEW r \in Requests, WriteSent(r) PROVE TypeOK'
  BY SMTT(30), <1>5 DEF WriteSent
<1>6. ASSUME NEW r \in Requests, WriteNotSent(r) PROVE TypeOK'
  BY <1>6 DEF WriteNotSent, Cleanup
<1>7. ASSUME NEW r \in Requests, WriteFails(r) PROVE TypeOK'
  BY <1>7 DEF WriteFails, Cleanup
<1>8. ASSUME NEW r \in Requests, WriteFailed(r) PROVE TypeOK'
  BY <1>8, SetErrorFacts DEF WriteFailed, Messages
<1>9. ASSUME NEW r \in Requests, AwaitReply(r) PROVE TypeOK'
  <2>1. respCh' \in [Requests -> Seq(Messages)]
    <3>1. respCh[r] \in Seq(Messages) /\ respCh[r] # <<>> BY <1>9 DEF AwaitReply, Messages
    <3>2. Tail(respCh[r]) \in Seq(Messages) BY <3>1, TailFacts
    <3>3. QED BY <1>9, <3>2 DEF AwaitReply, Messages
  <2>2. UNCHANGED <<pc, result>> \/ \E res \in Results : EndWait(r, res)
    BY <1>9 DEF AwaitReply
  <2>3. got' \in [Requests -> Nat]
    <3>1. CASE got' = got BY <3>1
    <3>2. CASE got' = [got EXCEPT ![r] = got[r] + 1] BY <3>2
    <3>3. QED BY <1>9, <3>1, <3>2 DEF AwaitReply
  <2>4. /\ pc' \in [Requests -> {"idle", "writing", "writeFailed", "waiting", "settling",
                                 "releasing", "returned", "panicked"}]
        /\ result' \in [Requests -> Results]
    <3>1. CASE UNCHANGED <<pc, result>> BY <3>1
    <3>2. ASSUME NEW res \in Results, EndWait(r, res)
          PROVE  /\ pc' \in [Requests -> {"idle", "writing", "writeFailed", "waiting",
                                          "settling", "releasing", "returned", "panicked"}]
                 /\ result' \in [Requests -> Results]
      BY <3>2 DEF EndWait
    <3>3. QED BY <2>2, <3>1, <3>2
  <2>5. UNCHANGED <<mid, ctxDone, nextMID, pending, cancelled, chClosed, down, socket,
                    rxVars, closeVars, serverVars>>
    BY <1>9 DEF AwaitReply
  <2>6. QED BY <2>1, <2>3, <2>4, <2>5 DEF Messages
<1>10. ASSUME NEW r \in Requests, AwaitNil(r) PROVE TypeOK'
  BY <1>10 DEF AwaitNil
<1>11. ASSUME NEW r \in Requests, AwaitContext(r) PROVE TypeOK'
  BY <1>11 DEF AwaitContext, EndWait
<1>12. ASSUME NEW r \in Requests, AwaitDone(r) PROVE TypeOK'
  BY <1>12 DEF AwaitDone, EndWait
<1>13. ASSUME NEW r \in Requests, SettleReply(r) PROVE TypeOK'
  <2>1. respCh' \in [Requests -> Seq(Messages)]
    <3>1. CASE respCh[r] # <<>> /\ respCh' = [respCh EXCEPT ![r] = Tail(respCh[r])]
      <4>1. respCh[r] \in Seq(Messages) BY DEF Messages
      <4>2. Tail(respCh[r]) \in Seq(Messages) BY <3>1, <4>1, TailFacts
      <4>3. QED BY <3>1, <4>2 DEF Messages
    <3>2. CASE UNCHANGED respCh BY <3>2 DEF Messages
    <3>3. QED BY <1>13, <3>1, <3>2 DEF SettleReply
  <2>2. got' \in [Requests -> Nat] BY SMTT(30), <1>13 DEF SettleReply
  <2>3. QED BY <1>13, <2>1, <2>2 DEF SettleReply, Messages
<1>14. ASSUME NEW r \in Requests, SettleTimeout(r) PROVE TypeOK'
  BY <1>14 DEF SettleTimeout
<1>15. ASSUME NEW r \in Requests, SettleDone(r) PROVE TypeOK'
  BY <1>15 DEF SettleDone
<1>16. ASSUME NEW r \in Requests, Finish(r) PROVE TypeOK'
  BY <1>16 DEF Finish, ReleaseLocked
<1>17. ASSUME ReceiveCheck PROVE TypeOK'
  BY <1>17 DEF ReceiveCheck
<1>18. ASSUME NEW r \in Requests, ReceiveRead(r) PROVE TypeOK'
  BY SMTT(30), <1>18 DEF ReceiveRead
<1>19. ASSUME ReceiveOplockBreak PROVE TypeOK'
  BY <1>19 DEF ReceiveOplockBreak
<1>20. ASSUME ReceiveMalformed PROVE TypeOK'
  BY <1>20 DEF ReceiveMalformed
<1>21. ASSUME ReceiveFails PROVE TypeOK'
  BY <1>21, SetErrorFacts DEF ReceiveFails, Messages
<1>22. ASSUME ReceiveDispatch PROVE TypeOK'
  <2>1. respCh' \in [Requests -> Seq(Messages)]
    <3>1. UNCHANGED respCh \/ respCh' = Push({pending[rxMid]}, rxOf)
      BY <1>22 DEF ReceiveDispatch
    <3>2. rxOf \in Messages BY DEF Messages
    <3>3. Push({pending[rxMid]}, rxOf) \in [Requests -> Seq(Messages)] BY <3>2, PushFacts
    <3>4. QED BY <3>1, <3>3 DEF Messages
  <2>2. pending' \in [MIDs -> Requests \cup {NoReq}] BY <1>22 DEF ReceiveDispatch
  <2>3. /\ rxPc' = "check" /\ rxMid' = 0 /\ rxOf' = NoReq
        /\ UNCHANGED <<callerVars, ctxDone, nextMID, cancelled, chClosed, down, socket,
                       closeVars, serverVars>>
    BY <1>22 DEF ReceiveDispatch
  <2>4. QED BY SMTT(30), <2>1, <2>2, <2>3 DEF Messages
<1>23. ASSUME NEW c \in Closers, CloseAgain(c) PROVE TypeOK'
  BY <1>23 DEF CloseAgain, ReceiverLeaves
<1>24. ASSUME NEW c \in Closers, CloseFirst(c) PROVE TypeOK'
  BY <1>24 DEF CloseFirst, Registered, NothingPending
<1>25. ASSUME NEW c \in Closers, NEW r \in Requests, CloseSweep(c, r) PROVE TypeOK'
  BY <1>25, PushFacts DEF CloseSweep, Messages
<1>26. ASSUME NEW c \in Closers, CloseSocket(c) PROVE TypeOK'
  BY <1>26 DEF CloseSocket, ReceiverLeaves
<1>27. CASE UNCHANGED vars BY <1>27 DEF vars
<1>28. QED BY <1>1, <1>2, <1>3, <1>4, <1>5, <1>6, <1>7, <1>8, <1>9, <1>10, <1>11, <1>12, <1>13, <1>14, <1>15, <1>16, <1>17, <1>18, <1>19, <1>20, <1>21, <1>22, <1>23, <1>24, <1>25, <1>26, <1>27 DEF Next, CallerStep, BeginRequest, Write, ReceiveStep, CloseStep, Quiet

\* After setErrorLocked the parts of the invariant that speak of a live
\* connection hold for want of one.
LEMMA TeardownFacts ==
  ASSUME ConnIInv, NEW err \in {"closed", "exhausted", "read", "write"}, SetErrorLocked(err)
  PROVE  /\ IsDone'
         /\ RepliesAreOwn'
         /\ DownMeansEmpty'
         /\ HoldersHold'
         /\ LiveRequestsHold'
         /\ MessagesAddUp'
         /\ ReleasedWithCause'
         /\ DownOnlyWhenDone'
         /\ SweptWhenDone'
<1>1. TypeOK BY DEF ConnIInv
<1>2. down' \in {"closed", "exhausted", "read", "write"} BY <1>1, SetErrorFacts
<1>3. IsDone' BY <1>2 DEF IsDone
<1>4. \A m \in MIDs : pending'[m] = NoReq
  BY <1>1, SetErrorFacts DEF ConnIInv, DownMeansEmpty, NothingPending
<1>5. RepliesAreOwn'
  BY <1>1, SetErrorFacts DEF ConnIInv, RepliesAreOwn
<1>6. DownMeansEmpty' /\ HoldersHold'
  BY <1>4 DEF DownMeansEmpty, HoldersHold
<1>7. /\ LiveRequestsHold' /\ MessagesAddUp' /\ ReleasedWithCause'
      /\ DownOnlyWhenDone' /\ SweptWhenDone'
  BY <1>3 DEF LiveRequestsHold, MessagesAddUp, ReleasedWithCause, EndedFor, DownOnlyWhenDone,
              SweptWhenDone
<1>8. QED BY <1>3, <1>5, <1>6, <1>7

\* What MessagesAddUp says of one request, without the conditional.
LEMMA Balance ==
  ASSUME ConnIInv, ~IsDone, NEW q \in Requests
  PROVE  /\ got[q] \in Nat /\ owed[q] \in Nat /\ total[q] \in Nat /\ Len(respCh[q]) \in Nat
         /\ got[q] + Len(respCh[q]) + owed[q] <= total[q]
         /\ InHand(q) => got[q] + Len(respCh[q]) + 1 + owed[q] <= total[q]
<1>1. got[q] \in Nat /\ owed[q] \in Nat /\ total[q] \in Nat /\ Len(respCh[q]) \in Nat
  BY DEF ConnIInv, TypeOK
<1>2. got[q] + Len(respCh[q]) + (IF InHand(q) THEN 1 ELSE 0) + owed[q] <= total[q]
  BY DEF ConnIInv, MessagesAddUp
<1>3. CASE InHand(q) BY <1>1, <1>2, <1>3
<1>4. CASE ~InHand(q) BY <1>1, <1>2, <1>4
<1>5. QED BY <1>3, <1>4

\* cleanup of a request that never reached the wire frees its MID safely: the
\* server cannot answer what it was not sent.
LEMMA CleanupStep ==
  ASSUME ConnIInv, TypeOK',
         NEW r \in Requests, pc[r] = "writing",
         Cleanup(r),
         NEW p \in {"returned", "writeFailed"}, pc' = [pc EXCEPT ![r] = p],
         \A q \in Requests : q # r => result'[q] = result[q],
         UNCHANGED <<mid, got, ctxDone, cancelled, respCh, chClosed, down, swept, rxVars,
                     serverVars>>
  PROVE  ConnIInv'
<1> USE DEF rxVars, serverVars
<1>1. TypeOK BY DEF ConnIInv
<1>2. total[r] = 0 /\ (~IsDone => owed[r] = 0 /\ ~InHand(r))
  BY SMTT(30), <1>1 DEF ConnIInv, UnsentUnanswered, MessagesAddUp, TypeOK
<1>3. pending' = [pending EXCEPT ![mid[r]] = NoReq] /\ mid[r] \in MIDs
  BY <1>1 DEF Cleanup, TypeOK
<1>4. DownMeansEmpty' /\ HoldersHold'
  BY <1>1, <1>3 DEF ConnIInv, TypeOK, DownMeansEmpty, HoldersHold, IsDone
<1>5. LiveRequestsHold'
  BY <1>1, <1>2, <1>3 DEF ConnIInv, TypeOK, LiveRequestsHold, Active, Outstanding, InHand, IsDone
<1>6. /\ RepliesAreOwn' /\ MessagesAddUp' /\ SingleReply' /\ DownOnlyWhenDone'
      /\ PacketInHand' /\ SweptWhenDone'
  BY DEF ConnIInv, RepliesAreOwn, MessagesAddUp, SingleReply, DownOnlyWhenDone, PacketInHand,
         InHand, SweptWhenDone, IsDone
<1>7. UnsentUnanswered' /\ CancelledReturned' /\ SettlingForContext' /\ ReleasedWithCause'
  BY <1>1, <1>2 DEF ConnIInv, TypeOK, UnsentUnanswered, CancelledReturned, SettlingForContext, ReleasedWithCause, EndedFor, IsDone
<1>8. QED BY <1>4, <1>5, <1>6, <1>7 DEF ConnIInv

\* A caller that takes a message from its channel.
LEMMA TakeFacts ==
  ASSUME ConnIInv, NEW r \in Requests, respCh[r] # <<>>,
         respCh' = [respCh EXCEPT ![r] = Tail(respCh[r])],
         got' = got \/ got' = [got EXCEPT ![r] = got[r] + 1],
         UNCHANGED <<down, rxVars, serverVars>>
  PROVE  /\ RepliesAreOwn' /\ DownOnlyWhenDone' /\ MessagesAddUp'
         /\ Head(respCh[r]) = Down => IsDone
<1> USE DEF rxVars, serverVars
<1>1. /\ respCh[r] \in Seq(Messages)
      /\ respCh'[r] = Tail(respCh[r])
      /\ \A q \in Requests : q # r => respCh'[q] = respCh[q]
  BY DEF ConnIInv, TypeOK, Messages
<1>2. /\ Len(respCh[r]) \in Nat \ {0} /\ Len(respCh'[r]) = Len(respCh[r]) - 1
      /\ \A i \in 1 .. Len(respCh'[r]) :
            i + 1 \in 1 .. Len(respCh[r]) /\ respCh'[r][i] = respCh[r][i + 1]
      /\ Head(respCh[r]) = respCh[r][1]
  <2>1. /\ Len(respCh[r]) \in Nat \ {0}
        /\ Len(Tail(respCh[r])) = Len(respCh[r]) - 1
        /\ \A i \in 1 .. Len(Tail(respCh[r])) :
              i + 1 \in 1 .. Len(respCh[r]) /\ Tail(respCh[r])[i] = respCh[r][i + 1]
        /\ Head(respCh[r]) = respCh[r][1]
    <3>1. respCh[r] \in Seq(Messages) /\ respCh[r] # <<>> BY <1>1
    <3>2. QED BY ONLY <3>1, TailFacts
  <2>2. QED BY <1>1, <2>1
<1>3. RepliesAreOwn' /\ DownOnlyWhenDone'
  BY <1>1, <1>2 DEF ConnIInv, RepliesAreOwn, DownOnlyWhenDone, IsDone
<1>4. Head(respCh[r]) = Down => IsDone
  BY <1>2 DEF ConnIInv, DownOnlyWhenDone
<1>5. MessagesAddUp'
  <2> SUFFICES ASSUME ~IsDone, NEW q \in Requests
               PROVE  (got[q] + Len(respCh[q]) + (IF InHand(q) THEN 1 ELSE 0) + owed[q] <= total[q])'
    BY DEF MessagesAddUp, IsDone
  <2>1. got[q] + Len(respCh[q]) + (IF InHand(q) THEN 1 ELSE 0) + owed[q] <= total[q]
    BY DEF ConnIInv, MessagesAddUp
  <2>2. owed'[q] = owed[q] /\ total'[q] = total[q] /\ InHand(q)' = InHand(q)
    BY DEF InHand
  <2>3. got[q] \in Nat /\ owed[q] \in Nat /\ total[q] \in Nat /\ Len(respCh[q]) \in Nat
    BY DEF ConnIInv, TypeOK
  <2>4. got'[q] = got[q] \/ (q = r /\ got'[q] = got[q] + 1)
    BY DEF ConnIInv, TypeOK
  <2>5. CASE q # r BY <1>1, <2>1, <2>2, <2>4, <2>5
  <2>6. CASE q = r
    <3>1. Len(respCh'[q]) = Len(respCh[q]) - 1 BY <1>2, <2>6
    <3>2. CASE InHand(q) BY <2>1, <2>2, <2>3, <2>4, <3>1, <3>2
    <3>3. CASE ~InHand(q) BY <2>1, <2>2, <2>3, <2>4, <3>1, <3>3
    <3>4. QED BY <3>2, <3>3
  <2>7. QED BY <2>5, <2>6
<1>6. QED BY <1>3, <1>4, <1>5

\* Every step of the connection keeps ConnIInv.
LEMMA InvStep == ASSUME ConnIInv, [Next]_vars PROVE ConnIInv'
<1> USE DEF callerVars, connVars, rxVars, closeVars, serverVars
<1>0. TypeOK /\ TypeOK' BY TypeStep DEF ConnIInv
<1>1. ASSUME NEW r \in Requests, EndContext(r) PROVE ConnIInv'
  BY SMTT(30), <1>0, <1>1 DEF EndContext, ConnIInv, TypeOK,
     RepliesAreOwn, DownMeansEmpty, HoldersHold, LiveRequestsHold,
     MessagesAddUp, SingleReply, UnsentUnanswered, PacketInHand, CancelledReturned,
     ReleasedWithCause, SettlingForContext, DownOnlyWhenDone, SweptWhenDone,
     InHand, Outstanding, Active, EndedFor, IsDone
<1>2. ASSUME NEW r \in Requests, BeginRefused(r) PROVE ConnIInv'
  BY <1>0, <1>2 DEF BeginRefused, ConnIInv, TypeOK,
     RepliesAreOwn, DownMeansEmpty, HoldersHold, LiveRequestsHold,
     MessagesAddUp, SingleReply, UnsentUnanswered, PacketInHand, CancelledReturned,
     ReleasedWithCause, SettlingForContext, DownOnlyWhenDone, SweptWhenDone,
     InHand, Outstanding, Active, EndedFor, IsDone
<1>3. ASSUME NEW r \in Requests, BeginRegister(r) PROVE ConnIInv'
  <2>1. PICK m \in MIDs : /\ m # reservedMID /\ pending[m] = NoReq
                          /\ mid' = [mid EXCEPT ![r] = m]
                          /\ pending' = [pending EXCEPT ![m] = r]
    BY <1>3 DEF BeginRegister, IsNextFree, FreeMIDs
  <2>2. /\ pc[r] = "idle" /\ ~IsDone
        /\ pc' = [pc EXCEPT ![r] = "writing"]
        /\ UNCHANGED <<result, got, ctxDone, cancelled, respCh, chClosed, down, socket,
                       rxVars, closeVars, serverVars>>
    BY <1>3 DEF BeginRegister
  <2>3. total[r] = 0 /\ owed[r] = 0 /\ ~InHand(r)
    BY <1>0, <2>2 DEF ConnIInv, UnsentUnanswered, MessagesAddUp, TypeOK
  <2>4. HoldersHold'
    BY SMTT(30), <1>0, <2>1, <2>2 DEF ConnIInv, TypeOK, HoldersHold
  <2>5. LiveRequestsHold'
    BY <1>0, <2>1, <2>2, <2>3 DEF ConnIInv, TypeOK, LiveRequestsHold, HoldersHold, Active, Outstanding, InHand, IsDone
  <2>6. PacketInHand'
    BY <1>0, <2>1, <2>2, <2>3 DEF ConnIInv, TypeOK, PacketInHand, InHand
  <2>7. /\ RepliesAreOwn' /\ MessagesAddUp' /\ SingleReply' /\ DownMeansEmpty'
        /\ DownOnlyWhenDone' /\ SweptWhenDone'
    BY <2>2 DEF ConnIInv, RepliesAreOwn, MessagesAddUp, SingleReply, DownMeansEmpty,
                DownOnlyWhenDone, SweptWhenDone, InHand, IsDone
  <2>8. UnsentUnanswered' /\ CancelledReturned' /\ ReleasedWithCause' /\ SettlingForContext'
    BY <1>0, <2>2, <2>3 DEF ConnIInv, TypeOK, UnsentUnanswered, CancelledReturned, ReleasedWithCause, EndedFor, SettlingForContext, IsDone
  <2>9. QED BY <1>0, <2>4, <2>5, <2>6, <2>7, <2>8 DEF ConnIInv
<1>4. ASSUME NEW r \in Requests, BeginExhausted(r) PROVE ConnIInv'
  <2>1. SetErrorLocked("exhausted") BY <1>4 DEF BeginExhausted
  <2>2. SingleReply' /\ UnsentUnanswered' /\ PacketInHand' /\ CancelledReturned'
    BY <1>0, <1>4 DEF BeginExhausted, ConnIInv, TypeOK, SingleReply, UnsentUnanswered, PacketInHand, CancelledReturned
  <2>3. SettlingForContext'
    BY <1>0, <1>4, <2>1, TeardownFacts DEF BeginExhausted, ConnIInv, TypeOK, SettlingForContext
  <2>4. QED BY <1>0, <2>1, <2>2, <2>3, TeardownFacts DEF ConnIInv
<1>5. ASSUME NEW r \in Requests, WriteSent(r) PROVE ConnIInv'
  <2>1. /\ pc[r] = "writing" /\ pc' = [pc EXCEPT ![r] = "waiting"]
        /\ UNCHANGED <<mid, result, got, ctxDone, connVars, rxVars, closeVars>>
    BY <1>5 DEF WriteSent
  <2>2. /\ \A q \in Requests : q # r => total'[q] = total[q] /\ owed'[q] = owed[q]
        /\ owed'[r] = total'[r]
        /\ r \notin Transactions => total'[r] <= 1
    BY <1>0, <1>5 DEF WriteSent, TypeOK
  <2>3. MessagesAddUp'
    <3> SUFFICES ASSUME ~IsDone, NEW q \in Requests
                 PROVE  (got[q] + Len(respCh[q]) + (IF InHand(q) THEN 1 ELSE 0) + owed[q] <= total[q])'
      BY <2>1 DEF MessagesAddUp, IsDone
    <3>1. got[q] + Len(respCh[q]) + (IF InHand(q) THEN 1 ELSE 0) + owed[q] <= total[q]
      BY DEF ConnIInv, MessagesAddUp
    <3>2. got'[q] = got[q] /\ respCh'[q] = respCh[q] /\ InHand(q)' = InHand(q)
      BY <2>1 DEF InHand
    <3>3. CASE q # r BY <2>2, <3>1, <3>2, <3>3
    <3>4. CASE q = r
      <4>1. total[r] = 0 BY <2>1 DEF ConnIInv, UnsentUnanswered
      <4>2. Len(respCh[r]) \in Nat /\ got[r] \in Nat /\ owed[r] \in Nat /\ total'[r] \in Nat
        BY <1>0 DEF TypeOK
      <4>3. got[r] = 0 /\ Len(respCh[r]) = 0 /\ ~InHand(r) BY <3>1, <3>4, <4>1, <4>2
      <4>4. QED BY <2>2, <3>2, <3>4, <4>2, <4>3
    <3>5. QED BY <3>3, <3>4
  <2>4. LiveRequestsHold'
    BY <1>0, <2>1, <2>2 DEF ConnIInv, TypeOK, LiveRequestsHold, Active, Outstanding, InHand, IsDone
  <2>5. HoldersHold' /\ PacketInHand'
    BY <1>0, <2>1 DEF ConnIInv, TypeOK, HoldersHold, PacketInHand
  <2>8. SingleReply' BY <2>1, <2>2 DEF ConnIInv, SingleReply
  <2>9. UnsentUnanswered' /\ CancelledReturned'
    BY <1>0, <2>1, <2>2 DEF ConnIInv, TypeOK, UnsentUnanswered, CancelledReturned
  <2>6. RepliesAreOwn' /\ DownMeansEmpty' /\ DownOnlyWhenDone' /\ SweptWhenDone'
    BY <2>1 DEF ConnIInv, RepliesAreOwn, DownMeansEmpty, DownOnlyWhenDone, SweptWhenDone, IsDone
  <2>7. ReleasedWithCause' /\ SettlingForContext'
    BY SMTT(30), <1>0, <2>1, <2>2 DEF ConnIInv, TypeOK, ReleasedWithCause, EndedFor, SettlingForContext, IsDone
  <2>10. QED BY <1>0, <2>3, <2>4, <2>5, <2>6, <2>7, <2>8, <2>9 DEF ConnIInv
<1>6. ASSUME NEW r \in Requests, WriteNotSent(r) PROVE ConnIInv'
  BY <1>0, <1>6, CleanupStep DEF WriteNotSent, TypeOK
<1>7. ASSUME NEW r \in Requests, WriteFails(r) PROVE ConnIInv'
  BY <1>0, <1>7, CleanupStep DEF WriteFails
<1>8. ASSUME NEW r \in Requests, WriteFailed(r) PROVE ConnIInv'
  <2>1. SetErrorLocked("write") BY <1>8 DEF WriteFailed
  <2>2. SingleReply' /\ UnsentUnanswered' /\ PacketInHand' /\ CancelledReturned'
    BY <1>0, <1>8 DEF WriteFailed, ConnIInv, TypeOK, SingleReply, UnsentUnanswered, PacketInHand, CancelledReturned
  <2>3. SettlingForContext'
    BY SMTT(30), <1>0, <1>8, <2>1, TeardownFacts DEF WriteFailed, ConnIInv, TypeOK, SettlingForContext
  <2>4. QED BY <1>0, <2>1, <2>2, <2>3, TeardownFacts DEF ConnIInv
<1>9. ASSUME NEW r \in Requests, AwaitReply(r) PROVE ConnIInv'
  <2> DEFINE msg == Head(respCh[r])
  <2>1. /\ pc[r] = "waiting" /\ respCh[r] # <<>>
        /\ respCh' = [respCh EXCEPT ![r] = Tail(respCh[r])]
        /\ UNCHANGED <<mid, ctxDone, nextMID, pending, cancelled, chClosed, down, socket,
                       rxVars, closeVars, serverVars>>
    BY <1>9 DEF AwaitReply
  <2>2. \/ msg = Down /\ EndWait(r, "conn") /\ got' = got
        \/ /\ got' = [got EXCEPT ![r] = got[r] + 1]
           /\ \/ (r \notin Transactions \/ got[r] + 1 >= total[r]) /\ EndWait(r, "reply")
              \/ UNCHANGED <<pc, result>>
              \/ r \in Transactions /\ EndWait(r, "badfragment")
    BY <1>9 DEF AwaitReply
  <2>3. RepliesAreOwn' /\ DownOnlyWhenDone' /\ MessagesAddUp' /\ (msg = Down => IsDone)
    BY <2>1, <2>2, TakeFacts
  <2>4. /\ \A q \in Requests : q # r => pc'[q] = pc[q] /\ result'[q] = result[q] /\ got'[q] = got[q]
        /\ pc'[r] \in {"waiting", "settling", "releasing"}
        /\ pc'[r] = "releasing" => (EndedFor(r))'
        /\ pc'[r] = "settling" => r \in Settled /\ r \in ctxDone /\ IsDone
    BY <1>0, <2>1, <2>2, <2>3 DEF TypeOK, EndWait, EndedFor, IsDone
  <2>5. DownMeansEmpty' /\ SingleReply' /\ PacketInHand' /\ SweptWhenDone'
    BY <2>1 DEF ConnIInv, DownMeansEmpty, SingleReply, PacketInHand, SweptWhenDone, IsDone
  <2>6. HoldersHold' BY SMTT(30), <1>0, <2>1, <2>4 DEF ConnIInv, TypeOK, HoldersHold
  <2>7. LiveRequestsHold'
    BY <1>0, <2>1, <2>4 DEF ConnIInv, TypeOK, LiveRequestsHold, Active, Outstanding, InHand, IsDone
  <2>8. UnsentUnanswered' /\ CancelledReturned'
    BY <1>0, <2>1, <2>4 DEF ConnIInv, TypeOK, UnsentUnanswered, CancelledReturned
  <2>9. ReleasedWithCause'
    BY <1>0, <2>1, <2>4 DEF ConnIInv, ReleasedWithCause, EndedFor, IsDone
  <2>10. SettlingForContext'
    BY <1>0, <2>1, <2>4 DEF ConnIInv, SettlingForContext, IsDone
  <2>11. QED BY <1>0, <2>3, <2>5, <2>6, <2>7, <2>8, <2>9, <2>10 DEF ConnIInv
<1>10. ASSUME NEW r \in Requests, AwaitNil(r) PROVE ConnIInv'
  BY <1>0, <1>10 DEF AwaitNil, ConnIInv, TypeOK,
     RepliesAreOwn, DownMeansEmpty, HoldersHold, LiveRequestsHold,
     MessagesAddUp, SingleReply, UnsentUnanswered, PacketInHand, CancelledReturned,
     ReleasedWithCause, SettlingForContext, DownOnlyWhenDone, SweptWhenDone,
     InHand, Outstanding, Active, EndedFor, IsDone
<1>11. ASSUME NEW r \in Requests, AwaitContext(r) PROVE ConnIInv'
  BY SMTT(30), <1>0, <1>11 DEF AwaitContext, EndWait, ConnIInv, TypeOK,
     RepliesAreOwn, DownMeansEmpty, HoldersHold, LiveRequestsHold,
     MessagesAddUp, SingleReply, UnsentUnanswered, PacketInHand, CancelledReturned,
     ReleasedWithCause, SettlingForContext, DownOnlyWhenDone, SweptWhenDone,
     InHand, Outstanding, Active, EndedFor, IsDone
<1>12. ASSUME NEW r \in Requests, AwaitDone(r) PROVE ConnIInv'
  BY <1>0, <1>12 DEF AwaitDone, EndWait, ConnIInv, TypeOK,
     RepliesAreOwn, DownMeansEmpty, HoldersHold, LiveRequestsHold,
     MessagesAddUp, SingleReply, UnsentUnanswered, PacketInHand, CancelledReturned,
     ReleasedWithCause, SettlingForContext, DownOnlyWhenDone, SweptWhenDone,
     InHand, Outstanding, Active, EndedFor, IsDone
<1>13. ASSUME NEW r \in Requests, SettleReply(r) PROVE ConnIInv'
  <2>1. /\ pc[r] = "settling"
        /\ pc' = [pc EXCEPT ![r] = "releasing"]
        /\ UNCHANGED <<mid, result, ctxDone, nextMID, pending, cancelled, chClosed, down, socket,
                       rxVars, closeVars, serverVars>>
    BY <1>13 DEF SettleReply
  <2>2. r \in Settled /\ r \in ctxDone /\ (IsDone \/ result[r] = "ctx")
    BY <2>1 DEF ConnIInv, SettlingForContext
  <2>3. DownMeansEmpty' /\ SingleReply' /\ PacketInHand' /\ SweptWhenDone'
    BY <2>1 DEF ConnIInv, DownMeansEmpty, SingleReply, PacketInHand, SweptWhenDone, IsDone
  <2>4. HoldersHold' BY <1>0, <2>1 DEF ConnIInv, TypeOK, HoldersHold
  <2>5. LiveRequestsHold'
    BY <1>0, <2>1 DEF ConnIInv, TypeOK, LiveRequestsHold, Active, Outstanding, InHand, IsDone
  <2>6. UnsentUnanswered' /\ CancelledReturned'
    BY <1>0, <2>1 DEF ConnIInv, TypeOK, UnsentUnanswered, CancelledReturned
  <2>7. SettlingForContext'
    BY <1>0, <2>1 DEF ConnIInv, TypeOK, SettlingForContext, IsDone
  <2>8. /\ RepliesAreOwn' /\ DownOnlyWhenDone' /\ MessagesAddUp'
        /\ \A q \in Requests : q # r => got'[q] = got[q]
        /\ IsDone \/ got'[r] = got[r] + 1
    <3>1. CASE respCh[r] = <<>>
      <4>1. UNCHANGED <<respCh, got>> /\ r \in chClosed BY <1>13, <3>1 DEF SettleReply
      <4>2. IsDone BY <4>1 DEF ConnIInv, SweptWhenDone
      <4>3. QED BY <2>1, <4>1, <4>2 DEF ConnIInv, RepliesAreOwn, DownOnlyWhenDone, MessagesAddUp, IsDone
    <3>2. CASE respCh[r] # <<>>
      <4>1. /\ respCh' = [respCh EXCEPT ![r] = Tail(respCh[r])]
            /\ got' = [got EXCEPT ![r] = got[r] + (IF Head(respCh[r]) = Down THEN 0 ELSE 1)]
        BY <1>13, <3>2 DEF SettleReply
      <4>2. \/ Head(respCh[r]) = Down /\ got' = got
            \/ Head(respCh[r]) # Down /\ got' = [got EXCEPT ![r] = got[r] + 1]
        <5>1. got \in [Requests -> Nat] BY <1>0 DEF TypeOK
        <5>2. CASE Head(respCh[r]) = Down
          <6>1. got' = [got EXCEPT ![r] = got[r] + 0] BY <4>1, <5>2
          <6>2. QED BY <5>1, <5>2, <6>1
        <5>3. CASE Head(respCh[r]) # Down BY <4>1, <5>3
        <5>4. QED BY <5>2, <5>3
      <4>3. /\ RepliesAreOwn' /\ DownOnlyWhenDone' /\ MessagesAddUp'
            /\ Head(respCh[r]) = Down => IsDone
        BY <2>1, <3>2, <4>1, <4>2, TakeFacts
      <4>4. QED BY <1>0, <4>2, <4>3 DEF TypeOK
    <3>3. QED BY <3>1, <3>2
  <2>9. ReleasedWithCause'
    BY <1>0, <2>1, <2>2, <2>8 DEF ConnIInv, TypeOK, ReleasedWithCause, EndedFor, IsDone
  <2>10. QED BY <1>0, <2>3, <2>4, <2>5, <2>6, <2>7, <2>8, <2>9 DEF ConnIInv
<1>14. ASSUME NEW r \in Requests, SettleTimeout(r) PROVE ConnIInv'
  <2>1. r \in Settled
    BY <1>14 DEF SettleTimeout, ConnIInv, SettlingForContext
  <2>2. HoldersHold' /\ LiveRequestsHold'
    BY <1>0, <1>14 DEF SettleTimeout, ConnIInv, TypeOK, HoldersHold, LiveRequestsHold,
                       Active, Outstanding, InHand, IsDone
  <2>3. ReleasedWithCause'
    BY <1>0, <1>14, <2>1 DEF SettleTimeout, ConnIInv, TypeOK, ReleasedWithCause, EndedFor, IsDone
  <2>4. UnsentUnanswered' /\ CancelledReturned' /\ SettlingForContext'
    BY <1>0, <1>14 DEF SettleTimeout, ConnIInv, TypeOK, UnsentUnanswered, CancelledReturned,
                       SettlingForContext, IsDone
  <2>5. /\ RepliesAreOwn' /\ DownMeansEmpty' /\ MessagesAddUp' /\ SingleReply'
        /\ PacketInHand' /\ DownOnlyWhenDone' /\ SweptWhenDone'
    BY <1>14 DEF SettleTimeout, ConnIInv, RepliesAreOwn, DownMeansEmpty, MessagesAddUp,
                 SingleReply, PacketInHand, DownOnlyWhenDone, SweptWhenDone, InHand, IsDone
  <2>6. QED BY <1>0, <2>2, <2>3, <2>4, <2>5 DEF ConnIInv
<1>15. ASSUME NEW r \in Requests, SettleDone(r) PROVE ConnIInv'
  BY <1>0, <1>15 DEF SettleDone, ConnIInv, TypeOK,
     RepliesAreOwn, DownMeansEmpty, HoldersHold, LiveRequestsHold,
     MessagesAddUp, SingleReply, UnsentUnanswered, PacketInHand, CancelledReturned,
     ReleasedWithCause, SettlingForContext, DownOnlyWhenDone, SweptWhenDone,
     InHand, Outstanding, Active, EndedFor, IsDone
<1>16. ASSUME NEW r \in Requests, Finish(r) PROVE ConnIInv'
  <2>1. /\ pc[r] = "releasing" /\ pc' = [pc EXCEPT ![r] = "returned"]
        /\ UNCHANGED <<mid, result, got, ctxDone, nextMID, respCh, chClosed, down, socket,
                       rxVars, closeVars, serverVars>>
        /\ ReleaseLocked(r, Abandons(r))
    BY <1>16 DEF Finish
  <2>2. EndedFor(r) BY <2>1 DEF ConnIInv, ReleasedWithCause
  <2>3. ~Outstanding(r) \/ IsDone \/ Abandons(r)
    BY <1>0, <2>1, <2>2 DEF ConnIInv, TypeOK, EndedFor, Abandons, Outstanding, InHand,
                            MessagesAddUp, SingleReply
  <2>4. respCh[r] # <<>> /\ r \notin Transactions => ~Outstanding(r) \/ IsDone
    <3>1. respCh[r] # <<>> => Len(respCh[r]) \in Nat \ {0}
      BY <1>0, TailFacts DEF TypeOK
    <3> SUFFICES ASSUME respCh[r] # <<>>, r \notin Transactions, ~IsDone PROVE ~Outstanding(r)
      OBVIOUS
    <3>2. /\ got[r] + Len(respCh[r]) + (IF InHand(r) THEN 1 ELSE 0) + owed[r] <= total[r]
          /\ total[r] <= 1
      BY DEF ConnIInv, MessagesAddUp, SingleReply
    <3>3. got[r] \in Nat /\ owed[r] \in Nat /\ total[r] \in Nat BY <1>0 DEF TypeOK
    <3>4. QED BY <3>1, <3>2, <3>3 DEF Outstanding
  <2>5. \/ UNCHANGED <<pending, cancelled>> /\ pending[mid[r]] # r
        \/ /\ ~Outstanding(r) \/ IsDone
           /\ pending' = [pending EXCEPT ![mid[r]] = NoReq] /\ UNCHANGED cancelled
        \/ cancelled' = cancelled \cup {r} /\ UNCHANGED pending
    BY <2>1, <2>3, <2>4 DEF ReleaseLocked
  <2>6. HoldersHold'
    <3>1. \A m \in MIDs : pending'[m] # NoReq => pending'[m] = pending[m]
      BY <1>0, <2>5 DEF TypeOK
    <3>2. \A q \in Requests : pc'[q] = pc[q] \/ pc'[q] = "returned" BY <1>0, <2>1 DEF TypeOK
    <3>3. QED BY <1>0, <2>1, <3>1, <3>2 DEF ConnIInv, TypeOK, HoldersHold
  <2>7. DownMeansEmpty' BY <1>0, <2>1, <2>5 DEF ConnIInv, TypeOK, DownMeansEmpty, IsDone
  <2>8. LiveRequestsHold'
    BY <1>0, <2>1, <2>5 DEF ConnIInv, TypeOK, LiveRequestsHold, Active, Outstanding, InHand, IsDone
  <2>9. CancelledReturned' /\ UnsentUnanswered'
    BY <1>0, <2>1, <2>5 DEF ConnIInv, TypeOK, CancelledReturned, UnsentUnanswered
  <2>10. ReleasedWithCause' /\ SettlingForContext'
    BY <1>0, <2>1 DEF ConnIInv, TypeOK, ReleasedWithCause, EndedFor, SettlingForContext, IsDone
  <2>11. /\ RepliesAreOwn' /\ MessagesAddUp' /\ SingleReply'
         /\ PacketInHand' /\ DownOnlyWhenDone' /\ SweptWhenDone'
    BY <2>1 DEF ConnIInv, RepliesAreOwn, MessagesAddUp, SingleReply, PacketInHand,
                DownOnlyWhenDone, SweptWhenDone, InHand, IsDone
  <2>12. QED BY <1>0, <2>6, <2>7, <2>8, <2>9, <2>10, <2>11 DEF ConnIInv
<1>17. ASSUME ReceiveCheck PROVE ConnIInv'
  BY <1>0, <1>17 DEF ReceiveCheck, ConnIInv, TypeOK,
     RepliesAreOwn, DownMeansEmpty, HoldersHold, LiveRequestsHold,
     MessagesAddUp, SingleReply, UnsentUnanswered, PacketInHand, CancelledReturned,
     ReleasedWithCause, SettlingForContext, DownOnlyWhenDone, SweptWhenDone,
     InHand, Outstanding, Active, EndedFor, IsDone
<1>18. ASSUME NEW r \in Requests, ReceiveRead(r) PROVE ConnIInv'
  <2>1. /\ rxPc = "reading" /\ rxPc' = "dispatching" /\ rxMid' = mid[r] /\ rxOf' = r
        /\ owed[r] > 0 /\ owed' = [owed EXCEPT ![r] = owed[r] - 1]
        /\ UNCHANGED <<callerVars, ctxDone, connVars, closeVars, total>>
    BY <1>18 DEF ReceiveRead
  <2>2. MessagesAddUp'
    <3> SUFFICES ASSUME ~IsDone, NEW q \in Requests
                 PROVE  (got[q] + Len(respCh[q]) + (IF InHand(q) THEN 1 ELSE 0) + owed[q] <= total[q])'
      BY <2>1 DEF MessagesAddUp, IsDone
    <3>1. got[q] + Len(respCh[q]) + owed[q] <= total[q]
      BY Balance
    <3>2. got[q] \in Nat /\ owed[q] \in Nat /\ total[q] \in Nat /\ Len(respCh[q]) \in Nat
      BY <1>0 DEF TypeOK
    <3>3. CASE q = r
      <4>1. owed'[q] = owed[q] - 1 /\ InHand(q)' BY <1>0, <2>1, <3>3 DEF TypeOK, InHand
      <4>2. QED BY <2>1, <3>1, <3>2, <4>1
    <3>4. CASE q # r
      <4>1. owed'[q] = owed[q] /\ ~InHand(q)' BY <1>0, <2>1, <3>4 DEF TypeOK, InHand
      <4>2. QED BY <2>1, <3>1, <3>2, <4>1
    <3>5. QED BY <3>3, <3>4
  <2>3. LiveRequestsHold'
    BY <1>0, <2>1 DEF ConnIInv, TypeOK, LiveRequestsHold, Active, Outstanding, InHand, IsDone
  <2>4. PacketInHand' BY <2>1 DEF PacketInHand
  <2>5. /\ RepliesAreOwn' /\ DownMeansEmpty' /\ HoldersHold' /\ SingleReply' /\ UnsentUnanswered'
        /\ CancelledReturned' /\ DownOnlyWhenDone' /\ SweptWhenDone'
    BY <2>1 DEF ConnIInv, RepliesAreOwn, DownMeansEmpty, HoldersHold, SingleReply,
                UnsentUnanswered, CancelledReturned, DownOnlyWhenDone, SweptWhenDone, IsDone
  <2>6. ReleasedWithCause' /\ SettlingForContext'
    BY <2>1 DEF ConnIInv, ReleasedWithCause, EndedFor, SettlingForContext, IsDone
  <2>7. QED BY <1>0, <2>2, <2>3, <2>4, <2>5, <2>6 DEF ConnIInv
<1>19. ASSUME ReceiveOplockBreak PROVE ConnIInv'
  BY <1>0, <1>19 DEF ReceiveOplockBreak, ConnIInv, TypeOK,
     RepliesAreOwn, DownMeansEmpty, HoldersHold, LiveRequestsHold,
     MessagesAddUp, SingleReply, UnsentUnanswered, PacketInHand, CancelledReturned,
     ReleasedWithCause, SettlingForContext, DownOnlyWhenDone, SweptWhenDone,
     InHand, Outstanding, Active, EndedFor, IsDone
<1>20. ASSUME ReceiveMalformed PROVE ConnIInv'
  BY <1>0, <1>20 DEF ReceiveMalformed, ConnIInv, TypeOK,
     RepliesAreOwn, DownMeansEmpty, HoldersHold, LiveRequestsHold,
     MessagesAddUp, SingleReply, UnsentUnanswered, PacketInHand, CancelledReturned,
     ReleasedWithCause, SettlingForContext, DownOnlyWhenDone, SweptWhenDone,
     InHand, Outstanding, Active, EndedFor, IsDone
<1>21. ASSUME ReceiveFails PROVE ConnIInv'
  <2>1. SetErrorLocked("read") BY <1>21 DEF ReceiveFails
  <2>2. /\ SingleReply' /\ UnsentUnanswered' /\ PacketInHand' /\ CancelledReturned'
    BY <1>21 DEF ReceiveFails, ConnIInv, SingleReply, UnsentUnanswered, PacketInHand,
                 CancelledReturned
  <2>3. SettlingForContext'
    BY <1>21, <2>1, TeardownFacts DEF ReceiveFails, ConnIInv, SettlingForContext
  <2>4. QED BY <1>0, <2>1, <2>2, <2>3, TeardownFacts DEF ConnIInv
<1>22. ASSUME ReceiveDispatch PROVE ConnIInv'
  <2> DEFINE h == pending[rxMid]
  <2>1. /\ rxPc = "dispatching" /\ rxPc' = "check"
        /\ UNCHANGED <<callerVars, ctxDone, nextMID, cancelled, chClosed, down, socket,
                       closeVars, serverVars>>
        /\ \/ UNCHANGED <<pending, respCh>>
           \/ /\ h \in cancelled /\ h \notin Transactions
              /\ pending' = [pending EXCEPT ![rxMid] = NoReq] /\ UNCHANGED respCh
           \/ /\ h # NoReq /\ respCh' = Push({h}, rxOf) /\ UNCHANGED pending
    BY <1>22 DEF ReceiveDispatch
  <2>2. h # NoReq => ~IsDone /\ h \in Requests /\ rxOf = h /\ InHand(h)
    <3> SUFFICES ASSUME h # NoReq PROVE ~IsDone /\ h \in Requests /\ rxOf = h /\ InHand(h)
      OBVIOUS
    <3>1. rxMid \in MIDs /\ h \in Requests BY <1>0 DEF TypeOK
    <3>2. ~IsDone BY <3>1 DEF ConnIInv, DownMeansEmpty
    <3>3. rxMid # reservedMID BY <3>1 DEF ConnIInv, HoldersHold
    <3>4. rxOf # NoReq /\ rxMid = mid[rxOf] BY <2>1, <3>3 DEF ConnIInv, PacketInHand
    <3>5. rxOf \in Requests /\ Outstanding(rxOf)
      BY <1>0, <2>1, <3>4 DEF TypeOK, Outstanding, InHand
    <3>6. pending[mid[rxOf]] = rxOf BY <3>2, <3>5 DEF ConnIInv, LiveRequestsHold
    <3>7. QED BY <2>1, <3>1, <3>2, <3>4, <3>6 DEF InHand
  <2>3. \A q \in Requests : ~InHand(q)' BY <2>1 DEF InHand
  <2>4. /\ DownMeansEmpty' /\ HoldersHold' /\ PacketInHand'
    <3>1. \A m \in MIDs : pending'[m] = NoReq \/ pending'[m] = pending[m]
      BY <1>0, <2>1 DEF TypeOK
    <3>2. QED BY <1>0, <2>1, <3>1 DEF ConnIInv, TypeOK, DownMeansEmpty, HoldersHold, PacketInHand, IsDone
  <2>5. LiveRequestsHold'
    <3> SUFFICES ASSUME ~IsDone, NEW q \in Requests, Active(q) \/ owed[q] > 0
                 PROVE  pending'[mid[q]] = q
      BY <2>1, <2>3 DEF LiveRequestsHold, Active, Outstanding, IsDone
    <3>1. pending[mid[q]] = q /\ mid[q] \in MIDs
      BY <1>0 DEF ConnIInv, TypeOK, LiveRequestsHold, Outstanding
    <3>2. CASE UNCHANGED pending BY <3>1, <3>2
    <3>3. CASE /\ h \in cancelled /\ h \notin Transactions
               /\ pending' = [pending EXCEPT ![rxMid] = NoReq]
      <4>1. h # NoReq BY <1>0, <3>3 DEF TypeOK
      <4>2. pc[h] = "returned" /\ total[h] <= 1 /\ InHand(h)
        BY <1>0, <2>2, <3>3, <4>1 DEF ConnIInv, CancelledReturned, SingleReply
      <4>3. owed[h] = 0
        BY SMTT(30), <2>2, <4>1, <4>2, Balance
      <4>4. q # h BY <4>2, <4>3 DEF Active
      <4>5. QED BY <1>0, <3>1, <3>3, <4>4 DEF TypeOK
    <3>4. QED BY <2>1, <3>2, <3>3
  <2>6. /\ RepliesAreOwn' /\ DownOnlyWhenDone' /\ MessagesAddUp'
    <3>1. CASE UNCHANGED respCh
      <4>1. RepliesAreOwn' /\ DownOnlyWhenDone'
        BY <2>1, <3>1 DEF ConnIInv, RepliesAreOwn, DownOnlyWhenDone, IsDone
      <4>2. ASSUME NEW q \in Requests, ~IsDone
            PROVE  (got[q] + Len(respCh[q]) + (IF InHand(q) THEN 1 ELSE 0) + owed[q] <= total[q])'
        BY <2>1, <2>3, <3>1, <4>2, Balance
      <4>3. MessagesAddUp' BY <2>1, <4>2 DEF MessagesAddUp, IsDone
      <4>4. QED BY <4>1, <4>3
    <3>2. CASE h # NoReq /\ respCh' = Push({h}, rxOf)
      <4>1. rxOf \in Messages /\ rxOf = h /\ h \in Requests BY <2>2, <3>2 DEF Messages
      <4>2. /\ \A q \in Requests : q # h => respCh'[q] = respCh[q]
            /\ \A q \in Requests : Len(respCh'[q]) <= Len(respCh[q]) + 1
            /\ \A q \in Requests : \A i \in 1 .. Len(respCh'[q]) :
                  \/ i \in 1 .. Len(respCh[q]) /\ respCh'[q][i] = respCh[q][i]
                  \/ q = h /\ respCh'[q][i] = h
        BY <1>0, <3>2, <4>1, PushFacts
      <4>3. RepliesAreOwn' /\ DownOnlyWhenDone'
        BY <2>1, <4>1, <4>2 DEF ConnIInv, RepliesAreOwn, DownOnlyWhenDone, IsDone
      <4>4. ASSUME NEW q \in Requests, ~IsDone
            PROVE  (got[q] + Len(respCh[q]) + (IF InHand(q) THEN 1 ELSE 0) + owed[q] <= total[q])'
        <5>1. Len(respCh'[q]) \in Nat BY <1>0 DEF TypeOK
        <5>2. CASE q = h
          <6>1. InHand(q) BY <2>2, <3>2, <5>2
          <6>2. QED BY SMTT(30), <2>1, <2>3, <4>2, <4>4, <5>1, <6>1, Balance
        <5>3. CASE q # h
          <6>1. respCh'[q] = respCh[q] BY <4>2, <5>3
          <6>2. QED BY <2>1, <2>3, <4>4, <6>1, Balance
        <5>4. QED BY <5>2, <5>3
      <4>5. MessagesAddUp' BY <2>1, <4>4 DEF MessagesAddUp, IsDone
      <4>6. QED BY <4>3, <4>5
    <3>3. QED BY <2>1, <3>1, <3>2
  <2>7. /\ SingleReply' /\ UnsentUnanswered' /\ CancelledReturned' /\ ReleasedWithCause'
        /\ SettlingForContext' /\ SweptWhenDone'
    BY <2>1 DEF ConnIInv, SingleReply, UnsentUnanswered, CancelledReturned, ReleasedWithCause,
                EndedFor, SettlingForContext, SweptWhenDone, IsDone
  <2>8. QED BY <1>0, <2>4, <2>5, <2>6, <2>7 DEF ConnIInv
<1>23. ASSUME NEW c \in Closers, CloseAgain(c) PROVE ConnIInv'
  BY <1>0, <1>23 DEF CloseAgain, ReceiverLeaves, ConnIInv, TypeOK,
     RepliesAreOwn, DownMeansEmpty, HoldersHold, LiveRequestsHold,
     MessagesAddUp, SingleReply, UnsentUnanswered, PacketInHand, CancelledReturned,
     ReleasedWithCause, SettlingForContext, DownOnlyWhenDone, SweptWhenDone,
     InHand, Outstanding, Active, EndedFor, IsDone
<1>24. ASSUME NEW c \in Closers, CloseFirst(c) PROVE ConnIInv'
  BY <1>0, <1>24 DEF CloseFirst, NothingPending, ConnIInv, TypeOK,
     RepliesAreOwn, DownMeansEmpty, HoldersHold, LiveRequestsHold,
     MessagesAddUp, SingleReply, UnsentUnanswered, PacketInHand, CancelledReturned,
     ReleasedWithCause, SettlingForContext, DownOnlyWhenDone, SweptWhenDone,
     InHand, Outstanding, Active, EndedFor, IsDone
<1>25. ASSUME NEW c \in Closers, NEW r \in Requests, CloseSweep(c, r) PROVE ConnIInv'
  <2>1. /\ r \in swept /\ respCh' = Push({r}, Down)
        /\ UNCHANGED <<callerVars, ctxDone, nextMID, pending, cancelled, down, socket,
                       rxVars, closePc, serverVars>>
    BY <1>25 DEF CloseSweep
  <2>2. IsDone /\ IsDone' BY <2>1 DEF ConnIInv, SweptWhenDone, IsDone
  <2>3. RepliesAreOwn'
    <3>1. Down \in Messages BY DEF Messages
    <3>2. \A q \in Requests : \A i \in 1 .. Len(respCh'[q]) :
             \/ i \in 1 .. Len(respCh[q]) /\ respCh'[q][i] = respCh[q][i]
             \/ respCh'[q][i] = Down
      BY <1>0, <2>1, <3>1, PushFacts
    <3>3. QED BY <3>2 DEF ConnIInv, RepliesAreOwn
  <2>4. /\ LiveRequestsHold' /\ MessagesAddUp' /\ ReleasedWithCause' /\ DownOnlyWhenDone'
        /\ SweptWhenDone'
    BY <2>2 DEF LiveRequestsHold, MessagesAddUp, ReleasedWithCause, EndedFor,
                DownOnlyWhenDone, SweptWhenDone
  <2>5. /\ DownMeansEmpty' /\ HoldersHold' /\ SingleReply' /\ UnsentUnanswered'
        /\ PacketInHand' /\ CancelledReturned' /\ SettlingForContext'
    BY <2>1, <2>2 DEF ConnIInv, DownMeansEmpty, HoldersHold, SingleReply, UnsentUnanswered,
                      PacketInHand, CancelledReturned, SettlingForContext
  <2>6. QED BY <1>0, <2>3, <2>4, <2>5 DEF ConnIInv
<1>26. ASSUME NEW c \in Closers, CloseSocket(c) PROVE ConnIInv'
  BY <1>0, <1>26 DEF CloseSocket, ReceiverLeaves, ConnIInv, TypeOK,
     RepliesAreOwn, DownMeansEmpty, HoldersHold, LiveRequestsHold,
     MessagesAddUp, SingleReply, UnsentUnanswered, PacketInHand, CancelledReturned,
     ReleasedWithCause, SettlingForContext, DownOnlyWhenDone, SweptWhenDone,
     InHand, Outstanding, Active, EndedFor, IsDone
<1>27. CASE UNCHANGED vars
  BY <1>0, <1>27 DEF vars, ConnIInv, TypeOK,
     RepliesAreOwn, DownMeansEmpty, HoldersHold, LiveRequestsHold,
     MessagesAddUp, SingleReply, UnsentUnanswered, PacketInHand, CancelledReturned,
     ReleasedWithCause, SettlingForContext, DownOnlyWhenDone, SweptWhenDone,
     InHand, Outstanding, Active, EndedFor, IsDone
<1>28. QED
  BY <1>1, <1>2, <1>3, <1>4, <1>5, <1>6, <1>7, <1>8, <1>9, <1>10, <1>11, <1>12, <1>13, <1>14,
     <1>15, <1>16, <1>17, <1>18, <1>19, <1>20, <1>21, <1>22, <1>23, <1>24, <1>25, <1>26, <1>27
  DEF Next, CallerStep, BeginRequest, Write, ReceiveStep, CloseStep, Quiet

\* ConnIInv holds of a new connection.
LEMMA InvInit == Init => ConnIInv
<1> SUFFICES ASSUME Init PROVE ConnIInv
  OBVIOUS
<1>1. TypeOK
  <2>1. 0 \in MIDs BY DEF MIDs
  <2>2. <<>> \in Seq(Requests \cup {NoReq, Down}) OBVIOUS
  <2>3. QED BY <2>1, <2>2 DEF Init, TypeOK, Results, Closers
<1>2. \A r \in Requests : Len(respCh[r]) = 0 BY DEF Init
<1>3. QED
  BY <1>1, <1>2 DEF Init, ConnIInv, TypeOK, RepliesAreOwn, DownMeansEmpty, HoldersHold,
     LiveRequestsHold, MessagesAddUp, SingleReply, UnsentUnanswered, PacketInHand,
     CancelledReturned, ReleasedWithCause, SettlingForContext, DownOnlyWhenDone,
     SweptWhenDone, InHand, Outstanding, Active, IsDone

\* ConnIInv is an invariant of the connection, for any number of requests, any
\* MID space, any channel depth and any number of fragments.
THEOREM ConnInvariant == Spec => []ConnIInv
<1>1. Init => ConnIInv BY InvInit
<1>2. ConnIInv /\ [Next]_vars => ConnIInv' BY InvStep
<1>3. QED BY <1>1, <1>2, PTL DEF Spec

\* Every variable of the connection keeps its type.
THEOREM TypeCorrect == Spec => []TypeOK
<1>1. ConnIInv => TypeOK BY DEF ConnIInv
<1>2. QED BY <1>1, ConnInvariant, PTL

\* No caller is ever handed a message the server sent for another request, or
\* one nobody asked for: MIDs are reused only when no message that carries
\* them can still arrive.
THEOREM OwnReplies == Spec => []RepliesAreOwn
<1>1. ConnIInv => RepliesAreOwn BY DEF ConnIInv
<1>2. QED BY <1>1, ConnInvariant, PTL

\* c.done is closed once and c.err keeps its first value, whoever races for it.
THEOREM OneTeardown == Spec => TornDownOnce
<1>1. ASSUME [Next]_vars PROVE [down # "no" => down' = down]_vars
  <2> USE DEF callerVars, connVars, rxVars, closeVars, serverVars, IsDone
  <2> SUFFICES ASSUME Next, down # "no" PROVE down' = down
    BY <1>1
  <2>1. ASSUME NEW r \in Requests, EndContext(r) \/ CallerStep(r) \/ Write(r) PROVE down' = down
    BY <2>1 DEF EndContext, CallerStep, BeginRequest, BeginRefused, BeginRegister, BeginExhausted,
       Write, WriteSent, WriteNotSent, WriteFails, WriteFailed, AwaitReply, AwaitNil,
       AwaitContext, AwaitDone, SettleReply, SettleTimeout, SettleDone, Finish, SetErrorLocked
  <2>2. ASSUME ReceiveStep PROVE down' = down
    BY <2>2 DEF ReceiveStep, ReceiveCheck, ReceiveRead, ReceiveOplockBreak, ReceiveMalformed,
       ReceiveFails, ReceiveDispatch, SetErrorLocked
  <2>3. ASSUME NEW c \in Closers, CloseStep(c) PROVE down' = down
    BY <2>3 DEF CloseStep, CloseAgain, CloseFirst, CloseSweep, CloseSocket
  <2>4. CASE Quiet BY <2>4 DEF Quiet, vars
  <2>5. QED BY <2>1, <2>2, <2>3, <2>4 DEF Next
<1>2. QED BY <1>1, PTL DEF Spec, TornDownOnce

-----------------------------------------------------------------------------
(* What becomes of each call.                                              *)

\* What a non-blocking send does to one channel.
LEMMA PushOne ==
  ASSUME TypeOK, NEW rs, NEW msg \in Messages, respCh' = Push(rs, msg), NEW q \in Requests
  PROVE  \/ /\ q \notin rs \/ Len(respCh[q]) >= QueueDepth
            /\ respCh'[q] = respCh[q]
         \/ /\ q \in rs
            /\ Len(respCh[q]) < QueueDepth
            /\ respCh'[q] # <<>>
            /\ Len(respCh'[q]) = Len(respCh[q]) + 1
            /\ respCh'[q][Len(respCh[q]) + 1] = msg
            /\ \A i \in 1 .. Len(respCh[q]) : respCh'[q][i] = respCh[q][i]
<1>1. respCh'[q] = IF q \in rs /\ Len(respCh[q]) < QueueDepth
                   THEN Append(respCh[q], msg) ELSE respCh[q]
  BY DEF Push
<1>2. respCh[q] \in Seq(Messages) BY DEF TypeOK, Messages
<1>3. Len(respCh[q]) \in Nat BY <1>2
<1>4. /\ Append(respCh[q], msg) # <<>>
      /\ Len(Append(respCh[q], msg)) = Len(respCh[q]) + 1
      /\ Append(respCh[q], msg)[Len(respCh[q]) + 1] = msg
      /\ \A i \in 1 .. Len(respCh[q]) : Append(respCh[q], msg)[i] = respCh[q][i]
  BY <1>2
<1>5. CASE q \in rs /\ Len(respCh[q]) < QueueDepth
  <2>1. respCh'[q] = Append(respCh[q], msg) BY <1>1, <1>5
  <2>2. QED BY <1>4, <1>5, <2>1
<1>6. CASE ~(q \in rs /\ Len(respCh[q]) < QueueDepth)
  <2>1. respCh'[q] = respCh[q] BY <1>1, <1>6
  <2>2. QED BY <1>3, <1>6, <2>1
<1>7. QED BY <1>5, <1>6

\* The same for a send to one request only.
LEMMA PushTo ==
  ASSUME TypeOK, NEW r \in Requests, NEW msg \in Messages, respCh' = Push({r}, msg)
  PROVE  /\ \A q \in Requests : q # r => respCh'[q] = respCh[q]
         /\ \/ /\ Len(respCh[r]) >= QueueDepth
               /\ respCh'[r] = respCh[r]
            \/ /\ Len(respCh[r]) < QueueDepth
               /\ respCh'[r] # <<>>
               /\ Len(respCh'[r]) = Len(respCh[r]) + 1
               /\ respCh'[r][Len(respCh[r]) + 1] = msg
               /\ \A i \in 1 .. Len(respCh[r]) : respCh'[r][i] = respCh[r][i]
<1>1. /\ \A q \in Requests : q # r => respCh'[q] = respCh[q]
      /\ respCh'[r] = IF Len(respCh[r]) < QueueDepth THEN Append(respCh[r], msg) ELSE respCh[r]
  BY DEF Push
<1>2. respCh[r] \in Seq(Messages) BY DEF TypeOK, Messages
<1>3. /\ Len(respCh[r]) \in Nat
      /\ Append(respCh[r], msg) # <<>>
      /\ Len(Append(respCh[r], msg)) = Len(respCh[r]) + 1
      /\ Append(respCh[r], msg)[Len(respCh[r]) + 1] = msg
      /\ \A i \in 1 .. Len(respCh[r]) : Append(respCh[r], msg)[i] = respCh[r][i]
  BY <1>2
<1>4. CASE Len(respCh[r]) < QueueDepth
  <2>1. respCh'[r] = Append(respCh[r], msg) BY <1>1, <1>4
  <2>2. QED BY <1>1, <1>3, <1>4, <2>1
<1>5. CASE ~(Len(respCh[r]) < QueueDepth)
  <2>1. respCh'[r] = respCh[r] BY <1>1, <1>5
  <2>2. Len(respCh[r]) >= QueueDepth BY <1>3, <1>5
  <2>3. \A q \in Requests : q # r => respCh'[q] = respCh[q] BY <1>1
  <2>4. QED BY <2>1, <2>2, <2>3
<1>6. QED BY <1>4, <1>5

\* A channel is empty exactly when its length is zero.
LEMMA EmptyChannel == ASSUME NEW S, NEW s \in Seq(S) PROVE s # <<>> <=> Len(s) > 0
OBVIOUS

\* The counts RepliesAddUp is about.
LEMMA CountTypes ==
  ASSUME TypeOK, NEW q \in Requests
  PROVE  /\ got[q] \in Nat /\ owed[q] \in Nat /\ total[q] \in Nat
         /\ Len(respCh[q]) \in Nat /\ Replies(q) \in Nat /\ Replies(q) <= Len(respCh[q])
         /\ respCh[q] # <<>> <=> Len(respCh[q]) > 0
         /\ ~EndsDown(q) => Replies(q) = Len(respCh[q])
         /\ EndsDown(q) => Replies(q) = Len(respCh[q]) - 1
<1>1. respCh[q] \in Seq(Messages) BY DEF TypeOK, Messages
<1>2. Len(respCh[q]) \in Nat /\ (respCh[q] # <<>> <=> Len(respCh[q]) > 0) BY <1>1
<1>3. QED BY <1>2 DEF TypeOK, Replies, EndsDown

\* On a live connection no channel holds a teardown message.
LEMMA LiveChannels ==
  ASSUME ConnIInv, ~IsDone, NEW q \in Requests
  PROVE  ~EndsDown(q) /\ Replies(q) = Len(respCh[q])
<1>1. TypeOK BY DEF ConnIInv
<1>2. respCh[q] # <<>> => Len(respCh[q]) \in 1 .. Len(respCh[q]) BY <1>1, CountTypes
<1>3. QED BY <1>2 DEF ConnIInv, DownOnlyWhenDone, EndsDown, Replies

\* The parts of CallIInv that speak of the channels and the messages in them.
ChannelParts == DownComesLast /\ RepliesAddUp /\ SweptUntouched /\ NothingLost

\* A step that leaves the channels and the messages alone.
LEMMA ChannelsUntouched ==
  ASSUME ChannelParts, UNCHANGED <<respCh, got, owed, total, down, swept>>,
         cancelled \subseteq cancelled',
         \A q \in Requests : InHand(q)' <=> InHand(q)
  PROVE  ChannelParts'
<1>1. DownComesLast' BY DEF ChannelParts, DownComesLast
<1>2. SweptUntouched' BY DEF ChannelParts, SweptUntouched, EndsDown
<1>3. RepliesAddUp'
  BY DEF ChannelParts, RepliesAddUp, Replies, EndsDown
<1>4. NothingLost'
  BY DEF ChannelParts, NothingLost, IsDone
<1>5. QED BY <1>1, <1>2, <1>3, <1>4 DEF ChannelParts

\* Teardown through setErrorLocked adds at most one message to a channel, and
\* it is the last.
LEMMA ChannelsTornDown ==
  ASSUME ConnIInv, ChannelParts, NEW err \in {"closed", "exhausted", "read", "write"},
         SetErrorLocked(err), UNCHANGED <<got, owed, total, swept, cancelled>>,
         \A q \in Requests : InHand(q)' <=> InHand(q)
  PROVE  ChannelParts'
<1>0. TypeOK BY DEF ConnIInv
<1>1. CASE IsDone
  <2>1. UNCHANGED <<respCh, down>> BY <1>1 DEF SetErrorLocked
  <2>2. QED BY <2>1, ChannelsUntouched
<1>2. CASE ~IsDone
  <2>1. respCh' = Push(Registered, Down) /\ down' = err BY <1>2 DEF SetErrorLocked
  <2>2. Down \in Messages BY DEF Messages
  <2>3. swept = {} BY <1>2 DEF ConnIInv, SweptWhenDone
  <2>4. ASSUME NEW q \in Requests
        PROVE  /\ Replies(q)' = Replies(q)
               /\ \A i \in 1 .. Len(respCh'[q]) : respCh'[q][i] = Down => i = Len(respCh'[q])
    <3>1. /\ Len(respCh[q]) \in Nat
          /\ Replies(q) = Len(respCh[q])
          /\ \A i \in 1 .. Len(respCh[q]) : respCh[q][i] # Down
      BY <1>0, <1>2, CountTypes, LiveChannels DEF ConnIInv, DownOnlyWhenDone
    <3>2. CASE respCh'[q] = respCh[q]
      BY <3>1, <3>2 DEF Replies, EndsDown
    <3>3. CASE /\ respCh'[q] # <<>>
               /\ Len(respCh'[q]) = Len(respCh[q]) + 1
               /\ respCh'[q][Len(respCh[q]) + 1] = Down
               /\ \A i \in 1 .. Len(respCh[q]) : respCh'[q][i] = respCh[q][i]
      <4>1. Replies(q)' = Replies(q) BY <3>1, <3>3 DEF Replies, EndsDown
      <4>2. ASSUME NEW i \in 1 .. Len(respCh'[q]), respCh'[q][i] = Down PROVE i = Len(respCh'[q])
        BY <3>1, <3>3, <4>2
      <4>3. QED BY <4>1, <4>2
    <3>4. QED BY <1>0, <2>1, <2>2, <3>2, <3>3, PushOne
  <2>5. DownComesLast' /\ RepliesAddUp'
    BY <2>4 DEF DownComesLast, ChannelParts, RepliesAddUp
  <2>6. SweptUntouched' BY <2>3 DEF SweptUntouched
  <2>7. NothingLost' BY <2>1 DEF NothingLost, IsDone
  <2>8. QED BY <2>5, <2>6, <2>7 DEF ChannelParts
<1>3. QED BY <1>1, <1>2

\* Taking a message: a reply moves from the channel to the caller, the teardown
\* message is the last one there was.
LEMMA ChannelsTaken ==
  ASSUME ConnIInv, ChannelParts, NEW r \in Requests, respCh[r] # <<>>,
         respCh' = [respCh EXCEPT ![r] = Tail(respCh[r])],
         \/ Head(respCh[r]) = Down /\ got' = got
         \/ Head(respCh[r]) # Down /\ got' = [got EXCEPT ![r] = got[r] + 1],
         UNCHANGED <<owed, total, down, swept, cancelled>>,
         \A q \in Requests : InHand(q)' <=> InHand(q)
  PROVE  /\ ChannelParts'
         /\ Head(respCh[r]) # Down => got[r] + 1 <= total[r]
<1>0. TypeOK BY DEF ConnIInv
<1>1. /\ Len(respCh[r]) \in Nat \ {0}
      /\ Len(Tail(respCh[r])) = Len(respCh[r]) - 1
      /\ \A i \in 1 .. Len(Tail(respCh[r])) :
            i + 1 \in 1 .. Len(respCh[r]) /\ Tail(respCh[r])[i] = respCh[r][i + 1]
      /\ Head(respCh[r]) = respCh[r][1]
      /\ Tail(respCh[r]) # <<>> <=> Len(respCh[r]) > 1
  <2>1. respCh[r] \in Seq(Messages) /\ respCh[r] # <<>> BY <1>0 DEF TypeOK, Messages
  <2>2. Tail(respCh[r]) \in Seq(Messages) BY <2>1
  <2>3. Tail(respCh[r]) # <<>> <=> Len(Tail(respCh[r])) > 0 BY <2>2, EmptyChannel
  <2>4. QED BY ONLY <2>1, <2>3, TailFacts
<1>2. /\ respCh'[r] = Tail(respCh[r])
      /\ \A q \in Requests : q # r => respCh'[q] = respCh[q] /\ got'[q] = got[q]
  BY <1>0 DEF TypeOK
<1>3. DownComesLast'
  <2> SUFFICES ASSUME NEW q \in Requests, NEW i \in 1 .. Len(respCh'[q]), respCh'[q][i] = Down
               PROVE  i = Len(respCh'[q])
    BY DEF DownComesLast
  <2>1. CASE q = r
    <3>1. i + 1 \in 1 .. Len(respCh[r]) /\ respCh[r][i + 1] = Down BY ZenonT(30), <1>1, <1>2, <2>1
    <3>2. i + 1 = Len(respCh[r]) BY <3>1 DEF ChannelParts, DownComesLast
    <3>3. Len(respCh'[r]) = Len(respCh[r]) - 1 BY <1>1, <1>2
    <3>4. i \in Nat /\ i = Len(respCh[r]) - 1 BY <1>1, <3>1, <3>2
    <3>5. QED BY <2>1, <3>3, <3>4
  <2>2. CASE q # r BY <1>2, <2>2 DEF ChannelParts, DownComesLast
  <2>3. QED BY <2>1, <2>2
<1>4. Head(respCh[r]) = Down => Len(respCh[r]) = 1
  <2>1. 1 \in 1 .. Len(respCh[r]) BY <1>1
  <2>2. QED BY ZenonT(30), <1>1, <2>1 DEF ChannelParts, DownComesLast
<1>5. EndsDown(r)' <=> EndsDown(r) /\ Len(respCh[r]) > 1
  <2>1. CASE Len(respCh[r]) > 1
    <3>1. Len(respCh[r]) - 1 \in 1 .. Len(Tail(respCh[r])) BY <1>1, <2>1
    <3>2. Tail(respCh[r])[Len(Tail(respCh[r]))] = respCh[r][Len(respCh[r])] BY <1>1, <3>1
    <3>3. QED BY <1>1, <1>2, <2>1, <3>2 DEF EndsDown
  <2>2. CASE ~(Len(respCh[r]) > 1) BY <1>1, <1>2, <2>2 DEF EndsDown
  <2>3. QED BY <2>1, <2>2
<1>6. got[r] \in Nat /\ got'[r] + Replies(r)' = got[r] + Replies(r)
  <2>1. CASE Head(respCh[r]) = Down
    <3>1. EndsDown(r) /\ Len(respCh[r]) = 1 BY <1>1, <1>4, <2>1 DEF EndsDown
    <3>2. Replies(r) = 0 BY <3>1 DEF Replies
    <3>3. Len(Tail(respCh[r])) = Len(respCh[r]) - 1 BY <1>1
    <3>4. Len(respCh'[r]) = Len(respCh[r]) - 1 BY <1>2, <3>3
    <3>5. Replies(r)' = Len(respCh'[r]) BY <1>5, <3>1 DEF Replies, EndsDown
    <3>6. QED BY <1>0, <2>1, <3>1, <3>2, <3>4, <3>5 DEF TypeOK
  <2>2. CASE Head(respCh[r]) # Down
    <3>1. got'[r] = got[r] + 1 BY <1>0, <2>2 DEF TypeOK
    <3>2. EndsDown(r) => Len(respCh[r]) > 1 BY <1>1, <2>2 DEF EndsDown
    <3>3. Replies(r)' = Replies(r) - 1 BY <1>1, <1>2, <1>5, <3>2 DEF Replies
    <3>4. QED BY <1>0, <3>1, <3>3, CountTypes
  <2>3. QED BY <2>1, <2>2
<1>7. RepliesAddUp'
  <2> SUFFICES ASSUME NEW q \in Requests
               PROVE  (got[q] + Replies(q) + (IF InHand(q) THEN 1 ELSE 0) + owed[q] <= total[q])'
    BY DEF RepliesAddUp
  <2>1. got[q] + Replies(q) + (IF InHand(q) THEN 1 ELSE 0) + owed[q] <= total[q]
    BY DEF ChannelParts, RepliesAddUp
  <2>2. CASE q = r BY <1>6, <2>1, <2>2
  <2>3. CASE q # r
    <3>1. got'[q] = got[q] /\ Replies(q)' = Replies(q) BY <1>2, <2>3 DEF Replies, EndsDown
    <3>2. QED BY <2>1, <3>1
  <2>4. QED BY <2>2, <2>3
<1>8. NothingLost'
  <2> SUFFICES ASSUME ~IsDone, NEW q \in Requests \ (Transactions \cup cancelled)
               PROVE  (got[q] + Len(respCh[q]) + (IF InHand(q) THEN 1 ELSE 0) + owed[q] >= total[q])'
    BY DEF NothingLost, IsDone
  <2>1. got[q] + Len(respCh[q]) + (IF InHand(q) THEN 1 ELSE 0) + owed[q] >= total[q]
    BY DEF ChannelParts, NothingLost
  <2>2. CASE q = r
    <3>1. ~EndsDown(r) /\ Replies(r) = Len(respCh[r]) BY LiveChannels
    <3>2. Replies(r)' = Len(respCh'[r]) BY <1>5, <3>1 DEF Replies
    <3>3. got'[r] + Len(respCh'[r]) = got[r] + Len(respCh[r]) BY <1>6, <3>1, <3>2
    <3>4. QED BY <2>1, <2>2, <3>3
  <2>3. CASE q # r
    <3>1. got'[q] = got[q] /\ respCh'[q] = respCh[q] BY <1>2, <2>3
    <3>2. QED BY <2>1, <3>1
  <2>4. QED BY <2>2, <2>3
<1>9. SweptUntouched'
  <2> SUFFICES ASSUME NEW q \in swept PROVE ~EndsDown(q)'
    BY DEF SweptUntouched
  <2>1. ~EndsDown(q) /\ q \in Requests BY <1>0 DEF ChannelParts, SweptUntouched, TypeOK
  <2>2. QED BY <1>2, <1>5, <2>1 DEF EndsDown
<1>10. Head(respCh[r]) # Down => got[r] + 1 <= total[r]
  <2> SUFFICES ASSUME Head(respCh[r]) # Down PROVE got[r] + 1 <= total[r]
    OBVIOUS
  <2>1. got[r] + Replies(r) + (IF InHand(r) THEN 1 ELSE 0) + owed[r] <= total[r]
    BY DEF ChannelParts, RepliesAddUp
  <2>2. Replies(r) >= 1 BY <1>1 DEF Replies, EndsDown
  <2>3. QED BY SMTT(30), <1>0, <2>1, <2>2, CountTypes
<1>11. QED BY <1>3, <1>7, <1>8, <1>9, <1>10 DEF ChannelParts

\* The packet the loop holds is for the request that holds its MID, if any.
LEMMA HolderIsAddressee ==
  ASSUME ConnIInv, rxPc = "dispatching"
  PROVE  /\ pending[rxMid] # NoReq =>
               ~IsDone /\ pending[rxMid] \in Requests /\ rxOf = pending[rxMid]
         /\ ~IsDone /\ rxOf # NoReq => pending[rxMid] = rxOf
<1>0. TypeOK BY DEF ConnIInv
<1>1. ASSUME ~IsDone, rxOf # NoReq PROVE pending[rxMid] = rxOf
  <2>1. rxOf \in Requests /\ Outstanding(rxOf) /\ rxMid = mid[rxOf]
    BY <1>0, <1>1 DEF TypeOK, Outstanding, InHand, ConnIInv, PacketInHand
  <2>2. QED BY <1>1, <2>1 DEF ConnIInv, LiveRequestsHold
<1>2. ASSUME pending[rxMid] # NoReq
      PROVE  ~IsDone /\ pending[rxMid] \in Requests /\ rxOf = pending[rxMid]
  <2>1. rxMid \in MIDs /\ pending[rxMid] \in Requests BY <1>0, <1>2 DEF TypeOK
  <2>2. ~IsDone BY <1>2, <2>1 DEF ConnIInv, DownMeansEmpty
  <2>3. rxMid # reservedMID BY <1>2, <2>1 DEF ConnIInv, HoldersHold
  <2>4. rxOf # NoReq BY <2>3 DEF ConnIInv, PacketInHand
  <2>5. QED BY <1>1, <2>1, <2>2, <2>4
<1>3. QED BY <1>1, <1>2

\* Every step keeps the parts of CallIInv about channels.
LEMMA ChannelStep ==
  ASSUME ConnIInv, TypeOK', CallIInv, [Next]_vars
  PROVE  ChannelParts'
<1> USE DEF callerVars, connVars, rxVars, closeVars, serverVars
<1>0. TypeOK /\ ChannelParts BY DEF ConnIInv, CallIInv, ChannelParts
<1>1. ASSUME UNCHANGED <<respCh, got, owed, total, down, swept, rxPc, rxOf>>,
             cancelled \subseteq cancelled'
      PROVE  ChannelParts'
  BY <1>0, <1>1, ChannelsUntouched DEF InHand
<1>2. ASSUME UNCHANGED <<respCh, got, owed, total, down, swept, cancelled>>,
             rxPc # "dispatching", rxPc' # "dispatching"
      PROVE  ChannelParts'
  BY <1>0, <1>2, ChannelsUntouched DEF InHand
<1>3. ASSUME NEW r \in Requests, WriteSent(r) PROVE ChannelParts'
  <2>1. pc[r] = "writing" /\ UNCHANGED <<got, connVars, rxVars, closeVars>>
    BY <1>3 DEF WriteSent
  <2>2. /\ \A q \in Requests : q # r => total'[q] = total[q] /\ owed'[q] = owed[q]
        /\ owed'[r] = total'[r]
    BY <1>0, <1>3 DEF WriteSent, TypeOK
  <2>3. total[r] = 0 BY <2>1 DEF ConnIInv, UnsentUnanswered
  <2>4. got[r] = 0 /\ Replies(r) = 0 /\ ~InHand(r)
    <3>1. got[r] + Replies(r) + (IF InHand(r) THEN 1 ELSE 0) + owed[r] <= total[r]
      BY <1>0 DEF ChannelParts, RepliesAddUp
    <3>2. QED BY <1>0, <2>3, <3>1, CountTypes
  <2>5. \A q \in Requests : (InHand(q)' <=> InHand(q)) /\ Replies(q)' = Replies(q)
    BY <2>1 DEF InHand, Replies, EndsDown
  <2>6. DownComesLast' /\ SweptUntouched'
    BY <1>0, <2>1 DEF ChannelParts, DownComesLast, SweptUntouched, EndsDown
  <2>7. ASSUME NEW q \in Requests
        PROVE  (got[q] + Replies(q) + (IF InHand(q) THEN 1 ELSE 0) + owed[q] <= total[q])'
    <3>1. CASE q = r
      <4>1. total'[r] \in Nat BY DEF TypeOK
      <4>2. QED BY <2>1, <2>2, <2>4, <2>5, <3>1, <4>1
    <3>2. CASE q # r
      <4>1. got[q] + Replies(q) + (IF InHand(q) THEN 1 ELSE 0) + owed[q] <= total[q]
        BY <1>0 DEF ChannelParts, RepliesAddUp
      <4>2. QED BY <2>1, <2>2, <2>5, <3>2, <4>1
    <3>3. QED BY <3>1, <3>2
  <2>8. NothingLost'
    <3> SUFFICES ASSUME ~IsDone, NEW q \in Requests \ (Transactions \cup cancelled)
                 PROVE  (got[q] + Len(respCh[q]) + (IF InHand(q) THEN 1 ELSE 0) + owed[q] >= total[q])'
      BY <2>1 DEF NothingLost, IsDone
    <3>1. CASE q = r
      <4>1. total'[r] \in Nat BY DEF TypeOK
      <4>2. Len(respCh[r]) \in Nat BY <1>0, CountTypes
      <4>3. QED BY <2>1, <2>2, <2>4, <2>5, <3>1, <4>1, <4>2
    <3>2. CASE q # r
      <4>1. got[q] + Len(respCh[q]) + (IF InHand(q) THEN 1 ELSE 0) + owed[q] >= total[q]
        BY <1>0 DEF ChannelParts, NothingLost
      <4>2. QED BY <2>1, <2>2, <2>5, <3>2, <4>1
    <3>3. QED BY <3>1, <3>2
  <2>9. QED BY <2>6, <2>7, <2>8 DEF ChannelParts, RepliesAddUp
<1>4. ASSUME NEW r \in Requests, AwaitReply(r) PROVE ChannelParts'
  <2>1. \A q \in Requests : InHand(q)' <=> InHand(q) BY <1>4 DEF AwaitReply, InHand
  <2>2. QED BY <1>0, <1>4, <2>1, ChannelsTaken DEF AwaitReply
<1>5. ASSUME NEW r \in Requests, SettleReply(r) PROVE ChannelParts'
  <2>1. \A q \in Requests : InHand(q)' <=> InHand(q) BY <1>5 DEF SettleReply, InHand
  <2>2. CASE UNCHANGED <<respCh, got>>
    BY <1>1, <1>5, <2>2 DEF SettleReply
  <2>3. CASE /\ respCh[r] # <<>>
             /\ respCh' = [respCh EXCEPT ![r] = Tail(respCh[r])]
             /\ got' = [got EXCEPT ![r] = got[r] + (IF Head(respCh[r]) = Down THEN 0 ELSE 1)]
    <3>1. \/ Head(respCh[r]) = Down /\ got' = got
          \/ Head(respCh[r]) # Down /\ got' = [got EXCEPT ![r] = got[r] + 1]
      <4>1. got[r] \in Nat /\ got \in [Requests -> Nat] BY <1>0 DEF TypeOK
      <4>2. CASE Head(respCh[r]) = Down
        <5>1. got' = [got EXCEPT ![r] = got[r] + 0] BY <2>3, <4>2
        <5>2. got[r] + 0 = got[r] BY <4>1
        <5>3. got' = [got EXCEPT ![r] = got[r]] BY <5>1, <5>2, Zenon
        <5>4. QED BY <4>1, <4>2, <5>3
      <4>3. CASE Head(respCh[r]) # Down BY <2>3, <4>3
      <4>4. QED BY <4>2, <4>3
    <3>2. QED BY <1>0, <1>5, <2>1, <2>3, <3>1, ChannelsTaken DEF SettleReply
  <2>4. QED BY <1>5, <2>2, <2>3 DEF SettleReply
<1>6. ASSUME NEW r \in Requests, ReceiveRead(r) PROVE ChannelParts'
  <2>1. /\ rxPc = "reading" /\ rxPc' = "dispatching" /\ rxOf' = r
        /\ owed[r] > 0 /\ owed' = [owed EXCEPT ![r] = owed[r] - 1]
        /\ UNCHANGED <<callerVars, connVars, closeVars, total>>
    BY <1>6 DEF ReceiveRead
  <2>2. \A q \in Requests : /\ ~InHand(q)
                            /\ InHand(q)' <=> q = r
                            /\ Replies(q)' = Replies(q)
    BY <2>1 DEF InHand, Replies, EndsDown
  <2>3. ASSUME NEW q \in Requests
        PROVE  (IF InHand(q) THEN 1 ELSE 0)' + owed'[q] = (IF InHand(q) THEN 1 ELSE 0) + owed[q]
    BY <1>0, <2>1, <2>2 DEF TypeOK
  <2>4. DownComesLast' /\ SweptUntouched'
    BY <1>0, <2>1 DEF ChannelParts, DownComesLast, SweptUntouched, EndsDown
  <2>5. RepliesAddUp'
    <3> SUFFICES ASSUME NEW q \in Requests
                 PROVE  (got[q] + Replies(q) + (IF InHand(q) THEN 1 ELSE 0) + owed[q] <= total[q])'
      BY DEF RepliesAddUp
    <3>1. got[q] + Replies(q) + (IF InHand(q) THEN 1 ELSE 0) + owed[q] <= total[q]
      BY <1>0 DEF ChannelParts, RepliesAddUp
    <3>2. owed'[q] \in Nat BY DEF TypeOK
    <3>3. QED BY <1>0, <2>1, <2>2, <2>3, <3>1, <3>2, CountTypes
  <2>6. NothingLost'
    <3> SUFFICES ASSUME ~IsDone, NEW q \in Requests \ (Transactions \cup cancelled)
                 PROVE  (got[q] + Len(respCh[q]) + (IF InHand(q) THEN 1 ELSE 0) + owed[q] >= total[q])'
      BY <2>1 DEF NothingLost, IsDone
    <3>1. got[q] + Len(respCh[q]) + (IF InHand(q) THEN 1 ELSE 0) + owed[q] >= total[q]
      BY <1>0 DEF ChannelParts, NothingLost
    <3>2. owed'[q] \in Nat BY DEF TypeOK
    <3>3. QED BY SMTT(30), <1>0, <2>1, <2>2, <2>3, <3>1, <3>2, CountTypes
  <2>7. QED BY <2>4, <2>5, <2>6 DEF ChannelParts
<1>7. ASSUME ReceiveDispatch PROVE ChannelParts'
  <2>0. PICK h : h = pending[rxMid] OBVIOUS
  <2>1. /\ rxPc = "dispatching" /\ rxPc' = "check"
        /\ UNCHANGED <<callerVars, cancelled, down, closeVars, serverVars>>
        /\ \/ h \in cancelled \cup {NoReq} /\ UNCHANGED respCh
           \/ h \notin cancelled \cup {NoReq} /\ respCh' = Push({h}, rxOf)
    BY <1>7, <2>0 DEF ReceiveDispatch
  <2>2. \A q \in Requests : ~InHand(q)' /\ (InHand(q) <=> rxOf = q)
    BY <2>1 DEF InHand
  <2>3. CASE h \in cancelled \cup {NoReq} /\ UNCHANGED respCh
    <3>1. DownComesLast' /\ SweptUntouched' /\ (\A q \in Requests : Replies(q)' = Replies(q))
      BY <1>0, <2>1, <2>3 DEF ChannelParts, DownComesLast, SweptUntouched, Replies, EndsDown
    <3>2. RepliesAddUp'
      <4> SUFFICES ASSUME NEW q \in Requests
                   PROVE  (got[q] + Replies(q) + (IF InHand(q) THEN 1 ELSE 0) + owed[q] <= total[q])'
        BY DEF RepliesAddUp
      <4>1. got[q] + Replies(q) + (IF InHand(q) THEN 1 ELSE 0) + owed[q] <= total[q]
        BY <1>0 DEF ChannelParts, RepliesAddUp
      <4>2. QED BY <1>0, <2>1, <2>2, <3>1, <4>1, CountTypes
    <3>3. NothingLost'
      <4> SUFFICES ASSUME ~IsDone, NEW q \in Requests \ (Transactions \cup cancelled)
                   PROVE  (got[q] + Len(respCh[q]) + (IF InHand(q) THEN 1 ELSE 0) + owed[q] >= total[q])'
        BY <2>1 DEF NothingLost, IsDone
      <4>1. got[q] + Len(respCh[q]) + (IF InHand(q) THEN 1 ELSE 0) + owed[q] >= total[q]
        BY <1>0 DEF ChannelParts, NothingLost
      <4>2. ~InHand(q) BY <2>0, <2>1, <2>2, <2>3, HolderIsAddressee
      <4>3. QED BY <2>1, <2>2, <2>3, <4>1, <4>2
    <3>4. QED BY <3>1, <3>2, <3>3 DEF ChannelParts
  <2>4. CASE h \notin cancelled \cup {NoReq} /\ respCh' = Push({h}, rxOf)
    <3>1. h \in Requests /\ rxOf = h /\ ~IsDone /\ InHand(h) /\ rxOf \in Messages
      BY <2>0, <2>1, <2>2, <2>4, HolderIsAddressee DEF Messages
    <3>2. \A q \in Requests : q # h => respCh'[q] = respCh[q] /\ ~InHand(q)
      BY <1>0, <2>2, <2>4, <3>1, PushTo
    <3>3. /\ Len(respCh[h]) \in Nat /\ Replies(h) = Len(respCh[h])
          /\ \A i \in 1 .. Len(respCh[h]) : respCh[h][i] # Down
      BY <1>0, <3>1, CountTypes, LiveChannels DEF ConnIInv, DownOnlyWhenDone
    <3>4. \/ Len(respCh[h]) >= QueueDepth /\ respCh'[h] = respCh[h]
          \/ /\ Len(respCh'[h]) = Len(respCh[h]) + 1
             /\ respCh'[h][Len(respCh[h]) + 1] = h
             /\ \A i \in 1 .. Len(respCh[h]) : respCh'[h][i] = respCh[h][i]
      BY <1>0, <2>4, <3>1, PushTo
    <3>5. \A i \in 1 .. Len(respCh'[h]) : respCh'[h][i] # Down
      <4>1. CASE respCh'[h] = respCh[h] BY <3>3, <4>1
      <4>2. CASE /\ Len(respCh'[h]) = Len(respCh[h]) + 1
                 /\ respCh'[h][Len(respCh[h]) + 1] = h
                 /\ \A i \in 1 .. Len(respCh[h]) : respCh'[h][i] = respCh[h][i]
        <5> SUFFICES ASSUME NEW i \in 1 .. Len(respCh'[h]) PROVE respCh'[h][i] # Down
          OBVIOUS
        <5>1. i \in 1 .. Len(respCh[h]) \/ i = Len(respCh[h]) + 1 BY <3>3, <4>2
        <5>2. QED BY <3>1, <3>3, <4>2, <5>1
      <4>3. QED BY <3>4, <4>1, <4>2
    <3>6. Len(respCh'[h]) \in Nat /\ (respCh'[h] # <<>> <=> Len(respCh'[h]) > 0)
      <4>1. respCh'[h] \in Seq(Messages) BY <3>1 DEF TypeOK, Messages
      <4>2. QED BY <4>1, EmptyChannel
    <3>7. ~EndsDown(h)' /\ Replies(h)' = Len(respCh'[h])
      BY <3>5, <3>6 DEF EndsDown, Replies
    <3>8. DownComesLast' BY <1>0, <3>2, <3>5 DEF ChannelParts, DownComesLast
    <3>9. SweptUntouched' BY <2>1, <3>1 DEF ConnIInv, SweptWhenDone, SweptUntouched
    <3>10. RepliesAddUp'
      <4> SUFFICES ASSUME NEW q \in Requests
                   PROVE  (got[q] + Replies(q) + (IF InHand(q) THEN 1 ELSE 0) + owed[q] <= total[q])'
        BY DEF RepliesAddUp
      <4>1. got[q] + Replies(q) + (IF InHand(q) THEN 1 ELSE 0) + owed[q] <= total[q]
        BY <1>0 DEF ChannelParts, RepliesAddUp
      <4>2. CASE q = h
        <5>1. Replies(h)' <= Replies(h) + 1 BY <3>3, <3>4, <3>7
        <5>2. got'[h] = got[h] /\ owed'[h] = owed[h] /\ total'[h] = total[h] /\ ~InHand(h)'
          BY <2>1, <2>2, <3>1
        <5>3. got[h] + Replies(h) + 1 + owed[h] <= total[h] BY <3>1, <4>1, <4>2
        <5>4. Replies(h)' \in Nat BY <3>6, <3>7
        <5>5. QED BY <1>0, <3>1, <4>2, <5>1, <5>2, <5>3, <5>4, CountTypes
      <4>3. CASE q # h
        <5>1. Replies(q)' = Replies(q) BY <3>2, <4>3 DEF Replies, EndsDown
        <5>2. QED BY <2>1, <2>2, <3>2, <4>1, <4>3, <5>1
      <4>4. QED BY <4>2, <4>3
    <3>11. NothingLost'
      <4> SUFFICES ASSUME ~IsDone, NEW q \in Requests \ (Transactions \cup cancelled)
                   PROVE  (got[q] + Len(respCh[q]) + (IF InHand(q) THEN 1 ELSE 0) + owed[q] >= total[q])'
        BY <2>1 DEF NothingLost, IsDone
      <4>1. got[q] + Len(respCh[q]) + (IF InHand(q) THEN 1 ELSE 0) + owed[q] >= total[q]
        BY <1>0 DEF ChannelParts, NothingLost
      <4>2. CASE q = h
        <5>1. got[h] + Len(respCh[h]) + 1 + owed[h] <= total[h] /\ total[h] <= 1
          BY <3>1, <4>2, Balance DEF ConnIInv, SingleReply
        <5>2. Len(respCh[h]) < QueueDepth BY <1>0, <3>1, <5>1, CountTypes
        <5>3. Len(respCh'[h]) = Len(respCh[h]) + 1 BY <3>3, <3>4, <5>2
        <5>4. got[h] + Len(respCh[h]) + 1 + owed[h] >= total[h] BY <3>1, <4>1, <4>2
        <5>5. QED BY SMTT(30), <1>0, <2>1, <2>2, <3>1, <3>3, <4>2, <5>3, <5>4, CountTypes
      <4>3. CASE q # h BY <2>1, <2>2, <3>2, <4>1, <4>3
      <4>4. QED BY <4>2, <4>3
    <3>12. QED BY <3>8, <3>9, <3>10, <3>11 DEF ChannelParts
  <2>5. QED BY <2>1, <2>3, <2>4
<1>8. ASSUME NEW c \in Closers, CloseFirst(c) PROVE ChannelParts'
  <2>1. /\ ~IsDone /\ down' = "closed" /\ swept' = Registered
        /\ UNCHANGED <<callerVars, cancelled, respCh, rxVars, serverVars>>
    BY <1>8 DEF CloseFirst
  <2>2. \A q \in Requests : (EndsDown(q)' <=> EndsDown(q)) /\ (InHand(q)' <=> InHand(q))
    BY <2>1 DEF EndsDown, InHand
  <2>3. SweptUntouched' BY <2>1, <2>2, LiveChannels DEF SweptUntouched, Registered
  <2>4. NothingLost' BY <2>1 DEF NothingLost, IsDone
  <2>5. DownComesLast' /\ RepliesAddUp'
    BY <1>0, <2>1, <2>2 DEF ChannelParts, DownComesLast, RepliesAddUp, Replies
  <2>6. QED BY <2>3, <2>4, <2>5 DEF ChannelParts
<1>9. ASSUME NEW c \in Closers, NEW r \in Requests, CloseSweep(c, r) PROVE ChannelParts'
  <2>1. /\ r \in swept /\ respCh' = Push({r}, Down) /\ swept' = swept \ {r}
        /\ UNCHANGED <<callerVars, cancelled, down, rxVars, serverVars>>
    BY <1>9 DEF CloseSweep
  <2>2. Down \in Messages /\ IsDone /\ ~EndsDown(r)
    BY <1>0, <2>1 DEF Messages, ConnIInv, SweptWhenDone, ChannelParts, SweptUntouched
  <2>3. \A q \in Requests : q # r => respCh'[q] = respCh[q]
    BY <1>0, <2>1, <2>2, PushTo
  <2>4. \A i \in 1 .. Len(respCh[r]) : respCh[r][i] # Down
    BY <1>0, <2>2, CountTypes DEF ChannelParts, DownComesLast, EndsDown
  <2>5. Len(respCh[r]) \in Nat /\ Replies(r) = Len(respCh[r]) BY <1>0, <2>2, CountTypes
  <2>6. /\ Replies(r)' = Replies(r)
        /\ \A i \in 1 .. Len(respCh'[r]) : respCh'[r][i] = Down => i = Len(respCh'[r])
    <3>1. CASE respCh'[r] = respCh[r] BY <2>4, <3>1 DEF Replies, EndsDown
    <3>2. CASE /\ respCh'[r] # <<>>
               /\ Len(respCh'[r]) = Len(respCh[r]) + 1
               /\ respCh'[r][Len(respCh[r]) + 1] = Down
               /\ \A i \in 1 .. Len(respCh[r]) : respCh'[r][i] = respCh[r][i]
      <4>1. Replies(r)' = Replies(r) BY <2>5, <3>2 DEF Replies, EndsDown
      <4>2. ASSUME NEW i \in 1 .. Len(respCh'[r]), respCh'[r][i] = Down PROVE i = Len(respCh'[r])
        BY <2>4, <2>5, <3>2, <4>2
      <4>3. QED BY <4>1, <4>2
    <3>3. QED BY <1>0, <2>1, <2>2, <3>1, <3>2, PushTo
  <2>7. \A q \in Requests : q # r => Replies(q)' = Replies(q) /\ (EndsDown(q)' <=> EndsDown(q))
    BY <2>3 DEF Replies, EndsDown
  <2>8. DownComesLast' BY <1>0, <2>3, <2>6 DEF ChannelParts, DownComesLast
  <2>9. RepliesAddUp'
    <3>1. \A q \in Requests : (InHand(q)' <=> InHand(q)) /\ Replies(q)' = Replies(q)
      BY <2>1, <2>6, <2>7 DEF InHand
    <3>2. QED BY <1>0, <2>1, <3>1 DEF ChannelParts, RepliesAddUp
  <2>10. SweptUntouched'
    BY <1>0, <2>1, <2>7 DEF ChannelParts, SweptUntouched, TypeOK
  <2>11. NothingLost' BY <2>1, <2>2 DEF NothingLost, IsDone
  <2>12. QED BY <2>8, <2>9, <2>10, <2>11 DEF ChannelParts
<1>10. ASSUME NEW r \in Requests, EndContext(r) \/ CallerStep(r) \/ Write(r) PROVE ChannelParts'
  <2>1. CASE BeginExhausted(r)
    <3>1. /\ SetErrorLocked("exhausted")
          /\ UNCHANGED <<got, owed, total, swept, cancelled>> /\ rxPc' = rxPc /\ rxOf' = rxOf
      BY <2>1 DEF BeginExhausted
    <3>2. \A q \in Requests : InHand(q)' <=> InHand(q) BY <3>1 DEF InHand
    <3>3. QED BY <1>0, <3>1, <3>2, ChannelsTornDown
  <2>2. CASE WriteFailed(r)
    <3>1. /\ SetErrorLocked("write")
          /\ UNCHANGED <<got, owed, total, swept, cancelled>> /\ rxPc' = rxPc /\ rxOf' = rxOf
      BY <2>2 DEF WriteFailed
    <3>2. \A q \in Requests : InHand(q)' <=> InHand(q) BY <3>1 DEF InHand
    <3>3. QED BY <1>0, <3>1, <3>2, ChannelsTornDown
  <2>3. CASE EndContext(r) BY <1>1, <2>3 DEF EndContext
  <2>4. CASE BeginRefused(r) BY <1>1, <2>4 DEF BeginRefused
  <2>5. CASE BeginRegister(r) BY <1>1, <2>5 DEF BeginRegister
  <2>6. CASE WriteNotSent(r) BY <1>1, <2>6 DEF WriteNotSent
  <2>7. CASE WriteFails(r) BY <1>1, <2>7 DEF WriteFails
  <2>8. CASE AwaitNil(r) BY <1>1, <2>8 DEF AwaitNil
  <2>9. CASE AwaitContext(r) BY <1>1, <2>9 DEF AwaitContext
  <2>10. CASE AwaitDone(r) BY <1>1, <2>10 DEF AwaitDone
  <2>11. CASE SettleTimeout(r) BY <1>1, <2>11 DEF SettleTimeout
  <2>12. CASE SettleDone(r) BY <1>1, <2>12 DEF SettleDone
  <2>13. CASE Finish(r)
    <3>1. cancelled \subseteq cancelled' BY <2>13 DEF Finish, ReleaseLocked
    <3>2. QED BY <1>1, <2>13, <3>1 DEF Finish
  <2>14. QED
    BY <1>3, <1>4, <1>5, <1>10, <2>1, <2>2, <2>3, <2>4, <2>5, <2>6, <2>7, <2>8, <2>9, <2>10,
       <2>11, <2>12, <2>13 DEF CallerStep, BeginRequest, Write
<1>11. ASSUME ReceiveStep PROVE ChannelParts'
  <2>1. CASE ReceiveFails
    <3>1. \A q \in Requests : InHand(q)' <=> InHand(q) BY <2>1 DEF ReceiveFails, InHand
    <3>2. QED BY <1>0, <2>1, <3>1, ChannelsTornDown DEF ReceiveFails
  <2>2. CASE ReceiveCheck BY <1>2, <2>2 DEF ReceiveCheck
  <2>3. CASE ReceiveMalformed BY <1>2, <2>3 DEF ReceiveMalformed
  <2>4. CASE ReceiveOplockBreak
    <3>1. \A q \in Requests : InHand(q)' <=> InHand(q)
      BY <2>4 DEF ReceiveOplockBreak, InHand
    <3>2. QED BY <1>0, <2>4, <3>1, ChannelsUntouched DEF ReceiveOplockBreak
  <2>5. QED BY <1>6, <1>7, <1>11, <2>1, <2>2, <2>3, <2>4 DEF ReceiveStep
<1>12. ASSUME NEW c \in Closers, CloseStep(c) PROVE ChannelParts'
  <2>1. CASE CloseAgain(c)
    <3>1. \A q \in Requests : InHand(q)' <=> InHand(q)
      BY <2>1 DEF CloseAgain, ReceiverLeaves, MayCallClose, InHand
    <3>2. QED BY <1>0, <2>1, <3>1, ChannelsUntouched DEF CloseAgain
  <2>2. CASE CloseSocket(c)
    <3>1. \A q \in Requests : InHand(q)' <=> InHand(q)
      BY <2>2 DEF CloseSocket, ReceiverLeaves, CallIInv, LoopCloses, InHand
    <3>2. QED BY <1>0, <2>2, <3>1, ChannelsUntouched DEF CloseSocket
  <2>3. QED BY <1>8, <1>9, <1>12, <2>1, <2>2 DEF CloseStep
<1>13. CASE UNCHANGED vars BY <1>1, <1>13 DEF vars
<1>14. QED BY <1>10, <1>11, <1>12, <1>13 DEF Next, Quiet

\* The parts of CallIInv that speak of the callers and their MIDs.
CallerParts ==
    /\ TotalsBounded
    /\ StillWithout
    /\ EndedWithCause
    /\ UnsentNeverSent
    /\ LoopCloses
    /\ HeldMIDsAwaitReply
    /\ SettledBeforeReturn

\* A single reply is taken once.
LEMMA TakenOnce ==
  ASSUME ConnIInv, CallIInv, NEW r \in Requests \ Transactions
  PROVE  got[r] \in Nat /\ got[r] <= 1
<1>1. TypeOK BY DEF ConnIInv
<1>2. got[r] + Replies(r) + (IF InHand(r) THEN 1 ELSE 0) + owed[r] <= total[r]
  BY DEF CallIInv, RepliesAddUp
<1>3. total[r] <= 1 BY DEF ConnIInv, SingleReply
<1>4. QED BY <1>1, <1>2, <1>3, CountTypes

\* Every step keeps the parts of CallIInv about callers.
LEMMA CallerPartsStep ==
  ASSUME ConnIInv, ConnIInv', CallIInv, [Next]_vars
  PROVE  CallerParts'
<1> USE DEF callerVars, connVars, rxVars, closeVars, serverVars, Closers
<1>0. TypeOK /\ TypeOK' /\ CallerParts BY DEF ConnIInv, CallIInv, CallerParts
<1>1. ASSUME NEW r \in Requests, EndContext(r) PROVE CallerParts'
  BY <1>0, <1>1 DEF EndContext, TypeOK, CallerParts, TotalsBounded, StillWithout,
     EndedWithCause, HasCause, UnsentNeverSent, LoopCloses, HeldMIDsAwaitReply,
     SettledBeforeReturn, IsDone
<1>2. ASSUME NEW r \in Requests, BeginRefused(r) PROVE CallerParts'
  BY <1>0, <1>2 DEF BeginRefused, ConnIInv, HoldersHold, TypeOK, CallerParts, TotalsBounded, StillWithout,
     EndedWithCause, HasCause, UnsentNeverSent, LoopCloses, HeldMIDsAwaitReply,
     SettledBeforeReturn, IsDone
<1>3. ASSUME NEW r \in Requests, BeginRegister(r) PROVE CallerParts'
  <2>1. PICK m \in MIDs : /\ pending' = [pending EXCEPT ![m] = r]
    BY <1>3 DEF BeginRegister
  <2>2. /\ pc[r] = "idle" /\ pc' = [pc EXCEPT ![r] = "writing"]
        /\ UNCHANGED <<result, got, ctxDone, cancelled, down, rxVars, closeVars, serverVars>>
    BY <1>3 DEF BeginRegister
  <2>3. QED
    BY SMTT(30), <1>0, <2>1, <2>2 DEF TypeOK, CallerParts, TotalsBounded, StillWithout,
     EndedWithCause, HasCause, UnsentNeverSent, LoopCloses, HeldMIDsAwaitReply,
     SettledBeforeReturn, IsDone
<1>4. ASSUME NEW r \in Requests, BeginExhausted(r) PROVE CallerParts'
  <2>1. SetErrorLocked("exhausted") BY <1>4 DEF BeginExhausted
  <2>2. IsDone' /\ \A m \in MIDs : pending'[m] = NoReq
    BY <2>1, TeardownFacts DEF DownMeansEmpty
  <2>3. HeldMIDsAwaitReply' /\ SettledBeforeReturn'
    BY <2>2 DEF HeldMIDsAwaitReply, SettledBeforeReturn, IsDone
  <2>4. TotalsBounded' /\ StillWithout' /\ EndedWithCause' /\ UnsentNeverSent' /\ LoopCloses'
    BY SMTT(30), <1>0, <1>4, <2>2 DEF BeginExhausted, ConnIInv, UnsentUnanswered, TypeOK, CallerParts,
       TotalsBounded, StillWithout, EndedWithCause, HasCause, UnsentNeverSent, LoopCloses
  <2>5. QED BY <2>3, <2>4 DEF CallerParts
<1>5. ASSUME NEW r \in Requests, WriteSent(r) PROVE CallerParts'
  <2>1. /\ pc[r] = "writing" /\ pc' = [pc EXCEPT ![r] = "waiting"]
        /\ UNCHANGED <<mid, result, got, ctxDone, connVars, rxVars, closeVars>>
    BY <1>5 DEF WriteSent
  <2>2. /\ \A q \in Requests : q # r => total'[q] = total[q] /\ owed'[q] = owed[q]
        /\ total'[r] <= MaxFragments
    BY <1>0, <1>5 DEF WriteSent, TypeOK
  <2>3. got[r] = 0
    <3>1. total[r] = 0 BY <2>1 DEF ConnIInv, UnsentUnanswered
    <3>2. got[r] + Replies(r) + (IF InHand(r) THEN 1 ELSE 0) + owed[r] <= total[r]
      BY DEF CallIInv, RepliesAddUp
    <3>3. QED BY <1>0, <3>1, <3>2, CountTypes
  <2>4. TotalsBounded' /\ StillWithout' /\ UnsentNeverSent' /\ LoopCloses'
    BY <1>0, <2>1, <2>2, <2>3 DEF TypeOK, CallerParts, TotalsBounded, StillWithout,
       UnsentNeverSent, LoopCloses
  <2>5. EndedWithCause' BY <1>0, <2>1, <2>2 DEF TypeOK, CallerParts, EndedWithCause, HasCause, IsDone
  <2>6. HeldMIDsAwaitReply' BY <1>0, <2>1, <2>2 DEF TypeOK, CallerParts, HeldMIDsAwaitReply
  <2>7. SettledBeforeReturn' BY <1>0, <2>1 DEF TypeOK, CallerParts, SettledBeforeReturn
  <2>8. QED BY <2>4, <2>5, <2>6, <2>7 DEF CallerParts
<1>6. ASSUME NEW r \in Requests, WriteNotSent(r) PROVE CallerParts'
  BY <1>0, <1>6 DEF WriteNotSent, Cleanup, ConnIInv, HoldersHold, UnsentUnanswered, TypeOK, CallerParts, TotalsBounded, StillWithout,
     EndedWithCause, HasCause, UnsentNeverSent, LoopCloses, HeldMIDsAwaitReply,
     SettledBeforeReturn, IsDone
<1>7. ASSUME NEW r \in Requests, WriteFails(r) PROVE CallerParts'
  BY <1>0, <1>7 DEF WriteFails, Cleanup, TypeOK, CallerParts, TotalsBounded, StillWithout,
     EndedWithCause, HasCause, UnsentNeverSent, LoopCloses, HeldMIDsAwaitReply,
     SettledBeforeReturn, IsDone
<1>8. ASSUME NEW r \in Requests, WriteFailed(r) PROVE CallerParts'
  <2>1. SetErrorLocked("write") BY <1>8 DEF WriteFailed
  <2>2. IsDone' /\ \A m \in MIDs : pending'[m] = NoReq
    BY <2>1, TeardownFacts DEF DownMeansEmpty
  <2>3. HeldMIDsAwaitReply' /\ SettledBeforeReturn'
    BY <2>2 DEF HeldMIDsAwaitReply, SettledBeforeReturn, IsDone
  <2>4. TotalsBounded' /\ StillWithout' /\ EndedWithCause' /\ UnsentNeverSent' /\ LoopCloses'
    BY SMTT(30), <1>0, <1>8, <2>2 DEF WriteFailed, ConnIInv, UnsentUnanswered, TypeOK, CallerParts,
       TotalsBounded, StillWithout, EndedWithCause, HasCause, UnsentNeverSent, LoopCloses
  <2>5. QED BY <2>3, <2>4 DEF CallerParts
<1>9. ASSUME NEW r \in Requests, AwaitReply(r) PROVE CallerParts'
  <2>1. /\ pc[r] = "waiting"
        /\ UNCHANGED <<mid, ctxDone, pending, cancelled, down, rxVars, closeVars, serverVars>>
        /\ \A q \in Requests : q # r => pc'[q] = pc[q] /\ result'[q] = result[q] /\ got'[q] = got[q]
    BY SMTT(30), <1>0, <1>9 DEF AwaitReply, EndWait, TypeOK
  <2>2. \/ pc'[r] = "waiting" /\ r \in Transactions
        \/ /\ pc'[r] \in {"settling", "releasing"}
           /\ pc'[r] = "settling" => r \in Settled /\ result'[r] = "conn"
           /\ \/ result'[r] = "conn" /\ IsDone
              \/ result'[r] = "reply" /\ got'[r] >= 1 /\ (r \in Transactions => got'[r] >= total[r])
              \/ result'[r] = "badfragment" /\ got'[r] >= 1
           /\ r \notin Transactions /\ pc'[r] = "settling" => got'[r] = got[r]
    <3>1. Head(respCh[r]) = Down => IsDone
      <4>1. /\ respCh[r] # <<>> /\ respCh' = [respCh EXCEPT ![r] = Tail(respCh[r])]
            /\ got' = got \/ got' = [got EXCEPT ![r] = got[r] + 1]
        BY <1>9 DEF AwaitReply
      <4>2. QED BY <2>1, <4>1, TakeFacts
    <3>2. got[r] \in Nat /\ total[r] \in Nat BY <1>0 DEF TypeOK
    <3>3. CASE Head(respCh[r]) = Down /\ EndWait(r, "conn") /\ got' = got
      BY <1>0, <3>1, <3>2, <3>3 DEF EndWait, TypeOK
    <3>4. CASE /\ got' = [got EXCEPT ![r] = got[r] + 1]
               /\ r \notin Transactions \/ got[r] + 1 >= total[r]
               /\ EndWait(r, "reply")
      BY <1>0, <3>2, <3>4 DEF EndWait, TypeOK
    <3>5. CASE r \in Transactions /\ UNCHANGED <<pc, result>> BY <2>1, <3>5
    <3>6. CASE /\ got' = [got EXCEPT ![r] = got[r] + 1]
               /\ r \in Transactions /\ EndWait(r, "badfragment")
      BY <1>0, <3>2, <3>6 DEF EndWait, TypeOK
    <3>7. QED BY <1>9, <3>3, <3>4, <3>5, <3>6 DEF AwaitReply
  <2>3. StillWithout'
    BY <1>0, <2>1, <2>2 DEF TypeOK, CallerParts, StillWithout
  <2>4. EndedWithCause'
    BY ZenonT(30), <1>0, <2>1, <2>2 DEF TypeOK, CallerParts, EndedWithCause, HasCause, IsDone
  <2>5. pc'[r] # "returned" /\ pc[r] # "returned" BY <2>1, <2>2
  <2>6. TotalsBounded' /\ UnsentNeverSent' /\ LoopCloses'
    BY <1>0, <2>1, <2>5 DEF CallerParts, TotalsBounded, UnsentNeverSent, LoopCloses
  <2>7. HeldMIDsAwaitReply' BY SMTT(30), <1>0, <2>1, <2>5 DEF TypeOK, CallerParts, HeldMIDsAwaitReply
  <2>8. SettledBeforeReturn' BY <1>0, <2>1, <2>5 DEF CallerParts, SettledBeforeReturn
  <2>9. QED BY <2>3, <2>4, <2>6, <2>7, <2>8 DEF CallerParts
<1>10. ASSUME NEW r \in Requests, AwaitNil(r) PROVE CallerParts'
  BY <1>0, <1>10 DEF AwaitNil, TypeOK, CallerParts, TotalsBounded, StillWithout,
     EndedWithCause, HasCause, UnsentNeverSent, LoopCloses, HeldMIDsAwaitReply,
     SettledBeforeReturn, IsDone
<1>11. ASSUME NEW r \in Requests, AwaitContext(r) PROVE CallerParts'
  BY <1>0, <1>11 DEF AwaitContext, EndWait, TypeOK, CallerParts, TotalsBounded, StillWithout,
     EndedWithCause, HasCause, UnsentNeverSent, LoopCloses, HeldMIDsAwaitReply,
     SettledBeforeReturn, IsDone
<1>12. ASSUME NEW r \in Requests, AwaitDone(r) PROVE CallerParts'
  BY <1>0, <1>12 DEF AwaitDone, EndWait, TypeOK, CallerParts, TotalsBounded, StillWithout,
     EndedWithCause, HasCause, UnsentNeverSent, LoopCloses, HeldMIDsAwaitReply,
     SettledBeforeReturn, IsDone
<1>13. ASSUME NEW r \in Requests, SettleReply(r) PROVE CallerParts'
  <2>1. /\ pc[r] = "settling" /\ pc' = [pc EXCEPT ![r] = "releasing"]
        /\ UNCHANGED <<mid, result, ctxDone, pending, cancelled, down, rxVars, closeVars, serverVars>>
        /\ \A q \in Requests : q # r => got'[q] = got[q]
        /\ got'[r] >= got[r]
    BY <1>0, <1>13 DEF SettleReply, TypeOK
  <2>2. r \in Settled /\ result[r] # "timeout"
    BY <1>0, <2>1 DEF ConnIInv, SettlingForContext, CallerParts, EndedWithCause
  <2>3. TotalsBounded' /\ UnsentNeverSent' /\ LoopCloses'
    BY <1>0, <2>1 DEF TypeOK, CallerParts, TotalsBounded, UnsentNeverSent, LoopCloses
  <2>4. StillWithout' BY <1>0, <2>1, <2>2 DEF TypeOK, CallerParts, StillWithout
  <2>5. EndedWithCause'
    BY <1>0, <2>1, <2>2 DEF TypeOK, CallerParts, EndedWithCause, HasCause, IsDone
  <2>6. HeldMIDsAwaitReply' BY <1>0, <2>1 DEF TypeOK, CallerParts, HeldMIDsAwaitReply
  <2>7. SettledBeforeReturn' BY <1>0, <2>1 DEF TypeOK, CallerParts, SettledBeforeReturn
  <2>8. QED BY <2>3, <2>4, <2>5, <2>6, <2>7 DEF CallerParts
<1>14. ASSUME NEW r \in Requests, SettleTimeout(r) PROVE CallerParts'
  BY <1>0, <1>14 DEF SettleTimeout, ConnIInv, SettlingForContext, TypeOK, CallerParts, TotalsBounded, StillWithout,
     EndedWithCause, HasCause, UnsentNeverSent, LoopCloses, HeldMIDsAwaitReply,
     SettledBeforeReturn, IsDone
<1>15. ASSUME NEW r \in Requests, SettleDone(r) PROVE CallerParts'
  BY <1>0, <1>15 DEF SettleDone, TypeOK, CallerParts, TotalsBounded, StillWithout,
     EndedWithCause, HasCause, UnsentNeverSent, LoopCloses, HeldMIDsAwaitReply,
     SettledBeforeReturn, IsDone
<1>16. ASSUME NEW r \in Requests, Finish(r) PROVE CallerParts'
  <2>1. /\ pc[r] = "releasing" /\ ReleaseLocked(r, Abandons(r))
        /\ pc' = [pc EXCEPT ![r] = "returned"]
        /\ UNCHANGED <<mid, result, got, ctxDone, respCh, down, rxVars, closeVars, serverVars>>
    BY <1>16 DEF Finish
  <2>2. TotalsBounded' /\ StillWithout' /\ EndedWithCause' /\ LoopCloses'
    BY <1>0, <2>1 DEF TypeOK, CallerParts, TotalsBounded, StillWithout, EndedWithCause, HasCause,
       LoopCloses, IsDone
  <2>3. UnsentNeverSent'
    <3>1. result[r] # "unsent"
      BY <1>0, <2>1 DEF CallerParts, EndedWithCause, HasCause
    <3>2. QED BY <1>0, <2>1, <3>1 DEF TypeOK, CallerParts, UnsentNeverSent
  <2>4. SettledBeforeReturn'
    <3> SUFFICES ASSUME NEW q \in Settled, pc'[q] = "returned", down = "no",
                        result[q] \notin {"timeout", "unsent"}
                 PROVE  got[q] = 1
      BY <2>1 DEF SettledBeforeReturn
    <3>1. CASE q # r BY <1>0, <2>1, <3>1 DEF TypeOK, CallerParts, SettledBeforeReturn
    <3>2. CASE q = r
      <4>1. q \notin Transactions /\ q \in Requests OBVIOUS
      <4>2. got[q] >= 1
        BY <2>1, <3>2, <4>1 DEF ConnIInv, ReleasedWithCause, EndedFor, IsDone
      <4>3. QED BY <4>1, <4>2, TakenOnce
    <3>3. QED BY <3>1, <3>2
  <2>5. HeldMIDsAwaitReply'
    <3> SUFFICES ASSUME NEW m \in MIDs, pending'[m] # NoReq, pc'[pending'[m]] = "returned"
                 PROVE  LET q == pending'[m] IN
                           /\ q \in cancelled'
                           /\ \/ q \in Transactions
                              \/ total[q] = 0
                              \/ owed[q] > 0
                              \/ rxPc = "dispatching" /\ rxOf = q
      BY <2>1 DEF HeldMIDsAwaitReply
    <3>1. PICK q \in Requests : q = pending'[m] BY <1>0 DEF TypeOK
    <3>2. pending[m] = q /\ mid[q] = m /\ cancelled \subseteq cancelled'
      BY <1>0, <2>1, <3>1 DEF TypeOK, ReleaseLocked, ConnIInv, HoldersHold
    <3>3. CASE q # r
      BY <1>0, <2>1, <3>1, <3>2, <3>3 DEF TypeOK, CallerParts, HeldMIDsAwaitReply
    <3>4. CASE q = r
      <4>1. Abandons(r) /\ (respCh[r] = <<>> \/ r \in Transactions) /\ r \in cancelled'
        <5>1. pending[mid[r]] = r /\ pending'[mid[r]] = r BY <3>1, <3>2, <3>4
        <5>2. pending' # [pending EXCEPT ![mid[r]] = NoReq] BY <1>0, <5>1 DEF TypeOK
        <5>3. ~(~Abandons(r) \/ (respCh[r] # <<>> /\ r \notin Transactions))
          BY <2>1, <5>1, <5>2 DEF ReleaseLocked
        <5>4. cancelled' = cancelled \cup {r} BY <2>1, <5>1, <5>3 DEF ReleaseLocked
        <5>5. QED BY <5>3, <5>4
      <4>2. ~IsDone BY <3>1, <3>2 DEF ConnIInv, DownMeansEmpty
      <4>3. CASE r \notin Transactions
        <5>1. r \notin cancelled BY <2>1 DEF ConnIInv, CancelledReturned
        <5>2. got[r] = 0
          <6>1. EndedFor(r) BY <2>1 DEF ConnIInv, ReleasedWithCause
          <6>2. \/ result[r] = "timeout"
                \/ result[r] = "ctx" /\ r \notin Settled
            BY <4>1, <4>2, <4>3, <6>1 DEF EndedFor, Abandons
          <6>3. QED BY <1>0, <2>1, <4>3, <6>2 DEF CallerParts, StillWithout
        <5>3. got[r] + Len(respCh[r]) + (IF InHand(r) THEN 1 ELSE 0) + owed[r] >= total[r]
          BY <4>2, <4>3, <5>1 DEF CallIInv, NothingLost
        <5>4. Len(respCh[r]) = 0 BY <4>1, <4>3
        <5>5. total[r] = 0 \/ owed[r] > 0 \/ InHand(r)
          BY <1>0, <5>2, <5>3, <5>4, CountTypes
        <5>6. QED BY <3>1, <3>4, <4>1, <5>5 DEF InHand
      <4>4. CASE r \in Transactions BY <3>1, <3>4, <4>1, <4>4
      <4>5. QED BY <4>3, <4>4
    <3>5. QED BY <3>3, <3>4
  <2>6. QED BY <2>2, <2>3, <2>4, <2>5 DEF CallerParts
<1>17. ASSUME ReceiveCheck PROVE CallerParts'
  BY <1>0, <1>17 DEF ReceiveCheck, TypeOK, CallerParts, TotalsBounded, StillWithout,
     EndedWithCause, HasCause, UnsentNeverSent, LoopCloses, HeldMIDsAwaitReply,
     SettledBeforeReturn, IsDone
<1>18. ASSUME NEW r \in Requests, ReceiveRead(r) PROVE CallerParts'
  <2>1. /\ rxPc = "reading" /\ rxPc' = "dispatching" /\ rxOf' = r
        /\ owed' = [owed EXCEPT ![r] = owed[r] - 1]
        /\ UNCHANGED <<callerVars, ctxDone, connVars, closeVars, total>>
    BY <1>18 DEF ReceiveRead
  <2>2. QED
    BY <1>0, <2>1 DEF TypeOK, CallerParts, TotalsBounded, StillWithout,
     EndedWithCause, HasCause, UnsentNeverSent, LoopCloses, HeldMIDsAwaitReply,
     SettledBeforeReturn, IsDone
<1>19. ASSUME ReceiveOplockBreak PROVE CallerParts'
  BY <1>0, <1>19 DEF ReceiveOplockBreak, TypeOK, CallerParts, TotalsBounded, StillWithout,
     EndedWithCause, HasCause, UnsentNeverSent, LoopCloses, HeldMIDsAwaitReply,
     SettledBeforeReturn, IsDone
<1>20. ASSUME ReceiveMalformed PROVE CallerParts'
  BY <1>0, <1>20 DEF ReceiveMalformed, TypeOK, CallerParts, TotalsBounded, StillWithout,
     EndedWithCause, HasCause, UnsentNeverSent, LoopCloses, HeldMIDsAwaitReply,
     SettledBeforeReturn, IsDone
<1>21. ASSUME ReceiveFails PROVE CallerParts'
  <2>1. SetErrorLocked("read") BY <1>21 DEF ReceiveFails
  <2>2. IsDone' /\ \A m \in MIDs : pending'[m] = NoReq
    BY <2>1, TeardownFacts DEF DownMeansEmpty
  <2>3. HeldMIDsAwaitReply' /\ SettledBeforeReturn'
    BY <2>2 DEF HeldMIDsAwaitReply, SettledBeforeReturn, IsDone
  <2>4. TotalsBounded' /\ StillWithout' /\ EndedWithCause' /\ UnsentNeverSent' /\ LoopCloses'
    BY <1>0, <1>21, <2>2 DEF ReceiveFails, ConnIInv, UnsentUnanswered, TypeOK, CallerParts,
       TotalsBounded, StillWithout, EndedWithCause, HasCause, UnsentNeverSent, LoopCloses
  <2>5. QED BY <2>3, <2>4 DEF CallerParts
<1>22. ASSUME ReceiveDispatch PROVE CallerParts'
  <2>1. /\ rxPc = "dispatching" /\ rxPc' = "check"
        /\ UNCHANGED <<callerVars, ctxDone, cancelled, down, closeVars, serverVars>>
        /\ \/ pending' = pending
           \/ pending' = [pending EXCEPT ![rxMid] = NoReq]
        /\ pending[rxMid] \in cancelled \ Transactions => pending' = [pending EXCEPT ![rxMid] = NoReq]
    BY <1>0, <1>22 DEF ReceiveDispatch, TypeOK
  <2>2. HeldMIDsAwaitReply'
    <3> SUFFICES ASSUME NEW m \in MIDs, pending'[m] # NoReq, pc[pending'[m]] = "returned"
                 PROVE  LET q == pending'[m] IN
                           /\ q \in cancelled
                           /\ q \in Transactions \/ total[q] = 0 \/ owed[q] > 0
      BY <2>1 DEF HeldMIDsAwaitReply
    <3>1. PICK q \in Requests : q = pending'[m] BY <1>0 DEF TypeOK
    <3>2. pending[m] = q BY <1>0, <2>1, <3>1 DEF TypeOK
    <3>3. /\ q \in cancelled
          /\ \/ q \in Transactions \/ total[q] = 0 \/ owed[q] > 0
             \/ rxOf = q
      BY <1>0, <3>1, <3>2 DEF CallerParts, HeldMIDsAwaitReply
    <3>4. ASSUME rxOf = q PROVE q \in Transactions
      <4>1. ~IsDone BY <3>1, <3>2 DEF ConnIInv, DownMeansEmpty
      <4>2. pending[rxMid] = q BY <2>1, <3>1, <3>4, <4>1, HolderIsAddressee
      <4>3. mid[q] = m /\ mid[q] = rxMid
        BY <1>0, <3>1, <3>2, <4>2 DEF ConnIInv, HoldersHold, TypeOK
      <4>4. pending' # [pending EXCEPT ![rxMid] = NoReq] BY <1>0, <3>1, <4>3 DEF TypeOK
      <4>5. QED BY <2>1, <3>3, <4>2, <4>4
    <3>5. QED BY <3>1, <3>3, <3>4
  <2>3. TotalsBounded' /\ StillWithout' /\ EndedWithCause' /\ UnsentNeverSent' /\ LoopCloses' /\ SettledBeforeReturn'
    BY <1>0, <2>1 DEF CallerParts, TotalsBounded, StillWithout, EndedWithCause, HasCause,
       UnsentNeverSent, LoopCloses, SettledBeforeReturn, IsDone, ConnIInv
  <2>4. QED BY <2>2, <2>3 DEF CallerParts
<1>23. ASSUME NEW c \in Closers, CloseAgain(c) PROVE CallerParts'
  BY <1>0, <1>23 DEF CloseAgain, ReceiverLeaves, MayCallClose, TypeOK, CallerParts, TotalsBounded, StillWithout,
     EndedWithCause, HasCause, UnsentNeverSent, LoopCloses, HeldMIDsAwaitReply,
     SettledBeforeReturn, IsDone
<1>24. ASSUME NEW c \in Closers, CloseFirst(c) PROVE CallerParts'
  BY <1>0, <1>24 DEF CloseFirst, MayCallClose, NothingPending, TypeOK, CallerParts, TotalsBounded, StillWithout,
     EndedWithCause, HasCause, UnsentNeverSent, LoopCloses, HeldMIDsAwaitReply,
     SettledBeforeReturn, IsDone
<1>25. ASSUME NEW c \in Closers, NEW r \in Requests, CloseSweep(c, r) PROVE CallerParts'
  BY <1>0, <1>25 DEF CloseSweep, TypeOK, CallerParts, TotalsBounded, StillWithout,
     EndedWithCause, HasCause, UnsentNeverSent, LoopCloses, HeldMIDsAwaitReply,
     SettledBeforeReturn, IsDone
<1>26. ASSUME NEW c \in Closers, CloseSocket(c) PROVE CallerParts'
  BY <1>0, <1>26 DEF CloseSocket, ReceiverLeaves, TypeOK, CallerParts, TotalsBounded, StillWithout,
     EndedWithCause, HasCause, UnsentNeverSent, LoopCloses, HeldMIDsAwaitReply,
     SettledBeforeReturn, IsDone
<1>27. CASE UNCHANGED vars
  BY <1>0, <1>27 DEF vars, TypeOK, CallerParts, TotalsBounded, StillWithout,
     EndedWithCause, HasCause, UnsentNeverSent, LoopCloses, HeldMIDsAwaitReply,
     SettledBeforeReturn, IsDone
<1>28. QED
  BY <1>1, <1>2, <1>3, <1>4, <1>5, <1>6, <1>7, <1>8, <1>9, <1>10, <1>11, <1>12, <1>13, <1>14, <1>15, <1>16, <1>17, <1>18, <1>19, <1>20, <1>21, <1>22, <1>23, <1>24, <1>25, <1>26, <1>27
  DEF Next, CallerStep, BeginRequest, Write, ReceiveStep, CloseStep, Quiet

\* CallIInv holds of a new connection.
LEMMA CallInit == Init => CallIInv
<1> SUFFICES ASSUME Init PROVE CallIInv
  OBVIOUS
<1>1. \A r \in Requests : respCh[r] = <<>> /\ Len(respCh[r]) = 0 /\ ~EndsDown(r) /\ Replies(r) = 0
  BY DEF Init, EndsDown, Replies
<1>2. DownComesLast /\ SweptUntouched BY <1>1 DEF Init, DownComesLast, SweptUntouched
<1>3. RepliesAddUp /\ NothingLost
  BY <1>1 DEF Init, RepliesAddUp, NothingLost, InHand
<1>4. TotalsBounded /\ StillWithout /\ EndedWithCause /\ UnsentNeverSent /\ LoopCloses
  BY DEF Init, TotalsBounded, StillWithout, EndedWithCause, UnsentNeverSent, LoopCloses, Closers
<1>5. HeldMIDsAwaitReply /\ SettledBeforeReturn
  BY DEF Init, HeldMIDsAwaitReply, SettledBeforeReturn
<1>6. QED BY <1>2, <1>3, <1>4, <1>5 DEF CallIInv

\* What is known of each call, on a connection that is up or down, holds in
\* every reachable state: no message is taken twice or made up, a single reply
\* is lost only to a caller that gave up, and every wait ended for a cause.
THEOREM CallInvariant == Spec => []CallIInv
<1>1. Init => CallIInv BY CallInit
<1>2. ConnIInv /\ ConnIInv' /\ CallIInv /\ [Next]_vars => CallIInv'
  <2> SUFFICES ASSUME ConnIInv, ConnIInv', CallIInv, [Next]_vars PROVE CallIInv'
    OBVIOUS
  <2>1. TypeOK' BY DEF ConnIInv
  <2>2. ChannelParts' BY <2>1, ChannelStep
  <2>3. CallerParts' BY CallerPartsStep
  <2>4. QED BY <2>2, <2>3 DEF CallIInv, ChannelParts, CallerParts
<1>3. QED BY <1>1, <1>2, ConnInvariant, PTL DEF Spec

\* A returned caller's MID is held back only while a message for it may still
\* come, however large the MID space and however many callers give up.
THEOREM HeldForAReply == Spec => []HeldMIDsAwaitReply
<1>1. CallIInv => HeldMIDsAwaitReply BY DEF CallIInv
<1>2. QED BY <1>1, CallInvariant, PTL

\* A READ_ANDX or WRITE_ANDX returns on a live connection, short of the settle
\* timeout, only once its reply is in.
THEOREM SettledReturns == Spec => []SettledBeforeReturn
<1>1. CallIInv => SettledBeforeReturn BY DEF CallIInv
<1>2. QED BY <1>1, CallInvariant, PTL

-----------------------------------------------------------------------------
(* No goroutine panics.                                                    *)

\* Close closes the channel of a waiter after the teardown message went in, or
\* after a reply that fills the channel and is a whole one.
LEMMA ClosedStep ==
  ASSUME RoomForReply, ConnIInv, ConnIInv', CallIInv, ClosedNotEmpty, [Next]_vars
  PROVE  ClosedNotEmpty'
<1> USE DEF callerVars, connVars, rxVars, closeVars, serverVars
<1>0. TypeOK /\ TypeOK' BY DEF ConnIInv
<1>1. ~IsDone => chClosed = {} BY DEF ConnIInv, SweptWhenDone
<1>2. ASSUME UNCHANGED <<respCh, chClosed, got, total>>,
             \A q \in Requests : pc'[q] \in {"writing", "waiting"} => pc'[q] = pc[q]
      PROVE  ClosedNotEmpty'
  BY <1>0, <1>2 DEF ClosedNotEmpty, EndsDown, TypeOK
<1>3. ASSUME chClosed' = chClosed, ~IsDone PROVE ClosedNotEmpty'
  BY <1>1, <1>3 DEF ClosedNotEmpty
<1>4. ASSUME NEW r \in Requests, WriteSent(r) PROVE ClosedNotEmpty'
  <2>1. /\ pc[r] = "writing" /\ pc' = [pc EXCEPT ![r] = "waiting"]
        /\ UNCHANGED <<respCh, chClosed, got>>
        /\ \A q \in Requests : q # r => total'[q] = total[q]
    BY <1>0, <1>4 DEF WriteSent, TypeOK
  <2>2. QED BY <1>0, <2>1 DEF ClosedNotEmpty, EndsDown, TypeOK
<1>5. ASSUME NEW r \in Requests, AwaitReply(r) PROVE ClosedNotEmpty'
  <2>1. /\ pc[r] = "waiting" /\ respCh[r] # <<>>
        /\ respCh' = [respCh EXCEPT ![r] = Tail(respCh[r])]
        /\ UNCHANGED <<chClosed, total>>
        /\ \A q \in Requests : q # r => pc'[q] = pc[q] /\ got'[q] = got[q]
        /\ pc'[r] # "writing"
        /\ pc'[r] = "waiting" =>
              Head(respCh[r]) # Down /\ got[r] + 1 < total[r] /\ got'[r] = got[r] + 1
    BY SMTT(30), <1>0, <1>5 DEF AwaitReply, EndWait, TypeOK
  <2>2. \A q \in Requests : q # r => respCh'[q] = respCh[q] /\ (EndsDown(q)' <=> EndsDown(q))
    BY <1>0, <2>1 DEF TypeOK, EndsDown
  <2>3. ASSUME r \in chClosed, pc'[r] = "waiting"
        PROVE  EndsDown(r)' \/ (respCh'[r] # <<>> /\ got'[r] + Len(respCh'[r]) >= total[r])
    <3>1. /\ Len(respCh[r]) \in Nat \ {0}
          /\ Len(Tail(respCh[r])) = Len(respCh[r]) - 1
          /\ \A i \in 1 .. Len(Tail(respCh[r])) : Tail(respCh[r])[i] = respCh[r][i + 1]
          /\ Head(respCh[r]) = respCh[r][1]
          /\ Tail(respCh[r]) # <<>> <=> Len(respCh[r]) > 1
      <4>1. respCh[r] \in Seq(Messages) /\ respCh[r] # <<>> BY <1>0, <2>1 DEF TypeOK, Messages
      <4>2. Tail(respCh[r]) \in Seq(Messages) BY <4>1
      <4>3. Tail(respCh[r]) # <<>> <=> Len(Tail(respCh[r])) > 0 BY <4>2, EmptyChannel
      <4>4. QED BY ONLY <4>1, <4>3, TailFacts
    <3>2. respCh'[r] = Tail(respCh[r]) BY <1>0, <2>1 DEF TypeOK
    <3>3. EndsDown(r) \/ got[r] + Len(respCh[r]) >= total[r]
      BY <2>1, <2>3 DEF ClosedNotEmpty
    <3>4. CASE EndsDown(r)
      <4>1. Len(respCh[r]) > 1 BY <2>1, <2>3, <3>1, <3>4 DEF EndsDown
      <4>2. Len(respCh[r]) - 1 \in 1 .. Len(Tail(respCh[r])) BY <3>1, <4>1
      <4>3. Tail(respCh[r])[Len(Tail(respCh[r]))] = Down BY <3>1, <3>4, <4>2 DEF EndsDown
      <4>4. QED BY <3>1, <3>2, <4>1, <4>3 DEF EndsDown
    <3>5. CASE got[r] + Len(respCh[r]) >= total[r]
      <4>1. got[r] \in Nat /\ total[r] \in Nat BY <1>0 DEF TypeOK
      <4>2. Len(respCh[r]) > 1 BY <2>1, <2>3, <3>1, <3>5, <4>1
      <4>3. Len(respCh'[r]) = Len(respCh[r]) - 1 /\ respCh'[r] # <<>> BY <3>1, <3>2, <4>2
      <4>4. QED BY <2>1, <2>3, <3>1, <3>5, <4>1, <4>3
    <3>6. QED BY <3>3, <3>4, <3>5
  <2>4. QED BY <1>0, <2>1, <2>2, <2>3 DEF ClosedNotEmpty, TypeOK
<1>6. ASSUME NEW r \in Requests, SettleReply(r) PROVE ClosedNotEmpty'
  <2>1. /\ pc'[r] = "releasing" /\ UNCHANGED <<chClosed, total>>
        /\ \A q \in Requests : q # r => pc'[q] = pc[q] /\ got'[q] = got[q] /\ respCh'[q] = respCh[q]
    BY <1>0, <1>6 DEF SettleReply, TypeOK
  <2>2. QED BY ZenonT(30), <1>0, <2>1 DEF ClosedNotEmpty, EndsDown, TypeOK
<1>7. ASSUME NEW err, SetErrorLocked(err), UNCHANGED <<chClosed, got, total>>,
             \A q \in Requests : pc'[q] \in {"writing", "waiting"} => pc'[q] = pc[q]
      PROVE  ClosedNotEmpty'
  BY <1>2, <1>3, <1>7 DEF SetErrorLocked
<1>8. ASSUME ReceiveDispatch PROVE ClosedNotEmpty'
  <2>1. CASE pending[rxMid] # NoReq
    BY <1>3, <1>8, <2>1, HolderIsAddressee DEF ReceiveDispatch
  <2>2. CASE pending[rxMid] = NoReq
    <3>1. UNCHANGED <<respCh, chClosed, got, total, pc>>
      BY <1>0, <1>8, <2>2 DEF ReceiveDispatch, ConnIInv, CancelledReturned, TypeOK
    <3>2. QED BY <1>2, <3>1
  <2>3. QED BY <2>1, <2>2
<1>9. ASSUME NEW c \in Closers, NEW r \in Requests, CloseSweep(c, r) PROVE ClosedNotEmpty'
  <2>1. /\ r \in swept /\ respCh' = Push({r}, Down) /\ chClosed' = chClosed \cup {r}
        /\ UNCHANGED <<pc, got, total>>
    BY <1>9 DEF CloseSweep
  <2>2. Down \in Messages BY DEF Messages
  <2>3. \A q \in Requests : q # r => respCh'[q] = respCh[q] BY <1>0, <2>1, <2>2, PushTo
  <2>4. CASE /\ Len(respCh[r]) < QueueDepth
             /\ respCh'[r] # <<>>
             /\ Len(respCh'[r]) = Len(respCh[r]) + 1
             /\ respCh'[r][Len(respCh[r]) + 1] = Down
    <3>1. EndsDown(r)' BY <2>4 DEF EndsDown
    <3>2. QED BY <1>0, <2>1, <2>3, <3>1 DEF ClosedNotEmpty, EndsDown, TypeOK
  <2>5. CASE Len(respCh[r]) >= QueueDepth /\ respCh'[r] = respCh[r]
    <3>1. ~EndsDown(r) BY <2>1 DEF CallIInv, SweptUntouched
    <3>2. /\ got[r] \in Nat /\ total[r] \in Nat /\ Len(respCh[r]) \in Nat
          /\ respCh[r] # <<>> <=> Len(respCh[r]) > 0
      BY <1>0, CountTypes
    <3>3. got[r] + Len(respCh[r]) <= total[r]
      <4>1. got[r] + Replies(r) + (IF InHand(r) THEN 1 ELSE 0) + owed[r] <= total[r]
        BY DEF CallIInv, RepliesAddUp
      <4>2. Replies(r) = Len(respCh[r]) BY <3>1 DEF Replies
      <4>3. QED BY <1>0, <4>1, <4>2, CountTypes
    <3>4. total[r] <= MaxFragments BY DEF CallIInv, TotalsBounded
    <3>5. respCh[r] # <<>> /\ got[r] + Len(respCh[r]) >= total[r]
      BY <2>5, <3>2, <3>4 DEF RoomForReply
    <3>6. pc[r] # "writing"
      <4>1. total[r] > 0 BY <2>5, <3>2, <3>3
      <4>2. QED BY <4>1 DEF ConnIInv, UnsentUnanswered
    <3>7. QED BY ZenonT(30), <1>0, <2>1, <2>3, <2>5, <3>5, <3>6 DEF ClosedNotEmpty, EndsDown, TypeOK
  <2>6. QED BY <1>0, <2>1, <2>2, <2>4, <2>5, PushTo
<1>10. ASSUME NEW r \in Requests, EndContext(r) \/ CallerStep(r) \/ Write(r) PROVE ClosedNotEmpty'
  <2>1. CASE BeginRegister(r) BY <1>3, <2>1 DEF BeginRegister
  <2>2. CASE BeginExhausted(r) BY <1>3, <2>2 DEF BeginExhausted
  <2>3. CASE WriteFailed(r) BY <1>0, <1>7, <2>3 DEF WriteFailed, TypeOK
  <2>4. CASE EndContext(r) BY <1>2, <2>4 DEF EndContext
  <2>5. CASE BeginRefused(r) BY <1>0, <1>2, <2>5 DEF BeginRefused, TypeOK
  <2>6. CASE WriteNotSent(r) \/ WriteFails(r)
    BY <1>0, <1>2, <2>6 DEF WriteNotSent, WriteFails, TypeOK
  <2>7. CASE AwaitNil(r) BY <1>0, <1>2, <2>7 DEF AwaitNil, TypeOK
  <2>8. CASE AwaitContext(r) \/ AwaitDone(r)
    BY <1>0, <1>2, <2>8 DEF AwaitContext, AwaitDone, EndWait, TypeOK
  <2>9. CASE SettleTimeout(r) \/ SettleDone(r)
    BY <1>0, <1>2, <2>9 DEF SettleTimeout, SettleDone, TypeOK
  <2>10. CASE Finish(r) BY <1>0, <1>2, <2>10 DEF Finish, TypeOK
  <2>11. QED
    BY <1>4, <1>5, <1>6, <1>10, <2>1, <2>2, <2>3, <2>4, <2>5, <2>6, <2>7, <2>8, <2>9, <2>10
    DEF CallerStep, BeginRequest, Write
<1>11. ASSUME ReceiveStep PROVE ClosedNotEmpty'
  <2>1. CASE ReceiveFails BY <1>7, <2>1 DEF ReceiveFails
  <2>2. CASE ReceiveCheck \/ ReceiveMalformed \/ ReceiveOplockBreak
    BY <1>2, <2>2 DEF ReceiveCheck, ReceiveMalformed, ReceiveOplockBreak
  <2>3. ASSUME NEW r \in Requests, ReceiveRead(r) PROVE ClosedNotEmpty'
    BY <1>2, <2>3 DEF ReceiveRead
  <2>4. QED BY <1>8, <1>11, <2>1, <2>2, <2>3 DEF ReceiveStep
<1>12. ASSUME NEW c \in Closers, CloseStep(c) PROVE ClosedNotEmpty'
  <2>1. CASE CloseAgain(c) \/ CloseFirst(c) \/ CloseSocket(c)
    BY <1>2, <2>1 DEF CloseAgain, CloseFirst, CloseSocket
  <2>2. QED BY <1>9, <1>12, <2>1 DEF CloseStep
<1>13. CASE UNCHANGED vars BY <1>2, <1>13 DEF vars
<1>14. QED BY <1>10, <1>11, <1>12, <1>13 DEF Next, Quiet

\* A step makes a caller panic only by taking nil from its channel.
LEMMA PanicStep ==
  ASSUME RoomForReply, ConnIInv, ConnIInv', CallIInv, PanicIInv, [Next]_vars
  PROVE  PanicIInv'
<1> USE DEF callerVars, connVars, rxVars, closeVars, serverVars
<1>0. TypeOK BY DEF ConnIInv
<1>1. ClosedNotEmpty' BY ClosedStep DEF PanicIInv
<1>2. ASSUME NEW r \in Requests, AwaitNil(r) PROVE FALSE
  BY <1>2 DEF AwaitNil, PanicIInv, ClosedNotEmpty, EndsDown
<1>3. ASSUME NEW r \in Requests, EndContext(r) \/ CallerStep(r) \/ Write(r)
      PROVE  \A q \in Requests : pc'[q] # "panicked"
  BY <1>0, <1>2, <1>3 DEF EndContext, CallerStep, BeginRequest, BeginRefused, BeginRegister,
     BeginExhausted, Write, WriteSent, WriteNotSent, WriteFails, WriteFailed, AwaitReply,
     AwaitContext, AwaitDone, EndWait, SettleReply, SettleTimeout, SettleDone, Finish,
     PanicIInv, TypeOK
<1>4. ASSUME ReceiveStep PROVE pc' = pc
  BY <1>4 DEF ReceiveStep, ReceiveCheck, ReceiveRead, ReceiveOplockBreak, ReceiveMalformed,
     ReceiveFails, ReceiveDispatch
<1>5. ASSUME NEW c \in Closers, CloseStep(c) PROVE pc' = pc
  BY <1>5 DEF CloseStep, CloseAgain, CloseFirst, CloseSweep, CloseSocket
<1>6. CASE UNCHANGED vars BY <1>1, <1>6 DEF vars, PanicIInv
<1>7. QED BY <1>1, <1>3, <1>4, <1>5, <1>6 DEF Next, Quiet, PanicIInv

\* With room in a channel for the longest reply nobody ever dereferences the nil
\* response of a closed channel, and nobody can find a closed channel to send on.
THEOREM NeverPanics == ASSUME RoomForReply PROVE Spec => []NoPanic
<1>1. Init => PanicIInv BY DEF Init, PanicIInv, ClosedNotEmpty
<1>2. ConnIInv /\ ConnIInv' /\ CallIInv /\ PanicIInv /\ [Next]_vars => PanicIInv' BY PanicStep
<1>3. ConnIInv /\ PanicIInv => NoPanic
  <2> SUFFICES ASSUME ConnIInv, PanicIInv PROVE NoPanic
    OBVIOUS
  <2>1. ASSUME NEW m \in MIDs, pending[m] \in chClosed PROVE FALSE
    <3>1. IsDone BY <2>1 DEF ConnIInv, SweptWhenDone
    <3>2. pending[m] = NoReq BY <2>1, <3>1 DEF ConnIInv, DownMeansEmpty
    <3>3. QED BY <2>1, <3>2 DEF ConnIInv, TypeOK
  <2>2. QED BY <2>1 DEF PanicIInv, NoPanic
<1>4. QED BY <1>1, <1>2, <1>3, ConnInvariant, CallInvariant, PTL DEF Spec

-----------------------------------------------------------------------------
(* The connection implements Calls.                                        *)

\* The answer of the server as AnswerOf sees it, from what RepliesAddUp knows.
LEMMA AnswerFacts ==
  ASSUME ConnIInv, CallIInv, NEW r \in Requests
  PROVE  /\ got[r] \in Nat /\ owed[r] \in Nat /\ total[r] \in Nat
         /\ got[r] + owed[r] <= total[r]
         /\ got[r] >= 1 => AnswerOf(r) # "none"
         /\ got[r] >= 1 /\ owed[r] = 0 => AnswerOf(r) = "whole"
         /\ total[r] = 0 => AnswerOf(r) = "none"
<1>1. TypeOK BY DEF ConnIInv
<1>2. got[r] + Replies(r) + (IF InHand(r) THEN 1 ELSE 0) + owed[r] <= total[r]
  BY DEF CallIInv, RepliesAddUp
<1>3. QED BY <1>1, <1>2, CountTypes DEF AnswerOf

\* A step in which no call changes for its caller.
LEMMA CallsKept ==
  ASSUME \A q \in Requests : CallOf(q)' = CallOf(q)
  PROVE  [r \in Requests |-> CallOf(r)]' = [r \in Requests |-> CallOf(r)]
OBVIOUS

\* A step in which one call changes for its caller.
LEMMA OneCallChanged ==
  ASSUME NEW r \in Requests, NEW v, CallOf(r)' = v,
         \A q \in Requests : q # r => CallOf(q)' = CallOf(q)
  PROVE  [q \in Requests |-> CallOf(q)]' = [[q \in Requests |-> CallOf(q)] EXCEPT ![r] = v]
OBVIOUS

\* A step in which the loop reads nothing.
LEMMA AnswersKept ==
  ASSUME \A q \in Requests : AnswerOf(q)' = AnswerOf(q)
  PROVE  [r \in Requests |-> AnswerOf(r)]' = [r \in Requests |-> AnswerOf(r)]
OBVIOUS

\* Every step of the connection is one of Calls, or invisible there.
LEMMA RefinementStep ==
  ASSUME ConnIInv, ConnIInv', CallIInv, CallIInv', NoPanic, NoPanic', [Next]_vars
  PROVE  [Promised!Next]_(Promised!vars)
<1> USE DEF callerVars, connVars, rxVars, closeVars, serverVars
<1>0. TypeOK /\ TypeOK' BY DEF ConnIInv
<1>1. ASSUME \A q \in Requests : CallOf(q)' = CallOf(q),
             \A q \in Requests : AnswerOf(q)' = AnswerOf(q), ctxDone' = ctxDone, IsDone' <=> IsDone
      PROVE  UNCHANGED Promised!vars
  BY <1>1, CallsKept, AnswersKept DEF Promised!vars
<1>2. ASSUME UNCHANGED <<total, owed>> PROVE \A q \in Requests : AnswerOf(q)' = AnswerOf(q)
  BY <1>2 DEF AnswerOf
<1>3. ASSUME UNCHANGED <<pc, result>> PROVE \A q \in Requests : CallOf(q)' = CallOf(q)
  BY <1>3 DEF CallOf
<1>4. ASSUME NEW r \in Requests, EndContext(r) PROVE Promised!EndContext(r)
  <2>1. CallOf(r) = "calling" BY <1>4 DEF EndContext, CallOf, NoPanic
  <2>2. QED BY <1>2, <1>3, <1>4, <2>1, CallsKept, AnswersKept DEF EndContext, Promised!EndContext, IsDone
<1>5. ASSUME NEW r \in Requests, BeginRegister(r) PROVE Promised!Begin(r)
  <2>1. CallOf(r) = "idle" /\ CallOf(r)' = "calling" BY <1>0, <1>5 DEF BeginRegister, CallOf, TypeOK
  <2>2. \A q \in Requests : q # r => CallOf(q)' = CallOf(q)
    BY <1>0, <1>5 DEF BeginRegister, CallOf, TypeOK
  <2>3. QED BY <1>2, <1>5, <2>1, <2>2, OneCallChanged, AnswersKept DEF BeginRegister, Promised!Begin, IsDone
<1>6. ASSUME NEW r \in Requests, BeginRefused(r) \/ BeginExhausted(r) PROVE Promised!Refuse(r)
  <2>1. IsDone'
    BY <1>6, TeardownFacts DEF BeginRefused, BeginExhausted, IsDone
  <2>2. CallOf(r) = "idle" /\ CallOf(r)' = "error"
    BY <1>0, <1>6 DEF BeginRefused, BeginExhausted, CallOf, TypeOK
  <2>3. \A q \in Requests : q # r => CallOf(q)' = CallOf(q)
    BY <1>0, <1>6 DEF BeginRefused, BeginExhausted, CallOf, TypeOK
  <2>4. UNCHANGED <<total, owed, ctxDone>> BY <1>6 DEF BeginRefused, BeginExhausted
  <2>5. QED BY <1>2, <2>1, <2>2, <2>3, <2>4, OneCallChanged, AnswersKept DEF Promised!Refuse
<1>7. ASSUME NEW r \in Requests, WriteSent(r) PROVE UNCHANGED Promised!vars
  <2>1. \A q \in Requests : CallOf(q)' = CallOf(q)
    BY <1>0, <1>7 DEF WriteSent, CallOf, TypeOK
  <2>2. total[r] = 0 BY <1>7 DEF WriteSent, ConnIInv, UnsentUnanswered
  <2>3. AnswerOf(r) = "none" BY <2>2, AnswerFacts
  <2>4. /\ total'[r] = owed'[r]
        /\ \A q \in Requests : q # r => total'[q] = total[q] /\ owed'[q] = owed[q]
    BY <1>0, <1>7 DEF WriteSent, TypeOK
  <2>5. \A q \in Requests : AnswerOf(q)' = AnswerOf(q) BY <2>3, <2>4 DEF AnswerOf
  <2>6. ctxDone' = ctxDone /\ down' = down BY <1>7 DEF WriteSent
  <2>7. QED BY <1>1, <2>1, <2>5, <2>6 DEF IsDone
<1>8. ASSUME NEW r \in Requests, WriteNotSent(r) \/ WriteFailed(r) PROVE Promised!ReturnUnsent(r)
  <2>1. CallOf(r) = "calling" /\ CallOf(r)' = "unsent"
    BY <1>0, <1>8 DEF WriteNotSent, WriteFailed, CallOf, TypeOK
  <2>2. \A q \in Requests : q # r => CallOf(q)' = CallOf(q)
    BY <1>0, <1>8 DEF WriteNotSent, WriteFailed, CallOf, TypeOK
  <2>3. total[r] = 0 BY <1>8 DEF WriteNotSent, WriteFailed, ConnIInv, UnsentUnanswered
  <2>4. AnswerOf(r) = "none" BY <2>3, AnswerFacts
  <2>5. IsDone' \/ (IsDone' <=> IsDone)
    BY <1>8, TeardownFacts DEF WriteNotSent, WriteFailed, IsDone
  <2>6. UNCHANGED <<total, owed, ctxDone>> BY <1>8 DEF WriteNotSent, WriteFailed
  <2>7. QED
    BY <1>2, <2>1, <2>2, <2>4, <2>5, <2>6, OneCallChanged, AnswersKept DEF Promised!ReturnUnsent
<1>9. ASSUME NEW r \in Requests, WriteFails(r) PROVE UNCHANGED Promised!vars
  <2>1. \A q \in Requests : CallOf(q)' = CallOf(q)
    BY <1>0, <1>9 DEF WriteFails, CallOf, TypeOK
  <2>2. QED BY <1>1, <1>2, <1>9, <2>1 DEF WriteFails, IsDone
<1>10. ASSUME NEW r \in Requests,
              \/ AwaitReply(r) \/ AwaitContext(r) \/ AwaitDone(r)
              \/ SettleReply(r) \/ SettleTimeout(r) \/ SettleDone(r)
       PROVE  UNCHANGED Promised!vars
  <2>1. /\ pc[r] \in {"waiting", "settling"} /\ pc'[r] \in {"waiting", "settling", "releasing"}
        /\ \A q \in Requests : q # r => pc'[q] = pc[q] /\ result'[q] = result[q]
    BY ZenonT(30), <1>0, <1>10 DEF AwaitReply, AwaitContext, AwaitDone, EndWait, SettleReply,
       SettleTimeout, SettleDone, TypeOK
  <2>2. \A q \in Requests : CallOf(q)' = CallOf(q) BY <2>1 DEF CallOf
  <2>3. UNCHANGED <<total, owed, ctxDone, down>>
    BY <1>10 DEF AwaitReply, AwaitContext, AwaitDone, SettleReply, SettleTimeout, SettleDone
  <2>4. QED BY <1>1, <1>2, <2>2, <2>3 DEF IsDone
<1>11. ASSUME NEW r \in Requests, AwaitNil(r) PROVE FALSE
  BY <1>0, <1>11 DEF AwaitNil, NoPanic, TypeOK
<1>12. ASSUME NEW r \in Requests, Finish(r) PROVE Promised!ReturnAnswer(r) \/ Promised!ReturnError(r)
  <2>1. /\ pc[r] = "releasing" /\ pc' = [pc EXCEPT ![r] = "returned"]
        /\ UNCHANGED <<result, ctxDone, down, total, owed>>
    BY <1>12 DEF Finish
  <2>2. CallOf(r) = "calling" BY <2>1 DEF CallOf
  <2>3. \A q \in Requests : q # r => CallOf(q)' = CallOf(q) BY <1>0, <2>1 DEF CallOf, TypeOK
  <2>4. HasCause(r) BY <2>1 DEF CallIInv, EndedWithCause
  <2>5. CASE result[r] = "reply"
    <3>1. got[r] >= 1 /\ (r \in Transactions => got[r] >= total[r])
      BY <2>4, <2>5 DEF HasCause
    <3>2. r \notin Transactions => total[r] <= 1 BY DEF ConnIInv, SingleReply
    <3>3. owed[r] = 0 BY <3>1, <3>2, AnswerFacts
    <3>4. AnswerOf(r) = "whole" BY <3>1, <3>3, AnswerFacts
    <3>5. CallOf(r)' = "answered" BY <1>0, <2>1, <2>5 DEF CallOf, TypeOK
    <3>6. Promised!ReturnAnswer(r)
      BY <1>2, <2>1, <2>2, <2>3, <3>4, <3>5, OneCallChanged, AnswersKept
      DEF Promised!ReturnAnswer, IsDone
    <3>7. QED BY <3>6
  <2>6. CASE result[r] # "reply"
    <3>1. r \in ctxDone \/ IsDone \/ AnswerOf(r) # "none"
      BY <2>4, <2>6, AnswerFacts DEF HasCause
    <3>2. CallOf(r)' = "error" BY <1>0, <2>1, <2>4, <2>6 DEF CallOf, TypeOK, HasCause
    <3>3. Promised!ReturnError(r)
      BY <1>2, <2>1, <2>2, <2>3, <3>1, <3>2, OneCallChanged, AnswersKept
      DEF Promised!ReturnError, IsDone
    <3>4. QED BY <3>3
  <2>7. QED BY <2>5, <2>6
<1>13. ASSUME NEW r \in Requests, ReceiveRead(r) PROVE Promised!Answer(r)
  <2>1. /\ owed[r] > 0 /\ owed' = [owed EXCEPT ![r] = owed[r] - 1]
        /\ UNCHANGED <<pc, result, ctxDone, down, total>>
    BY <1>13 DEF ReceiveRead
  <2>2. total[r] # 0 BY <2>1, AnswerFacts
  <2>3. CallOf(r) \notin {"idle", "unsent"}
    BY <2>2 DEF CallOf, ConnIInv, UnsentUnanswered, CallIInv, UnsentNeverSent
  <2>4. AnswerOf(r) # "whole" BY <2>1, AnswerFacts DEF AnswerOf
  <2>5. AnswerOf(r)' \in {"part", "whole"}
    <3>1. owed'[r] = owed[r] - 1 /\ total'[r] = total[r] BY <1>0, <2>1 DEF TypeOK
    <3>2. owed'[r] # total'[r] BY <3>1, AnswerFacts
    <3>3. QED BY <3>2 DEF AnswerOf
  <2>6. \A q \in Requests : q # r => AnswerOf(q)' = AnswerOf(q)
    BY <1>0, <2>1 DEF AnswerOf, TypeOK
  <2>7. PICK a \in {"part", "whole"} : AnswerOf(r)' = a BY <2>5
  <2>8. [q \in Requests |-> AnswerOf(q)]' = [[q \in Requests |-> AnswerOf(q)] EXCEPT ![r] = a]
    BY <2>6, <2>7
  <2>9. QED BY <1>3, <2>1, <2>3, <2>4, <2>8, CallsKept DEF Promised!Answer, IsDone
<1>14. ASSUME ReceiveFails \/ \E c \in Closers : CloseFirst(c)
       PROVE  Promised!Disconnect \/ UNCHANGED Promised!vars
  <2>1. UNCHANGED <<pc, result, ctxDone, total, owed>> BY <1>14 DEF ReceiveFails, CloseFirst
  <2>2. IsDone' BY <1>14, TeardownFacts DEF ReceiveFails, CloseFirst, IsDone
  <2>3. CASE IsDone BY <1>1, <1>2, <1>3, <2>1, <2>2, <2>3
  <2>4. CASE ~IsDone
    BY <1>2, <1>3, <2>1, <2>2, <2>4, CallsKept, AnswersKept DEF Promised!Disconnect
  <2>5. QED BY <2>3, <2>4
<1>15. ASSUME UNCHANGED <<pc, result, ctxDone, down, total, owed>> PROVE UNCHANGED Promised!vars
  BY <1>1, <1>2, <1>3, <1>15 DEF IsDone
<1>16. CASE ReceiveStep
  <2>1. CASE ReceiveCheck \/ ReceiveOplockBreak \/ ReceiveMalformed \/ ReceiveDispatch
    BY <1>15, <2>1 DEF ReceiveCheck, ReceiveOplockBreak, ReceiveMalformed, ReceiveDispatch
  <2>2. QED BY <1>13, <1>14, <1>16, <2>1 DEF ReceiveStep, Promised!Next
<1>17. ASSUME NEW c \in Closers, CloseStep(c) PROVE [Promised!Next]_(Promised!vars)
  <2>1. CASE CloseAgain(c) BY <1>15, <2>1 DEF CloseAgain
  <2>2. CASE CloseSocket(c) BY <1>15, <2>2 DEF CloseSocket
  <2>3. ASSUME NEW r \in Requests, CloseSweep(c, r) PROVE UNCHANGED Promised!vars
    BY <1>15, <2>3 DEF CloseSweep
  <2>4. QED BY <1>14, <1>17, <2>1, <2>2, <2>3 DEF CloseStep, Promised!Next
<1>18. CASE UNCHANGED vars BY <1>15, <1>18 DEF vars
<1>19. QED
  BY <1>4, <1>5, <1>6, <1>7, <1>8, <1>9, <1>10, <1>11, <1>12, <1>16, <1>17, <1>18
  DEF Next, CallerStep, BeginRequest, Write, Quiet, Promised!Next

\* The connection, with its reuse of MIDs, its late and dropped messages and its
\* racing teardowns, implements Calls: a call returns a reply only if the server
\* has answered it completely, an error only for a cause, and unsent only if the
\* server never sees it.
THEOREM ConnImplementsCalls == ASSUME RoomForReply PROVE Spec => ImplementsCalls
<1>1. Init => Promised!Init
  <2> SUFFICES ASSUME Init PROVE Promised!Init
    OBVIOUS
  <2>1. [r \in Requests |-> CallOf(r)] = [r \in Requests |-> "idle"] BY DEF Init, CallOf
  <2>2. [r \in Requests |-> AnswerOf(r)] = [r \in Requests |-> "none"] BY DEF Init, AnswerOf
  <2>3. QED BY <2>1, <2>2 DEF Init, Promised!Init, IsDone
<1>2. /\ ConnIInv /\ ConnIInv' /\ CallIInv /\ CallIInv' /\ NoPanic /\ NoPanic' /\ [Next]_vars
      => [Promised!Next]_(Promised!vars)
  BY RefinementStep
<1>3. Spec => []NoPanic BY NeverPanics
<1>4. QED BY <1>1, <1>2, <1>3, ConnInvariant, CallInvariant, PTL DEF Spec, ImplementsCalls, Promised!Spec

=============================================================================
