-------------------------------- MODULE Conn --------------------------------
(***************************************************************************)
(* One SMB1 connection (internal/client/conn.go): request/response         *)
(* correlation by multiplex ID (MID), the background receive loop, callers *)
(* whose context may end at any moment, and teardown.                      *)
(*                                                                         *)
(* A request is one call of sendRecv, sendRecvSettled or                   *)
(* sendRecvTransaction.  Its pendingRequest, its response channel and the  *)
(* messages the server sends for it are all identified by the request, so  *)
(* that "the reply to somebody else's request" can be told apart although  *)
(* the code only sees MIDs.                                                *)
(*                                                                         *)
(* Every critical section of c.mu is one step; everything the code does    *)
(* outside the lock between two sections is a step of its own.  The server *)
(* and the TCP stream are one environment: the server answers requests in  *)
(* any order, with one message or, for a transaction, with up to           *)
(* MaxFragments, or never; a message it has sent but the loop has not read *)
(* is not told apart from one it has yet to send, which loses nothing      *)
(* because the order of answers is arbitrary anyway.                       *)
(***************************************************************************)
EXTENDS Naturals, Sequences, FiniteSets

CONSTANTS
    Requests,      \* the calls made on this connection, each made once
    Settled,       \* the ones made through sendRecvSettled
    Transactions,  \* the ones made through sendRecvTransaction
    NumMIDs,       \* size of the MID space (65536 in the code)
    QueueDepth,    \* responseQueueDepth
    MaxFragments,  \* most messages the server sends for one transaction
    NoReq,         \* "no request": a free MID, a message nobody asked for
    Down           \* the header-less response teardown wakes a waiter with

ASSUME RequestsAssumption ==
    /\ Settled \subseteq Requests
    /\ Transactions \subseteq Requests
    /\ Settled \cap Transactions = {}
    /\ NoReq \notin Requests
    /\ Down \notin Requests
    /\ NoReq # Down

ASSUME SizesAssumption ==
    /\ NumMIDs \in Nat \ {0, 1}
    /\ QueueDepth \in Nat \ {0}
    /\ MaxFragments \in Nat \ {0}

MIDs == 0 .. (NumMIDs - 1)

\* The MID reserved for server-initiated oplock break notifications.
reservedMID == NumMIDs - 1

\* Threads that call Close: the application, and the deferred call of Receive.
Closers == {"app", "receive"}

VARIABLES
    pc,        \* where each caller is
    mid,       \* the MID its request was given
    result,    \* how its wait ended
    ctxDone,   \* the callers whose context has ended
    nextMID,   \* c.nextMID
    pending,   \* c.pending: the request holding each MID, or NoReq
    cancelled, \* the pendingRequests whose cancelled flag is set
    respCh,    \* the messages buffered in each request's channel
    chClosed,  \* the requests whose channel Close has closed
    down,      \* why c.done is closed (c.err), "no" while it is open
    socket,    \* the TCP connection as this side holds it
    rxPc,      \* where the receive loop is
    rxMid,     \* the MID and ...
    rxOf,      \* ... the true addressee of the packet it has just read
    closePc,   \* where each call of Close is
    swept,     \* what is left of the pending map Close swapped out
    total,     \* how many messages the server sends for a request
    owed,      \* how many of them the receive loop has not read yet
    got        \* how many of them the caller has taken from its channel

callerVars == <<pc, mid, result, got>>
connVars   == <<nextMID, pending, cancelled, respCh, chClosed, down, socket>>
rxVars     == <<rxPc, rxMid, rxOf>>
closeVars  == <<closePc, swept>>
serverVars == <<total, owed>>
vars == <<callerVars, ctxDone, connVars, rxVars, closeVars, serverVars>>

Results == {"none", "reply", "ctx", "conn", "timeout", "unsent", "badfragment"}

TypeOK ==
    /\ pc \in [Requests -> {"idle", "writing", "writeFailed", "waiting", "settling",
                            "releasing", "returned", "panicked"}]
    /\ mid \in [Requests -> MIDs]
    /\ result \in [Requests -> Results]
    /\ ctxDone \subseteq Requests
    /\ nextMID \in MIDs
    /\ pending \in [MIDs -> Requests \cup {NoReq}]
    /\ cancelled \subseteq Requests
    /\ respCh \in [Requests -> Seq(Requests \cup {NoReq, Down})]
    /\ chClosed \subseteq Requests
    /\ down \in {"no", "closed", "exhausted", "read", "write"}
    /\ socket \in {"open", "closed"}
    /\ rxPc \in {"check", "reading", "dispatching", "closing", "exited"}
    /\ rxMid \in MIDs
    /\ rxOf \in Requests \cup {NoReq}
    /\ closePc \in [Closers -> {"idle", "sweeping", "returned"}]
    /\ swept \subseteq Requests
    /\ total \in [Requests -> Nat]
    /\ owed \in [Requests -> Nat]
    /\ got \in [Requests -> Nat]

Init ==
    /\ pc = [r \in Requests |-> "idle"]
    /\ mid = [r \in Requests |-> 0]
    /\ result = [r \in Requests |-> "none"]
    /\ ctxDone = {}
    /\ nextMID = 0
    /\ pending = [m \in MIDs |-> NoReq]
    /\ cancelled = {}
    /\ respCh = [r \in Requests |-> <<>>]
    /\ chClosed = {}
    /\ down = "no"
    /\ socket = "open"
    /\ rxPc = "check"
    /\ rxMid = 0
    /\ rxOf = NoReq
    /\ closePc = [c \in Closers |-> "idle"]
    /\ swept = {}
    /\ total = [r \in Requests |-> 0]
    /\ owed = [r \in Requests |-> 0]
    /\ got = [r \in Requests |-> 0]

-----------------------------------------------------------------------------
(* State shared by the handlers.                                           *)

Registered == {r \in Requests : \E m \in MIDs : pending[m] = r}

\* Fault: setErrorLocked stores the error and forgets to close c.done.
IsDoneOnlyByClose == down = "closed"

\* A select on c.done takes its case.  setErrorLocked and Close set c.err and
\* close c.done in one critical section.
IsDone == down # "no"

NothingPending == [m \in MIDs |-> NoReq]

\* Fault: the channel has one slot less than the server may fill.
PushShort(rs, msg) ==
    [r \in Requests |-> IF r \in rs /\ Len(respCh[r]) < QueueDepth - 1
                        THEN Append(respCh[r], msg)
                        ELSE respCh[r]]

\* Non-blocking sends of msg to the channels of the requests rs: a full
\* channel drops it.
Push(rs, msg) ==
    [r \in Requests |-> IF r \in rs /\ Len(respCh[r]) < QueueDepth
                        THEN Append(respCh[r], msg)
                        ELSE respCh[r]]

\* Fault: setErrorLocked without its check of c.done.
SetErrorLockedUnchecked(err) ==
    /\ down' = err
    /\ respCh' = Push(Registered, Down)
    /\ pending' = NothingPending

\* Close the connection for the reason err, unless it already is.
SetErrorLocked(err) ==
    IF IsDone
    THEN UNCHANGED <<down, pending, respCh>>
    ELSE /\ down' = err
         /\ respCh' = Push(Registered, Down)
         /\ pending' = NothingPending

FreeMIDs == {m \in MIDs \ {reservedMID} : pending[m] = NoReq}

\* How far the circular search that starts at nextMID goes before it tries m.
SearchDistance(m) == IF m >= nextMID THEN m - nextMID ELSE (m + NumMIDs) - nextMID

\* Fault: the increment steps over the reserved MID and does not wrap.
MIDAfterUnwrapped(m) == IF m + 1 = reservedMID THEN m + 2 ELSE m + 1

\* c.nextMID++ on an unsigned integer of NumMIDs values.
MIDAfter(m) == (m + 1) % NumMIDs

\* The MID allocateMID returns.
IsNextFree(m) ==
    /\ m \in FreeMIDs
    /\ \A k \in FreeMIDs : SearchDistance(m) <= SearchDistance(k)

\* Fault: an abandoned request frees its MID like an answered one.
ReleaseLockedEager(r, abandoned) ==
    /\ pending' = IF pending[mid[r]] # r THEN pending ELSE [pending EXCEPT ![mid[r]] = NoReq]
    /\ UNCHANGED cancelled

\* Fault: a reply already in the channel is not looked for.
ReleaseLockedBlind(r, abandoned) ==
    IF pending[mid[r]] # r
    THEN UNCHANGED <<pending, cancelled>>
    ELSE IF ~abandoned
         THEN /\ pending' = [pending EXCEPT ![mid[r]] = NoReq]
              /\ UNCHANGED cancelled
         ELSE /\ cancelled' = cancelled \cup {r}
              /\ UNCHANGED pending

\* The caller is done with its request and says whether it gave up on it.  The
\* request keeps its MID if a reply may still come.
ReleaseLocked(r, abandoned) ==
    IF pending[mid[r]] # r
    THEN UNCHANGED <<pending, cancelled>>
    ELSE IF ~abandoned \/ (respCh[r] # <<>> /\ r \notin Transactions)
         THEN /\ pending' = [pending EXCEPT ![mid[r]] = NoReq]
              /\ UNCHANGED cancelled
         ELSE /\ cancelled' = cancelled \cup {r}
              /\ UNCHANGED pending

-----------------------------------------------------------------------------
(* Callers: beginRequest, then the wait, then finish.                      *)

\* The caller's context is cancelled or its deadline passes.  One that ends
\* before the call is seen no earlier than one that ends while it writes.
EndContext(r) ==
    /\ pc[r] \notin {"idle", "returned"}
    /\ r \notin ctxDone
    /\ ctxDone' = ctxDone \cup {r}
    /\ UNCHANGED <<callerVars, connVars, rxVars, closeVars, serverVars>>

\* beginRequest on a closed connection.
BeginRefused(r) ==
    /\ pc[r] = "idle"
    /\ IsDone
    /\ pc' = [pc EXCEPT ![r] = "returned"]
    /\ result' = [result EXCEPT ![r] = "conn"]
    /\ UNCHANGED <<mid, got, ctxDone, connVars, rxVars, closeVars, serverVars>>

\* beginRequest finds a MID and registers the request.
BeginRegister(r) ==
    /\ pc[r] = "idle"
    /\ ~IsDone
    /\ \E m \in MIDs :
          /\ IsNextFree(m)
          /\ mid' = [mid EXCEPT ![r] = m]
          /\ pending' = [pending EXCEPT ![m] = r]
          /\ nextMID' = MIDAfter(m)
    /\ pc' = [pc EXCEPT ![r] = "writing"]
    /\ UNCHANGED <<result, got, ctxDone, cancelled, respCh, chClosed, down, socket,
                   rxVars, closeVars, serverVars>>

\* Every MID is held: allocateMID tears the connection down and closes the
\* socket, with c.mu held throughout.
BeginExhausted(r) ==
    /\ pc[r] = "idle"
    /\ ~IsDone
    /\ FreeMIDs = {}
    /\ SetErrorLocked("exhausted")
    /\ socket' = "closed"
    /\ pc' = [pc EXCEPT ![r] = "returned"]
    /\ result' = [result EXCEPT ![r] = "conn"]
    /\ UNCHANGED <<mid, got, ctxDone, nextMID, cancelled, chClosed,
                   rxVars, closeVars, serverVars>>

BeginRequest(r) == BeginRefused(r) \/ BeginRegister(r) \/ BeginExhausted(r)

\* The request is on the wire and the server will send n messages for it, none
\* at all if it never answers.
WriteSent(r) ==
    /\ pc[r] = "writing"
    /\ socket = "open"
    /\ \E n \in 0 .. (IF r \in Transactions THEN MaxFragments ELSE 1) :
          /\ total' = [total EXCEPT ![r] = n]
          /\ owed' = [owed EXCEPT ![r] = n]
    /\ pc' = [pc EXCEPT ![r] = "waiting"]
    /\ UNCHANGED <<mid, result, got, ctxDone, connVars, rxVars, closeVars>>

\* cleanup: forget a request that never reached the wire.
Cleanup(r) == pending' = [pending EXCEPT ![mid[r]] = NoReq]

\* The packet could not be encoded, or the context had ended before the write
\* began (ErrNotSent): the connection stays usable.
WriteNotSent(r) ==
    /\ pc[r] = "writing"
    /\ Cleanup(r)
    /\ pc' = [pc EXCEPT ![r] = "returned"]
    /\ result' = [result EXCEPT ![r] = "unsent"]
    /\ UNCHANGED <<mid, got, ctxDone, nextMID, cancelled, respCh, chClosed, down, socket,
                   rxVars, closeVars, serverVars>>

\* The write itself fails: cleanup here, setError in the step after it.
WriteFails(r) ==
    /\ pc[r] = "writing"
    /\ Cleanup(r)
    /\ pc' = [pc EXCEPT ![r] = "writeFailed"]
    /\ UNCHANGED <<mid, result, got, ctxDone, nextMID, cancelled, respCh, chClosed, down,
                   socket, rxVars, closeVars, serverVars>>

WriteFailed(r) ==
    /\ pc[r] = "writeFailed"
    /\ SetErrorLocked("write")
    /\ pc' = [pc EXCEPT ![r] = "returned"]
    /\ result' = [result EXCEPT ![r] = "unsent"]
    /\ UNCHANGED <<mid, got, ctxDone, nextMID, cancelled, chClosed, socket,
                   rxVars, closeVars, serverVars>>

Write(r) == WriteSent(r) \/ WriteNotSent(r) \/ WriteFails(r)

\* Fault: sendRecvSettled returns as soon as its context ends.
EndWaitUnsettled(r, res) ==
    /\ pc' = [pc EXCEPT ![r] = "releasing"]
    /\ result' = [result EXCEPT ![r] = res]

\* awaitResponse has failed, or a whole reply was read.  sendRecvSettled goes
\* on waiting for the reply of a request whose context has ended.
EndWait(r, res) ==
    /\ pc' = [pc EXCEPT ![r] = IF r \in Settled /\ r \in ctxDone /\ res # "reply"
                               THEN "settling" ELSE "releasing"]
    /\ result' = [result EXCEPT ![r] = res]

\* A message is taken from the channel.  For a transaction it may be one
\* fragment of several, or one that cannot be decoded or placed.
AwaitReply(r) ==
    /\ pc[r] = "waiting"
    /\ respCh[r] # <<>>
    /\ respCh' = [respCh EXCEPT ![r] = Tail(respCh[r])]
    /\ \/ /\ Head(respCh[r]) = Down
          /\ EndWait(r, "conn")
          /\ UNCHANGED got
       \/ /\ Head(respCh[r]) # Down
          /\ got' = [got EXCEPT ![r] = got[r] + 1]
          /\ \/ /\ r \notin Transactions \/ got[r] + 1 >= total[r]
                /\ EndWait(r, "reply")
             \/ /\ r \in Transactions
                /\ got[r] + 1 < total[r]
                /\ UNCHANGED <<pc, result>>
             \/ /\ r \in Transactions
                /\ EndWait(r, "badfragment")
    /\ UNCHANGED <<mid, ctxDone, nextMID, pending, cancelled, chClosed, down, socket,
                   rxVars, closeVars, serverVars>>

\* A closed and drained channel yields a nil response, which awaitResponse
\* dereferences.
AwaitNil(r) ==
    /\ pc[r] = "waiting"
    /\ respCh[r] = <<>>
    /\ r \in chClosed
    /\ pc' = [pc EXCEPT ![r] = "panicked"]
    /\ UNCHANGED <<mid, result, got, ctxDone, connVars, rxVars, closeVars, serverVars>>

AwaitContext(r) ==
    /\ pc[r] = "waiting"
    /\ r \in ctxDone
    /\ EndWait(r, "ctx")
    /\ UNCHANGED <<mid, got, ctxDone, connVars, rxVars, closeVars, serverVars>>

AwaitDone(r) ==
    /\ pc[r] = "waiting"
    /\ IsDone
    /\ EndWait(r, "conn")
    /\ UNCHANGED <<mid, got, ctxDone, connVars, rxVars, closeVars, serverVars>>

\* The second wait of sendRecvSettled: whatever comes is discarded.
SettleReply(r) ==
    /\ pc[r] = "settling"
    /\ \/ /\ respCh[r] # <<>>
          /\ respCh' = [respCh EXCEPT ![r] = Tail(respCh[r])]
          /\ got' = [got EXCEPT ![r] = got[r] + (IF Head(respCh[r]) = Down THEN 0 ELSE 1)]
       \/ /\ respCh[r] = <<>>
          /\ r \in chClosed
          /\ UNCHANGED <<respCh, got>>
    /\ pc' = [pc EXCEPT ![r] = "releasing"]
    /\ UNCHANGED <<mid, result, ctxDone, nextMID, pending, cancelled, chClosed, down, socket,
                   rxVars, closeVars, serverVars>>

\* Fault: the settle timer is set only on a connection that is going away.
SettleTimeoutMissing(r) ==
    /\ IsDone
    /\ pc[r] = "settling"
    /\ pc' = [pc EXCEPT ![r] = "releasing"]
    /\ result' = [result EXCEPT ![r] = "timeout"]
    /\ UNCHANGED <<mid, got, ctxDone, connVars, rxVars, closeVars, serverVars>>

SettleTimeout(r) ==
    /\ pc[r] = "settling"
    /\ pc' = [pc EXCEPT ![r] = "releasing"]
    /\ result' = [result EXCEPT ![r] = "timeout"]
    /\ UNCHANGED <<mid, got, ctxDone, connVars, rxVars, closeVars, serverVars>>

SettleDone(r) ==
    /\ pc[r] = "settling"
    /\ IsDone
    /\ pc' = [pc EXCEPT ![r] = "releasing"]
    /\ UNCHANGED <<mid, result, got, ctxDone, connVars, rxVars, closeVars, serverVars>>

\* What each kind of caller passes to finish.
Abandons(r) ==
    IF r \in Transactions THEN result[r] # "reply"
    ELSE IF r \in Settled THEN result[r] = "timeout"
    ELSE result[r] # "reply" /\ r \in ctxDone

Finish(r) ==
    /\ pc[r] = "releasing"
    /\ ReleaseLocked(r, Abandons(r))
    /\ pc' = [pc EXCEPT ![r] = "returned"]
    /\ UNCHANGED <<mid, result, got, ctxDone, nextMID, respCh, chClosed, down, socket,
                   rxVars, closeVars, serverVars>>

\* What a caller does without waiting for anybody's permission but a lock's.
CallerStep(r) ==
    \/ BeginRequest(r) \/ WriteFailed(r)
    \/ AwaitReply(r) \/ AwaitNil(r) \/ AwaitContext(r) \/ AwaitDone(r)
    \/ SettleReply(r) \/ SettleTimeout(r) \/ SettleDone(r)
    \/ Finish(r)

-----------------------------------------------------------------------------
(* The receive loop.                                                       *)

ReceiveCheck ==
    /\ rxPc = "check"
    /\ rxPc' = IF IsDone THEN "closing" ELSE "reading"
    /\ UNCHANGED <<callerVars, ctxDone, connVars, rxMid, rxOf, closeVars, serverVars>>

\* ReadPacket returns a message the server sent for request r.
ReceiveRead(r) ==
    /\ rxPc = "reading"
    /\ socket = "open"
    /\ owed[r] > 0
    /\ owed' = [owed EXCEPT ![r] = owed[r] - 1]
    /\ rxPc' = "dispatching"
    /\ rxMid' = mid[r]
    /\ rxOf' = r
    /\ UNCHANGED <<callerVars, ctxDone, connVars, closeVars, total>>

\* ReadPacket returns an oplock break notification.
ReceiveOplockBreak ==
    /\ rxPc = "reading"
    /\ socket = "open"
    /\ rxPc' = "dispatching"
    /\ rxMid' = reservedMID
    /\ rxOf' = NoReq
    /\ UNCHANGED <<callerVars, ctxDone, connVars, closeVars, serverVars>>

\* ReadPacket returns a keep-alive or a packet DecodePacket rejects.
ReceiveMalformed ==
    /\ rxPc = "reading"
    /\ socket = "open"
    /\ rxPc' = "check"
    /\ UNCHANGED <<callerVars, ctxDone, connVars, rxMid, rxOf, closeVars, serverVars>>

\* ReadPacket fails: the peer hung up, sent a bad frame, or the socket is closed.
ReceiveFails ==
    /\ rxPc = "reading"
    /\ SetErrorLocked("read")
    /\ rxPc' = "closing"
    /\ UNCHANGED <<callerVars, ctxDone, nextMID, cancelled, chClosed, socket,
                   rxMid, rxOf, closeVars, serverVars>>

\* Fault: an abandoned transaction frees its MID at its first late fragment.
ReceiveDispatchFreesAny ==
    /\ rxPc = "dispatching"
    /\ rxPc' = "check"
    /\ rxMid' = 0
    /\ rxOf' = NoReq
    /\ LET r == pending[rxMid] IN
          \/ /\ r \notin Requests \ cancelled
             /\ pending' = [pending EXCEPT ![rxMid] = NoReq]
             /\ UNCHANGED respCh
          \/ /\ r \in Requests \ cancelled
             /\ respCh' = Push({r}, rxOf)
             /\ UNCHANGED pending
    /\ UNCHANGED <<callerVars, ctxDone, nextMID, cancelled, chClosed, down, socket,
                   closeVars, serverVars>>

\* Hand the packet to the request that holds its MID.
ReceiveDispatch ==
    /\ rxPc = "dispatching"
    /\ rxPc' = "check"
    /\ rxMid' = 0
    /\ rxOf' = NoReq
    /\ LET r == pending[rxMid] IN
          \/ /\ r = NoReq
             /\ UNCHANGED <<pending, respCh>>
          \/ /\ r \in cancelled
             /\ pending' = IF r \in Transactions THEN pending
                           ELSE [pending EXCEPT ![rxMid] = NoReq]
             /\ UNCHANGED respCh
          \/ /\ r # NoReq
             /\ r \notin cancelled
             /\ respCh' = Push({r}, rxOf)
             /\ UNCHANGED pending
    /\ UNCHANGED <<callerVars, ctxDone, nextMID, cancelled, chClosed, down, socket,
                   closeVars, serverVars>>

-----------------------------------------------------------------------------
(* Close.                                                                  *)

MayCallClose(c) == closePc[c] = "idle" /\ (c = "receive" => rxPc = "closing")

ReceiverLeaves(c) == rxPc' = IF c = "receive" THEN "exited" ELSE rxPc

\* The connection is already down: Close does nothing at all.
CloseAgain(c) ==
    /\ MayCallClose(c)
    /\ IsDone
    /\ closePc' = [closePc EXCEPT ![c] = "returned"]
    /\ ReceiverLeaves(c)
    /\ UNCHANGED <<callerVars, ctxDone, connVars, rxMid, rxOf, swept, serverVars>>

CloseFirst(c) ==
    /\ MayCallClose(c)
    /\ ~IsDone
    /\ down' = "closed"
    /\ swept' = Registered
    /\ pending' = NothingPending
    /\ closePc' = [closePc EXCEPT ![c] = "sweeping"]
    /\ UNCHANGED <<callerVars, ctxDone, nextMID, cancelled, respCh, chClosed, socket,
                   rxVars, serverVars>>

\* Fault: Close closes the channels without sending the error first.
CloseSweepSilently(c, r) ==
    /\ closePc[c] = "sweeping"
    /\ r \in swept
    /\ chClosed' = chClosed \cup {r}
    /\ swept' = swept \ {r}
    /\ UNCHANGED <<callerVars, ctxDone, nextMID, pending, cancelled, respCh, down, socket,
                   rxVars, closePc, serverVars>>

\* Outside the lock: wake one waiter of the old map and close its channel.
CloseSweep(c, r) ==
    /\ closePc[c] = "sweeping"
    /\ r \in swept
    /\ respCh' = Push({r}, Down)
    /\ chClosed' = chClosed \cup {r}
    /\ swept' = swept \ {r}
    /\ UNCHANGED <<callerVars, ctxDone, nextMID, pending, cancelled, down, socket,
                   rxVars, closePc, serverVars>>

CloseSocket(c) ==
    /\ closePc[c] = "sweeping"
    /\ swept = {}
    /\ socket' = "closed"
    /\ closePc' = [closePc EXCEPT ![c] = "returned"]
    /\ ReceiverLeaves(c)
    /\ UNCHANGED <<callerVars, ctxDone, nextMID, pending, cancelled, respCh, chClosed, down,
                   rxMid, rxOf, swept, serverVars>>

CloseStep(c) ==
    \/ CloseAgain(c)
    \/ CloseFirst(c)
    \/ \E r \in Requests : CloseSweep(c, r)
    \/ CloseSocket(c)

-----------------------------------------------------------------------------
ReceiveStep ==
    \/ ReceiveCheck \/ ReceiveOplockBreak \/ ReceiveMalformed \/ ReceiveFails \/ ReceiveDispatch
    \/ \E r \in Requests : ReceiveRead(r)

\* Every call has returned, Close too, and the receive loop is gone or blocked
\* in a read the server may leave unanswered for ever.
Quiet ==
    /\ \A r \in Requests : pc[r] \in {"returned", "panicked"}
    /\ UNCHANGED vars

Next ==
    \/ \E r \in Requests : EndContext(r) \/ CallerStep(r) \/ Write(r)
    \/ ReceiveStep
    \/ \E c \in Closers : CloseStep(c)
    \/ Quiet

\* What Go's scheduler and timers guarantee: a goroutine that can proceed does,
\* a select whose cases stay ready takes one, the settle timer fires, a read or
\* a write on a closed socket returns.  Nothing is assumed of the server, of
\* the application's wish to cancel or close, or of a read on an open socket.
ReceiverProceeds == ReceiveCheck \/ ReceiveDispatch \/ (ReceiveFails /\ socket = "closed")
CloserProceeds(c) == CloseStep(c) /\ (closePc[c] = "idle" => c = "receive")
CallerProceeds(r) == CallerStep(r) /\ pc[r] # "idle"

\* A write on an open socket need not end: it has no deadline, so a peer that
\* stops reading holds it, and whoever writes behind it, for as long as it
\* likes.
Fairness ==
    /\ WF_vars(ReceiverProceeds)
    /\ \A c \in Closers : WF_vars(CloserProceeds(c))
    /\ \A r \in Requests : WF_vars(CallerProceeds(r) \/ (Write(r) /\ socket = "closed"))

Spec == Init /\ [][Next]_vars /\ Fairness

-----------------------------------------------------------------------------
(* Safety.                                                                 *)

\* Nothing but messages the server sent for request r, or the news that the
\* connection is gone, ever reaches the caller of r: no late reply to an
\* abandoned request that had the same MID before, no stray fragment of its
\* transaction, no oplock break notification (pendingRequest, allocateMID,
\* releaseLocked, Receive).
RepliesAreOwn ==
    \A r \in Requests : \A i \in 1 .. Len(respCh[r]) : respCh[r][i] \in {r, Down}

\* A MID is still held after its caller returned only while a reply to it may
\* still come: the caller abandoned it, and it is a transaction or its one
\* reply has not been through the receive loop (releaseLocked, Receive).  Held
\* any longer, MIDs would run out.
HeldMIDsAwaitReply ==
    \A m \in MIDs :
       (pending[m] # NoReq /\ pc[pending[m]] = "returned") =>
          LET r == pending[m] IN
             /\ r \in cancelled
             /\ \/ r \in Transactions
                \/ total[r] = 0
                \/ owed[r] > 0
                \/ rxPc = "dispatching" /\ rxOf = r

\* A settled request (READ_ANDX, WRITE_ANDX) that was sent returns, on a live
\* connection and short of the settle timeout, only once its reply is in, so
\* that the CLOSE that follows cannot overtake it (sendRecvSettled).
SettledBeforeReturn ==
    \A r \in Settled :
       (pc[r] = "returned" /\ down = "no" /\ result[r] \notin {"timeout", "unsent"}) => got[r] = 1

\* No goroutine panics: a waiter never takes the nil response of a closed and
\* drained channel, and nobody who can still send on a channel, which takes a
\* pending entry, can find one that Close has closed (awaitResponse, Close).
NoPanic ==
    /\ \A r \in Requests : pc[r] # "panicked"
    /\ \A m \in MIDs : pending[m] \notin chClosed

\* Teardown happens once, for one reason, however many failing writes, failing
\* reads, exhausted searches and calls of Close race for it: c.done is never
\* closed twice and c.err never changes again (setErrorLocked, Close).
TornDownOnce == [][down # "no" => down' = down]_vars

-----------------------------------------------------------------------------
(* Liveness.                                                               *)

\* The write of r is held up for good by a peer that does not read.
HeldInWrite(r) == [](pc[r] = "writing" /\ socket = "open")

\* Once the connection is down, for whatever reason, every call returns
\* wherever its caller was at that moment, except a caller held in a write:
\* setError wakes the waiters and leaves the socket open (setErrorLocked,
\* Close).
TeardownWakesAll ==
    \A r \in Requests : down # "no" ~> (pc[r] \in {"idle", "returned"} \/ HeldInWrite(r))

\* A caller whose context ends returns, although the server never answers,
\* except a caller held in a write (awaitResponse, sendRecvSettled).  The
\* exception is the code's: writePacketType looks at the context once and sets
\* no deadline, where the comment on WritePacketContext promises cancellation
\* during the write operation (netbios/session.go:235).
CancelReturns ==
    \A r \in Requests : r \in ctxDone ~> (pc[r] = "returned" \/ HeldInWrite(r))

\* A caller to whom the server has sent its whole reply returns: no fragment
\* of it is dropped for want of room in the channel.
AnsweredReturns ==
    \A r \in Requests :
       (pc[r] = "waiting" /\ total[r] > 0 /\ owed[r] = 0) ~> pc[r] = "returned"

-----------------------------------------------------------------------------
(* What comments promise and the code does not do.                         *)

\* Once Close has returned to its caller the TCP connection is closed.
CloseClosesSocket ==
    (closePc["app"] = "returned" /\ closePc["receive"] # "sweeping") => socket = "closed"
=============================================================================
