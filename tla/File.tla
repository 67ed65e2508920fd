-------------------------------- MODULE File --------------------------------
(***************************************************************************)
(* An open file (internal/client/file.go): the position that Read, Write   *)
(* and Seek share, the sequential transfers made of one request after      *)
(* another, the transfers at a given offset, Stat, Truncate and Close.     *)
(* Several callers use one File at the same time.                          *)
(*                                                                         *)
(* Every critical section of f.mu is a step, and so are sending a request, *)
(* the server's serving it and the wait for the reply.  A byte is known by *)
(* its position in the file.  The transfers that are long enough to be     *)
(* pipelined are in PipelinedRead and PipelinedWrite.                      *)
(***************************************************************************)
EXTENDS Integers, Sequences, FiniteSets, FiniteSetsExt, SequencesExt

CONSTANTS
    Callers,     \* goroutines that use the file
    MaxSize,     \* positions a transfer may reach: a bound
    InitialSize, \* the length of the file when it is opened
    ReadChunk,   \* maxReadChunk
    WriteChunk,  \* maxWriteChunk
    Lengths,     \* lengths of the callers' buffers
    Starts,      \* offsets given to ReadAt and WriteAt, sizes given to Truncate
    Seeks,       \* offsets given to Seek, negative ones too
    Ops,         \* what each caller uses the file for
    MaxCalls     \* calls in all: a bound

ASSUME FileAssumption ==
    /\ MaxSize \in Nat
    /\ InitialSize \in 0 .. MaxSize
    /\ ReadChunk \in Nat \ {0}
    /\ WriteChunk \in Nat \ {0}
    /\ Lengths \subseteq Nat \ {0}
    /\ Starts \subseteq 0 .. MaxSize
    /\ Seeks \subseteq Int
    /\ Ops \in [Callers -> SUBSET {"read", "readAt", "write", "writeAt", "seek", "truncate", "close"}]
    /\ MaxCalls \in Nat

VARIABLES
    size,       \* the length of the file on the server
    fid,        \* the server knows the handle
    offset,     \* f.offset
    pc,         \* where each caller is; "returned" between its calls
    call,       \* what it called, with its arguments
    n,          \* how many bytes its transfer counts
    buf,        \* the positions of the bytes its buffer holds
    err,        \* the error of its call
    req,        \* its request on the wire and the reply to it
    late,       \* the requests nobody waits for any more, and whose they are
    applied,    \* how many bytes the server wrote for its call
    ctxDone,    \* the callers whose context has ended
    lapsed,     \* the callers whose Write has used up its deadline
    gaveUp,     \* the callers that stopped waiting for a request on the wire
    base,       \* the position last set by a Seek
    advanced,   \* how many bytes Reads and Writes have reported since then
    calls,      \* how many calls have been made
    down        \* conn.done is closed

posVars  == <<offset, base, advanced>>
callVars == <<call, n, buf, err>>
wireVars == <<req, late, applied>>
ctxVars  == <<ctxDone, lapsed, gaveUp>>
vars == <<size, fid, posVars, pc, callVars, wireVars, ctxVars, calls, down>>

NoCall == [op |-> "none", start |-> 0, len |-> 0]
NoReq  == [state |-> "none", at |-> 0, len |-> 0, status |-> "none", got |-> 0]

Transfers == {"read", "readAt", "write", "writeAt"}

TypeOK ==
    /\ size \in 0 .. MaxSize
    /\ fid \in BOOLEAN
    /\ offset \in Int
    /\ pc \in [Callers -> {"returned", "transfer", "await", "settle", "advance", "stat",
                           "seekEnd", "seekReset", "truncate", "close"}]
    /\ \A c \in Callers : call[c].op \in Transfers \cup {"none", "seek", "truncate", "close"}
    /\ n \in [Callers -> 0 .. MaxSize]
    /\ \A c \in Callers : Len(buf[c]) = IF call[c].op \in {"read", "readAt"} THEN n[c] ELSE 0
    /\ err \in [Callers -> {"none", "eof", "ctx", "conn", "server", "short", "negative"}]
    /\ \A c \in Callers : req[c].state \in {"none", "sent", "served"}
    /\ late \subseteq [from : Callers, op : Transfers, at : Int, len : Nat]
    /\ applied \in [Callers -> 0 .. MaxSize]
    /\ ctxDone \subseteq Callers /\ lapsed \subseteq Callers /\ gaveUp \subseteq Callers
    /\ calls \in 0 .. MaxCalls
    /\ down \in BOOLEAN

Init ==
    /\ size = InitialSize
    /\ fid = TRUE
    /\ offset = 0 /\ base = 0 /\ advanced = 0
    /\ pc = [c \in Callers |-> "returned"]
    /\ call = [c \in Callers |-> NoCall]
    /\ n = [c \in Callers |-> 0]
    /\ buf = [c \in Callers |-> <<>>]
    /\ err = [c \in Callers |-> "none"]
    /\ req = [c \in Callers |-> NoReq]
    /\ late = {}
    /\ applied = [c \in Callers |-> 0]
    /\ ctxDone = {} /\ lapsed = {} /\ gaveUp = {}
    /\ calls = 0
    /\ down = FALSE

Goto(c, label) == pc' = [pc EXCEPT ![c] = label]
Fail(c, e) == err' = [err EXCEPT ![c] = e]

\* The context a request is sent under: a sequential Write has its own, which
\* only its deadline ends.
Ended(c) == IF call[c].op = "write" THEN c \in lapsed ELSE c \in ctxDone

\* Where a transfer goes that is over: Read and Write have the position to advance.
Over(c) == Goto(c, IF call[c].op \in {"read", "write"} THEN "advance" ELSE "returned")

-----------------------------------------------------------------------------
(* Calls.                                                                  *)

Begin(c, op, start, len) ==
    /\ pc[c] = "returned"
    /\ op \in Ops[c]
    /\ calls < MaxCalls
    /\ calls' = calls + 1
    /\ call' = [call EXCEPT ![c] = [op |-> op, start |-> start, len |-> len]]
    /\ n' = [n EXCEPT ![c] = 0]
    /\ buf' = [buf EXCEPT ![c] = <<>>]
    /\ err' = [err EXCEPT ![c] = "none"]
    /\ req' = [req EXCEPT ![c] = NoReq]
    /\ applied' = [applied EXCEPT ![c] = 0]
    /\ lapsed' = lapsed \ {c}
    /\ UNCHANGED <<size, fid, late, ctxDone, gaveUp, down>>

\* Read and Write copy the position and let go of the lock.
SequentialCall(c, op, len) ==
    /\ offset + len <= MaxSize
    /\ Begin(c, op, offset, len)
    /\ Goto(c, "transfer")
    /\ UNCHANGED posVars

PositionedCall(c, op, start, len) ==
    /\ start + len <= MaxSize
    /\ Begin(c, op, start, len)
    /\ Goto(c, "transfer")
    /\ UNCHANGED posVars

TruncateCall(c, to) ==
    /\ Begin(c, "truncate", to, 0)
    /\ Goto(c, "truncate")
    /\ UNCHANGED posVars

CloseCall(c) ==
    /\ Begin(c, "close", 0, 0)
    /\ Goto(c, "close")
    /\ UNCHANGED posVars

-----------------------------------------------------------------------------
(* One request of a transfer.                                              *)

\* Fault: a chunk served in part is asked for again from its end.
NextAtSkipping(c) ==
    IF call[c].op = "read"
    THEN call[c].start + ((n[c] + ReadChunk - 1) \div ReadChunk) * ReadChunk
    ELSE call[c].start + n[c]

NextAt(c) == call[c].start + n[c]

\* How much the next request is for.  readSequential cuts its buffer into
\* chunks, each a ReadAt of its own, which asks until the chunk is full.
NextLen(c) ==
    LET left == call[c].len - n[c]
    IN  CASE call[c].op = "read" -> Min({left, ReadChunk - (n[c] % ReadChunk)})
          [] call[c].op = "readAt" -> Min({left, ReadChunk})
          [] OTHER -> Min({left, WriteChunk})

\* WriteAt sends one request, whatever the length of its data.
Wanting(c) == n[c] < call[c].len /\ ~ (call[c].op = "writeAt" /\ req[c].state = "served")

\* writeSequential honours a cancellation between two chunks.
CancelledBetween(c) == call[c].op = "write" /\ c \in ctxDone

Send(c) ==
    /\ pc[c] = "transfer"
    /\ Wanting(c)
    /\ ~ CancelledBetween(c)
    /\ ~ Ended(c)
    /\ ~ down
    /\ req' = [req EXCEPT ![c] = [state |-> "sent", at |-> NextAt(c), len |-> NextLen(c),
                                  status |-> "none", got |-> 0]]
    /\ Goto(c, "await")
    /\ UNCHANGED <<size, fid, posVars, callVars, late, applied, ctxVars, calls, down>>

\* The context has ended before the packet was written, or the connection is down.
NotSent(c) ==
    /\ pc[c] = "transfer"
    /\ Wanting(c)
    /\ \/ (CancelledBetween(c) \/ Ended(c)) /\ Fail(c, "ctx")
       \/ down /\ Fail(c, "conn")
    /\ Over(c)
    /\ UNCHANGED <<size, fid, posVars, call, n, buf, wireVars, ctxVars, calls, down>>

TransferDone(c) ==
    /\ pc[c] = "transfer"
    /\ ~ Wanting(c)
    /\ Over(c)
    /\ UNCHANGED <<size, fid, posVars, callVars, wireVars, ctxVars, calls, down>>

-----------------------------------------------------------------------------
(* The reply.                                                              *)

\* A reply with data: readAtChunk's bytes, or WriteAt's count.
Count(c) ==
    /\ n' = [n EXCEPT ![c] = @ + req[c].got]
    /\ buf' = [buf EXCEPT ![c] = IF call[c].op \in {"read", "readAt"}
                                 THEN @ \o [i \in 1 .. req[c].got |-> req[c].at + i - 1] ELSE @]

\* A reply that is short but not empty is no end of file: ask again.
TakeRead(c) ==
    /\ Count(c)
    /\ Goto(c, "transfer")
    /\ UNCHANGED err

\* Fault: a chunk written in part is not counted.
TakeWriteShortUncounted(c) ==
    IF call[c].op = "write" /\ req[c].got < req[c].len
    THEN Fail(c, "short") /\ Over(c) /\ UNCHANGED <<n, buf>>
    ELSE Count(c) /\ Goto(c, "transfer") /\ UNCHANGED err

\* writeSequential ends at a short chunk; WriteAt does not look.
TakeWrite(c) ==
    /\ Count(c)
    /\ IF call[c].op = "write" /\ req[c].got < req[c].len
       THEN Fail(c, "short") /\ Over(c)
       ELSE Goto(c, "transfer") /\ UNCHANGED err

\* Read delivers what it has and leaves the end of file to the next call.
TakeEOF(c) ==
    /\ Over(c)
    /\ IF call[c].op = "read" /\ n[c] > 0 THEN UNCHANGED err ELSE Fail(c, "eof")
    /\ UNCHANGED <<n, buf>>

TakeError(c) ==
    /\ Over(c)
    /\ Fail(c, "server")
    /\ UNCHANGED <<n, buf>>

TakeReply(c) ==
    /\ pc[c] = "await"
    /\ req[c].state = "served"
    /\ \/ req[c].status = "ok" /\ call[c].op \in {"read", "readAt"} /\ TakeRead(c)
       \/ req[c].status = "ok" /\ call[c].op \in {"write", "writeAt"} /\ TakeWrite(c)
       \/ req[c].status = "eof" /\ TakeEOF(c)
       \/ req[c].status = "error" /\ TakeError(c)
    /\ UNCHANGED <<size, fid, posVars, call, wireVars, ctxVars, calls, down>>

\* Fault: the caller goes without waiting for the reply.
ContextEndsAtOnce(c) ==
    /\ pc[c] = "await"
    /\ Ended(c)
    /\ Fail(c, "ctx")
    /\ Over(c)
    /\ req' = [req EXCEPT ![c] = NoReq]
    /\ late' = late \cup (IF req[c].state = "sent"
                          THEN {[from |-> c, op |-> call[c].op, at |-> req[c].at, len |-> req[c].len]}
                          ELSE {})
    /\ UNCHANGED <<size, fid, posVars, call, n, buf, applied, ctxVars, calls, down>>

\* Fault: the wait for the reply does not end with the context.
ContextIgnored(c) == FALSE

\* sendRecvSettled: the context ends while the request is on the wire.
ContextEnds(c) ==
    /\ pc[c] = "await"
    /\ Ended(c)
    /\ Goto(c, "settle")
    /\ UNCHANGED <<size, fid, posVars, callVars, wireVars, ctxVars, calls, down>>

\* The reply has come after all, and is dropped.
Settled(c) ==
    /\ pc[c] = "settle"
    /\ req[c].state = "served"
    /\ Fail(c, "ctx")
    /\ Over(c)
    /\ UNCHANGED <<size, fid, posVars, call, n, buf, wireVars, ctxVars, calls, down>>

SettleTimeout(c) ==
    /\ pc[c] = "settle"
    /\ gaveUp' = gaveUp \cup {c}
    /\ Fail(c, "ctx")
    /\ Over(c)
    /\ req' = [req EXCEPT ![c] = NoReq]
    /\ late' = late \cup (IF req[c].state = "sent"
                          THEN {[from |-> c, op |-> call[c].op, at |-> req[c].at, len |-> req[c].len]}
                          ELSE {})
    /\ UNCHANGED <<size, fid, posVars, call, n, buf, applied, ctxDone, lapsed, calls, down>>

ConnectionGone(c) ==
    /\ down
    /\ \/ pc[c] = "await" /\ Fail(c, "conn")
       \/ pc[c] = "settle" /\ Fail(c, "ctx")
    /\ gaveUp' = gaveUp \cup {c}
    /\ Over(c)
    /\ UNCHANGED <<size, fid, posVars, call, n, buf, wireVars, ctxDone, lapsed, calls, down>>

\* Fault: the position the call began at is written back.
AdvanceFromStart(c) ==
    /\ pc[c] = "advance"
    /\ offset' = call[c].start + n[c]
    /\ advanced' = advanced + n[c]
    /\ Goto(c, "returned")
    /\ UNCHANGED <<size, fid, base, callVars, wireVars, ctxVars, calls, down>>

Advance(c) ==
    /\ pc[c] = "advance"
    /\ offset' = offset + n[c]
    /\ advanced' = advanced + n[c]
    /\ Goto(c, "returned")
    /\ UNCHANGED <<size, fid, base, callVars, wireVars, ctxVars, calls, down>>

-----------------------------------------------------------------------------
(* Seek, Truncate and Close.                                               *)

\* Every way of seeking ends alike: a negative position is taken back, in a
\* critical section of its own.
SetPosition(c, p) ==
    /\ offset' = p
    /\ base' = p
    /\ advanced' = 0
    /\ Goto(c, IF p < 0 THEN "seekReset" ELSE "returned")

SeekStart(c, off) ==
    /\ Begin(c, "seek", off, 0)
    /\ SetPosition(c, off)

SeekCurrent(c, off) ==
    /\ Begin(c, "seek", off, 0)
    /\ SetPosition(c, offset + off)

\* SeekEnd asks for the size first; Stat makes two queries.
SeekEndCall(c, off) ==
    /\ Begin(c, "seek", off, 0)
    /\ Goto(c, "stat")
    /\ UNCHANGED posVars

\* The second query, SMB_QUERY_FILE_STANDARD_INFO, is the one that has the size.
Stat(c) ==
    /\ pc[c] = "stat"
    /\ ~ down /\ fid
    /\ n' = [n EXCEPT ![c] = size]
    /\ Goto(c, "seekEnd")
    /\ UNCHANGED <<size, fid, posVars, call, buf, err, wireVars, ctxVars, calls, down>>

SeekEnd(c) ==
    /\ pc[c] = "seekEnd"
    /\ SetPosition(c, n[c] + call[c].start)
    /\ UNCHANGED <<size, fid, callVars, wireVars, ctxVars, calls, down>>

SeekReset(c) ==
    /\ pc[c] = "seekReset"
    /\ offset' = 0 /\ base' = 0 /\ advanced' = 0
    /\ Fail(c, "negative")
    /\ Goto(c, "returned")
    /\ UNCHANGED <<size, fid, call, n, buf, wireVars, ctxVars, calls, down>>

Truncate(c) ==
    /\ pc[c] = "truncate"
    /\ ~ down /\ fid
    /\ size' = call[c].start
    /\ Goto(c, "returned")
    /\ UNCHANGED <<fid, posVars, callVars, wireVars, ctxVars, calls, down>>

Close(c) ==
    /\ pc[c] = "close"
    /\ ~ down /\ fid
    /\ fid' = FALSE
    /\ Goto(c, "returned")
    /\ UNCHANGED <<size, posVars, callVars, wireVars, ctxVars, calls, down>>

\* The server refuses a query, a SET_FILE_INFORMATION or a CLOSE.
RequestRefused(c) ==
    /\ pc[c] \in {"stat", "truncate", "close"}
    /\ ~ down
    /\ Fail(c, "server")
    /\ Goto(c, "returned")
    /\ UNCHANGED <<size, fid, posVars, call, n, buf, wireVars, ctxVars, calls, down>>

\* The context or the connection ends first; the server may have done its part.
RequestAbandoned(c) ==
    /\ pc[c] \in {"stat", "truncate", "close"}
    /\ \/ c \in ctxDone /\ Fail(c, "ctx")
       \/ down /\ Fail(c, "conn")
    /\ \/ UNCHANGED <<size, fid>>
       \/ pc[c] = "truncate" /\ fid /\ size' = call[c].start /\ UNCHANGED fid
       \/ pc[c] = "close" /\ fid' = FALSE /\ UNCHANGED size
    /\ Goto(c, "returned")
    /\ UNCHANGED <<posVars, call, n, buf, wireVars, ctxVars, calls, down>>

-----------------------------------------------------------------------------
(* The server, the network, the callers' contexts and time.                *)

\* A read is answered in full, in part, with the end of the file or with an
\* error; a write is carried out in full, in part, or refused.
Outcomes(op, at, len) ==
    {[status |-> "error", got |-> 0]} \cup
    IF op \in {"read", "readAt"}
    THEN IF at \in 0 .. size - 1
         THEN {[status |-> "ok", got |-> k] : k \in 1 .. Min({len, size - at})}
         ELSE {[status |-> "eof", got |-> 0]}
    ELSE IF at >= 0 THEN {[status |-> "ok", got |-> k] : k \in 0 .. len} ELSE {}

Written(op, at, got) == size' = IF op \in {"write", "writeAt"} /\ got > 0 THEN Max({size, at + got}) ELSE size

Serve(c) ==
    /\ req[c].state = "sent"
    /\ \E o \in Outcomes(call[c].op, req[c].at, req[c].len) :
          /\ fid \/ o.status = "error"
          /\ req' = [req EXCEPT ![c].state = "served", ![c].status = o.status, ![c].got = o.got]
          /\ Written(call[c].op, req[c].at, o.got)
          /\ applied' = [applied EXCEPT ![c] = IF call[c].op \in {"write", "writeAt"} THEN @ + o.got ELSE @]
    /\ UNCHANGED <<fid, posVars, pc, callVars, late, ctxVars, calls, down>>

\* The server carries out what nobody waits for.
ServeLate ==
    /\ \E r \in late, o \in UNION {Outcomes(q.op, q.at, q.len) : q \in late} :
          /\ o \in Outcomes(r.op, r.at, r.len)
          /\ fid \/ o.status = "error"
          /\ late' = late \ {r}
          /\ Written(r.op, r.at, o.got)
    /\ UNCHANGED <<fid, posVars, pc, callVars, req, applied, ctxVars, calls, down>>

EndContext(c) ==
    /\ pc[c] # "returned"
    /\ c \notin ctxDone
    /\ ctxDone' = ctxDone \cup {c}
    /\ UNCHANGED <<size, fid, posVars, pc, callVars, wireVars, lapsed, gaveUp, calls, down>>

\* The 30 seconds a sequential Write has for all its chunks are over.
Lapse(c) ==
    /\ call[c].op = "write" /\ pc[c] \in {"transfer", "await", "settle"}
    /\ c \notin lapsed
    /\ lapsed' = lapsed \cup {c}
    /\ UNCHANGED <<size, fid, posVars, pc, callVars, wireVars, ctxDone, gaveUp, calls, down>>

ConnDown ==
    /\ ~ down
    /\ \E c \in Callers : pc[c] # "returned"
    /\ down' = TRUE
    /\ UNCHANGED <<size, fid, posVars, pc, callVars, wireVars, ctxVars, calls>>

Read(c) == \E len \in Lengths : SequentialCall(c, "read", len)
Write(c) == \E len \in Lengths : SequentialCall(c, "write", len)
ReadAt(c) == \E len \in Lengths, at \in Starts : PositionedCall(c, "readAt", at, len)
WriteAt(c) == \E len \in Lengths, at \in Starts : PositionedCall(c, "writeAt", at, len)
SeekContext(c) == \E off \in Seeks : SeekStart(c, off) \/ SeekCurrent(c, off) \/ SeekEndCall(c, off)

Step(c) ==
    \/ Send(c) \/ NotSent(c) \/ TransferDone(c) \/ TakeReply(c) \/ ContextEnds(c)
    \/ Settled(c) \/ SettleTimeout(c) \/ ConnectionGone(c) \/ Advance(c)
    \/ SeekEnd(c) \/ SeekReset(c) \/ RequestAbandoned(c)

Answer(c) == Serve(c) \/ Stat(c) \/ Truncate(c) \/ Close(c) \/ RequestRefused(c)

Next ==
    \/ \E c \in Callers :
          \/ Read(c) \/ Write(c) \/ ReadAt(c) \/ WriteAt(c) \/ SeekContext(c)
          \/ (\E to \in Starts : TruncateCall(c, to)) \/ CloseCall(c)
          \/ Step(c) \/ Answer(c) \/ EndContext(c) \/ Lapse(c)
    \/ ServeLate \/ ConnDown

\* A caller goes on by itself, and time passes: the settle timers and the
\* deadline of a Write run out.  Of the server no answer is assumed, only that
\* it reads what is sent to it: a write has no deadline (CancelReturns of Conn
\* has the caller that a peer holds in one).
Spec ==
    /\ Init /\ [][Next]_vars
    /\ \A c \in Callers : WF_vars(Step(c)) /\ WF_vars(Lapse(c))

-----------------------------------------------------------------------------
(* Properties.                                                             *)

\* What Read and ReadAt return is the file from where the call began, without
\* a hole and without a byte twice, however the server cuts its replies; and a
\* ReadAt that is short, or a Read that brings nothing, says so.
ReadContiguous ==
    \A c \in Callers :
        /\ call[c].op \in {"read", "readAt"} =>
              buf[c] = [i \in 1 .. n[c] |-> call[c].start + i - 1]
        /\ pc[c] = "returned" /\ err[c] = "none" =>
              /\ call[c].op = "readAt" => n[c] = call[c].len
              /\ call[c].op = "read" => n[c] > 0

\* A sequential Write reports every byte the server wrote for it, cancelled or
\* not, unless its deadline or a settle timer ran out or the connection went;
\* and one that is short says so.  WriteAt does not: it sends one chunk of what
\* it was given and returns the count of the reply without an error, where the
\* comment at file.go:70 promises one.
TruthfulWrite ==
    \A c \in Callers :
        pc[c] = "returned" /\ call[c].op = "write" =>
            /\ c \notin lapsed \cup gaveUp => n[c] = applied[c]
            /\ err[c] = "none" => n[c] = call[c].len

\* A READ or WRITE is still on the server after its caller has gone only when
\* a settle timer ran out, so that the caller's CLOSE does not meet it there.
NothingLeftBehind ==
    \A c \in Callers :
        c \notin gaveUp =>
            /\ \A r \in late : r.from # c
            /\ pc[c] \in {"returned", "close"} => req[c].state # "sent"

\* The position is where the last Seek put it plus all that Reads and Writes
\* have reported since, also when they overlap, and it is negative only while a
\* Seek is about to take it back.
PositionAddsUp ==
    /\ offset = base + advanced
    /\ offset < 0 => \E c \in Callers : pc[c] = "seekReset"

\* A call whose context has ended returns, and a sequential Write returns
\* cancelled or not, also when the server says nothing.
CancelledReturns ==
    \A c \in Callers :
        (c \in ctxDone \/ call[c].op = "write") /\ pc[c] # "returned" ~> pc[c] = "returned"
=============================================================================
