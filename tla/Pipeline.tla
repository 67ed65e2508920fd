------------------------------ MODULE Pipeline ------------------------------
(***************************************************************************)
(* What the two pipelined transfers of internal/client/file.go share:      *)
(* chunks sent as requests of their own, the server that serves them in    *)
(* any order, the receive loop that delivers the replies, and the way a    *)
(* transfer that stops early settles what it has on the wire               *)
(* (collectReplies, abandonChunks).  PipelinedRead and PipelinedWrite add  *)
(* the loops themselves.                                                   *)
(*                                                                         *)
(* Every critical section of the connection's mutex is a step, and so is   *)
(* every select.  The connection is the one Conn models, reduced to what a *)
(* transfer sees of it: whether it is down, and which of the transfer's    *)
(* own requests are in its pending map.                                    *)
(***************************************************************************)
EXTENDS Naturals, FiniteSets

CONSTANTS
    TotalSize,    \* bytes the caller wants to move
    ChunkSize,    \* maxReadChunk or maxWriteChunk
    MaxMpxCount,  \* what the server advertised
    DepthCap      \* maxPipelineDepth

ASSUME PipelineAssumption ==
    /\ TotalSize \in Nat \ {0}
    /\ ChunkSize \in Nat \ {0}
    /\ MaxMpxCount \in Nat \ {0, 1}
    /\ DepthCap \in Nat \ {0}

NumChunks == (TotalSize + ChunkSize - 1) \div ChunkSize
Chunks == 1 .. NumChunks

\* The last chunk takes what is left.
Size(i) == IF i * ChunkSize > TotalSize THEN TotalSize - (i - 1) * ChunkSize ELSE ChunkSize

\* PipelineDepth for a server that pipelines at all.
PipelineDepth == IF MaxMpxCount > DepthCap THEN DepthCap ELSE MaxMpxCount

\* Fault: one request more than the server takes.
maxPipelineOver == IF PipelineDepth >= NumChunks THEN NumChunks ELSE PipelineDepth + 1

maxPipeline == IF PipelineDepth > NumChunks THEN NumChunks ELSE PipelineDepth

VARIABLES
    pc,         \* where the transfer is
    cur,        \* the chunk it deals with, 0 while it sends the initial batch
    sent,       \* nextToSend: how many chunks are out
    taken,      \* the chunks whose channel it has read
    msg,        \* what it read there
    count,      \* totalRead or totalWritten
    err,        \* the error it returns, or would
    gaveUp,     \* it ran out of the drain timeout
    ctxDone,    \* the caller's context has ended
    wire,       \* each chunk's request, as the server and the network see it
    outcome,    \* how the server answered it
    moved,      \* how many bytes the server moved for it
    inbox,      \* what its channel holds
    registered, \* the chunks whose pendingRequest is in conn.pending
    cancelled,  \* the ones marked cancelled there
    down        \* conn.done is closed

flowVars  == <<pc, cur, sent, taken, msg, count, err, gaveUp>>
connVars  == <<inbox, registered, cancelled, down>>
wireVars  == <<wire, outcome, moved>>
pipeVars  == <<flowVars, ctxDone, connVars, wireVars>>

Answers == {"data", "eof", "error", "bad"}

PipeTypeOK ==
    /\ pc \in {"send", "writing", "writeFailed", "sendFailed", "fed", "await", "took",
               "collect", "collected", "abandon", "returned"}
    /\ cur \in 0 .. NumChunks
    /\ sent \in 0 .. NumChunks
    /\ taken \subseteq Chunks
    /\ msg \in Answers \cup {"none", "down"}
    /\ count \in 0 .. TotalSize
    /\ err \in {"none", "ctx", "send", "conn", "eof", "failed", "short"}
    /\ gaveUp \in BOOLEAN
    /\ ctxDone \in BOOLEAN
    /\ wire \in [Chunks -> {"unsent", "pending", "served", "delivered"}]
    /\ outcome \in [Chunks -> Answers \cup {"none"}]
    /\ moved \in [Chunks -> 0 .. ChunkSize]
    /\ inbox \in [Chunks -> {"empty", "reply", "down"}]
    /\ registered \subseteq Chunks
    /\ cancelled \subseteq Chunks
    /\ down \in BOOLEAN

PipeInit ==
    /\ pc = "send"
    /\ cur = 0
    /\ sent = 0
    /\ taken = {}
    /\ msg = "none"
    /\ count = 0
    /\ err = "none"
    /\ gaveUp = FALSE
    /\ ctxDone = FALSE
    /\ wire = [i \in Chunks |-> "unsent"]
    /\ outcome = [i \in Chunks |-> "none"]
    /\ moved = [i \in Chunks |-> 0]
    /\ inbox = [i \in Chunks |-> "empty"]
    /\ registered = {}
    /\ cancelled = {}
    /\ down = FALSE

-----------------------------------------------------------------------------
(* The connection and the server.                                          *)

\* setErrorLocked or Close: every waiter is woken and the map emptied.
TearDown ==
    IF down THEN UNCHANGED <<down, inbox, registered>>
    ELSE /\ down' = TRUE
         /\ inbox' = [i \in Chunks |-> IF i \in registered /\ inbox[i] = "empty"
                                       THEN "down" ELSE inbox[i]]
         /\ registered' = {}

\* Somebody else's failure, or Close.
ConnDown ==
    /\ ~down
    /\ TearDown
    /\ UNCHANGED <<flowVars, ctxDone, cancelled, wireVars>>

EndContext ==
    /\ ~ctxDone
    /\ ctxDone' = TRUE
    /\ UNCHANGED <<flowVars, connVars, wireVars>>

\* The server serves a request, whichever it likes first, and answers: it
\* moved n bytes, or it failed, or its answer cannot be decoded.
Serve(i, answer, n) ==
    /\ wire[i] = "pending"
    /\ n <= Size(i)
    /\ n > 0 => answer \in {"data", "bad"}
    /\ wire' = [wire EXCEPT ![i] = "served"]
    /\ outcome' = [outcome EXCEPT ![i] = answer]
    /\ moved' = [moved EXCEPT ![i] = n]
    /\ UNCHANGED <<flowVars, ctxDone, connVars>>

\* Fault: Receive frees the MID of every reply it dispatches.
DeliverFreesMID(i) ==
    /\ wire[i] = "served"
    /\ wire' = [wire EXCEPT ![i] = "delivered"]
    /\ inbox' = IF i \in registered \ cancelled /\ inbox[i] = "empty"
                THEN [inbox EXCEPT ![i] = "reply"] ELSE inbox
    /\ registered' = registered \ {i}
    /\ UNCHANGED <<flowVars, ctxDone, cancelled, down, outcome, moved>>

\* Receive dispatches a reply; what nobody is registered for it drops.
Deliver(i) ==
    /\ wire[i] = "served"
    /\ wire' = [wire EXCEPT ![i] = "delivered"]
    /\ inbox' = IF i \in registered \ cancelled /\ inbox[i] = "empty"
                THEN [inbox EXCEPT ![i] = "reply"] ELSE inbox
    /\ registered' = registered \ (cancelled \cap {i})
    /\ UNCHANGED <<flowVars, ctxDone, cancelled, down, outcome, moved>>

Environment ==
    \/ ConnDown
    \/ EndContext
    \/ \E i \in Chunks, answer \in Answers, n \in 0 .. ChunkSize : Serve(i, answer, n)
    \/ \E i \in Chunks : Deliver(i)

-----------------------------------------------------------------------------
(* sendReadRequest and sendWriteRequest, for chunk sent + 1.               *)

SendRegister ==
    /\ pc = "send"
    /\ ~down
    /\ registered' = registered \cup {sent + 1}
    /\ pc' = "writing"
    /\ UNCHANGED <<cur, sent, taken, msg, count, err, gaveUp, ctxDone, inbox, cancelled, down, wireVars>>

\* The request cannot be encoded, or the connection is down.
SendRefused ==
    /\ pc = "send"
    /\ pc' = "sendFailed"
    /\ UNCHANGED <<cur, sent, taken, msg, count, err, gaveUp, ctxDone, connVars, wireVars>>

\* allocateMID finds no free MID and tears the connection down.
SendExhausted ==
    /\ pc = "send"
    /\ ~down
    /\ TearDown
    /\ pc' = "sendFailed"
    /\ UNCHANGED <<cur, sent, taken, msg, count, err, gaveUp, ctxDone, cancelled, wireVars>>

SendWritten ==
    /\ pc = "writing"
    /\ wire' = [wire EXCEPT ![sent + 1] = "pending"]
    /\ sent' = sent + 1
    /\ pc' = "fed"
    /\ UNCHANGED <<cur, taken, msg, count, err, gaveUp, ctxDone, connVars, outcome, moved>>

\* The context had ended before the write began (ErrNotSent) or the packet
\* cannot be encoded.
SendNotSent ==
    /\ pc = "writing"
    /\ registered' = registered \ {sent + 1}
    /\ pc' = "sendFailed"
    /\ UNCHANGED <<cur, sent, taken, msg, count, err, gaveUp, ctxDone, inbox, cancelled, down, wireVars>>

\* The write fails: the entry is deleted here, setError comes after it.
SendWriteFails ==
    /\ pc = "writing"
    /\ registered' = registered \ {sent + 1}
    /\ pc' = "writeFailed"
    /\ UNCHANGED <<cur, sent, taken, msg, count, err, gaveUp, ctxDone, inbox, cancelled, down, wireVars>>

SendWriteFailed ==
    /\ pc = "writeFailed"
    /\ TearDown
    /\ pc' = "sendFailed"
    /\ UNCHANGED <<cur, sent, taken, msg, count, err, gaveUp, ctxDone, cancelled, wireVars>>

SendRequest ==
    \/ SendRegister \/ SendRefused \/ SendExhausted
    \/ SendWritten \/ SendNotSent \/ SendWriteFails \/ SendWriteFailed

-----------------------------------------------------------------------------
(* Waiting for one chunk, and settling the rest.                           *)

\* A select takes the channel's case.
TakeReply ==
    /\ pc = "await"
    /\ inbox[cur] # "empty"
    /\ msg' = IF inbox[cur] = "down" THEN "down" ELSE outcome[cur]
    /\ inbox' = [inbox EXCEPT ![cur] = "empty"]
    /\ taken' = taken \cup {cur}
    /\ pc' = "took"
    /\ UNCHANGED <<cur, sent, count, err, gaveUp, ctxDone, registered, cancelled, down, wireVars>>

\* delete(conn.pending, chunk.mid)
DeleteMID == registered' = registered \ {cur}

\* Fault: the slice begins one chunk too late.
SettleFromLate(first) ==
    /\ cur' = IF first + 1 > sent THEN cur ELSE first + 1
    /\ pc' = IF first + 1 > sent THEN "returned" ELSE "collect"

\* collectReplies of the chunks from first on.
SettleFrom(first) ==
    /\ cur' = IF first > sent THEN cur ELSE first
    /\ pc' = IF first > sent THEN "returned" ELSE "collect"

CollectTake ==
    /\ pc = "collect"
    /\ inbox[cur] # "empty"
    /\ inbox' = [inbox EXCEPT ![cur] = "empty"]
    /\ taken' = taken \cup {cur}
    /\ pc' = "collected"
    /\ UNCHANGED <<cur, sent, msg, count, err, gaveUp, ctxDone, registered, cancelled, down, wireVars>>

CollectDelete ==
    /\ pc = "collected"
    /\ DeleteMID
    /\ SettleFrom(cur + 1)
    /\ UNCHANGED <<sent, taken, msg, count, err, gaveUp, ctxDone, inbox, cancelled, down, wireVars>>

\* Fault: collectReplies waits without a deadline.
CollectTimeoutMissing ==
    /\ pc = "collect"
    /\ down
    /\ gaveUp' = TRUE
    /\ pc' = "abandon"
    /\ UNCHANGED <<cur, sent, taken, msg, count, err, ctxDone, connVars, wireVars>>

CollectTimeout ==
    /\ pc = "collect"
    /\ gaveUp' = TRUE
    /\ pc' = "abandon"
    /\ UNCHANGED <<cur, sent, taken, msg, count, err, ctxDone, connVars, wireVars>>

CollectDone ==
    /\ pc = "collect"
    /\ down
    /\ pc' = "returned"
    /\ UNCHANGED <<cur, sent, taken, msg, count, err, gaveUp, ctxDone, connVars, wireVars>>

\* Fault: the chunk that was being waited for is left out.
AbandonChunksFromNext ==
    /\ pc = "abandon"
    /\ LET left == registered \cap ((cur + 1) .. sent)
           silent == {i \in left : inbox[i] = "empty"}
       IN  /\ registered' = registered \ (left \ silent)
           /\ cancelled' = cancelled \cup silent
    /\ pc' = "returned"
    /\ UNCHANGED <<cur, sent, taken, msg, count, err, gaveUp, ctxDone, inbox, down, wireVars>>

\* releaseLocked for every chunk from cur on: one that has its reply frees its
\* MID, one that has not keeps it until the reply comes.
AbandonChunks ==
    /\ pc = "abandon"
    /\ LET left == registered \cap (cur .. sent)
           silent == {i \in left : inbox[i] = "empty"}
       IN  /\ registered' = registered \ (left \ silent)
           /\ cancelled' = cancelled \cup silent
    /\ pc' = "returned"
    /\ UNCHANGED <<cur, sent, taken, msg, count, err, gaveUp, ctxDone, inbox, down, wireVars>>

Settle == CollectTake \/ CollectDelete \/ CollectTimeout \/ CollectDone \/ AbandonChunks

\* Wait for the next chunk of the loop, unless none is out.
Advance ==
    /\ cur' = IF cur = sent THEN cur ELSE cur + 1
    /\ pc' = IF cur = sent THEN "returned" ELSE "await"

\* The loop of the initial batch, then the main loop.
Fed ==
    /\ pc = "fed"
    /\ IF cur = 0 /\ sent < maxPipeline
       THEN pc' = "send" /\ UNCHANGED cur
       ELSE Advance
    /\ UNCHANGED <<sent, taken, msg, count, err, gaveUp, ctxDone, connVars, wireVars>>

-----------------------------------------------------------------------------
(* Properties of both transfers.                                           *)

\* How many bytes from the start the server has moved without a gap.
Prefix ==
    IF \A i \in Chunks : moved[i] = Size(i) THEN TotalSize
    ELSE LET gap == CHOOSE i \in Chunks :
                       /\ moved[i] < Size(i)
                       /\ \A j \in 1 .. (i - 1) : moved[j] = Size(j)
         IN  (gap - 1) * ChunkSize + moved[gap]

Outstanding == {i \in Chunks : wire[i] # "unsent" /\ i \notin taken}

\* Never more requests are in flight than the server said it takes, and a
\* transfer that returns on a live connection, and has not waited out the drain
\* timeout, has none left on the server: a CLOSE that follows cannot overtake
\* one (PipelineDepth, the send after each reply, collectReplies, awaitChunk).
SettledOnReturn ==
    /\ Cardinality(Outstanding) <= PipelineDepth
    /\ (pc = "returned" /\ ~down /\ ~gaveUp) => Outstanding = {}

\* The delete by MID, which does not ask whose entry it is, only ever finds the
\* transfer's own, because nobody else has freed the MID meanwhile; and what a
\* transfer leaves in the pending map are requests it marked cancelled and
\* whose reply has not come, so that no MID is held for good (readPipelined,
\* writePipelined, collectReplies, abandonChunks, releaseLocked).
EntriesOwned ==
    /\ (pc \in {"took", "collected"} /\ ~down) => cur \in registered
    /\ (pc = "writing" /\ ~down) => sent + 1 \in registered
    /\ pc = "returned" =>
          \A i \in registered : i \in cancelled /\ i \notin taken /\ wire[i] # "delivered"

\* A transfer whose caller gives up, or whose connection breaks, returns
\* although the server never answers, unless it is held for good in the write
\* of a chunk by a peer that does not read (awaitChunk, collectReplies,
\* sendRequest).
EndsWhenCancelled == (ctxDone \/ down) ~> (pc = "returned" \/ [](pc = "writing"))
=============================================================================
