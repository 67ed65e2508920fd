--------------------------- MODULE PipelinedWrite ---------------------------
(***************************************************************************)
(* writePipelined (internal/client/file.go): a large Write sent as chunks, *)
(* several at a time.  When the caller gives up or a send fails it stops   *)
(* feeding the pipeline and drains what is already out, because the server *)
(* applies those chunks whatever the caller does.                          *)
(***************************************************************************)
EXTENDS Pipeline

VARIABLE draining  \* no further chunk will be sent

vars == <<pipeVars, draining>>

TypeOK == PipeTypeOK /\ draining \in BOOLEAN

Init == PipeInit /\ draining = FALSE

\* Fault: the cause is not remembered.
StopFeedingSilently(cause) ==
    /\ draining' = TRUE
    /\ UNCHANGED err

\* stopFeeding; its second call does nothing.
StopFeeding(cause) ==
    /\ draining' = TRUE
    /\ err' = IF draining THEN err ELSE IF ctxDone THEN "ctx" ELSE cause

\* Fault: a send that fails ends the call there and then.
SendFailedReturns ==
    /\ pc = "sendFailed"
    /\ StopFeeding("send")
    /\ pc' = "returned"
    /\ UNCHANGED <<cur, sent, taken, msg, count, gaveUp, ctxDone, connVars, wireVars>>

\* A failed send, of the initial batch too: settle what did go out.
SendFailed ==
    /\ pc = "sendFailed"
    /\ StopFeeding("send")
    /\ Advance
    /\ UNCHANGED <<sent, taken, msg, count, gaveUp, ctxDone, connVars, wireVars>>

\* awaitChunk: the context ends; go on waiting, under the drain timeout.
AwaitContext ==
    /\ pc = "await"
    /\ ~draining
    /\ ctxDone
    /\ StopFeeding("ctx")
    /\ UNCHANGED <<pc, cur, sent, taken, msg, count, gaveUp, ctxDone, connVars, wireVars>>

\* awaitChunk: the drain timeout, reported as what began the drain.
DrainTimeout ==
    /\ pc = "await"
    /\ draining
    /\ gaveUp' = TRUE
    /\ pc' = "abandon"
    /\ UNCHANGED <<cur, sent, taken, msg, count, err, ctxDone, connVars, wireVars, draining>>

AwaitDone ==
    /\ pc = "await"
    /\ down
    /\ err' = "conn"
    /\ pc' = "abandon"
    /\ UNCHANGED <<cur, sent, taken, msg, count, gaveUp, ctxDone, connVars, wireVars, draining>>

\* The whole chunk was written.  Send another one in its place, unless the
\* write is draining or the caller has given up meanwhile.
HandleWritten ==
    /\ pc = "took"
    /\ msg = "data"
    /\ moved[cur] = Size(cur)
    /\ DeleteMID
    /\ count' = count + moved[cur]
    /\ \/ /\ ctxDone
          /\ StopFeeding("ctx")
          /\ Advance
       \/ /\ ~ctxDone
          /\ IF ~draining /\ sent < NumChunks THEN pc' = "send" /\ UNCHANGED cur ELSE Advance
          /\ UNCHANGED <<err, draining>>
    /\ UNCHANGED <<sent, taken, msg, gaveUp, ctxDone, inbox, cancelled, down, wireVars>>

\* Fewer bytes than asked for: io.ErrShortWrite once the rest is settled.
HandleShort ==
    /\ pc = "took"
    /\ msg = "data"
    /\ moved[cur] < Size(cur)
    /\ DeleteMID
    /\ count' = count + moved[cur]
    /\ err' = "short"
    /\ SettleFrom(cur + 1)
    /\ UNCHANGED <<sent, taken, msg, gaveUp, ctxDone, inbox, cancelled, down, wireVars, draining>>

\* An error, an answer that cannot be decoded, or the end of the connection.
HandleFailed ==
    /\ pc = "took"
    /\ msg # "data"
    /\ DeleteMID
    /\ err' = "failed"
    /\ SettleFrom(cur + 1)
    /\ UNCHANGED <<sent, taken, msg, count, gaveUp, ctxDone, inbox, cancelled, down, wireVars, draining>>

writePipelined ==
    \/ (SendRequest \/ Fed \/ TakeReply \/ Settle) /\ UNCHANGED draining
    \/ SendFailed
    \/ AwaitContext \/ DrainTimeout \/ AwaitDone
    \/ HandleWritten \/ HandleShort \/ HandleFailed

-----------------------------------------------------------------------------
\* The count a Write returns is what the file holds: never more than the
\* server applied without a gap, and exactly that on a live connection, unless
\* the drain timeout ran out or an answer made no sense (writeDrainTimeout: the
\* outcomes of the chunks "are what make the returned byte count truthful");
\* and a count below what was asked for comes with an error, by whichever of
\* the many ways out (stopFeeding, awaitChunk).
TruthfulCount ==
    /\ count <= Prefix
    /\ (pc = "returned" /\ ~down /\ ~gaveUp /\ \A i \in Chunks : outcome[i] # "bad")
          => count = Prefix
    /\ (pc = "returned" /\ count < TotalSize) => err # "none"
=============================================================================
