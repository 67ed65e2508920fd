---------------------------- MODULE PipelinedRead ---------------------------
(***************************************************************************)
(* readPipelined (internal/client/file.go): a large Read sent as chunks,   *)
(* several at a time.  Whatever ends it early, the replies to the chunks   *)
(* already out are collected first.                                        *)
(***************************************************************************)
EXTENDS Pipeline

vars == pipeVars

TypeOK == PipeTypeOK

Init == PipeInit

\* A failed send: of the initial batch, nothing has been read yet; later, the
\* chunks before the one last read are done with.
SendFailed ==
    /\ pc = "sendFailed"
    /\ err' = "send"
    /\ SettleFrom(cur + 1)
    /\ UNCHANGED <<sent, taken, msg, count, gaveUp, ctxDone, connVars, wireVars>>

\* Fault: the chunk being waited for is not collected.
AwaitContextSkips ==
    /\ pc = "await"
    /\ ctxDone
    /\ err' = "ctx"
    /\ SettleFrom(cur + 1)
    /\ UNCHANGED <<sent, taken, msg, count, gaveUp, ctxDone, connVars, wireVars>>

\* The context ends: the current chunk is still in flight too.
AwaitContext ==
    /\ pc = "await"
    /\ ctxDone
    /\ err' = "ctx"
    /\ SettleFrom(cur)
    /\ UNCHANGED <<sent, taken, msg, count, gaveUp, ctxDone, connVars, wireVars>>

AwaitDone ==
    /\ pc = "await"
    /\ down
    /\ err' = "conn"
    /\ pc' = "returned"
    /\ UNCHANGED <<cur, sent, taken, msg, count, gaveUp, ctxDone, connVars, wireVars>>

\* A full chunk: send another one in its place.
HandleFull ==
    /\ pc = "took"
    /\ msg = "data"
    /\ moved[cur] = Size(cur)
    /\ DeleteMID
    /\ count' = count + moved[cur]
    /\ IF sent < NumChunks THEN pc' = "send" /\ UNCHANGED cur ELSE Advance
    /\ UNCHANGED <<sent, taken, msg, err, gaveUp, ctxDone, inbox, cancelled, down, wireVars>>

\* Fault: a short chunk does not end the call.
HandleShortGoesOn ==
    /\ pc = "took"
    /\ msg \in {"data", "eof"}
    /\ moved[cur] < Size(cur)
    /\ DeleteMID
    /\ count' = count + moved[cur]
    /\ err' = IF count' > 0 THEN "none" ELSE "eof"
    /\ Advance
    /\ UNCHANGED <<sent, taken, msg, gaveUp, ctxDone, inbox, cancelled, down, wireVars>>

\* Fault: the end of the file is reported with the data before it.
HandleShortIsEOF ==
    /\ pc = "took"
    /\ msg \in {"data", "eof"}
    /\ moved[cur] < Size(cur)
    /\ DeleteMID
    /\ count' = count + moved[cur]
    /\ err' = "eof"
    /\ SettleFrom(cur + 1)
    /\ UNCHANGED <<sent, taken, msg, gaveUp, ctxDone, inbox, cancelled, down, wireVars>>

\* A short chunk, or the end of the file, ends the call: with the data read so
\* far if there is any, else with io.EOF.
HandleShort ==
    /\ pc = "took"
    /\ msg \in {"data", "eof"}
    /\ moved[cur] < Size(cur)
    /\ DeleteMID
    /\ count' = count + moved[cur]
    /\ err' = IF count' > 0 THEN "none" ELSE "eof"
    /\ SettleFrom(cur + 1)
    /\ UNCHANGED <<sent, taken, msg, gaveUp, ctxDone, inbox, cancelled, down, wireVars>>

HandleFailed ==
    /\ pc = "took"
    /\ msg \in {"error", "bad", "down"}
    /\ DeleteMID
    /\ err' = "failed"
    /\ SettleFrom(cur + 1)
    /\ UNCHANGED <<sent, taken, msg, count, gaveUp, ctxDone, inbox, cancelled, down, wireVars>>

readPipelined ==
    \/ SendRequest \/ Fed \/ TakeReply \/ Settle
    \/ SendFailed
    \/ AwaitContext \/ AwaitDone
    \/ HandleFull \/ HandleShort \/ HandleFailed

-----------------------------------------------------------------------------
\* The bytes a Read reports are those at the start of the buffer, all of them
\* filled in: no chunk is counted behind one that came back short, although the
\* server may serve the chunks in any order.  A Read without an error has read
\* something, and io.EOF comes without data, only when the server said that
\* nothing follows (io.Reader).
ReadHasNoHole ==
    /\ count <= Prefix
    /\ pc = "returned" =>
          /\ err = "none" => count > 0
          /\ err = "eof" => count = 0 /\ outcome[1] \in {"data", "eof"} /\ moved[1] = 0
=============================================================================
