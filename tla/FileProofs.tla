----------------------------- MODULE FileProofs -----------------------------
(***************************************************************************)
(* Proofs about File for any number of callers, any chunk sizes, buffers,  *)
(* offsets and bounds.  FileIInv says of every caller what the request it  *)
(* waits for is for and how what it counts, what its buffer holds and what *)
(* the server wrote for it hang together; no caller's step can disturb     *)
(* that of another, and what they share is the position.                   *)
(***************************************************************************)
EXTENDS File, TLAPS

Labels == {"returned", "transfer", "await", "settle", "advance", "stat", "seekEnd", "seekReset",
           "truncate", "close"}
Failures == {"none", "eof", "ctx", "conn", "server", "short", "negative"}
Reads == {"read", "readAt"}
Waiting == {"await", "settle"}

FileTypeOK ==
    /\ size \in Nat /\ offset \in Int /\ base \in Int /\ advanced \in Int
    /\ pc \in [Callers -> Labels]
    /\ call \in [Callers -> [op : Transfers \cup {"none", "seek", "truncate", "close"}, start : Int, len : Nat]]
    /\ n \in [Callers -> Nat]
    /\ DOMAIN buf = Callers
    /\ err \in [Callers -> Failures]
    /\ req \in [Callers -> [state : {"none", "sent", "served"}, at : Int, len : Nat,
                            status : {"none", "ok", "eof", "error"}, got : Nat]]
    /\ late \subseteq [from : Callers, op : Transfers, at : Int, len : Nat]
    /\ applied \in [Callers -> Nat]

\* Where a caller is tells what it called.
InCall(c) ==
    /\ pc[c] \in {"transfer"} \cup Waiting => call[c].op \in Transfers
    /\ pc[c] = "advance" => call[c].op \in {"read", "write"}
    /\ pc[c] \in {"stat", "seekEnd", "seekReset"} => call[c].op = "seek"
    /\ pc[c] = "truncate" => call[c].op = "truncate" /\ call[c].start \in Nat
    /\ pc[c] = "close" => call[c].op = "close"

\* The request a caller waits for begins where its count ends and lies within
\* what it was called for; the reply brings no more, and to a read not nothing.
Requested(c) ==
    pc[c] \in Waiting =>
        /\ req[c].state \in {"sent", "served"}
        /\ req[c].at = call[c].start + n[c]
        /\ n[c] + req[c].len <= call[c].len
        /\ req[c].state = "served" =>
              /\ req[c].got <= req[c].len
              /\ req[c].status # "ok" => req[c].got = 0
              /\ req[c].status = "ok" /\ call[c].op \in Reads => req[c].got > 0

\* It counts no more than it was called for, and its buffer holds what it counts.
Contents(c) ==
    /\ call[c].op \in Transfers => n[c] <= call[c].len /\ call[c].len > 0
    /\ call[c].op \in Reads => buf[c] = [i \in 1 .. n[c] |-> call[c].start + i - 1]

\* A transfer that ends without an error has done what it says.
Ends(c) ==
    pc[c] \in {"advance", "returned"} /\ err[c] = "none" =>
        /\ call[c].op \in {"readAt", "write"} => n[c] = call[c].len
        /\ call[c].op = "read" => n[c] > 0

\* What the server wrote for a Write and the Write has not counted is in the
\* reply it is about to take.
Applied(c) ==
    call[c].op = "write" /\ c \notin lapsed \cup gaveUp =>
        /\ pc[c] # "settle"
        /\ applied[c] = n[c] + (IF pc[c] = "await" /\ req[c].state = "served" THEN req[c].got ELSE 0)

\* Only a caller that has given up leaves a request behind.
Behind(c) ==
    c \notin gaveUp =>
        /\ \A r \in late : r.from # c
        /\ pc[c] \notin Waiting => req[c].state # "sent"

CallerOK(c) == InCall(c) /\ Requested(c) /\ Contents(c) /\ Ends(c) /\ Applied(c) /\ Behind(c)

FileIInv ==
    /\ FileTypeOK
    /\ PositionAddsUp
    /\ \A c \in Callers : CallerOK(c)
-----------------------------------------------------------------------------
(* The model's operators.                                                  *)

\* Min and Max of two numbers.
LEMMA MinMaxPair ==
  ASSUME NEW a \in Int, NEW b \in Int
  PROVE  /\ Min({a, b}) \in {a, b} /\ Min({a, b}) <= a /\ Min({a, b}) <= b
         /\ Max({a, b}) \in {a, b} /\ Max({a, b}) >= a /\ Max({a, b}) >= b
<1>1. \E x \in {a, b} : \A y \in {a, b} : x <= y OBVIOUS
<1>2. Min({a, b}) \in {a, b} /\ \A y \in {a, b} : Min({a, b}) <= y BY <1>1 DEF Min
<1>3. \E x \in {a, b} : \A y \in {a, b} : x >= y OBVIOUS
<1>4. Max({a, b}) \in {a, b} /\ \A y \in {a, b} : Max({a, b}) >= y BY <1>3 DEF Max
<1>5. QED BY <1>2, <1>4

\* The next request of a transfer is for no more than what is left.
LEMMA NextLenFits ==
  ASSUME FileTypeOK, NEW c \in Callers, n[c] < call[c].len
  PROVE  NextLen(c) \in Nat /\ n[c] + NextLen(c) <= call[c].len
<1> DEFINE left == call[c].len - n[c]
<1>1. n[c] \in Nat /\ call[c].len \in Nat BY DEF FileTypeOK
<1>2. left \in Nat BY <1>1
<1>3. n[c] % ReadChunk \in 0 .. ReadChunk - 1 BY <1>1, FileAssumption
<1>4. ReadChunk \in Nat /\ WriteChunk \in Nat /\ ReadChunk - (n[c] % ReadChunk) \in Nat
  BY <1>3, FileAssumption
<1>5. NextLen(c) \in {Min({left, ReadChunk - (n[c] % ReadChunk)}), Min({left, ReadChunk}), Min({left, WriteChunk})}
  BY DEF NextLen
<1> HIDE DEF left
<1>6. NextLen(c) \in Nat /\ NextLen(c) <= left
  <2>1. ASSUME NEW b \in Nat PROVE Min({left, b}) \in Nat /\ Min({left, b}) <= left
    <3>1. left \in Int /\ b \in Int BY <1>2
    <3>2. Min({left, b}) \in {left, b} /\ Min({left, b}) <= left BY <3>1, MinMaxPair, Zenon
    <3>3. QED BY <1>2, <3>2
  <2>2. QED BY <1>4, <1>5, <2>1
<1>7. QED BY <1>1, <1>6 DEF left

\* What a server answers with.
LEMMA OutcomeFacts ==
  ASSUME size \in Nat, NEW op, NEW at \in Int, NEW len \in Nat, NEW o \in Outcomes(op, at, len)
  PROVE  /\ o.status \in {"ok", "eof", "error"} /\ o.got \in Nat /\ o.got <= len
         /\ o.status # "ok" => o.got = 0
         /\ o.status = "ok" /\ op \in Reads => o.got > 0
         /\ o.got > 0 => at >= 0
<1>1. CASE o = [status |-> "error", got |-> 0] BY <1>1
<1>2. CASE op \in Reads /\ at \in 0 .. size - 1
  <2>1. o = [status |-> "error", got |-> 0] \/
        o \in {[status |-> "ok", got |-> k] : k \in 1 .. Min({len, size - at})}
    BY <1>2 DEF Outcomes, Reads
  <2>2. SUFFICES ASSUME NEW k \in 1 .. Min({len, size - at}), o = [status |-> "ok", got |-> k]
                 PROVE  k \in Nat /\ k <= len /\ k > 0 /\ at >= 0
    BY <1>1, <2>1
  <2>3. size - at \in Int /\ at >= 0 BY <1>2
  <2>4. Min({len, size - at}) \in Int /\ Min({len, size - at}) <= len
    <3>1. len \in Int OBVIOUS
    <3>2. Min({len, size - at}) \in {len, size - at} /\ Min({len, size - at}) <= len
      BY <2>3, <3>1, MinMaxPair, Zenon
    <3>3. QED BY <2>3, <3>1, <3>2
  <2>5. QED BY <2>2, <2>3, <2>4
<1>3. CASE op \in Reads /\ at \notin 0 .. size - 1
  BY <1>3 DEF Outcomes, Reads
<1>4. CASE op \notin Reads
  BY <1>4 DEF Outcomes, Reads
<1>5. QED BY <1>2, <1>3, <1>4

\* A read goes on in the buffer where it goes on in the file.
LEMMA Joined ==
  ASSUME NEW s \in Int, NEW m \in Nat, NEW g \in Nat
  PROVE  [i \in 1 .. m |-> s + i - 1] \o [i \in 1 .. g |-> s + m + i - 1] = [i \in 1 .. m + g |-> s + i - 1]
OBVIOUS

\* The types of one caller's state.
LEMMA CallerTypes ==
  ASSUME FileTypeOK, NEW c \in Callers
  PROVE  /\ pc[c] \in Labels /\ n[c] \in Nat /\ err[c] \in Failures /\ applied[c] \in Nat
         /\ call[c].start \in Int /\ call[c].len \in Nat
         /\ call[c].op \in Transfers \cup {"none", "seek", "truncate", "close"}
         /\ req[c].state \in {"none", "sent", "served"} /\ req[c].at \in Int /\ req[c].len \in Nat
         /\ req[c].status \in {"none", "ok", "eof", "error"} /\ req[c].got \in Nat
BY DEF FileTypeOK

-----------------------------------------------------------------------------
(* One caller's step leaves the others as they are.                        *)

OnlyMoves(c) ==
    /\ \A d \in Callers : d # c =>
          /\ pc'[d] = pc[d] /\ call'[d] = call[d] /\ n'[d] = n[d] /\ buf'[d] = buf[d]
          /\ err'[d] = err[d] /\ req'[d] = req[d] /\ applied'[d] = applied[d]
          /\ d \in lapsed' <=> d \in lapsed
          /\ d \in gaveUp' <=> d \in gaveUp
    /\ \A r \in late' : r \in late \/ r.from = c

\* So what holds of them goes on to hold.
LEMMA OthersOK ==
  ASSUME NEW c \in Callers, OnlyMoves(c), NEW d \in Callers, d # c, CallerOK(d)
  PROVE  CallerOK(d)'
<1>1. /\ pc'[d] = pc[d] /\ call'[d] = call[d] /\ n'[d] = n[d] /\ buf'[d] = buf[d]
      /\ err'[d] = err[d] /\ req'[d] = req[d] /\ applied'[d] = applied[d]
      /\ d \in lapsed' <=> d \in lapsed
      /\ d \in gaveUp' <=> d \in gaveUp
      /\ \A r \in late' : r.from = d => r \in late
  BY DEF OnlyMoves
<1>2. InCall(d)' BY <1>1 DEF CallerOK, InCall
<1>3. Requested(d)' BY <1>1 DEF CallerOK, Requested
<1>4. Contents(d)' BY <1>1 DEF CallerOK, Contents
<1>5. Ends(d)' BY <1>1 DEF CallerOK, Ends
<1>6. Applied(d)' BY <1>1 DEF CallerOK, Applied
<1>7. Behind(d)' BY <1>1 DEF CallerOK, Behind
<1>8. QED BY <1>2, <1>3, <1>4, <1>5, <1>6, <1>7 DEF CallerOK
\* What the lemmas below show of a step of c.
Kept(c) == FileTypeOK' /\ OnlyMoves(c) /\ CallerOK(c)'

\* A call begins with nothing counted, nothing asked for and nothing written.
LEMMA BeginKept ==
  ASSUME FileTypeOK, NEW c \in Callers, CallerOK(c),
         NEW op \in Transfers \cup {"seek", "truncate", "close"}, NEW start \in Int, NEW len \in Nat,
         NEW l \in Labels, Begin(c, op, start, len), Goto(c, l),
         offset' \in Int, base' \in Int, advanced' \in Int,
         \/ l = "transfer" /\ op \in Transfers /\ len > 0
         \/ l \in {"returned", "stat", "seekReset"} /\ op = "seek"
         \/ l = "truncate" /\ op = "truncate" /\ start \in Nat
         \/ l = "close" /\ op = "close"
  PROVE  Kept(c)
<1>1. /\ pc'[c] = l /\ call'[c] = [op |-> op, start |-> start, len |-> len] /\ n'[c] = 0 /\ buf'[c] = <<>>
      /\ err'[c] = "none" /\ req'[c] = NoReq /\ applied'[c] = 0
      /\ c \notin lapsed' /\ UNCHANGED <<size, late, gaveUp>>
  BY DEF Begin, Goto, FileTypeOK
<1>2. FileTypeOK'
  <2>1. NoReq \in [state : {"none", "sent", "served"}, at : Int, len : Nat,
                   status : {"none", "ok", "eof", "error"}, got : Nat]
    BY DEF NoReq
  <2>2. pc' \in [Callers -> Labels] /\ n' \in [Callers -> Nat] /\ DOMAIN buf' = Callers
        /\ err' \in [Callers -> Failures] /\ applied' \in [Callers -> Nat]
    BY DEF Begin, Goto, FileTypeOK, Failures
  <2>3. call' \in [Callers -> [op : Transfers \cup {"none", "seek", "truncate", "close"}, start : Int, len : Nat]]
    BY DEF Begin, FileTypeOK
  <2>4. req' \in [Callers -> [state : {"none", "sent", "served"}, at : Int, len : Nat,
                             status : {"none", "ok", "eof", "error"}, got : Nat]]
    BY <2>1 DEF Begin, FileTypeOK
  <2>5. QED BY <1>1, <2>2, <2>3, <2>4 DEF FileTypeOK
<1>3. OnlyMoves(c) BY <1>1 DEF OnlyMoves, Begin, Goto, FileTypeOK
<1>4. InCall(c)' BY <1>1 DEF InCall, Transfers, Waiting
<1>5. Requested(c)' BY <1>1 DEF Requested, Transfers, Waiting
<1>6. Contents(c)'
  <2>1. buf'[c] = [i \in 1 .. n'[c] |-> call'[c].start + i - 1] BY <1>1
  <2>2. QED BY <1>1, <2>1 DEF Contents, Transfers
<1>7. Ends(c)' BY <1>1 DEF Ends, Transfers
<1>8. Applied(c)' BY <1>1 DEF Applied
<1>9. Behind(c)' BY <1>1 DEF Behind, NoReq, CallerOK
<1>10. QED BY <1>2, <1>3, <1>4, <1>5, <1>6, <1>7, <1>8, <1>9 DEF Kept, CallerOK

\* Every call begins like that.
LEMMA CallKept ==
  ASSUME FileTypeOK, NEW c \in Callers, CallerOK(c),
         \/ Read(c) \/ Write(c) \/ ReadAt(c) \/ WriteAt(c) \/ SeekContext(c)
         \/ (\E to \in Starts : TruncateCall(c, to)) \/ CloseCall(c)
  PROVE  Kept(c)
<1>0. offset \in Int /\ base \in Int /\ advanced \in Int BY DEF FileTypeOK
<1>1. ASSUME NEW len \in Lengths, NEW op \in {"read", "write"}, SequentialCall(c, op, len) PROVE Kept(c)
  BY <1>0, <1>1, BeginKept, FileAssumption DEF SequentialCall, posVars, Transfers, Labels
<1>2. ASSUME NEW len \in Lengths, NEW at \in Starts, NEW op \in {"readAt", "writeAt"},
             PositionedCall(c, op, at, len)
      PROVE  Kept(c)
  BY <1>0, <1>2, BeginKept, FileAssumption DEF PositionedCall, posVars, Transfers, Labels
<1>3. ASSUME NEW to \in Starts, TruncateCall(c, to) PROVE Kept(c)
  BY <1>0, <1>3, BeginKept, FileAssumption DEF TruncateCall, posVars, Labels
<1>4. CASE CloseCall(c) BY <1>0, <1>4, BeginKept DEF CloseCall, posVars, Labels
<1>5. ASSUME NEW off \in Seeks, NEW p \in Int, Begin(c, "seek", off, 0), SetPosition(c, p) PROVE Kept(c)
  BY <1>5, BeginKept, FileAssumption DEF SetPosition, Labels
<1>6. ASSUME NEW off \in Seeks, SeekEndCall(c, off) PROVE Kept(c)
  BY <1>0, <1>6, BeginKept, FileAssumption DEF SeekEndCall, posVars, Labels
<1>7. CASE SeekContext(c)
  <2>1. PICK off \in Seeks : SeekStart(c, off) \/ SeekCurrent(c, off) \/ SeekEndCall(c, off)
    BY <1>7 DEF SeekContext
  <2>2. off \in Int /\ offset + off \in Int BY <1>0, FileAssumption
  <2>3. QED BY <1>5, <1>6, <2>1, <2>2 DEF SeekStart, SeekCurrent
<1>8. QED BY <1>1, <1>2, <1>3, <1>4, <1>7 DEF Read, Write, ReadAt, WriteAt

\* A request is sent.
LEMMA SendKept ==
  ASSUME FileTypeOK, NEW c \in Callers, CallerOK(c), Send(c)
  PROVE  Kept(c)
<1> DEFINE q == [state |-> "sent", at |-> NextAt(c), len |-> NextLen(c), status |-> "none", got |-> 0]
<1>1. /\ pc[c] = "transfer" /\ n[c] < call[c].len
      /\ req' = [req EXCEPT ![c] = q] /\ pc' = [pc EXCEPT ![c] = "await"]
      /\ UNCHANGED <<size, offset, base, advanced, call, n, buf, err, late, applied, lapsed, gaveUp>>
  BY DEF Send, Wanting, Goto, posVars, callVars, ctxVars
<1>2. NextLen(c) \in Nat /\ n[c] + NextLen(c) <= call[c].len BY <1>1, NextLenFits
<1>3. NextAt(c) \in Int BY CallerTypes DEF NextAt
<1>4. q \in [state : {"none", "sent", "served"}, at : Int, len : Nat,
             status : {"none", "ok", "eof", "error"}, got : Nat]
  BY <1>2, <1>3
<1>5. q.state = "sent" /\ q.at = NextAt(c) /\ q.len = NextLen(c) OBVIOUS
<1> HIDE DEF q
<1>6. req'[c] = q /\ pc'[c] = "await" BY <1>1 DEF FileTypeOK
<1>7. FileTypeOK' BY <1>1, <1>4 DEF FileTypeOK, Labels
<1>8. OnlyMoves(c) BY <1>1 DEF OnlyMoves, FileTypeOK
<1>9. InCall(c)' BY <1>1, <1>6 DEF CallerOK, InCall, Waiting
<1>10. Requested(c)' BY <1>1, <1>2, <1>5, <1>6 DEF Requested, NextAt
<1>11. Contents(c)' BY <1>1 DEF CallerOK, Contents
<1>12. Ends(c)' BY <1>6 DEF Ends
<1>13. Applied(c)' BY <1>1, <1>5, <1>6 DEF CallerOK, Applied
<1>14. Behind(c)' BY <1>1, <1>6 DEF CallerOK, Behind, Waiting
<1>15. QED BY <1>7, <1>8, <1>9, <1>10, <1>11, <1>12, <1>13, <1>14 DEF Kept, CallerOK

\* A transfer ends with what it has counted: with an error or with all it was
\* called for, and with nothing left on the wire or as one that has given up.
LEMMA OverKept ==
  ASSUME FileTypeOK, NEW c \in Callers, CallerOK(c), pc[c] \in {"transfer"} \cup Waiting, Over(c),
         size' = size, offset' = offset, base' = base, advanced' = advanced, call' = call, n' = n,
         buf' = buf, applied' = applied, lapsed' = lapsed,
         NEW e \in Failures, err' = [err EXCEPT ![c] = e],
         e = "none" => /\ call[c].op \in {"readAt", "write"} => n[c] = call[c].len
                       /\ call[c].op = "read" => n[c] > 0,
         \/ gaveUp' = gaveUp /\ late' = late /\ req' = req /\ req[c].state # "sent"
         \/ /\ gaveUp' = gaveUp \cup {c}
            /\ late' \subseteq [from : Callers, op : Transfers, at : Int, len : Nat]
            /\ \A r \in late' : r \in late \/ r.from = c
            /\ req' \in {req, [req EXCEPT ![c] = NoReq]},
         call[c].op = "write" /\ c \notin lapsed \cup gaveUp' => pc[c] = "transfer" \/ req[c].got = 0
  PROVE  Kept(c)
<1>1. /\ pc'[c] = IF call[c].op \in {"read", "write"} THEN "advance" ELSE "returned"
      /\ pc' = [pc EXCEPT ![c] = pc'[c]] /\ pc'[c] \in {"advance", "returned"} /\ err'[c] = e
  BY DEF Over, Goto, FileTypeOK
<1>2. FileTypeOK'
  <2>1. NoReq \in [state : {"none", "sent", "served"}, at : Int, len : Nat,
                   status : {"none", "ok", "eof", "error"}, got : Nat]
    BY DEF NoReq
  <2>2. req' \in [Callers -> [state : {"none", "sent", "served"}, at : Int, len : Nat,
                             status : {"none", "ok", "eof", "error"}, got : Nat]]
    BY <2>1 DEF FileTypeOK
  <2>3. pc' \in [Callers -> Labels] BY <1>1 DEF FileTypeOK, Labels
  <2>4. err' \in [Callers -> Failures] BY DEF FileTypeOK
  <2>5. late' \subseteq [from : Callers, op : Transfers, at : Int, len : Nat] BY DEF FileTypeOK
  <2>6. QED BY <2>2, <2>3, <2>4, <2>5 DEF FileTypeOK
<1>3. OnlyMoves(c)
  <2>1. \A d \in Callers : d # c => pc'[d] = pc[d] /\ err'[d] = err[d] /\ req'[d] = req[d]
    BY <1>1 DEF FileTypeOK
  <2>2. QED BY <2>1 DEF OnlyMoves
<1>4. InCall(c)' BY <1>1 DEF InCall, Waiting
<1>5. Requested(c)' BY <1>1 DEF Requested, Waiting
<1>6. Contents(c)' BY DEF CallerOK, Contents
<1>7. Ends(c)' BY <1>1 DEF Ends
<1>8. Applied(c)'
  <2>3. n[c] \in Nat BY CallerTypes
  <2>1. SUFFICES ASSUME call[c].op = "write", c \notin lapsed \cup gaveUp' PROVE applied[c] = n[c]
    BY <1>1, <2>3 DEF Applied
  <2>2. c \notin gaveUp BY <2>1
  <2>4. QED BY <2>1, <2>2, <2>3 DEF CallerOK, Applied
<1>9. Behind(c)' BY <1>1 DEF CallerOK, Behind, Waiting
<1>10. QED BY <1>2, <1>3, <1>4, <1>5, <1>6, <1>7, <1>8, <1>9 DEF Kept, CallerOK
\* The ways a transfer ends before or without a reply that counts.
LEMMA EndKept ==
  ASSUME FileTypeOK, NEW c \in Callers, CallerOK(c),
         NotSent(c) \/ TransferDone(c) \/ Settled(c) \/ SettleTimeout(c) \/ ConnectionGone(c)
  PROVE  Kept(c)
<1>0. err = [err EXCEPT ![c] = err[c]] /\ err[c] \in Failures BY DEF FileTypeOK
<1>1. CASE NotSent(c)
  <2>1. /\ pc[c] = "transfer" /\ Over(c)
        /\ \E e \in {"ctx", "conn"} : err' = [err EXCEPT ![c] = e]
        /\ size' = size /\ offset' = offset /\ base' = base /\ advanced' = advanced /\ call' = call /\ n' = n
        /\ buf' = buf /\ applied' = applied /\ lapsed' = lapsed
        /\ gaveUp' = gaveUp /\ late' = late /\ req' = req
    BY <1>1 DEF NotSent, Fail, posVars, wireVars, ctxVars
  <2>2. gaveUp' = gaveUp \cup {c} \/ req[c].state # "sent"
    BY <2>1 DEF CallerOK, Behind, Waiting
  <2>3. \A r \in late' : r \in late BY <2>1
  <2>4. late' \subseteq [from : Callers, op : Transfers, at : Int, len : Nat] BY <2>1 DEF FileTypeOK
  <2>5. PICK e \in {"ctx", "conn"} : err' = [err EXCEPT ![c] = e] BY <2>1
  <2>6. e \in Failures /\ e # "none" BY DEF Failures
  <2>7. QED BY <2>1, <2>2, <2>3, <2>4, <2>5, <2>6, OverKept
<1>2. CASE TransferDone(c)
  <2>1. /\ pc[c] = "transfer" /\ Over(c) /\ ~ Wanting(c)
        /\ size' = size /\ offset' = offset /\ base' = base /\ advanced' = advanced /\ call' = call /\ n' = n
        /\ buf' = buf /\ applied' = applied /\ lapsed' = lapsed
        /\ gaveUp' = gaveUp /\ late' = late /\ req' = req /\ err' = err
    BY <1>2 DEF TransferDone, posVars, callVars, wireVars, ctxVars
  <2>2. gaveUp' = gaveUp \cup {c} \/ req[c].state # "sent"
    BY <2>1 DEF CallerOK, Behind, Waiting
  <2>3. \A r \in late' : r \in late BY <2>1
  <2>4. late' \subseteq [from : Callers, op : Transfers, at : Int, len : Nat] BY <2>1 DEF FileTypeOK
  <2>5. call[c].op # "writeAt" => ~ n[c] < call[c].len BY <2>1 DEF Wanting
  <2>6. call[c].op \in Transfers /\ n[c] <= call[c].len /\ call[c].len > 0
    BY <2>1 DEF CallerOK, InCall, Contents
  <2>7. n[c] \in Nat /\ call[c].len \in Nat BY CallerTypes
  <2>8. call[c].op # "writeAt" => n[c] = call[c].len /\ n[c] > 0 BY <2>5, <2>6, <2>7
  <2>9. QED BY <1>0, <2>1, <2>2, <2>3, <2>4, <2>8, OverKept
<1>3. CASE Settled(c)
  <2>1. /\ pc[c] = "settle" /\ Over(c) /\ req[c].state = "served" /\ err' = [err EXCEPT ![c] = "ctx"]
        /\ size' = size /\ offset' = offset /\ base' = base /\ advanced' = advanced /\ call' = call /\ n' = n
        /\ buf' = buf /\ applied' = applied /\ lapsed' = lapsed
        /\ gaveUp' = gaveUp /\ late' = late /\ req' = req
    BY <1>3 DEF Settled, Fail, posVars, wireVars, ctxVars
  <2>2. call[c].op = "write" => c \in lapsed \cup gaveUp BY <2>1 DEF CallerOK, Applied
  <2>3. "ctx" \in Failures BY DEF Failures
  <2>4. pc[c] \in {"transfer"} \cup Waiting BY <2>1 DEF Waiting
  <2>5. QED BY <2>1, <2>2, <2>3, <2>4, OverKept
<1>4. CASE SettleTimeout(c)
  <2> DEFINE r == [from |-> c, op |-> call[c].op, at |-> req[c].at, len |-> req[c].len]
  <2>1. /\ pc[c] = "settle" /\ Over(c) /\ err' = [err EXCEPT ![c] = "ctx"]
        /\ size' = size /\ offset' = offset /\ base' = base /\ advanced' = advanced /\ call' = call /\ n' = n
        /\ buf' = buf /\ applied' = applied /\ lapsed' = lapsed
        /\ gaveUp' = gaveUp \cup {c} /\ late' \subseteq late \cup {r} /\ req' = [req EXCEPT ![c] = NoReq]
    BY <1>4 DEF SettleTimeout, Fail, posVars
  <2>2. pc[c] \in {"transfer"} \cup Waiting /\ "ctx" \in Failures BY <2>1 DEF Waiting, Failures
  <2>3. call[c].op \in Transfers BY <2>1 DEF CallerOK, InCall, Waiting
  <2>4. r \in [from : Callers, op : Transfers, at : Int, len : Nat] /\ r.from = c BY <2>3, CallerTypes
  <2> HIDE DEF r
  <2>5. late' \subseteq [from : Callers, op : Transfers, at : Int, len : Nat] BY <2>1, <2>4 DEF FileTypeOK
  <2>6. \A x \in late' : x \in late \/ x.from = c BY <2>1, <2>4
  <2>7. QED BY <2>1, <2>2, <2>5, <2>6, OverKept
<1>5. CASE ConnectionGone(c)
  <2>1. /\ pc[c] \in Waiting /\ Over(c)
        /\ \E e \in {"ctx", "conn"} : err' = [err EXCEPT ![c] = e]
        /\ size' = size /\ offset' = offset /\ base' = base /\ advanced' = advanced /\ call' = call /\ n' = n
        /\ buf' = buf /\ applied' = applied /\ lapsed' = lapsed
        /\ gaveUp' = gaveUp \cup {c} /\ late' = late /\ req' = req
    BY <1>5 DEF ConnectionGone, Fail, posVars, wireVars, Waiting
  <2>2. PICK e \in {"ctx", "conn"} : err' = [err EXCEPT ![c] = e] BY <2>1
  <2>3. e \in Failures /\ e # "none" BY DEF Failures
  <2>4. late' \subseteq [from : Callers, op : Transfers, at : Int, len : Nat] BY <2>1 DEF FileTypeOK
  <2>5. \A x \in late' : x \in late BY <2>1
  <2>6. QED BY <2>1, <2>2, <2>3, <2>4, <2>5, OverKept
<1>6. QED BY <1>1, <1>2, <1>3, <1>4, <1>5

\* What a reply that counts does to the count, the buffer and what was written.
LEMMA CountKept ==
  ASSUME FileTypeOK, NEW c \in Callers, CallerOK(c), TakeReply(c), Count(c), req[c].status = "ok"
  PROVE  /\ n' \in [Callers -> Nat] /\ DOMAIN buf' = Callers
         /\ \A d \in Callers : d # c => n'[d] = n[d] /\ buf'[d] = buf[d]
         /\ n'[c] = n[c] + req[c].got
         /\ Contents(c)'
         /\ call[c].op = "write" /\ c \notin lapsed \cup gaveUp => applied[c] = n'[c]
<1> DEFINE more == [i \in 1 .. req[c].got |-> req[c].at + i - 1]
<1>0. /\ pc[c] = "await" /\ req[c].state = "served" /\ call' = call
  BY DEF TakeReply
<1>1. n[c] \in Nat /\ req[c].got \in Nat /\ req[c].at \in Int /\ call[c].start \in Int /\ call[c].len \in Nat
      /\ req[c].len \in Nat
  BY CallerTypes
<1>2. n' \in [Callers -> Nat] /\ n'[c] = n[c] + req[c].got /\ \A d \in Callers : d # c => n'[d] = n[d]
  BY <1>1 DEF Count, FileTypeOK
<1>4. buf'[c] = IF call[c].op \in Reads THEN buf[c] \o more ELSE buf[c]
  BY DEF Count, FileTypeOK, Reads
<1> HIDE DEF more
<1>6. DOMAIN buf' = Callers /\ \A d \in Callers : d # c => buf'[d] = buf[d]
  BY DEF Count, FileTypeOK
<1>7. /\ req[c].at = call[c].start + n[c] /\ n[c] + req[c].len <= call[c].len /\ req[c].got <= req[c].len
  BY <1>0 DEF CallerOK, Requested, Waiting
<1>8. Contents(c)'
  <2>1. n'[c] <= call[c].len BY <1>1, <1>2, <1>7
  <2>2. ASSUME call[c].op \in Reads
        PROVE  buf'[c] = [i \in 1 .. n'[c] |-> call[c].start + i - 1]
    <3>1. buf[c] = [i \in 1 .. n[c] |-> call[c].start + i - 1] BY <2>2 DEF CallerOK, Contents
    <3>2. more = [i \in 1 .. req[c].got |-> call[c].start + n[c] + i - 1] BY <1>7 DEF more
    <3>3. buf'[c] = [i \in 1 .. n[c] + req[c].got |-> call[c].start + i - 1]
      <4>1. buf'[c] = buf[c] \o more BY <1>4, <2>2
      <4>2. [i \in 1 .. n[c] |-> call[c].start + i - 1] \o
               [i \in 1 .. req[c].got |-> call[c].start + n[c] + i - 1]
            = [i \in 1 .. n[c] + req[c].got |-> call[c].start + i - 1]
        BY <1>1, Joined
      <4>3. QED BY <3>1, <3>2, <4>1, <4>2, Zenon
    <3>4. QED BY <1>2, <3>3
  <2>3. call[c].op \in Transfers => call[c].len > 0 BY DEF CallerOK, Contents
  <2>4. QED BY <1>0, <2>1, <2>2, <2>3 DEF Contents
<1>9. call[c].op = "write" /\ c \notin lapsed \cup gaveUp => applied[c] = n'[c]
  BY <1>0, <1>2 DEF CallerOK, Applied
<1>10. QED BY <1>2, <1>6, <1>8, <1>9
\* A reply is taken: it counts, or it ends the transfer.
LEMMA ReplyKept ==
  ASSUME FileTypeOK, NEW c \in Callers, CallerOK(c), TakeReply(c)
  PROVE  Kept(c)
<1>0. /\ pc[c] = "await" /\ pc[c] \in Waiting /\ req[c].state = "served"
      /\ size' = size /\ offset' = offset /\ base' = base /\ advanced' = advanced /\ call' = call
      /\ applied' = applied /\ lapsed' = lapsed /\ gaveUp' = gaveUp /\ late' = late /\ req' = req
  BY DEF TakeReply, posVars, wireVars, ctxVars, Waiting
<1>1. ASSUME Count(c), req[c].status = "ok",
             \/ pc' = [pc EXCEPT ![c] = "transfer"] /\ err' = err
             \/ pc' = [pc EXCEPT ![c] = "advance"] /\ err' = [err EXCEPT ![c] = "short"] /\ call[c].op = "write"
      PROVE  Kept(c)
  <2>1. /\ n' \in [Callers -> Nat] /\ DOMAIN buf' = Callers
        /\ \A d \in Callers : d # c => n'[d] = n[d] /\ buf'[d] = buf[d]
        /\ n'[c] = n[c] + req[c].got
        /\ Contents(c)'
        /\ call[c].op = "write" /\ c \notin lapsed \cup gaveUp => applied[c] = n'[c]
    BY <1>1, CountKept
  <2>2. /\ pc' \in [Callers -> Labels] /\ err' \in [Callers -> Failures]
        /\ \A d \in Callers : d # c => pc'[d] = pc[d] /\ err'[d] = err[d]
        /\ \/ pc'[c] = "transfer"
           \/ pc'[c] = "advance" /\ err'[c] = "short" /\ call[c].op = "write"
    <3>1. CASE pc' = [pc EXCEPT ![c] = "transfer"] /\ err' = err BY <3>1 DEF FileTypeOK, Labels
    <3>2. CASE /\ pc' = [pc EXCEPT ![c] = "advance"] /\ err' = [err EXCEPT ![c] = "short"]
               /\ call[c].op = "write"
      BY <3>2 DEF FileTypeOK, Labels, Failures
    <3>3. QED BY <1>1, <3>1, <3>2
  <2>3. FileTypeOK' BY <1>0, <2>1, <2>2 DEF FileTypeOK
  <2>4. OnlyMoves(c) BY <1>0, <2>1, <2>2 DEF OnlyMoves
  <2>5. call[c].op \in Transfers BY <1>0 DEF CallerOK, InCall
  <2>6. InCall(c)' BY <1>0, <2>2, <2>5 DEF InCall, Waiting
  <2>7. Requested(c)' BY <2>2 DEF Requested, Waiting
  <2>8. Ends(c)' BY <2>2 DEF Ends
  <2>9. Applied(c)' BY <1>0, <2>1, <2>2 DEF Applied, FileTypeOK
  <2>10. Behind(c)' BY <1>0, <2>2 DEF CallerOK, Behind
  <2>11. QED BY <2>1, <2>3, <2>4, <2>6, <2>7, <2>8, <2>9, <2>10 DEF Kept, CallerOK
<1>2. ASSUME req[c].status # "ok", Over(c), n' = n, buf' = buf, NEW e \in Failures,
             err' = [err EXCEPT ![c] = e], e = "none" => call[c].op = "read" /\ n[c] > 0
      PROVE  Kept(c)
  <2>1. req[c].got = 0 BY <1>0, <1>2 DEF CallerOK, Requested
  <2>2. QED BY <1>0, <1>2, <2>1, OverKept
<1>3. CASE req[c].status = "ok" /\ TakeRead(c) BY <1>1, <1>3 DEF TakeRead, Goto
<1>4. CASE req[c].status = "ok" /\ TakeWrite(c) BY <1>1, <1>4 DEF TakeWrite, Goto, Fail, Over
<1>5. CASE req[c].status = "eof" /\ TakeEOF(c)
  <2>1. err = [err EXCEPT ![c] = err[c]] /\ err[c] \in Failures BY DEF FileTypeOK
  <2>2. "eof" \in Failures BY DEF Failures
  <2>3. CASE call[c].op = "read" /\ n[c] > 0
    <3>1. err' = err BY <1>5, <2>3 DEF TakeEOF
    <3>2. QED BY <1>2, <1>5, <2>1, <2>3, <3>1 DEF TakeEOF
  <2>4. CASE ~ (call[c].op = "read" /\ n[c] > 0) BY <1>2, <1>5, <2>2, <2>4 DEF TakeEOF, Fail
  <2>5. QED BY <2>3, <2>4
<1>6. CASE req[c].status = "error" /\ TakeError(c)
  <2>1. "server" \in Failures BY DEF Failures
  <2>2. QED BY <1>2, <1>6, <2>1 DEF TakeError, Fail
<1>7. QED BY <1>3, <1>4, <1>5, <1>6 DEF TakeReply

\* A Write settles only when its deadline is over.
LEMMA ContextKept ==
  ASSUME FileTypeOK, NEW c \in Callers, CallerOK(c), ContextEnds(c)
  PROVE  Kept(c)
<1>1. /\ pc[c] = "await" /\ pc' = [pc EXCEPT ![c] = "settle"] /\ pc'[c] = "settle"
      /\ call[c].op = "write" => c \in lapsed
      /\ size' = size /\ offset' = offset /\ base' = base /\ advanced' = advanced /\ call' = call /\ n' = n
      /\ buf' = buf /\ err' = err /\ applied' = applied /\ lapsed' = lapsed /\ gaveUp' = gaveUp
      /\ late' = late /\ req' = req
  BY DEF ContextEnds, Goto, Ended, posVars, callVars, wireVars, ctxVars, FileTypeOK
<1>2. FileTypeOK' BY <1>1 DEF FileTypeOK, Labels
<1>3. OnlyMoves(c) BY <1>1 DEF OnlyMoves, FileTypeOK
<1>4. InCall(c)' BY <1>1 DEF CallerOK, InCall, Waiting
<1>5. Requested(c)' BY <1>1 DEF CallerOK, Requested, Waiting
<1>6. Contents(c)' BY <1>1 DEF CallerOK, Contents
<1>7. Ends(c)' BY <1>1 DEF Ends
<1>8. Applied(c)' BY <1>1 DEF Applied
<1>9. Behind(c)' BY <1>1 DEF CallerOK, Behind, Waiting
<1>10. QED BY <1>2, <1>3, <1>4, <1>5, <1>6, <1>7, <1>8, <1>9 DEF Kept, CallerOK

\* Read and Write advance the position and return what they have.
LEMMA AdvanceKept ==
  ASSUME FileTypeOK, NEW c \in Callers, CallerOK(c), Advance(c)
  PROVE  Kept(c)
<1>1. /\ pc[c] = "advance" /\ pc' = [pc EXCEPT ![c] = "returned"] /\ pc'[c] = "returned"
      /\ offset' \in Int /\ advanced' \in Int
      /\ size' = size /\ base' = base /\ call' = call /\ n' = n
      /\ buf' = buf /\ err' = err /\ applied' = applied /\ lapsed' = lapsed /\ gaveUp' = gaveUp
      /\ late' = late /\ req' = req
  BY DEF Advance, Goto, callVars, wireVars, ctxVars, FileTypeOK
<1>2. FileTypeOK' BY <1>1 DEF FileTypeOK, Labels
<1>3. OnlyMoves(c) BY <1>1 DEF OnlyMoves, FileTypeOK
<1>4. InCall(c)' BY <1>1 DEF InCall, Waiting
<1>5. Requested(c)' BY <1>1 DEF Requested, Waiting
<1>6. Contents(c)' BY <1>1 DEF CallerOK, Contents
<1>7. Ends(c)' BY <1>1 DEF CallerOK, Ends
<1>8. Applied(c)' BY <1>1 DEF CallerOK, Applied
<1>9. Behind(c)' BY <1>1 DEF CallerOK, Behind, Waiting
<1>10. QED BY <1>2, <1>3, <1>4, <1>5, <1>6, <1>7, <1>8, <1>9 DEF Kept, CallerOK

\* Seek, Truncate and Close transfer nothing.
LEMMA AsideKept ==
  ASSUME FileTypeOK, NEW c \in Callers, CallerOK(c),
         call[c].op \notin Transfers, pc[c] \notin Waiting,
         NEW l \in {"returned", "seekEnd", "seekReset"}, Goto(c, l), l # "returned" => call[c].op = "seek",
         NEW m \in Nat, n' = [n EXCEPT ![c] = m], NEW e \in Failures, err' = [err EXCEPT ![c] = e],
         size' \in Nat, offset' \in Int, base' \in Int, advanced' \in Int,
         call' = call, buf' = buf, applied' = applied, lapsed' = lapsed, gaveUp' = gaveUp,
         late' = late, req' = req
  PROVE  Kept(c)
<1>1. pc' = [pc EXCEPT ![c] = l] /\ pc'[c] = l BY DEF Goto, FileTypeOK
<1>2. FileTypeOK' BY <1>1 DEF FileTypeOK, Labels
<1>3. OnlyMoves(c) BY <1>1 DEF OnlyMoves, FileTypeOK
<1>4. InCall(c)' BY <1>1 DEF InCall, Waiting
<1>5. Requested(c)' BY <1>1 DEF Requested, Waiting
<1>6. Contents(c)' BY DEF Contents, Transfers, Reads
<1>7. Ends(c)' BY DEF Ends, Transfers
<1>8. Applied(c)' BY DEF Applied, Transfers
<1>9. Behind(c)' BY DEF CallerOK, Behind
<1>10. QED BY <1>2, <1>3, <1>4, <1>5, <1>6, <1>7, <1>8, <1>9 DEF Kept, CallerOK

\* Their steps.
LEMMA OtherKept ==
  ASSUME FileTypeOK, NEW c \in Callers, CallerOK(c),
         \/ SeekEnd(c) \/ SeekReset(c) \/ RequestAbandoned(c)
         \/ Stat(c) \/ Truncate(c) \/ Close(c) \/ RequestRefused(c)
  PROVE  Kept(c)
<1>1. /\ n = [n EXCEPT ![c] = n[c]] /\ n[c] \in Nat /\ err = [err EXCEPT ![c] = err[c]] /\ err[c] \in Failures
      /\ size \in Nat /\ offset \in Int /\ base \in Int /\ advanced \in Int /\ call[c].start \in Int
  BY DEF FileTypeOK
<1>2. /\ call' = call /\ buf' = buf /\ applied' = applied /\ lapsed' = lapsed /\ gaveUp' = gaveUp
      /\ late' = late /\ req' = req
  BY DEF SeekEnd, SeekReset, RequestAbandoned, Stat, Truncate, Close, RequestRefused, callVars, wireVars, ctxVars
<1>3. pc[c] \in {"stat", "seekEnd", "seekReset", "truncate", "close"}
  BY DEF SeekEnd, SeekReset, RequestAbandoned, Stat, Truncate, Close, RequestRefused
<1>4. /\ call[c].op \notin Transfers /\ pc[c] \notin Waiting
      /\ pc[c] \in {"stat", "seekEnd", "seekReset"} => call[c].op = "seek"
      /\ pc[c] = "truncate" => call[c].start \in Nat
  BY <1>3 DEF CallerOK, InCall, Transfers, Waiting
<1>5. {"none", "ctx", "conn", "server", "negative"} \subseteq Failures BY DEF Failures
<1>6. CASE SeekEnd(c)
  <2>1. PICK l \in {"returned", "seekReset"} : Goto(c, l) BY <1>6 DEF SeekEnd, SetPosition
  <2>2. offset' \in Int /\ base' \in Int /\ advanced' \in Int /\ n' = n /\ err' = err /\ size' = size
    BY <1>1, <1>6 DEF SeekEnd, SetPosition, callVars
  <2>3. call[c].op = "seek" BY <1>4, <1>6 DEF SeekEnd
  <2>4. QED BY <1>1, <1>2, <1>4, <2>1, <2>2, <2>3, AsideKept
<1>7. CASE SeekReset(c)
  <2>1. /\ Goto(c, "returned") /\ err' = [err EXCEPT ![c] = "negative"] /\ n' = n
        /\ size' = size /\ offset' \in Int /\ base' \in Int /\ advanced' \in Int
    BY <1>7 DEF SeekReset, Fail
  <2>2. QED BY <1>1, <1>2, <1>4, <1>5, <2>1, AsideKept
<1>8. CASE RequestAbandoned(c)
  <2>1. /\ \E e \in {"ctx", "conn"} : err' = [err EXCEPT ![c] = e]
        /\ size' \in Nat /\ offset' = offset /\ base' = base /\ advanced' = advanced /\ n' = n /\ Goto(c, "returned")
    BY <1>1, <1>4, <1>8 DEF RequestAbandoned, Fail, posVars
  <2>2. QED BY <1>1, <1>2, <1>4, <1>5, <2>1, AsideKept
<1>9. CASE Stat(c)
  <2>1. /\ n' = [n EXCEPT ![c] = size] /\ Goto(c, "seekEnd") /\ err' = err /\ call[c].op = "seek"
        /\ size' = size /\ offset' = offset /\ base' = base /\ advanced' = advanced
    BY <1>4, <1>9 DEF Stat, posVars
  <2>2. QED BY <1>1, <1>2, <1>4, <2>1, AsideKept
<1>10. CASE Truncate(c) \/ Close(c)
  <2>1. /\ Goto(c, "returned") /\ size' \in Nat /\ offset' = offset /\ base' = base /\ advanced' = advanced
        /\ n' = n /\ err' = err
    BY <1>1, <1>4, <1>10 DEF Truncate, Close, posVars, callVars
  <2>2. QED BY <1>1, <1>2, <1>4, <2>1, AsideKept
<1>11. CASE RequestRefused(c)
  <2>1. /\ Goto(c, "returned") /\ err' = [err EXCEPT ![c] = "server"] /\ n' = n
        /\ size' = size /\ offset' = offset /\ base' = base /\ advanced' = advanced
    BY <1>11 DEF RequestRefused, Fail, posVars
  <2>2. QED BY <1>1, <1>2, <1>4, <1>5, <2>1, AsideKept
<1>12. QED BY <1>6, <1>7, <1>8, <1>9, <1>10, <1>11

\* The server serves the request c waits for, or one that c has given up.
LEMMA ServeKept ==
  ASSUME FileTypeOK, NEW c \in Callers, CallerOK(c), Serve(c)
  PROVE  Kept(c)
<1>1. /\ req[c].state = "sent"
      /\ offset' = offset /\ base' = base /\ advanced' = advanced /\ call' = call /\ n' = n /\ pc' = pc
      /\ buf' = buf /\ err' = err /\ lapsed' = lapsed /\ gaveUp' = gaveUp /\ late' = late
  BY DEF Serve, posVars, callVars, ctxVars
<1>2. PICK o \in Outcomes(call[c].op, req[c].at, req[c].len) :
        /\ req' = [req EXCEPT ![c].state = "served", ![c].status = o.status, ![c].got = o.got]
        /\ Written(call[c].op, req[c].at, o.got)
        /\ applied' = [applied EXCEPT ![c] = IF call[c].op \in {"write", "writeAt"} THEN @ + o.got ELSE @]
  BY DEF Serve
<1>3. req[c].at \in Int /\ req[c].len \in Nat /\ applied[c] \in Nat /\ n[c] \in Nat /\ size \in Nat
  BY CallerTypes DEF FileTypeOK
<1>4. /\ o.status \in {"ok", "eof", "error"} /\ o.got \in Nat /\ o.got <= req[c].len
      /\ o.status # "ok" => o.got = 0
      /\ o.status = "ok" /\ call[c].op \in Reads => o.got > 0
      /\ o.got > 0 => req[c].at >= 0
  BY <1>2, <1>3, OutcomeFacts
<1>5. /\ req'[c].state = "served" /\ req'[c].at = req[c].at /\ req'[c].len = req[c].len
      /\ req'[c].status = o.status /\ req'[c].got = o.got
      /\ \A d \in Callers : d # c => req'[d] = req[d] /\ applied'[d] = applied[d]
      /\ applied'[c] = IF call[c].op \in {"write", "writeAt"} THEN applied[c] + o.got ELSE applied[c]
  BY <1>2 DEF FileTypeOK
<1>6. FileTypeOK'
  <2>1. size' \in Nat
    <3>1. CASE o.got > 0
      <4>1. req[c].at + o.got \in Nat BY <1>3, <1>4, <3>1
      <4>2. size \in Int /\ req[c].at + o.got \in Int BY <1>3, <4>1
      <4>3. Max({size, req[c].at + o.got}) \in {size, req[c].at + o.got} BY <4>2, MinMaxPair, Zenon
      <4>4. Max({size, req[c].at + o.got}) \in Nat BY <1>3, <4>1, <4>3
      <4>5. QED BY <1>2, <1>3, <4>4 DEF Written
    <3>2. CASE ~ o.got > 0 BY <1>2, <1>3, <3>2 DEF Written
    <3>3. QED BY <3>1, <3>2
  <2>2. req' \in [Callers -> [state : {"none", "sent", "served"}, at : Int, len : Nat,
                             status : {"none", "ok", "eof", "error"}, got : Nat]]
    <3> DEFINE R == [state : {"none", "sent", "served"}, at : Int, len : Nat,
                     status : {"none", "ok", "eof", "error"}, got : Nat]
    <3>1. req \in [Callers -> R] /\ req[c] \in R BY DEF FileTypeOK
    <3>2. [req[c] EXCEPT !.state = "served", !.status = o.status, !.got = o.got] \in R BY <1>4, <3>1
    <3>3. req' = [req EXCEPT ![c] = [req[c] EXCEPT !.state = "served", !.status = o.status, !.got = o.got]]
      BY <1>2, <3>1
    <3> HIDE DEF R
    <3>4. req' \in [Callers -> R] BY <3>1, <3>2, <3>3
    <3>5. QED BY <3>4 DEF R
  <2>3. applied' \in [Callers -> Nat] BY <1>2, <1>3, <1>4 DEF FileTypeOK
  <2>4. QED BY <1>1, <2>1, <2>2, <2>3 DEF FileTypeOK
<1>7. OnlyMoves(c) BY <1>1, <1>5 DEF OnlyMoves
<1>8. InCall(c)' BY <1>1 DEF CallerOK, InCall
<1>9. Requested(c)' BY <1>1, <1>4, <1>5 DEF CallerOK, Requested
<1>10. Contents(c)' BY <1>1 DEF CallerOK, Contents
<1>11. Ends(c)' BY <1>1 DEF CallerOK, Ends
<1>12. Applied(c)'
  <2>1. SUFFICES ASSUME call[c].op = "write", c \notin lapsed \cup gaveUp
                 PROVE  pc[c] = "await" /\ applied'[c] = n[c] + o.got
    BY <1>1, <1>5 DEF Applied
  <2>2. pc[c] \in Waiting /\ pc[c] # "settle" BY <1>1, <2>1 DEF CallerOK, Behind, Applied
  <2>3. applied[c] = n[c] BY <1>1, <1>3, <2>1 DEF CallerOK, Applied
  <2>4. QED BY <1>5, <2>1, <2>2, <2>3 DEF Waiting
<1>13. Behind(c)' BY <1>1, <1>5 DEF CallerOK, Behind
<1>14. QED BY <1>6, <1>7, <1>8, <1>9, <1>10, <1>11, <1>12, <1>13 DEF Kept, CallerOK
-----------------------------------------------------------------------------
(* The invariant.                                                          *)

\* Nobody moves: what nobody waits for is served, time passes, a context or the
\* connection ends.
LEMMA NobodyMoves ==
  ASSUME FileTypeOK, \A c \in Callers : CallerOK(c),
         \/ ServeLate \/ ConnDown \/ UNCHANGED vars
         \/ \E c \in Callers : EndContext(c) \/ Lapse(c)
  PROVE  FileTypeOK' /\ \A c \in Callers : CallerOK(c)'
<1>1. /\ offset' = offset /\ base' = base /\ advanced' = advanced /\ pc' = pc /\ call' = call /\ n' = n
      /\ buf' = buf /\ err' = err /\ req' = req /\ applied' = applied /\ gaveUp' = gaveUp
      /\ lapsed \subseteq lapsed' /\ late' \subseteq late
  BY DEF ServeLate, ConnDown, EndContext, Lapse, vars, posVars, callVars, wireVars, ctxVars
<1>2. size' \in Nat
  <2>1. CASE ServeLate
    <3>1. PICK r \in late : \E o \in Outcomes(r.op, r.at, r.len) : Written(r.op, r.at, o.got)
      BY <2>1 DEF ServeLate
    <3>2. PICK o \in Outcomes(r.op, r.at, r.len) : Written(r.op, r.at, o.got) BY <3>1
    <3>3. r.at \in Int /\ r.len \in Nat /\ size \in Nat BY DEF FileTypeOK
    <3>4. o.got \in Nat /\ (o.got > 0 => r.at >= 0) BY <3>2, <3>3, OutcomeFacts
    <3>5. CASE o.got > 0
      <4>1. r.at + o.got \in Nat BY <3>3, <3>4, <3>5
      <4>2. size \in Int /\ r.at + o.got \in Int BY <3>3, <4>1
      <4>3. Max({size, r.at + o.got}) \in {size, r.at + o.got} BY <4>2, MinMaxPair, Zenon
      <4>4. Max({size, r.at + o.got}) \in Nat BY <3>3, <4>1, <4>3
      <4>5. QED BY <3>2, <3>3, <4>4 DEF Written
    <3>6. CASE ~ o.got > 0 BY <3>2, <3>3, <3>6 DEF Written
    <3>7. QED BY <3>5, <3>6
  <2>2. CASE size' = size BY <2>2 DEF FileTypeOK
  <2>3. QED BY <2>1, <2>2 DEF ConnDown, EndContext, Lapse, vars
<1>3. FileTypeOK' BY <1>1, <1>2 DEF FileTypeOK
<1>4. ASSUME NEW c \in Callers PROVE CallerOK(c)'
  <2>0. CallerOK(c) OBVIOUS
  <2>1. InCall(c)' BY <1>1, <2>0 DEF CallerOK, InCall
  <2>2. Requested(c)' BY <1>1, <2>0 DEF CallerOK, Requested
  <2>3. Contents(c)' BY <1>1, <2>0 DEF CallerOK, Contents
  <2>4. Ends(c)' BY <1>1, <2>0 DEF CallerOK, Ends
  <2>5. Applied(c)' BY <1>1, <2>0 DEF CallerOK, Applied
  <2>6. Behind(c)' BY <1>1, <2>0 DEF CallerOK, Behind
  <2>7. QED BY <2>1, <2>2, <2>3, <2>4, <2>5, <2>6 DEF CallerOK
<1>5. QED BY <1>3, <1>4

\* A step changes the position in one of three ways, or it leaves the position
\* and every Seek that is about to take it back as they are.
LEMMA PositionCases ==
  ASSUME FileTypeOK, Next
  PROVE  \/ /\ offset' = offset /\ base' = base /\ advanced' = advanced
            /\ \A c \in Callers : pc[c] = "seekReset" => pc'[c] = "seekReset"
         \/ \E c \in Callers, p \in Int : SetPosition(c, p)
         \/ \E c \in Callers : SeekReset(c) \/ Advance(c)
<1>1. CASE ServeLate \/ ConnDown BY <1>1 DEF ServeLate, ConnDown, posVars
<1>2. ASSUME NEW c \in Callers, EndContext(c) \/ Lapse(c) \/ Serve(c)
      PROVE  offset' = offset /\ base' = base /\ advanced' = advanced /\ pc' = pc
  BY <1>2 DEF EndContext, Lapse, Serve, posVars
<1>3. ASSUME NEW c \in Callers,
             \/ Read(c) \/ Write(c) \/ ReadAt(c) \/ WriteAt(c)
             \/ (\E off \in Seeks : SeekEndCall(c, off))
             \/ (\E to \in Starts : TruncateCall(c, to)) \/ CloseCall(c)
      PROVE  /\ offset' = offset /\ base' = base /\ advanced' = advanced
             /\ \A d \in Callers : pc[d] = "seekReset" => pc'[d] = "seekReset"
  BY <1>3 DEF Read, Write, ReadAt, WriteAt, SeekEndCall, SequentialCall, PositionedCall, TruncateCall,
              CloseCall, Begin, Goto, posVars, FileTypeOK
<1>4. ASSUME NEW c \in Callers,
             \/ Send(c) \/ NotSent(c) \/ TransferDone(c) \/ TakeReply(c) \/ ContextEnds(c)
             \/ Settled(c) \/ SettleTimeout(c) \/ ConnectionGone(c) \/ RequestAbandoned(c)
             \/ Stat(c) \/ Truncate(c) \/ Close(c) \/ RequestRefused(c)
      PROVE  /\ offset' = offset /\ base' = base /\ advanced' = advanced
             /\ \A d \in Callers : pc[d] = "seekReset" => pc'[d] = "seekReset"
  <2>1. offset' = offset /\ base' = base /\ advanced' = advanced /\ pc[c] # "seekReset"
    BY <1>4 DEF Send, NotSent, TransferDone, TakeReply, ContextEnds, Settled, SettleTimeout, ConnectionGone,
                RequestAbandoned, Stat, Truncate, Close, RequestRefused, posVars
  <2>2. \E l : pc' = [pc EXCEPT ![c] = l]
    BY <1>4 DEF Send, NotSent, TransferDone, TakeReply, TakeRead, TakeWrite, TakeEOF, TakeError, ContextEnds,
                Settled, SettleTimeout, ConnectionGone, RequestAbandoned, Stat, Truncate, Close, RequestRefused,
                Goto, Over
  <2>3. QED BY <2>1, <2>2 DEF FileTypeOK
<1>5. ASSUME NEW c \in Callers, NEW off \in Seeks, SeekStart(c, off) \/ SeekCurrent(c, off)
      PROVE  \E p \in Int : SetPosition(c, p)
  <2>1. off \in Int /\ offset + off \in Int BY FileAssumption DEF FileTypeOK
  <2>2. QED BY <1>5, <2>1 DEF SeekStart, SeekCurrent
<1>6. ASSUME NEW c \in Callers, SeekEnd(c) PROVE \E p \in Int : SetPosition(c, p)
  <2>1. n[c] + call[c].start \in Int BY CallerTypes
  <2>2. QED BY <1>6, <2>1 DEF SeekEnd
<1>7. QED BY <1>1, <1>2, <1>3, <1>4, <1>5, <1>6 DEF Next, Step, Answer, SeekContext

\* So the position adds up, also when transfers and Seeks overlap.
LEMMA PositionStep ==
  ASSUME FileTypeOK, PositionAddsUp, Next
  PROVE  PositionAddsUp'
<1>1. offset \in Int /\ base \in Int /\ advanced \in Int BY DEF FileTypeOK
<1>2. CASE /\ offset' = offset /\ base' = base /\ advanced' = advanced
           /\ \A c \in Callers : pc[c] = "seekReset" => pc'[c] = "seekReset"
  BY <1>2 DEF PositionAddsUp
<1>3. ASSUME NEW c \in Callers, NEW p \in Int, SetPosition(c, p) PROVE PositionAddsUp'
  <2>1. offset' = p /\ base' = p /\ advanced' = 0 /\ (p < 0 => pc'[c] = "seekReset")
    BY <1>3 DEF SetPosition, Goto, FileTypeOK
  <2>2. QED BY <2>1 DEF PositionAddsUp
<1>4. ASSUME NEW c \in Callers, SeekReset(c) PROVE PositionAddsUp'
  BY <1>4 DEF SeekReset, PositionAddsUp
<1>5. ASSUME NEW c \in Callers, Advance(c) PROVE PositionAddsUp'
  <2>1. /\ offset' = offset + n[c] /\ base' = base /\ advanced' = advanced + n[c] /\ n[c] \in Nat
        /\ pc[c] = "advance" /\ \A d \in Callers : d # c => pc'[d] = pc[d]
    BY <1>5, CallerTypes DEF Advance, Goto, FileTypeOK
  <2>2. offset' = base' + advanced' BY <1>1, <2>1 DEF PositionAddsUp
  <2>3. ASSUME offset' < 0 PROVE \E d \in Callers : pc'[d] = "seekReset"
    <3>1. offset < 0 BY <1>1, <2>1, <2>3
    <3>2. PICK d \in Callers : pc[d] = "seekReset" BY <3>1 DEF PositionAddsUp
    <3>3. QED BY <2>1, <3>2
  <2>4. QED BY <2>2, <2>3 DEF PositionAddsUp
<1>6. QED BY <1>2, <1>3, <1>4, <1>5, PositionCases

\* The invariant holds when the file is opened.
LEMMA FileInit == Init => FileIInv
<1> SUFFICES ASSUME Init PROVE FileIInv OBVIOUS
<1>1. FileTypeOK
  <2>1. NoReq \in [state : {"none", "sent", "served"}, at : Int, len : Nat,
                   status : {"none", "ok", "eof", "error"}, got : Nat]
    BY DEF NoReq
  <2>2. NoCall \in [op : Transfers \cup {"none", "seek", "truncate", "close"}, start : Int, len : Nat]
    BY DEF NoCall
  <2>3. size \in Nat BY FileAssumption DEF Init
  <2>4. QED BY <2>1, <2>2, <2>3 DEF Init, FileTypeOK, Labels, Failures
<1>2. PositionAddsUp BY DEF Init, PositionAddsUp
<1>3. ASSUME NEW c \in Callers PROVE CallerOK(c)
  <2>1. pc[c] = "returned" /\ call[c].op = "none" /\ req[c].state = "none" /\ late = {}
    BY DEF Init, NoCall, NoReq
  <2>2. InCall(c) /\ Requested(c) /\ Contents(c) /\ Ends(c) /\ Applied(c) /\ Behind(c)
    BY <2>1 DEF InCall, Requested, Contents, Ends, Applied, Behind, Waiting, Transfers, Reads
  <2>3. QED BY <2>2 DEF CallerOK
<1>4. QED BY <1>1, <1>2, <1>3 DEF FileIInv

\* And every step keeps it.
LEMMA FileNext == FileIInv /\ [Next]_vars => FileIInv'
<1> SUFFICES ASSUME FileIInv, [Next]_vars PROVE FileIInv' OBVIOUS
<1>0. FileTypeOK /\ PositionAddsUp /\ \A c \in Callers : CallerOK(c) BY DEF FileIInv
<1>1. PositionAddsUp'
  <2>1. CASE UNCHANGED vars BY <1>0, <2>1 DEF vars, posVars, PositionAddsUp
  <2>2. CASE Next BY <1>0, <2>2, PositionStep
  <2>3. QED BY <2>1, <2>2
<1>2. ASSUME NEW c \in Callers, Kept(c) PROVE FileTypeOK' /\ \A d \in Callers : CallerOK(d)'
  BY <1>0, <1>2, OthersOK DEF Kept
<1>3. CASE \/ ServeLate \/ ConnDown \/ UNCHANGED vars
           \/ \E c \in Callers : EndContext(c) \/ Lapse(c)
  BY <1>0, <1>1, <1>3, NobodyMoves DEF FileIInv
<1>4. ASSUME NEW c \in Callers,
             \/ Read(c) \/ Write(c) \/ ReadAt(c) \/ WriteAt(c) \/ SeekContext(c)
             \/ (\E to \in Starts : TruncateCall(c, to)) \/ CloseCall(c)
             \/ Step(c) \/ Answer(c)
      PROVE  Kept(c)
  <2>0. CallerOK(c) BY <1>0
  <2>1. CASE Step(c)
    BY <1>0, <2>0, <2>1, SendKept, EndKept, ReplyKept, ContextKept, AdvanceKept, OtherKept DEF Step
  <2>2. CASE Answer(c) BY <1>0, <2>0, <2>2, ServeKept, OtherKept DEF Answer
  <2>3. CASE \/ Read(c) \/ Write(c) \/ ReadAt(c) \/ WriteAt(c) \/ SeekContext(c)
             \/ (\E to \in Starts : TruncateCall(c, to)) \/ CloseCall(c)
    BY <1>0, <2>0, <2>3, CallKept
  <2>4. QED BY <1>4, <2>1, <2>2, <2>3
<1>5. QED BY <1>1, <1>2, <1>3, <1>4 DEF Next, FileIInv

-----------------------------------------------------------------------------
\* Whatever the server answers, whenever contexts, deadlines and the connection
\* end and however the callers overlap, every caller's count, buffer and request
\* fit together as FileIInv says (readAtChunk, writeSequential, sendRecvSettled).
THEOREM FileInvariant == Spec => []FileIInv
<1>1. QED BY FileInit, FileNext, PTL DEF Spec

\* Read and ReadAt return the file from where the call began, without a hole and
\* without a byte twice, for any chunk size and however the server cuts its
\* replies; a short ReadAt and an empty Read say so.
THEOREM ReadsAreContiguous == Spec => []ReadContiguous
<1>1. FileIInv => ReadContiguous
  BY DEF FileIInv, CallerOK, Contents, Ends, Reads, ReadContiguous
<1>2. QED BY <1>1, FileInvariant, PTL

\* A sequential Write reports every byte the server wrote for it, cancelled or
\* not, unless its deadline, a settle timer or the connection cut it off; and one
\* that is short says so.
THEOREM WritesAreTruthful == Spec => []TruthfulWrite
<1>1. FileIInv => TruthfulWrite
  <2> SUFFICES ASSUME FileIInv, NEW c \in Callers, pc[c] = "returned", call[c].op = "write"
               PROVE  /\ c \notin lapsed \cup gaveUp => n[c] = applied[c]
                      /\ err[c] = "none" => n[c] = call[c].len
    BY DEF TruthfulWrite
  <2>1. n[c] \in Nat BY CallerTypes DEF FileIInv
  <2>2. QED BY <2>1 DEF FileIInv, CallerOK, Applied, Ends
<1>2. QED BY <1>1, FileInvariant, PTL

\* A READ or WRITE outlives its call on the server only when a settle timer ran
\* out or the connection went, so that a CLOSE does not meet it there.
THEOREM NothingStaysBehind == Spec => []NothingLeftBehind
<1>1. FileIInv => NothingLeftBehind
  BY DEF FileIInv, CallerOK, Behind, NothingLeftBehind, Waiting
<1>2. QED BY <1>1, FileInvariant, PTL

\* The position is where the last Seek put it plus all that Reads and Writes have
\* reported since, for any number of callers at once, and it is negative only
\* while a Seek is about to take it back.
THEOREM PositionIsKept == Spec => []PositionAddsUp
<1>1. FileIInv => PositionAddsUp BY DEF FileIInv
<1>2. QED BY <1>1, FileInvariant, PTL
=============================================================================
