--------------------------- MODULE TransferProofs ---------------------------
(***************************************************************************)
(* Proofs about Transfer for any amount of data, any chunk size and any    *)
(* depth of the pipeline.  TransferIInv is inductive: it says where the    *)
(* transfer stands among its chunks, which of them are in the pending map, *)
(* what the replies say, and how the count follows from the chunks passed. *)
(***************************************************************************)
EXTENDS Transfer, FiniteSetTheorems, WellFoundedInduction, NaturalsInduction, TLAPS

USE PipelineAssumption

\* The labels of the loops, and those behind the last chunk they handle.
Feeding == {"send", "writing", "writeFailed", "sendFailed", "fed"}
Waiting == {"await", "took"}
Settling == {"collect", "collected", "abandon", "returned"}

TransferTypeOK == PipeTypeOK /\ kind \in {"read", "write"} /\ draining \in BOOLEAN

\* The first k chunks have been read, and the window is respected.
Behind(k) == taken = 1 .. k /\ sent <= k + PipelineDepth

\* Where the transfer stands: the chunks are sent and read in order.
Position ==
    /\ cur <= sent
    /\ pc \in {"send", "writing"} => sent < NumChunks /\ sent < cur + PipelineDepth
    /\ pc = "took" => sent < cur + PipelineDepth
    /\ pc = "fed" => cur < sent
    /\ pc \in {"took", "collected"} => cur > 0
    /\ pc \in Feeding \cup {"took", "collected"} => Behind(cur)
    /\ pc \in {"await", "collect", "abandon"} => cur > 0 /\ Behind(cur - 1)
    /\ pc = "returned" => \E k \in 0 .. sent : Behind(k)
    /\ pc = "abandon" => gaveUp \/ down
    /\ (pc = "returned" /\ ~down /\ ~gaveUp) => taken = 1 .. sent
    /\ \A i \in Chunks : wire[i] # "unsent" <=> i <= sent

\* The chunks with an entry in the pending map of a live connection.
Expected ==
    {i \in Chunks : \/ i <= sent /\ i \notin taken
                    \/ pc \in {"took", "collected"} /\ i = cur
                    \/ pc = "writing" /\ i = sent + 1}

\* What the pending map holds, while the transfer runs and after it.
Entries ==
    /\ down => registered = {}
    /\ pc # "returned" => cancelled = {}
    /\ (pc # "returned" /\ ~down) => registered = Expected
    /\ pc # "returned" => \A i \in registered \ taken : wire[i] = "delivered" => inbox[i] # "empty"
    /\ pc = "returned" =>
          \A i \in registered : i \in cancelled /\ i \notin taken /\ wire[i] # "delivered"

\* What the server has done, and what of it has arrived.
Replies ==
    /\ \A i \in Chunks : inbox[i] = "reply" => wire[i] = "delivered"
    /\ \A i \in Chunks : inbox[i] = "down" => down
    /\ \A i \in Chunks : wire[i] \in {"unsent", "pending"} => moved[i] = 0 /\ outcome[i] = "none"
    /\ \A i \in Chunks : wire[i] \in {"served", "delivered"} => outcome[i] \in Answers
    /\ \A i \in Chunks : moved[i] <= Size(i)
    /\ \A i \in Chunks : moved[i] > 0 => outcome[i] \in {"data", "bad"}
    /\ pc = "took" => \/ msg = "down" /\ down
                      \/ msg = outcome[cur] /\ wire[cur] = "delivered"

\* The bytes of the first k chunks.
Covered(k) == IF k = NumChunks THEN TotalSize ELSE k * ChunkSize

\* The server has moved the first k chunks whole.
FullTo(k) == \A j \in 1 .. k : moved[j] = Size(j)

\* The count, while the loops run.
Counting ==
    /\ pc \in Feeding => FullTo(cur) /\ count = Covered(cur)
    /\ pc \in Waiting => FullTo(cur - 1) /\ count = Covered(cur - 1)

\* The server has moved what is counted, without a gap.
Backed == \E k \in Chunks : FullTo(k - 1) /\ count <= Covered(k - 1) + moved[k]

\* The count is all that the server moved without a gap, for good.
Exact ==
    \/ FullTo(NumChunks) /\ count = TotalSize
    \/ \E k \in Chunks : /\ FullTo(k - 1)
                         /\ moved[k] < Size(k)
                         /\ wire[k] # "pending"
                         /\ count = Covered(k - 1) + moved[k]

\* What a Write says in the end.
WriteParts ==
    kind = "write" =>
       /\ draining => err # "none"
       /\ pc \in Settling => /\ err # "none" \/ count = TotalSize
                             /\ down \/ gaveUp \/ (\E i \in Chunks : outcome[i] = "bad") \/ Exact

\* What a Read says in the end.
ReadParts ==
    kind = "read" =>
       /\ pc \notin Settling => err = "none"
       /\ pc \in Settling =>
             /\ err = "none" => count > 0
             /\ err = "eof" => count = 0 /\ outcome[1] \in {"data", "eof"} /\ moved[1] = 0

TransferIInv ==
    /\ TransferTypeOK
    /\ Position
    /\ Entries
    /\ Replies
    /\ Counting
    /\ Backed
    /\ WriteParts
    /\ ReadParts

-----------------------------------------------------------------------------
(* Chunks and their sizes.                                                 *)

\* Division rounds down.
LEMMA DivBounds ==
  ASSUME NEW a \in Nat, NEW b \in Nat \ {0}
  PROVE  a \div b \in Nat /\ b * (a \div b) <= a /\ a < b * (a \div b) + b
OBVIOUS

\* numChunks is the number of chunks that hold totalSize bytes, no fewer and no more.
LEMMA ChunkCount ==
  /\ NumChunks \in Nat \ {0}
  /\ (NumChunks - 1) * ChunkSize < TotalSize
  /\ TotalSize <= NumChunks * ChunkSize
<1> DEFINE a == TotalSize + ChunkSize - 1
           n == a \div ChunkSize
<1>1. a \in Nat OBVIOUS
<1>2. n \in Nat /\ ChunkSize * n <= a /\ a < ChunkSize * n + ChunkSize
  <2> HIDE DEF a
  <2>1. QED BY <1>1, DivBounds
<1>3. NumChunks = n BY DEF NumChunks
<1> HIDE DEF n
<1>4. ChunkSize * n = n * ChunkSize /\ n * ChunkSize \in Nat BY <1>2
<1>5. n # 0 BY <1>1, <1>2
<1>6. (n - 1) * ChunkSize = n * ChunkSize - ChunkSize BY <1>2
<1>7. QED BY <1>2, <1>3, <1>4, <1>5, <1>6

\* A product grows with its factor.
LEMMA Grows ==
  ASSUME NEW a \in Nat, NEW b \in Nat, NEW c \in Nat, a <= b
  PROVE  a * c <= b * c
<1>1. PICK d \in Nat : b = a + d
  <2>1. b - a \in Nat /\ b = a + (b - a) OBVIOUS
  <2>2. QED BY <2>1
<1>2. b * c = a * c + d * c /\ d * c \in Nat /\ a * c \in Nat BY <1>1
<1>3. QED BY <1>2

\* The chunks are as large as ChunkSize but for the last one, which takes what is left.
LEMMA ChunkSizes ==
  ASSUME NEW k \in Chunks
  PROVE  /\ k \in Nat \ {0} /\ k - 1 \in 0 .. NumChunks
         /\ Covered(k - 1) \in Nat /\ Covered(k) \in 0 .. TotalSize
         /\ Size(k) \in 1 .. ChunkSize
         /\ Covered(k) = Covered(k - 1) + Size(k)
         /\ Covered(k - 1) = (k - 1) * ChunkSize
         /\ Covered(k - 1) = 0 <=> k = 1
         /\ Covered(0) = 0 /\ Covered(NumChunks) = TotalSize
<1>1. k \in Nat \ {0} /\ k <= NumChunks /\ NumChunks \in Nat \ {0} BY ChunkCount DEF Chunks
<1>2. Covered(k - 1) = (k - 1) * ChunkSize BY <1>1 DEF Covered
<1>3. k * ChunkSize \in Nat /\ (k - 1) * ChunkSize \in Nat
      /\ k * ChunkSize = (k - 1) * ChunkSize + ChunkSize
  BY <1>1
<1> DEFINE Goal == /\ Covered(k) \in 0 .. TotalSize /\ Size(k) \in 1 .. ChunkSize
                   /\ Covered(k) = (k - 1) * ChunkSize + Size(k)
<1>4. ASSUME k = NumChunks PROVE Goal
  <2>1. Covered(k) = TotalSize BY <1>4 DEF Covered
  <2>2. (k - 1) * ChunkSize < TotalSize /\ TotalSize <= k * ChunkSize BY <1>4, ChunkCount
  <2>3. Size(k) = TotalSize - (k - 1) * ChunkSize BY <1>3, <2>2 DEF Size
  <2>4. QED BY <1>3, <2>1, <2>2, <2>3
<1>5. ASSUME k < NumChunks PROVE Goal
  <2>1. Covered(k) = k * ChunkSize BY <1>1, <1>5 DEF Covered
  <2>2. k * ChunkSize <= (NumChunks - 1) * ChunkSize BY <1>1, <1>5, Grows
  <2>3. (NumChunks - 1) * ChunkSize < TotalSize /\ (NumChunks - 1) * ChunkSize \in Nat
    BY <1>1, ChunkCount
  <2>4. k * ChunkSize < TotalSize BY <1>3, <2>2, <2>3
  <2>5. Size(k) = ChunkSize BY <1>3, <2>4 DEF Size
  <2>6. QED BY <1>3, <2>1, <2>4, <2>5
<1>6. Covered(0) = 0 /\ Covered(NumChunks) = TotalSize BY <1>1 DEF Covered
<1>7. (k - 1) * ChunkSize = 0 <=> k = 1
  <2>1. CASE k = 1 BY <2>1
  <2>2. CASE k # 1
    <3>1. 1 * ChunkSize <= (k - 1) * ChunkSize BY <1>1, <2>2, Grows
    <3>2. QED BY <1>3, <2>2, <3>1
  <2>3. QED BY <2>1, <2>2
<1>8. Goal BY <1>1, <1>4, <1>5
<1>9. k - 1 \in 0 .. NumChunks BY <1>1
<1>10. QED BY <1>1, <1>2, <1>3, <1>6, <1>7, <1>8, <1>9

\* The window takes no more requests than there are chunks or the server allows.
LEMMA Depths ==
  /\ PipelineDepth \in Nat \ {0}
  /\ maxPipeline \in Nat \ {0}
  /\ maxPipeline <= NumChunks /\ maxPipeline <= PipelineDepth
<1>1. PipelineDepth \in Nat \ {0} BY DEF PipelineDepth
<1>2. QED BY <1>1, ChunkCount DEF maxPipeline

-----------------------------------------------------------------------------
(* What the server has moved without a gap.                                *)

\* A set of numbers that is not empty has a least one.
LEMMA Least ==
  ASSUME NEW S, S \subseteq Nat, S # {}
  PROVE  \E x \in S : \A y \in S : x <= y
<1> DEFINE Less == {ss \in Nat \X Nat : ss[1] < ss[2]}
<1>1. IsWellFoundedOn(Less, Nat) BY NatLessThanWellFounded DEF OpToRel
<1>2. \E x \in S : \A y \in S : ~(<<y, x>> \in Less)
  <2> HIDE DEF Less
  <2>1. QED BY <1>1, WFMin
<1>3. PICK x \in S : \A y \in S : ~(<<y, x>> \in Less) BY <1>2
<1>4. ASSUME NEW y \in S PROVE x <= y
  <2>1. x \in Nat /\ y \in Nat OBVIOUS
  <2>2. <<y, x>> \in Nat \X Nat /\ <<y, x>>[1] = y /\ <<y, x>>[2] = x BY <2>1
  <2>3. ~(y < x) BY <1>3, <2>2
  <2>4. QED BY <2>1, <2>3
<1>5. QED BY <1>4

\* The first chunk that is not whole is the gap Prefix looks for.
LEMMA PrefixAtGap ==
  ASSUME TransferTypeOK, Replies, NEW k \in Chunks, FullTo(k - 1), moved[k] < Size(k)
  PROVE  Prefix = Covered(k - 1) + moved[k]
<1> DEFINE IsGap(i) == moved[i] < Size(i) /\ \A j \in 1 .. (i - 1) : moved[j] = Size(j)
<1>1. IsGap(k) BY DEF FullTo
<1>2. ASSUME NEW i \in Chunks, IsGap(i) PROVE i = k
  <2>1. i \in Nat /\ k \in Nat /\ i >= 1 /\ k >= 1 BY ChunkCount DEF Chunks
  <2>2. moved[i] \in Nat /\ moved[k] \in Nat /\ Size(i) \in Nat /\ Size(k) \in Nat
    BY ChunkSizes DEF TransferTypeOK, PipeTypeOK
  <2>3. ~(i < k) BY <1>1, <1>2, <2>1, <2>2
  <2>4. ~(k < i) BY <1>1, <1>2, <2>1, <2>2
  <2>5. QED BY <2>1, <2>3, <2>4
<1>3. (CHOOSE i \in Chunks : IsGap(i)) = k BY <1>1, <1>2
<1>4. ~(\A i \in Chunks : moved[i] = Size(i))
  <2>1. moved[k] \in Nat /\ Size(k) \in Nat BY ChunkSizes DEF TransferTypeOK, PipeTypeOK
  <2>2. QED BY <2>1
<1>5. Prefix = (k - 1) * ChunkSize + moved[k] BY <1>3, <1>4 DEF Prefix
<1>6. QED BY <1>5, ChunkSizes

\* Prefix is no less than what a first run of whole chunks and the one after it hold.
LEMMA PrefixReaches ==
  ASSUME TransferTypeOK, Replies, NEW k \in Chunks, FullTo(k - 1)
  PROVE  Covered(k - 1) + moved[k] <= Prefix
<1>0. \A i \in Chunks : moved[i] \in Nat /\ Size(i) \in Nat /\ moved[i] <= Size(i) /\ Covered(i) \in Nat
                        /\ Covered(i - 1) \in Nat /\ Covered(i) = Covered(i - 1) + Size(i)
                        /\ Covered(i) <= TotalSize /\ Covered(i - 1) = (i - 1) * ChunkSize
                        /\ i \in Nat
  BY ChunkSizes DEF TransferTypeOK, PipeTypeOK, Replies
<1>1. CASE \A i \in Chunks : moved[i] = Size(i)
  <2>1. Prefix = TotalSize BY <1>1 DEF Prefix
  <2>2. QED BY <1>0, <2>1
<1>2. CASE ~(\A i \in Chunks : moved[i] = Size(i))
  <2> DEFINE S == {i \in Chunks : moved[i] # Size(i)}
  <2>1. S # {} /\ S \subseteq Nat BY <1>0, <1>2
  <2>2. PICK g \in S : \A y \in S : g <= y
    <3> HIDE DEF S
    <3>1. QED BY <2>1, Least
  <2>3. g \in Chunks /\ moved[g] < Size(g) BY <1>0
  <2>4. FullTo(g - 1) BY <1>0, <2>2, ChunkCount DEF FullTo, Chunks
  <2>5. Prefix = Covered(g - 1) + moved[g] BY <2>3, <2>4, PrefixAtGap
  <2>6. k <= g BY <1>0, <2>3 DEF FullTo, Chunks
  <2>7. CASE k = g BY <1>0, <2>5, <2>7
  <2>8. CASE k < g
    <3>1. k * ChunkSize <= (g - 1) * ChunkSize BY <1>0, <2>3, <2>8, Grows
    <3>2. Covered(k) = k * ChunkSize BY <1>0, <2>3, <2>8, ChunkCount DEF Covered, Chunks
    <3>3. QED BY <1>0, <2>3, <2>5, <3>1, <3>2
  <2>9. QED BY <1>0, <2>3, <2>6, <2>7, <2>8
<1>3. QED BY <1>1, <1>2

-----------------------------------------------------------------------------
(* The steps, from both transfers.                                         *)

\* What the two transfers share is the same in both.
LEMMA SharedSteps ==
  /\ R!SendRequest <=> SendRequest
  /\ W!SendRequest <=> SendRequest
  /\ R!Fed <=> Fed
  /\ W!Fed <=> Fed
  /\ R!TakeReply <=> TakeReply
  /\ W!TakeReply <=> TakeReply
  /\ R!Settle <=> Settle
  /\ W!Settle <=> Settle
<1> USE DEF R!flowVars, R!connVars, R!wireVars, W!flowVars, W!connVars, W!wireVars,
            flowVars, connVars, wireVars
<1>1. (R!TearDown <=> TearDown) /\ (W!TearDown <=> TearDown)
  BY DEF R!TearDown, W!TearDown, TearDown, R!Chunks, W!Chunks, Chunks, R!NumChunks, W!NumChunks,
     NumChunks
<1>2. (R!SendRequest <=> SendRequest) /\ (W!SendRequest <=> SendRequest)
  BY <1>1 DEF R!SendRequest, R!SendRegister, R!SendRefused, R!SendExhausted, R!SendWritten,
     R!SendNotSent, R!SendWriteFails, R!SendWriteFailed, W!SendRequest, W!SendRegister,
     W!SendRefused, W!SendExhausted, W!SendWritten, W!SendNotSent, W!SendWriteFails,
     W!SendWriteFailed, SendRequest, SendRegister, SendRefused, SendExhausted, SendWritten,
     SendNotSent, SendWriteFails, SendWriteFailed
<1>3. (R!Fed <=> Fed) /\ (W!Fed <=> Fed)
  BY DEF R!Fed, R!Advance, R!maxPipeline, R!PipelineDepth, R!NumChunks, W!Fed, W!Advance,
     W!maxPipeline, W!PipelineDepth, W!NumChunks, Fed, Advance, maxPipeline, PipelineDepth, NumChunks
<1>4. (R!TakeReply <=> TakeReply) /\ (W!TakeReply <=> TakeReply)
  BY DEF R!TakeReply, W!TakeReply, TakeReply
<1>5. (R!Settle <=> Settle) /\ (W!Settle <=> Settle)
  BY DEF R!Settle, R!CollectTake, R!CollectDelete, R!CollectTimeout, R!CollectDone, R!AbandonChunks,
     R!DeleteMID, R!SettleFrom, W!Settle, W!CollectTake, W!CollectDelete, W!CollectTimeout,
     W!CollectDone, W!AbandonChunks, W!DeleteMID, W!SettleFrom, Settle, CollectTake, CollectDelete,
     CollectTimeout, CollectDone, AbandonChunks, DeleteMID, SettleFrom
<1>6. QED BY <1>2, <1>3, <1>4, <1>5

\* The steps of a Read's own.
ReadStep ==
    /\ kind = "read"
    /\ UNCHANGED <<kind, draining>>
    /\ \/ R!SendFailed \/ R!AwaitContext \/ R!AwaitDone
       \/ R!HandleFull \/ R!HandleShort \/ R!HandleFailed

\* The steps of a Write's own.
WriteStep ==
    /\ kind = "write"
    /\ UNCHANGED kind
    /\ \/ W!SendFailed \/ W!AwaitContext \/ W!DrainTimeout \/ W!AwaitDone
       \/ W!HandleWritten \/ W!HandleShort \/ W!HandleFailed

\* The steps of either, or of the world around it.
CommonStep ==
    /\ UNCHANGED <<kind, draining>>
    /\ SendRequest \/ Fed \/ TakeReply \/ Settle \/ Environment

\* These are all the steps.
LEMMA StepKinds ==
  ASSUME [Next]_vars
  PROVE  ReadStep \/ WriteStep \/ CommonStep \/ UNCHANGED vars
<1>1. CASE Read BY <1>1, SharedSteps DEF Read, R!readPipelined, ReadStep, CommonStep
<1>2. CASE Write BY <1>2, SharedSteps DEF Write, W!writePipelined, WriteStep, CommonStep
<1>3. CASE Environment /\ UNCHANGED <<kind, draining>> BY <1>3 DEF CommonStep
<1>4. QED BY <1>1, <1>2, <1>3 DEF Next

\* The definitions both transfers take from Pipeline mean the same there.
LEMMA SharedParts ==
  /\ R!DeleteMID <=> DeleteMID
  /\ W!DeleteMID <=> DeleteMID
  /\ R!Advance <=> Advance
  /\ W!Advance <=> Advance
  /\ \A k : (R!SettleFrom(k) <=> SettleFrom(k)) /\ (W!SettleFrom(k) <=> SettleFrom(k))
  /\ \A k : R!Size(k) = Size(k) /\ W!Size(k) = Size(k)
  /\ R!NumChunks = NumChunks /\ W!NumChunks = NumChunks
BY DEF R!DeleteMID, W!DeleteMID, DeleteMID, R!Advance, W!Advance, Advance, R!SettleFrom,
   W!SettleFrom, SettleFrom, R!Size, W!Size, Size, R!NumChunks, W!NumChunks, NumChunks

-----------------------------------------------------------------------------
(* Where the transfer stands.                                              *)

\* Reading the next chunk adds it to those read.
LEMMA OneMore ==
  ASSUME NEW k \in Nat \ {0}
  PROVE  (1 .. (k - 1)) \cup {k} = 1 .. k
OBVIOUS

\* Every step keeps the order of the chunks and the window.
LEMMA PositionStep ==
  ASSUME TransferTypeOK, Position, [Next]_vars
  PROVE  Position'
<1> USE DEF flowVars, connVars, wireVars, R!flowVars, R!connVars, R!wireVars, W!flowVars,
            W!connVars, W!wireVars, Feeding
<1>0. /\ cur \in Nat /\ sent \in Nat /\ NumChunks \in Nat \ {0} /\ sent <= NumChunks
      /\ PipelineDepth \in Nat \ {0} /\ cur <= sent
      /\ maxPipeline <= NumChunks /\ maxPipeline <= PipelineDepth /\ maxPipeline \in Nat
      /\ wire \in [Chunks -> {"unsent", "pending", "served", "delivered"}]
  BY ChunkCount, Depths DEF TransferTypeOK, PipeTypeOK, Position
<1>1. ASSUME UNCHANGED <<pc, cur, sent, taken, gaveUp>>, down => down',
             \A i \in Chunks : wire'[i] = "unsent" <=> wire[i] = "unsent"
      PROVE  Position'
  BY <1>0, <1>1 DEF Position, Behind, TransferTypeOK, PipeTypeOK
<1>2. CASE Environment
  <2>1. CASE ConnDown BY <1>1, <2>1 DEF ConnDown, TearDown
  <2>2. CASE EndContext BY <1>1, <2>2 DEF EndContext
  <2>3. ASSUME NEW i \in Chunks, NEW a, NEW n, Serve(i, a, n) PROVE Position'
    BY <1>0, <1>1, <2>3 DEF Serve
  <2>4. ASSUME NEW i \in Chunks, Deliver(i) PROVE Position'
    BY <1>0, <1>1, <2>4 DEF Deliver
  <2>5. QED BY <1>2, <2>1, <2>2, <2>3, <2>4 DEF Environment
<1>3. CASE SendRequest
  <2>1. CASE SendRegister BY <1>0, <2>1 DEF SendRegister, Position, Behind
  <2>2. CASE SendRefused BY <1>0, <2>2 DEF SendRefused, Position, Behind
  <2>3. CASE SendExhausted BY <1>0, <2>3 DEF SendExhausted, TearDown, Position, Behind
  <2>4. CASE SendWritten
    <3>1. \A i \in Chunks : wire'[i] # "unsent" <=> (wire[i] # "unsent" \/ i = sent + 1)
      BY <1>0, <2>4 DEF SendWritten
    <3>2. \A i \in Chunks : i \in Nat BY <1>0 DEF Chunks
    <3>3. \A i \in Chunks : wire'[i] # "unsent" <=> i <= sent + 1
      BY <1>0, <3>1, <3>2 DEF Position
    <3>4. QED BY <1>0, <2>4, <3>3 DEF SendWritten, Position, Behind
  <2>5. CASE SendNotSent BY <1>0, <2>5 DEF SendNotSent, Position, Behind
  <2>6. CASE SendWriteFails BY <1>0, <2>6 DEF SendWriteFails, Position, Behind
  <2>7. CASE SendWriteFailed BY <1>0, <2>7 DEF SendWriteFailed, TearDown, Position, Behind
  <2>8. QED BY <1>3, <2>1, <2>2, <2>3, <2>4, <2>5, <2>6, <2>7 DEF SendRequest
<1>4. ASSUME Behind(cur), UNCHANGED <<sent, taken, gaveUp, wire>>, down' = down,
             Advance \/ SettleFrom(cur + 1)
      PROVE  Position'
  <2>1. CASE cur = sent
    <3>1. cur' = cur /\ pc' = "returned" BY <1>0, <1>4, <2>1 DEF Advance, SettleFrom
    <3>2. QED BY <1>0, <1>4, <2>1, <3>1 DEF Position, Behind
  <2>2. CASE cur # sent
    <3>1. cur' = cur + 1 /\ pc' \in {"await", "collect"}
      BY <1>0, <1>4, <2>2 DEF Advance, SettleFrom
    <3>2. cur' \in Nat /\ cur' > 0 /\ cur' - 1 = cur /\ cur' <= sent BY <1>0, <2>2, <3>1
    <3>3. QED BY <1>0, <1>4, <2>2, <3>1, <3>2 DEF Position, Behind
  <2>3. QED BY <2>1, <2>2
<1>5. CASE Fed
  <2>1. CASE cur = 0 /\ sent < maxPipeline BY <1>0, <1>5, <2>1 DEF Fed, Position, Behind
  <2>2. CASE ~(cur = 0 /\ sent < maxPipeline) BY <1>4, <1>5, <2>2 DEF Fed, Position
  <2>3. QED BY <2>1, <2>2
<1>6. CASE TakeReply
  <2>1. taken' = 1 .. cur /\ cur > 0 BY <1>0, <1>6, OneMore DEF TakeReply, Position, Behind
  <2>2. QED BY <1>0, <1>6, <2>1 DEF TakeReply, Position, Behind
<1>7. CASE Settle
  <2>1. CASE CollectTake
    <3>1. taken' = 1 .. cur /\ cur > 0 BY <1>0, <2>1, OneMore DEF CollectTake, Position, Behind
    <3>2. QED BY <1>0, <2>1, <3>1 DEF CollectTake, Position, Behind
  <2>2. CASE CollectDelete BY <1>4, <2>2 DEF CollectDelete, Position
  <2>3. CASE CollectTimeout BY <1>0, <2>3 DEF CollectTimeout, Position, Behind
  <2>4. CASE CollectDone \/ AbandonChunks
    <3>1. /\ pc \in {"collect", "abandon"} /\ (down \/ gaveUp) /\ pc' = "returned"
          /\ UNCHANGED <<cur, sent, taken, gaveUp, down, wire>>
      BY <2>4 DEF CollectDone, AbandonChunks, Position
    <3>2. cur - 1 \in 0 .. sent /\ Behind(cur - 1) BY <1>0, <3>1 DEF Position
    <3>3. QED BY <1>0, <3>1, <3>2 DEF Position, Behind
  <2>5. QED BY <1>7, <2>1, <2>2, <2>3, <2>4 DEF Settle
<1>8. ASSUME pc = "took", UNCHANGED <<sent, taken, gaveUp, wire>>, down' = down,
             \/ sent < NumChunks /\ pc' = "send" /\ cur' = cur
             \/ Advance
      PROVE  Position'
  <2>1. CASE Advance BY <1>4, <1>8, <2>1 DEF Position
  <2>2. CASE sent < NumChunks /\ pc' = "send" /\ cur' = cur
    BY <1>0, <1>8, <2>2 DEF Position, Behind
  <2>3. QED BY <1>8, <2>1, <2>2
<1>9. CASE ReadStep
  <2>1. CASE R!SendFailed BY <1>4, <2>1, SharedParts DEF R!SendFailed, Position
  <2>2. CASE R!AwaitContext
    <3>1. pc = "await" /\ cur' = cur /\ pc' = "collect" /\ UNCHANGED <<sent, taken, gaveUp, down, wire>>
      BY <1>0, <2>2, SharedParts DEF R!AwaitContext, SettleFrom
    <3>2. QED BY <1>0, <3>1 DEF Position, Behind
  <2>3. CASE R!AwaitDone
    <3>1. /\ pc = "await" /\ down /\ pc' = "returned"
          /\ UNCHANGED <<cur, sent, taken, gaveUp, down, wire>>
      BY <2>3 DEF R!AwaitDone
    <3>2. cur - 1 \in 0 .. sent /\ Behind(cur - 1) BY <1>0, <3>1 DEF Position
    <3>3. QED BY <1>0, <3>1, <3>2 DEF Position, Behind
  <2>4. CASE R!HandleFull BY <1>8, <2>4, SharedParts DEF R!HandleFull
  <2>5. CASE R!HandleShort \/ R!HandleFailed
    BY <1>4, <2>5, SharedParts DEF R!HandleShort, R!HandleFailed, Position
  <2>6. QED BY <1>9, <2>1, <2>2, <2>3, <2>4, <2>5 DEF ReadStep
<1>10. CASE WriteStep
  <2>1. CASE W!SendFailed BY <1>4, <2>1, SharedParts DEF W!SendFailed, Position
  <2>2. CASE W!AwaitContext BY <1>1, <2>2 DEF W!AwaitContext
  <2>3. CASE W!DrainTimeout \/ W!AwaitDone
    <3>1. /\ pc = "await" /\ (down' \/ gaveUp') /\ pc' = "abandon"
          /\ UNCHANGED <<cur, sent, taken, down, wire>>
      BY <2>3 DEF W!DrainTimeout, W!AwaitDone
    <3>2. QED BY <1>0, <3>1 DEF Position, Behind
  <2>4. CASE W!HandleWritten BY <1>8, <2>4, SharedParts DEF W!HandleWritten
  <2>5. CASE W!HandleShort \/ W!HandleFailed
    BY <1>4, <2>5, SharedParts DEF W!HandleShort, W!HandleFailed, Position
  <2>6. QED BY <1>10, <2>1, <2>2, <2>3, <2>4, <2>5 DEF WriteStep
<1>11. CASE UNCHANGED vars BY <1>1, <1>11 DEF vars, pipeVars
<1>12. QED
  BY <1>2, <1>3, <1>5, <1>6, <1>7, <1>9, <1>10, <1>11, StepKinds DEF CommonStep

-----------------------------------------------------------------------------
(* The pending map.                                                        *)

\* Every step keeps the entries right.
LEMMA EntriesStep ==
  ASSUME TransferTypeOK, Position, Entries, [Next]_vars
  PROVE  Entries'
<1> USE DEF flowVars, connVars, wireVars, R!flowVars, R!connVars, R!wireVars, W!flowVars,
            W!connVars, W!wireVars, Feeding
<1>0. /\ cur \in Nat /\ sent \in Nat /\ NumChunks \in Nat \ {0} /\ sent <= NumChunks /\ cur <= sent
      /\ \A i \in Chunks : i \in Nat /\ i >= 1 /\ i <= NumChunks
      /\ wire \in [Chunks -> {"unsent", "pending", "served", "delivered"}]
      /\ inbox \in [Chunks -> {"empty", "reply", "down"}]
      /\ registered \subseteq Chunks /\ cancelled \subseteq Chunks
  BY ChunkCount DEF TransferTypeOK, PipeTypeOK, Position, Chunks
<1>1. ASSUME registered' = {}, pc' # "returned" => cancelled' = {} /\ down' PROVE Entries'
  BY <1>1 DEF Entries
<1>2. ASSUME UNCHANGED <<pc, cur, sent, taken, wire, inbox, registered, cancelled, down>>
      PROVE  Entries'
  BY <1>2 DEF Entries, Expected
<1>3. ASSUME Environment PROVE Entries'
  <2>1. CASE ConnDown BY <1>1, <2>1 DEF ConnDown, TearDown, Entries
  <2>2. CASE EndContext BY <1>2, <2>2 DEF EndContext
  <2>3. ASSUME NEW i \in Chunks, NEW a, NEW n, Serve(i, a, n) PROVE Entries'
    <3>1. \A j \in Chunks : wire'[j] = "delivered" <=> wire[j] = "delivered"
      BY <1>0, <2>3 DEF Serve
    <3>2. UNCHANGED <<pc, cur, sent, taken, inbox, registered, cancelled, down>> BY <2>3 DEF Serve
    <3>3. Expected' = Expected BY <3>2 DEF Expected
    <3>4. QED BY <1>0, <3>1, <3>2, <3>3 DEF Entries
  <2>4. ASSUME NEW i \in Chunks, Deliver(i) PROVE Entries'
    <3>1. UNCHANGED <<pc, cur, sent, taken, cancelled, down>> BY <2>4 DEF Deliver
    <3>2. Expected' = Expected BY <3>1 DEF Expected
    <3>3. \A j \in Chunks : wire'[j] = IF j = i THEN "delivered" ELSE wire[j]
      BY <1>0, <2>4 DEF Deliver
    <3>4. registered' = registered \ (cancelled \cap {i}) BY <2>4 DEF Deliver
    <3>5. \A j \in Chunks : inbox'[j] = IF j = i /\ i \in registered \ cancelled /\ inbox[i] = "empty"
                                        THEN "reply" ELSE inbox[j]
      BY <1>0, <2>4 DEF Deliver
    <3>6. CASE pc = "returned" BY <1>0, <3>1, <3>3, <3>4, <3>6 DEF Entries
    <3>7. CASE pc # "returned"
      <4>1. cancelled = {} /\ registered' = registered BY <3>4, <3>7 DEF Entries
      <4>2. QED BY <1>0, <3>1, <3>2, <3>3, <3>5, <3>7, <4>1 DEF Entries
    <3>8. QED BY <3>6, <3>7
  <2>5. QED BY <1>3, <2>1, <2>2, <2>3, <2>4 DEF Environment
<1>4. ASSUME CollectDone \/ AbandonChunks PROVE Entries'
  <2>1. CASE CollectDone BY <1>1, <2>1 DEF CollectDone, Entries
  <2>2. CASE AbandonChunks
    <3>1. /\ pc = "abandon" /\ pc' = "returned" /\ UNCHANGED <<cur, sent, taken, wire, inbox, down>>
      BY <2>2 DEF AbandonChunks
    <3>2. taken = 1 .. (cur - 1) /\ cur > 0 BY <3>1 DEF Position, Behind
    <3>3. \A i \in registered : i \in cur .. sent
      BY <1>0, <3>1, <3>2 DEF Entries, Expected
    <3>4. registered' = {i \in registered : inbox[i] = "empty"}
      BY <1>0, <2>2, <3>3 DEF AbandonChunks
    <3>5. cancelled' = cancelled \cup registered'
      BY <1>0, <2>2, <3>3, <3>4 DEF AbandonChunks
    <3>6. \A i \in registered' : i \notin taken /\ wire[i] # "delivered"
      BY <1>0, <3>1, <3>2, <3>3, <3>4 DEF Entries
    <3>7. down' => registered' = {} BY <3>1, <3>4 DEF Entries
    <3>8. QED BY <3>1, <3>5, <3>6, <3>7 DEF Entries
  <2>3. QED BY <1>4, <2>1, <2>2
<1> DEFINE Untaken == {i \in Chunks : i <= sent /\ i \notin taken}
<1>5. CASE down
  <2>1. registered = {} BY <1>5 DEF Entries
  <2>2. CASE SendRequest
    BY <1>1, <1>5, <2>1, <2>2 DEF SendRequest, SendRegister, SendRefused, SendExhausted, SendWritten,
       SendNotSent, SendWriteFails, SendWriteFailed, TearDown, Entries
  <2>3. CASE Fed \/ TakeReply
    BY <1>1, <1>5, <2>1, <2>3 DEF Fed, TakeReply, Entries
  <2>4. CASE Settle
    BY <1>1, <1>4, <1>5, <2>1, <2>4 DEF Settle, CollectTake, CollectDelete, CollectTimeout,
       DeleteMID, Entries
  <2>5. CASE ReadStep
    BY <1>1, <1>5, <2>1, <2>5, SharedParts DEF ReadStep, R!SendFailed, R!AwaitContext, R!AwaitDone,
       R!HandleFull, R!HandleShort, R!HandleFailed, DeleteMID, Entries
  <2>6. CASE WriteStep
    BY <1>1, <1>5, <2>1, <2>6, SharedParts DEF WriteStep, W!SendFailed, W!AwaitContext,
       W!DrainTimeout, W!AwaitDone, W!HandleWritten, W!HandleShort, W!HandleFailed, DeleteMID, Entries
  <2>7. QED
    BY <1>2, <1>3, <2>2, <2>3, <2>4, <2>5, <2>6, StepKinds DEF CommonStep, vars, pipeVars
<1>6. CASE ~down
  <2>1. ASSUME pc # "returned", Behind(cur), registered' = Untaken, ~down',
               UNCHANGED <<sent, taken, wire, inbox, cancelled>>, Untaken \subseteq registered,
               \/ Advance
               \/ SettleFrom(cur + 1)
               \/ pc' \in {"send", "sendFailed", "writeFailed"} /\ cur' = cur
        PROVE  Entries'
    <3>1. CASE pc' = "returned"
      <4>1. cur = sent BY <1>0, <2>1, <3>1 DEF Advance, SettleFrom
      <4>2. Untaken = {} BY <1>0, <2>1, <4>1 DEF Behind
      <4>3. QED BY <1>1, <2>1, <3>1, <4>2
    <3>2. CASE pc' # "returned"
      <4>1. pc' \in {"send", "sendFailed", "writeFailed", "await", "collect"}
        BY <2>1, <3>2 DEF Advance, SettleFrom
      <4>2. Expected' = Untaken BY <2>1, <4>1 DEF Expected
      <4>3. QED BY <1>0, <2>1, <3>2, <4>2 DEF Entries
    <3>3. QED BY <3>1, <3>2
  <2>2. CASE SendRequest
    <3>1. CASE SendRegister
      <4>1. sent + 1 \in Chunks /\ wire[sent + 1] = "unsent"
        BY <1>0, <3>1 DEF SendRegister, Position, Chunks
      <4>2. registered' = Expected'
        BY <1>0, <1>6, <3>1, <4>1 DEF SendRegister, Entries, Expected
      <4>3. QED BY <1>0, <1>6, <3>1, <4>1, <4>2 DEF SendRegister, Entries
    <3>2. CASE SendRefused
      <4>1. registered = Untaken BY <1>6, <3>2 DEF SendRefused, Entries, Expected
      <4>2. QED BY <1>6, <2>1, <3>2, <4>1 DEF SendRefused, Position
    <3>3. CASE SendExhausted BY <1>1, <1>6, <3>3 DEF SendExhausted, TearDown, Entries
    <3>4. CASE SendWritten
      <4>1. sent + 1 \in Chunks /\ sent + 1 \notin taken
        BY <1>0, <3>4 DEF SendWritten, Position, Behind, Chunks
      <4>2. Expected' = Expected
        BY <1>0, <3>4, <4>1 DEF SendWritten, Expected
      <4>3. \A j \in Chunks : wire'[j] = "delivered" => wire[j] = "delivered"
        BY <1>0, <3>4 DEF SendWritten
      <4>4. QED BY <1>0, <1>6, <3>4, <4>2, <4>3 DEF SendWritten, Entries
    <3>5. CASE SendNotSent \/ SendWriteFails
      <4>1. registered' = Untaken /\ Untaken \subseteq registered
        BY <1>0, <1>6, <3>5 DEF SendNotSent, SendWriteFails, Entries, Expected
      <4>2. QED BY <1>6, <2>1, <3>5, <4>1 DEF SendNotSent, SendWriteFails, Position
    <3>6. CASE SendWriteFailed BY <1>1, <1>6, <3>6 DEF SendWriteFailed, TearDown, Entries
    <3>7. QED BY <2>2, <3>1, <3>2, <3>3, <3>4, <3>5, <3>6 DEF SendRequest
  <2>3. CASE Fed
    <3>1. registered = Untaken BY <1>6, <2>3 DEF Fed, Entries, Expected
    <3>2. QED BY <1>6, <2>1, <2>3, <3>1 DEF Fed, Position
  <2>4. ASSUME pc \in {"await", "collect"}, pc' \in {"took", "collected"}, taken' = taken \cup {cur},
               \A i \in Chunks : i # cur => inbox'[i] = inbox[i],
               UNCHANGED <<cur, sent, wire, registered, cancelled, down>>
        PROVE  Entries'
    <3>1. cur \in Chunks /\ cur \notin taken BY <1>0, <2>4 DEF Position, Behind, Chunks
    <3>2. Expected' = Expected BY <1>0, <2>4, <3>1 DEF Expected
    <3>3. QED BY <1>0, <1>6, <2>4, <3>2 DEF Entries
  <2>5. CASE TakeReply BY <1>0, <2>4, <2>5 DEF TakeReply
  <2>6. ASSUME pc \in {"took", "collected"}, DeleteMID
        PROVE  registered' = Untaken /\ Untaken \subseteq registered
    <3>1. cur \in taken BY <1>0, <2>6 DEF Position, Behind
    <3>2. QED BY <1>0, <1>6, <2>6, <3>1 DEF DeleteMID, Entries, Expected
  <2>7. CASE Settle
    <3>1. CASE CollectTake BY <1>0, <2>4, <3>1 DEF CollectTake
    <3>2. CASE CollectDelete BY <1>6, <2>1, <2>6, <3>2 DEF CollectDelete, Position
    <3>3. CASE CollectTimeout
      <4>1. Expected' = Expected BY <3>3 DEF CollectTimeout, Expected
      <4>2. QED BY <1>6, <3>3, <4>1 DEF CollectTimeout, Entries
    <3>4. QED BY <1>4, <2>7, <3>1, <3>2, <3>3 DEF Settle
  <2>8. CASE ReadStep
    <3>1. CASE R!SendFailed
      <4>1. registered = Untaken BY <1>6, <3>1 DEF R!SendFailed, Entries, Expected
      <4>2. QED BY <1>6, <2>1, <3>1, <4>1, SharedParts DEF R!SendFailed, Position
    <3>2. CASE R!AwaitContext
      <4>1. pc = "await" /\ cur' = cur /\ pc' = "collect"
            /\ UNCHANGED <<sent, taken, down, wire, inbox, registered, cancelled>>
        BY <1>0, <3>2, SharedParts DEF R!AwaitContext, SettleFrom
      <4>2. Expected' = Expected BY <4>1 DEF Expected
      <4>3. QED BY <1>6, <4>1, <4>2 DEF Entries
    <3>3. CASE R!HandleFull \/ R!HandleShort \/ R!HandleFailed
      <4>1. pc = "took" /\ DeleteMID
        BY <3>3, SharedParts DEF R!HandleFull, R!HandleShort, R!HandleFailed
      <4>2. \/ Advance
            \/ SettleFrom(cur + 1)
            \/ pc' = "send" /\ cur' = cur
        BY <3>3, SharedParts DEF R!HandleFull, R!HandleShort, R!HandleFailed
      <4>3. UNCHANGED <<sent, taken, wire, inbox, cancelled, down>>
        BY <3>3 DEF R!HandleFull, R!HandleShort, R!HandleFailed
      <4>4. QED BY <1>6, <2>1, <2>6, <4>1, <4>2, <4>3 DEF Position
    <3>4. QED BY <1>6, <2>8, <3>1, <3>2, <3>3 DEF ReadStep, R!AwaitDone
  <2>9. CASE WriteStep
    <3>1. CASE W!SendFailed
      <4>1. registered = Untaken BY <1>6, <3>1 DEF W!SendFailed, Entries, Expected
      <4>2. QED BY <1>6, <2>1, <3>1, <4>1, SharedParts DEF W!SendFailed, Position
    <3>2. CASE W!AwaitContext BY <1>2, <3>2 DEF W!AwaitContext
    <3>3. CASE W!DrainTimeout
      <4>1. Expected' = Expected BY <3>3 DEF W!DrainTimeout, Expected
      <4>2. QED BY <1>6, <3>3, <4>1 DEF W!DrainTimeout, Entries
    <3>4. CASE W!HandleWritten \/ W!HandleShort \/ W!HandleFailed
      <4>1. pc = "took" /\ DeleteMID
        BY <3>4, SharedParts DEF W!HandleWritten, W!HandleShort, W!HandleFailed
      <4>2. \/ Advance
            \/ SettleFrom(cur + 1)
            \/ pc' = "send" /\ cur' = cur
        BY <3>4, SharedParts DEF W!HandleWritten, W!HandleShort, W!HandleFailed
      <4>3. UNCHANGED <<sent, taken, wire, inbox, cancelled, down>>
        BY <3>4 DEF W!HandleWritten, W!HandleShort, W!HandleFailed
      <4>4. QED BY <1>6, <2>1, <2>6, <4>1, <4>2, <4>3 DEF Position
    <3>5. QED BY <1>6, <2>9, <3>1, <3>2, <3>3, <3>4 DEF WriteStep, W!AwaitDone
  <2>10. QED
    BY <1>2, <1>3, <2>2, <2>3, <2>5, <2>7, <2>8, <2>9, StepKinds DEF CommonStep, vars, pipeVars
<1>7. QED BY <1>5, <1>6

-----------------------------------------------------------------------------
(* What the server has done, and the count.                                *)

\* What the server has done for a chunk it has answered stays done.
LEMMA Monotone ==
  ASSUME TransferTypeOK, Position, Replies, [Next]_vars
  PROVE  /\ \A i \in Chunks : wire[i] # "pending" => moved'[i] = moved[i] /\ outcome'[i] = outcome[i]
         /\ \A i \in Chunks : wire[i] = "pending" => moved[i] = 0 /\ outcome[i] = "none"
         /\ \A i \in Chunks : moved'[i] \in Nat /\ moved'[i] <= Size(i)
         /\ \A i \in Chunks : wire[i] \in {"served", "delivered"} => wire'[i] \in {"served", "delivered"}
         /\ pc \in Settling => \A i \in Chunks : wire[i] = "unsent" => wire'[i] = "unsent"
<1> USE DEF flowVars, connVars, wireVars, R!flowVars, R!connVars, R!wireVars, W!flowVars,
            W!connVars, W!wireVars
<1>0. /\ wire \in [Chunks -> {"unsent", "pending", "served", "delivered"}]
      /\ outcome \in [Chunks -> Answers \cup {"none"}]
      /\ moved \in [Chunks -> 0 .. ChunkSize]
      /\ \A i \in Chunks : Size(i) \in Nat /\ moved[i] \in Nat /\ moved[i] <= Size(i)
      /\ \A i \in Chunks : wire[i] = "pending" => moved[i] = 0 /\ outcome[i] = "none"
  BY ChunkSizes DEF TransferTypeOK, PipeTypeOK, Replies
<1>1. CASE UNCHANGED wireVars BY <1>0, <1>1
<1>2. ASSUME NEW i \in Chunks, NEW a, NEW n \in 0 .. ChunkSize, Serve(i, a, n)
      PROVE  /\ \A j \in Chunks : moved'[j] = IF j = i THEN n ELSE moved[j]
             /\ \A j \in Chunks : outcome'[j] = IF j = i THEN a ELSE outcome[j]
             /\ \A j \in Chunks : wire'[j] = IF j = i THEN "served" ELSE wire[j]
             /\ n <= Size(i) /\ wire[i] = "pending" /\ n \in Nat
  BY <1>0, <1>2 DEF Serve
<1>3. CASE \E i \in Chunks, a \in Answers, n \in 0 .. ChunkSize : Serve(i, a, n)
  BY <1>0, <1>2, <1>3
<1>4. CASE \E i \in Chunks : Deliver(i)
  BY <1>0, <1>4 DEF Deliver
<1>5. CASE SendWritten
  <2>1. sent + 1 \in Chunks /\ wire[sent + 1] = "unsent" /\ pc \notin Settling
    BY <1>5, ChunkCount DEF SendWritten, Settling, TransferTypeOK, PipeTypeOK, Position, Chunks
  <2>2. QED BY <1>0, <1>5, <2>1 DEF SendWritten
<1>6. CASE CommonStep
  <2>1. CASE SendRequest
    BY <1>1, <1>5, <2>1 DEF SendRequest, SendRegister, SendRefused, SendExhausted, SendNotSent,
       SendWriteFails, SendWriteFailed
  <2>2. CASE Fed \/ TakeReply \/ Settle
    BY <1>1, <2>2 DEF Fed, TakeReply, Settle, CollectTake, CollectDelete, CollectTimeout, CollectDone,
       AbandonChunks
  <2>3. CASE Environment BY <1>1, <1>3, <1>4, <2>3 DEF Environment, ConnDown, EndContext
  <2>4. QED BY <1>6, <2>1, <2>2, <2>3 DEF CommonStep
<1>7. CASE ReadStep
  BY <1>1, <1>7 DEF ReadStep, R!SendFailed, R!AwaitContext, R!AwaitDone, R!HandleFull, R!HandleShort,
     R!HandleFailed
<1>8. CASE WriteStep
  BY <1>1, <1>8 DEF WriteStep, W!SendFailed, W!AwaitContext, W!DrainTimeout, W!AwaitDone,
     W!HandleWritten, W!HandleShort, W!HandleFailed
<1>9. CASE UNCHANGED vars BY <1>1, <1>9 DEF vars, pipeVars
<1>10. QED BY <1>6, <1>7, <1>8, <1>9, StepKinds

\* Every step keeps the replies what the server made them.
LEMMA RepliesStep ==
  ASSUME TransferTypeOK, Position, Replies, [Next]_vars
  PROVE  Replies'
<1> USE DEF flowVars, connVars, wireVars, R!flowVars, R!connVars, R!wireVars, W!flowVars,
            W!connVars, W!wireVars
<1>0. /\ wire \in [Chunks -> {"unsent", "pending", "served", "delivered"}]
      /\ outcome \in [Chunks -> Answers \cup {"none"}]
      /\ moved \in [Chunks -> 0 .. ChunkSize]
      /\ inbox \in [Chunks -> {"empty", "reply", "down"}]
      /\ \A i \in Chunks : Size(i) \in Nat
      /\ cur \in Nat /\ sent \in Nat /\ sent <= NumChunks /\ cur <= sent /\ NumChunks \in Nat
  BY ChunkSizes, ChunkCount DEF TransferTypeOK, PipeTypeOK, Position
<1>c. pc \in {"took", "await", "collect"} => cur \in Chunks BY <1>0 DEF Position, Chunks
<1>1. ASSUME UNCHANGED wireVars, down => down',
             \A i \in Chunks : \/ inbox'[i] \in {inbox[i], "empty"}
                               \/ inbox'[i] = "down" /\ down',
             pc' = "took" => pc = "took" /\ msg' = msg /\ cur' = cur
      PROVE  Replies'
  BY <1>1 DEF Replies
<1>2. ASSUME TearDown
      PROVE  down' /\ \A i \in Chunks : inbox'[i] = inbox[i] \/ (inbox'[i] = "down" /\ down')
  BY <1>0, <1>2 DEF TearDown
<1>3. CASE SendRequest
  <2>1. CASE SendExhausted \/ SendWriteFailed
    BY <1>1, <1>2, <2>1 DEF SendExhausted, SendWriteFailed
  <2>2. CASE SendRegister \/ SendRefused \/ SendNotSent \/ SendWriteFails
    BY <1>1, <2>2 DEF SendRegister, SendRefused, SendNotSent, SendWriteFails
  <2>3. CASE SendWritten
    <3>1. sent + 1 \in Chunks /\ wire[sent + 1] = "unsent"
      BY <1>0, <2>3 DEF SendWritten, Position, Chunks
    <3>2. \A i \in Chunks : wire'[i] = IF i = sent + 1 THEN "pending" ELSE wire[i]
      BY <1>0, <2>3 DEF SendWritten
    <3>3. UNCHANGED <<outcome, moved, inbox, down>> /\ pc' # "took" BY <2>3 DEF SendWritten
    <3>4. QED BY <1>0, <3>1, <3>2, <3>3 DEF Replies
  <2>4. QED BY <1>3, <2>1, <2>2, <2>3 DEF SendRequest
<1>4. CASE Fed BY <1>1, <1>4 DEF Fed, Advance
<1>5. CASE TakeReply
  <2>1. \A i \in Chunks : inbox'[i] = IF i = cur THEN "empty" ELSE inbox[i]
    BY <1>0, <1>5 DEF TakeReply
  <2>2. cur \in Chunks /\ inbox[cur] \in {"reply", "down"} BY <1>0, <1>c, <1>5 DEF TakeReply
  <2>3. \/ msg' = "down" /\ down
        \/ msg' = outcome[cur] /\ wire[cur] = "delivered"
    BY <1>5, <2>2 DEF TakeReply, Replies
  <2>4. UNCHANGED <<cur, down, wire, outcome, moved>> BY <1>5 DEF TakeReply
  <2>5. QED BY <2>1, <2>3, <2>4 DEF Replies
<1>6. CASE Settle
  <2>1. CASE CollectTake BY <1>0, <1>1, <2>1 DEF CollectTake
  <2>2. CASE CollectDelete BY <1>1, <2>2 DEF CollectDelete, SettleFrom
  <2>3. CASE CollectTimeout \/ CollectDone \/ AbandonChunks
    BY <1>1, <2>3 DEF CollectTimeout, CollectDone, AbandonChunks
  <2>4. QED BY <1>6, <2>1, <2>2, <2>3 DEF Settle
<1>7. CASE Environment
  <2>1. CASE ConnDown BY <1>1, <1>2, <2>1 DEF ConnDown
  <2>2. CASE EndContext BY <1>1, <2>2 DEF EndContext
  <2>3. ASSUME NEW i \in Chunks, NEW a \in Answers, NEW n \in 0 .. ChunkSize, Serve(i, a, n)
        PROVE  Replies'
    <3>1. /\ \A j \in Chunks : moved'[j] = IF j = i THEN n ELSE moved[j]
          /\ \A j \in Chunks : outcome'[j] = IF j = i THEN a ELSE outcome[j]
          /\ \A j \in Chunks : wire'[j] = IF j = i THEN "served" ELSE wire[j]
      BY <1>0, <2>3 DEF Serve
    <3>2. /\ n <= Size(i) /\ wire[i] = "pending" /\ (n > 0 => a \in {"data", "bad"})
          /\ UNCHANGED <<pc, msg, cur, inbox, down>>
      BY <2>3 DEF Serve
    <3>3. QED BY <1>0, <1>c, <3>1, <3>2 DEF Replies
  <2>4. ASSUME NEW i \in Chunks, Deliver(i) PROVE Replies'
    <3>1. /\ \A j \in Chunks : wire'[j] = IF j = i THEN "delivered" ELSE wire[j]
          /\ \A j \in Chunks : inbox'[j] = inbox[j] \/ (j = i /\ inbox'[j] = "reply")
          /\ wire[i] = "served" /\ UNCHANGED <<pc, msg, cur, outcome, moved, down>>
      BY <1>0, <2>4 DEF Deliver
    <3>2. QED BY <1>0, <1>c, <3>1 DEF Replies
  <2>5. QED BY <1>7, <2>1, <2>2, <2>3, <2>4 DEF Environment
<1>8. CASE ReadStep
  BY <1>1, <1>8, SharedParts DEF ReadStep, R!SendFailed, R!AwaitContext, R!AwaitDone, R!HandleFull,
     R!HandleShort, R!HandleFailed, Advance, SettleFrom
<1>9. CASE WriteStep
  BY <1>1, <1>9, SharedParts DEF WriteStep, W!SendFailed, W!AwaitContext, W!DrainTimeout, W!AwaitDone,
     W!HandleWritten, W!HandleShort, W!HandleFailed, Advance, SettleFrom
<1>10. CASE UNCHANGED vars BY <1>1, <1>10 DEF vars, pipeVars
<1>11. QED
  BY <1>3, <1>4, <1>5, <1>6, <1>7, <1>8, <1>9, <1>10, StepKinds DEF CommonStep

\* Whole chunks stay whole.
LEMMA FullStays ==
  ASSUME TransferTypeOK, Position, Replies, [Next]_vars, NEW k \in 0 .. NumChunks, FullTo(k)
  PROVE  \A j \in 1 .. k : j \in Chunks /\ moved'[j] = Size(j)
<1>1. ASSUME NEW j \in 1 .. k PROVE j \in Chunks /\ moved'[j] = Size(j)
  <2>1. j \in Chunks BY ChunkCount DEF Chunks
  <2>2. moved[j] = Size(j) /\ Size(j) >= 1 BY <2>1, ChunkSizes DEF FullTo
  <2>3. wire[j] # "pending" BY <2>1, <2>2, Monotone
  <2>4. QED BY <2>1, <2>2, <2>3, Monotone
<1>2. QED BY <1>1

\* A chunk found whole joins those before it.
LEMMA OneMoreFull ==
  ASSUME NEW k \in Chunks, FullTo(k - 1), moved[k] = Size(k)
  PROVE  FullTo(k)
<1>1. k \in Nat \ {0} BY ChunkCount DEF Chunks
<1>2. \A j \in 1 .. k : j \in 1 .. (k - 1) \/ j = k BY <1>1
<1>3. QED BY <1>2 DEF FullTo

\* How the count and the chunk change, by where the transfer is.
LEMMA CountMoves ==
  ASSUME TransferTypeOK, Position, [Next]_vars
  PROVE  \/ count' = count /\ pc' \in Settling
         \/ UNCHANGED <<count, pc, cur>>
         \/ count' = count /\ pc \in Feeding /\ pc' \in Feeding /\ cur' = cur
         \/ count' = count /\ pc \in Feeding /\ pc' = "await" /\ cur' = cur + 1
         \/ count' = count /\ pc = "await" /\ pc' = "took" /\ cur' = cur
         \/ /\ pc = "took" /\ moved[cur] < Size(cur) /\ count' = count + moved[cur]
            /\ pc' \in Settling
         \/ /\ pc = "took" /\ moved[cur] = Size(cur) /\ count' = count + moved[cur]
            /\ \/ pc' = "send" /\ cur' = cur
               \/ pc' = "await" /\ cur' = cur + 1
               \/ pc' = "returned"
<1> USE DEF flowVars, connVars, wireVars, R!flowVars, R!connVars, R!wireVars, W!flowVars,
            W!connVars, W!wireVars, Feeding, Settling
<1>1. CASE CommonStep
  <2>1. CASE SendRequest
    BY <2>1 DEF SendRequest, SendRegister, SendRefused, SendExhausted, SendWritten, SendNotSent,
       SendWriteFails, SendWriteFailed
  <2>2. CASE Fed BY <2>2 DEF Fed, Advance
  <2>3. CASE TakeReply BY <2>3 DEF TakeReply
  <2>4. CASE Settle
    BY <2>4 DEF Settle, CollectTake, CollectDelete, CollectTimeout, CollectDone, AbandonChunks,
       SettleFrom
  <2>5. CASE Environment
    BY <2>5 DEF Environment, ConnDown, EndContext, Serve, Deliver
  <2>6. QED BY <1>1, <2>1, <2>2, <2>3, <2>4, <2>5 DEF CommonStep
<1>2. CASE ReadStep
  <2>1. CASE R!SendFailed \/ R!AwaitContext \/ R!AwaitDone \/ R!HandleFailed
    BY <2>1, SharedParts DEF R!SendFailed, R!AwaitContext, R!AwaitDone, R!HandleFailed, SettleFrom
  <2>2. CASE R!HandleFull BY <2>2, SharedParts DEF R!HandleFull, Advance
  <2>3. CASE R!HandleShort BY <2>3, SharedParts DEF R!HandleShort, SettleFrom
  <2>4. QED BY <1>2, <2>1, <2>2, <2>3 DEF ReadStep
<1>3. CASE WriteStep
  <2>1. CASE W!SendFailed BY <2>1, SharedParts DEF W!SendFailed, Advance
  <2>2. CASE W!AwaitContext \/ W!DrainTimeout \/ W!AwaitDone \/ W!HandleFailed
    BY <2>2, SharedParts DEF W!AwaitContext, W!DrainTimeout, W!AwaitDone, W!HandleFailed, SettleFrom
  <2>3. CASE W!HandleWritten BY <2>3, SharedParts DEF W!HandleWritten, Advance
  <2>4. CASE W!HandleShort BY <2>4, SharedParts DEF W!HandleShort, SettleFrom
  <2>5. QED BY <1>3, <2>1, <2>2, <2>3, <2>4 DEF WriteStep
<1>4. CASE UNCHANGED vars BY <1>4 DEF vars, pipeVars
<1>5. QED BY <1>1, <1>2, <1>3, <1>4, StepKinds

\* Every step keeps the count in line with the chunks, and backed by the server.
LEMMA CountingStep ==
  ASSUME TransferTypeOK, Position, Replies, Counting, Backed, [Next]_vars
  PROVE  Counting' /\ Backed' /\ count' \in 0 .. TotalSize
<1>0. /\ cur \in 0 .. NumChunks /\ cur \in Nat /\ count \in 0 .. TotalSize
      /\ pc = "took" => cur \in Chunks /\ cur > 0
      /\ NumChunks \in Nat \ {0}
      /\ \A i \in Chunks : moved[i] \in Nat /\ moved[i] <= Size(i) /\ moved'[i] \in Nat
      /\ \A i \in Chunks : i \in Nat /\ i - 1 \in 0 .. NumChunks
  <2>1. NumChunks \in Nat \ {0} BY ChunkCount
  <2>2. cur \in 0 .. NumChunks /\ cur \in Nat /\ count \in 0 .. TotalSize
    BY <2>1 DEF TransferTypeOK, PipeTypeOK
  <2>3. pc = "took" => cur \in Chunks /\ cur > 0 BY <2>1, <2>2 DEF Position, Chunks
  <2>4. \A i \in Chunks : moved[i] \in Nat /\ moved[i] <= Size(i)
    BY DEF TransferTypeOK, PipeTypeOK, Replies
  <2>5. \A i \in Chunks : moved'[i] \in Nat BY Monotone
  <2>6. \A i \in Chunks : i \in Nat /\ i - 1 \in 0 .. NumChunks BY <2>1 DEF Chunks
  <2>7. QED BY <2>1, <2>2, <2>3, <2>4, <2>5, <2>6
<1>1. ASSUME NEW i \in Chunks PROVE moved[i] <= moved'[i]
  BY <1>0, Monotone
<1>2. ASSUME count' = count PROVE Backed' /\ count' \in 0 .. TotalSize
  <2>1. PICK k \in Chunks : FullTo(k - 1) /\ count <= Covered(k - 1) + moved[k] BY DEF Backed
  <2>2. \A j \in 1 .. (k - 1) : moved'[j] = Size(j) BY <1>0, <2>1, FullStays
  <2>3. Covered(k - 1) \in Nat BY ChunkSizes
  <2>4. count' <= Covered(k - 1) + moved'[k] BY <1>0, <1>1, <1>2, <2>1, <2>3
  <2>5. QED BY <1>0, <1>2, <2>2, <2>4 DEF Backed, FullTo
<1>3. ASSUME pc = "took", count' = count + moved[cur]
      PROVE  Backed' /\ count' \in 0 .. TotalSize
  <2>1. FullTo(cur - 1) /\ count = Covered(cur - 1) /\ cur \in Chunks
    BY <1>0, <1>3 DEF Counting, Waiting
  <2>2. \A j \in 1 .. (cur - 1) : moved'[j] = Size(j) BY <1>0, <2>1, FullStays
  <2>3. /\ Covered(cur - 1) \in Nat /\ Covered(cur) \in 0 .. TotalSize
        /\ Covered(cur) = Covered(cur - 1) + Size(cur) /\ Size(cur) \in Nat
    BY <2>1, ChunkSizes
  <2>4. count' <= Covered(cur - 1) + moved'[cur] BY <1>0, <1>1, <1>3, <2>1, <2>3
  <2>5. Backed' BY <2>1, <2>2, <2>4 DEF Backed, FullTo
  <2>6. moved[cur] \in Nat /\ moved[cur] <= Size(cur) BY <1>0, <2>1
  <2>7. QED BY <1>3, <2>1, <2>3, <2>5, <2>6
<1>4. ASSUME pc' \in Settling PROVE Counting'
  BY <1>4 DEF Counting, Settling, Feeding, Waiting
<1>5. CASE count' = count /\ pc' \in Settling BY <1>2, <1>4, <1>5
<1>6. CASE UNCHANGED <<count, pc, cur>>
  <2>1. pc \in Feeding => \A j \in 1 .. cur : moved'[j] = Size(j) BY <1>0, FullStays DEF Counting
  <2>2. pc \in Waiting => cur - 1 \in 0 .. NumChunks
    BY <1>0 DEF Waiting, Position
  <2>3. pc \in Waiting => \A j \in 1 .. (cur - 1) : moved'[j] = Size(j)
    BY <2>2, FullStays DEF Counting
  <2>4. Counting' BY <1>6, <2>1, <2>3 DEF Counting, FullTo
  <2>5. QED BY <1>2, <1>6, <2>4
<1>7. CASE count' = count /\ pc \in Feeding /\ pc' \in Feeding /\ cur' = cur
  <2>1. \A j \in 1 .. cur : moved'[j] = Size(j) BY <1>0, <1>7, FullStays DEF Counting
  <2>2. Counting' BY <1>7, <2>1 DEF Counting, FullTo, Feeding, Waiting
  <2>3. QED BY <1>2, <1>7, <2>2
<1>8. CASE count' = count /\ pc \in Feeding /\ pc' = "await" /\ cur' = cur + 1
  <2>1. \A j \in 1 .. cur : moved'[j] = Size(j) BY <1>0, <1>8, FullStays DEF Counting
  <2>2. cur' - 1 = cur BY <1>0, <1>8
  <2>3. Counting' BY <1>8, <2>1, <2>2 DEF Counting, FullTo, Feeding, Waiting
  <2>4. QED BY <1>2, <1>8, <2>3
<1>9. CASE count' = count /\ pc = "await" /\ pc' = "took" /\ cur' = cur
  <2>1. cur - 1 \in 0 .. NumChunks BY <1>0, <1>9 DEF Position
  <2>2. \A j \in 1 .. (cur - 1) : moved'[j] = Size(j)
    BY <1>9, <2>1, FullStays DEF Counting, Waiting
  <2>3. Counting' BY <1>9, <2>2 DEF Counting, FullTo, Feeding, Waiting
  <2>4. QED BY <1>2, <1>9, <2>3
<1>10. CASE /\ pc = "took" /\ moved[cur] < Size(cur) /\ count' = count + moved[cur]
            /\ pc' \in Settling
  BY <1>3, <1>4, <1>10
<1>11. CASE /\ pc = "took" /\ moved[cur] = Size(cur) /\ count' = count + moved[cur]
            /\ \/ pc' = "send" /\ cur' = cur
               \/ pc' = "await" /\ cur' = cur + 1
               \/ pc' = "returned"
  <2>1. FullTo(cur - 1) /\ count = Covered(cur - 1) /\ cur \in Chunks
    BY <1>0, <1>11 DEF Counting, Waiting
  <2>2. FullTo(cur) BY <1>11, <2>1, OneMoreFull
  <2>3. \A j \in 1 .. cur : moved'[j] = Size(j) BY <1>0, <2>2, FullStays
  <2>4. count' = Covered(cur) BY <1>11, <2>1, ChunkSizes
  <2>5. CASE pc' = "returned" BY <1>3, <1>4, <1>11, <2>5 DEF Settling
  <2>6. CASE pc' = "send" /\ cur' = cur
    <3>1. Counting' BY <2>3, <2>4, <2>6 DEF Counting, FullTo, Feeding, Waiting
    <3>2. QED BY <1>3, <1>11, <3>1
  <2>7. CASE pc' = "await" /\ cur' = cur + 1
    <3>1. cur' - 1 = cur BY <1>0, <2>7
    <3>2. Counting' BY <2>3, <2>4, <2>7, <3>1 DEF Counting, FullTo, Feeding, Waiting
    <3>3. QED BY <1>3, <1>11, <3>2
  <2>8. QED BY <1>11, <2>5, <2>6, <2>7
<1>12. QED BY <1>5, <1>6, <1>7, <1>8, <1>9, <1>10, <1>11, CountMoves

-----------------------------------------------------------------------------
(* What the caller is told.                                                *)

\* A transfer that has settled all it sent, each chunk whole, counts exactly
\* what the server moved without a gap.
LEMMA ExactAtEnd ==
  ASSUME TransferTypeOK, Position, Replies, NEW n, FullTo(cur), cur = sent, n = Covered(cur)
  PROVE  \/ FullTo(NumChunks) /\ n = TotalSize
         \/ \E k \in Chunks : /\ FullTo(k - 1)
                              /\ moved[k] < Size(k)
                              /\ wire[k] # "pending"
                              /\ n = Covered(k - 1) + moved[k]
<1>0. cur \in Nat /\ NumChunks \in Nat \ {0} /\ cur <= NumChunks
  BY ChunkCount DEF TransferTypeOK, PipeTypeOK
<1>1. CASE cur = NumChunks BY <1>1 DEF Covered
<1>2. CASE cur # NumChunks
  <2>1. cur + 1 \in Chunks /\ (cur + 1) - 1 = cur BY <1>0, <1>2 DEF Chunks
  <2>2. wire[cur + 1] = "unsent" BY <1>0, <2>1 DEF Position
  <2>3. moved[cur + 1] = 0 /\ Size(cur + 1) >= 1 /\ Size(cur + 1) \in Nat
    BY <2>1, <2>2, ChunkSizes DEF Replies
  <2>4. Covered(cur) \in Nat BY <2>1, ChunkSizes
  <2>5. QED BY <2>1, <2>2, <2>3, <2>4
<1>3. QED BY <1>1, <1>2

\* An exact count stays exact, whatever the server still does.
LEMMA ExactStays ==
  ASSUME TransferTypeOK, Position, Replies, Exact, [Next]_vars, pc \in Settling, count' = count
  PROVE  Exact'
<1>1. CASE FullTo(NumChunks) /\ count = TotalSize
  <2>1. \A j \in 1 .. NumChunks : moved'[j] = Size(j) BY <1>1, ChunkCount, FullStays
  <2>2. QED BY <1>1, <2>1 DEF Exact, FullTo
<1>2. ASSUME NEW k \in Chunks, FullTo(k - 1), moved[k] < Size(k), wire[k] # "pending",
             count = Covered(k - 1) + moved[k]
      PROVE  Exact'
  <2>1. k - 1 \in 0 .. NumChunks BY ChunkSizes
  <2>2. \A j \in 1 .. (k - 1) : moved'[j] = Size(j) BY <1>2, <2>1, FullStays
  <2>3. moved'[k] = moved[k] BY <1>2, Monotone
  <2>4. wire[k] \in {"unsent", "served", "delivered"} BY <1>2 DEF TransferTypeOK, PipeTypeOK
  <2>5. wire'[k] # "pending" BY <2>4, Monotone
  <2>6. QED BY <1>2, <2>2, <2>3, <2>5 DEF Exact, FullTo
<1>3. QED BY <1>1, <1>2 DEF Exact

\* Every step of a Write keeps what it will say true.
LEMMA WriteStepKeeps ==
  ASSUME TransferTypeOK, Position, Replies, Counting, WriteParts, [Next]_vars
  PROVE  WriteParts'
<1> USE DEF flowVars, connVars, wireVars, R!flowVars, R!connVars, R!wireVars, W!flowVars,
            W!connVars, W!wireVars
<1>0. /\ cur \in 0 .. NumChunks /\ cur \in Nat /\ sent \in Nat /\ cur <= sent /\ sent <= NumChunks
      /\ count \in Nat /\ NumChunks \in Nat \ {0}
      /\ pc = "took" => cur \in Chunks
  BY ChunkCount DEF TransferTypeOK, PipeTypeOK, Position, Chunks
<1> DEFINE Bad == \E i \in Chunks : outcome[i] = "bad"
<1>1. Bad => Bad'
  <2>1. ASSUME NEW i \in Chunks, outcome[i] = "bad" PROVE outcome'[i] = "bad"
    BY <2>1, Monotone
  <2>2. QED BY <2>1
<1> HIDE DEF Bad
<1>2. ASSUME UNCHANGED <<kind, draining, err>>, pc' \notin Settling PROVE WriteParts'
  BY <1>2 DEF WriteParts
<1>3. ASSUME UNCHANGED <<kind, draining, err, count>>, pc \in Settling,
             down => down', gaveUp => gaveUp'
      PROVE  WriteParts'
  BY <1>1, <1>3, ExactStays DEF WriteParts, Bad
<1>4. CASE CommonStep
  <2>1. CASE SendRequest
    BY <1>2, <1>4, <2>1 DEF CommonStep, SendRequest, SendRegister, SendRefused, SendExhausted,
       SendWritten, SendNotSent, SendWriteFails, SendWriteFailed, Settling
  <2>2. CASE Fed
    <3>1. cur # sent BY <1>0, <2>2 DEF Fed, Position
    <3>2. QED BY <1>2, <1>4, <2>2, <3>1 DEF CommonStep, Fed, Advance, Settling
  <2>3. CASE TakeReply BY <1>2, <1>4, <2>3 DEF CommonStep, TakeReply, Settling
  <2>4. CASE Settle
    <3>1. UNCHANGED <<count, err, down>> /\ pc \in Settling /\ (gaveUp => gaveUp')
      BY <2>4 DEF Settle, CollectTake, CollectDelete, CollectTimeout, CollectDone, AbandonChunks,
         Settling
    <3>2. QED BY <1>3, <1>4, <3>1 DEF CommonStep
  <2>5. CASE Environment
    <3>1. UNCHANGED <<count, err, gaveUp, pc>> /\ (down => down')
      BY <2>5 DEF Environment, ConnDown, TearDown, EndContext, Serve, Deliver
    <3>2. QED BY <1>2, <1>3, <1>4, <3>1 DEF CommonStep
  <2>6. QED BY <1>4, <2>1, <2>2, <2>3, <2>4, <2>5 DEF CommonStep
<1>5. CASE ReadStep BY <1>5 DEF ReadStep, WriteParts
<1>6. CASE WriteStep
  <2>0. kind = "write" /\ kind' = "write" BY <1>6 DEF WriteStep
  <2>1. ASSUME NEW c, W!StopFeeding(c), c # "none" PROVE draining' /\ err' # "none"
    BY <2>0, <2>1 DEF W!StopFeeding, WriteParts
  <2>2. ASSUME FullTo(cur), cur = sent, count' = Covered(cur), UNCHANGED <<wire, moved>>
        PROVE  Exact'
    BY <2>2, ExactAtEnd DEF Exact, FullTo
  <2>3. CASE W!SendFailed
    <3>1. draining' /\ err' # "none" BY <2>1, <2>3 DEF W!SendFailed
    <3>2. FullTo(cur) /\ count' = Covered(cur) BY <2>3 DEF W!SendFailed, Counting, Feeding
    <3>3. pc' \in Settling => cur = sent BY <2>3, SharedParts DEF W!SendFailed, Advance, Settling
    <3>4. UNCHANGED <<wire, moved>> BY <2>3 DEF W!SendFailed
    <3>5. QED BY <2>2, <3>1, <3>2, <3>3, <3>4 DEF WriteParts
  <2>4. CASE W!AwaitContext
    <3>1. draining' /\ err' # "none" /\ pc' \notin Settling
      BY <2>1, <2>4 DEF W!AwaitContext, Settling
    <3>2. QED BY <3>1 DEF WriteParts
  <2>5. CASE W!DrainTimeout
    <3>1. gaveUp' /\ draining /\ UNCHANGED <<err, draining>> BY <2>5 DEF W!DrainTimeout
    <3>2. QED BY <2>0, <3>1 DEF WriteParts
  <2>6. CASE W!AwaitDone
    <3>1. down' /\ err' # "none" BY <2>6 DEF W!AwaitDone
    <3>2. QED BY <3>1 DEF WriteParts
  <2>7. CASE W!HandleWritten
    <3>1. pc = "took" /\ moved[cur] = Size(cur) /\ count' = count + moved[cur]
      BY <2>7, SharedParts DEF W!HandleWritten
    <3>2. FullTo(cur) /\ count' = Covered(cur)
      <4>1. FullTo(cur - 1) /\ count = Covered(cur - 1) /\ cur \in Chunks
        BY <1>0, <3>1 DEF Counting, Waiting
      <4>2. QED BY <3>1, <4>1, OneMoreFull, ChunkSizes
    <3>3. UNCHANGED <<wire, moved>> BY <2>7 DEF W!HandleWritten
    <3>4. pc' \in Settling => cur = sent
      BY <2>7, SharedParts DEF W!HandleWritten, Advance, Settling
    <3>5. pc' \in Settling => Exact' BY <2>2, <3>2, <3>3, <3>4
    <3>6. CASE ctxDone
      <4>1. draining' /\ err' # "none" BY <2>1, <2>7, <3>6 DEF W!HandleWritten
      <4>2. QED BY <3>5, <4>1 DEF WriteParts
    <3>7. CASE ~ctxDone /\ draining
      <4>1. UNCHANGED <<err, draining>> BY <2>7, <3>7 DEF W!HandleWritten
      <4>2. QED BY <2>0, <3>5, <3>7, <4>1 DEF WriteParts
    <3>8. CASE ~ctxDone /\ ~draining
      <4>1. UNCHANGED <<err, draining>> BY <2>7, <3>8 DEF W!HandleWritten
      <4>2. pc' \in Settling => ~(sent < NumChunks)
        BY <2>7, <3>8, SharedParts DEF W!HandleWritten, Settling
      <4>3. pc' \in Settling => count' = TotalSize
        BY <1>0, <3>2, <3>4, <4>2 DEF Covered
      <4>4. QED BY <3>5, <3>8, <4>1, <4>3 DEF WriteParts
    <3>9. QED BY <3>6, <3>7, <3>8
  <2>8. CASE W!HandleShort
    <3>1. /\ pc = "took" /\ msg = "data" /\ moved[cur] < Size(cur) /\ count' = count + moved[cur]
          /\ err' = "short" /\ UNCHANGED <<wire, moved, down>>
      BY <2>8, SharedParts DEF W!HandleShort
    <3>2. FullTo(cur - 1) /\ count = Covered(cur - 1) /\ cur \in Chunks
      BY <1>0, <3>1 DEF Counting, Waiting
    <3>3. wire[cur] = "delivered" BY <3>1 DEF Replies
    <3>4. Exact' BY <3>1, <3>2, <3>3 DEF Exact, FullTo
    <3>5. QED BY <3>1, <3>4 DEF WriteParts
  <2>9. CASE W!HandleFailed
    <3>1. /\ pc = "took" /\ msg # "data" /\ count' = count
          /\ err' = "failed" /\ UNCHANGED <<wire, moved, outcome, down>>
      BY <2>9 DEF W!HandleFailed
    <3>2. FullTo(cur - 1) /\ count = Covered(cur - 1) /\ cur \in Chunks
      BY <1>0, <3>1 DEF Counting, Waiting
    <3>3. CASE down BY <3>1, <3>3 DEF WriteParts
    <3>4. CASE ~down /\ msg = "bad"
      <4>1. outcome'[cur] = "bad" BY <3>1, <3>2, <3>4 DEF Replies
      <4>2. QED BY <3>1, <3>2, <4>1 DEF WriteParts
    <3>5. CASE ~down /\ msg # "bad"
      <4>1. wire[cur] = "delivered" /\ outcome[cur] \notin {"data", "bad"}
        BY <3>1, <3>5 DEF Replies
      <4>2. moved[cur] \in Nat /\ ~(moved[cur] > 0) /\ Size(cur) >= 1 /\ Size(cur) \in Nat
            /\ Covered(cur - 1) \in Nat
        BY <3>2, <4>1, ChunkSizes DEF Replies, TransferTypeOK, PipeTypeOK
      <4>3. moved[cur] < Size(cur) /\ count = Covered(cur - 1) + moved[cur] BY <3>2, <4>2
      <4>4. Exact' BY <3>1, <3>2, <4>1, <4>3 DEF Exact, FullTo
      <4>5. QED BY <3>1, <4>4 DEF WriteParts
    <3>6. QED BY <3>3, <3>4, <3>5
  <2>10. QED BY <1>6, <2>3, <2>4, <2>5, <2>6, <2>7, <2>8, <2>9 DEF WriteStep
<1>7. CASE UNCHANGED vars BY <1>2, <1>3, <1>7 DEF vars, pipeVars
<1>8. QED BY <1>4, <1>5, <1>6, <1>7, StepKinds

\* Every step of a Read keeps what it will say true.
LEMMA ReadStepKeeps ==
  ASSUME TransferTypeOK, Position, Replies, Counting, ReadParts, [Next]_vars
  PROVE  ReadParts'
<1> USE DEF flowVars, connVars, wireVars, R!flowVars, R!connVars, R!wireVars, W!flowVars,
            W!connVars, W!wireVars
<1>0. /\ cur \in 0 .. NumChunks /\ cur \in Nat /\ sent \in Nat /\ cur <= sent /\ sent <= NumChunks
      /\ count \in Nat /\ NumChunks \in Nat \ {0} /\ 1 \in Chunks
      /\ pc = "took" => cur \in Chunks
      /\ wire \in [Chunks -> {"unsent", "pending", "served", "delivered"}]
  BY ChunkCount DEF TransferTypeOK, PipeTypeOK, Position, Chunks
<1>1. ASSUME UNCHANGED <<kind, err>>, pc \notin Settling, pc' \notin Settling PROVE ReadParts'
  BY <1>1 DEF ReadParts
<1>2. ASSUME UNCHANGED <<kind, err, count>>, pc \in Settling, pc' \in Settling PROVE ReadParts'
  <2>1. ASSUME outcome[1] \in {"data", "eof"} PROVE outcome'[1] = outcome[1] /\ moved'[1] = moved[1]
    BY <1>0, <2>1, Monotone
  <2>2. QED BY <1>2, <2>1 DEF ReadParts
<1>3. CASE CommonStep
  <2>1. CASE SendRequest
    BY <1>1, <1>3, <2>1 DEF CommonStep, SendRequest, SendRegister, SendRefused, SendExhausted,
       SendWritten, SendNotSent, SendWriteFails, SendWriteFailed, Settling
  <2>2. CASE Fed
    <3>1. cur # sent BY <1>0, <2>2 DEF Fed, Position
    <3>2. QED BY <1>1, <1>3, <2>2, <3>1 DEF CommonStep, Fed, Advance, Settling
  <2>3. CASE TakeReply BY <1>1, <1>3, <2>3 DEF CommonStep, TakeReply, Settling
  <2>4. CASE Settle
    <3>1. UNCHANGED <<count, err>> /\ pc \in Settling /\ pc' \in Settling
      BY <2>4 DEF Settle, CollectTake, CollectDelete, CollectTimeout, CollectDone, AbandonChunks,
         SettleFrom, Settling
    <3>2. QED BY <1>2, <1>3, <3>1 DEF CommonStep
  <2>5. CASE Environment
    <3>1. UNCHANGED <<count, err, pc>>
      BY <2>5 DEF Environment, ConnDown, EndContext, Serve, Deliver
    <3>2. QED BY <1>1, <1>2, <1>3, <3>1 DEF CommonStep
  <2>6. QED BY <1>3, <2>1, <2>2, <2>3, <2>4, <2>5 DEF CommonStep
<1>4. CASE WriteStep BY <1>4 DEF WriteStep, ReadParts
<1>5. CASE ReadStep
  <2>0. kind = "read" /\ kind' = "read" BY <1>5 DEF ReadStep
  <2>1. CASE R!SendFailed \/ R!AwaitContext \/ R!AwaitDone \/ R!HandleFailed
    <3>1. err' \in {"send", "ctx", "conn", "failed"} /\ pc' \in Settling
      BY <2>1, SharedParts DEF R!SendFailed, R!AwaitContext, R!AwaitDone, R!HandleFailed, SettleFrom,
         Settling
    <3>2. QED BY <3>1 DEF ReadParts
  <2>2. CASE R!HandleFull
    <3>1. pc = "took" /\ moved[cur] = Size(cur) /\ count' = count + moved[cur] /\ err' = err
      BY <2>2, SharedParts DEF R!HandleFull
    <3>2. moved[cur] \in Nat /\ moved[cur] >= 1 BY <1>0, <3>1, ChunkSizes
    <3>3. count' > 0 BY <1>0, <3>1, <3>2
    <3>4. err' = "none" BY <2>0, <3>1 DEF ReadParts, Settling
    <3>5. QED BY <3>3, <3>4 DEF ReadParts
  <2>3. CASE R!HandleShort
    <3>1. /\ pc = "took" /\ msg \in {"data", "eof"} /\ count' = count + moved[cur]
          /\ err' = IF count' > 0 THEN "none" ELSE "eof"
          /\ UNCHANGED <<outcome, moved>> /\ pc' \in Settling
      BY <2>3, SharedParts DEF R!HandleShort, SettleFrom, Settling
    <3>2. count = Covered(cur - 1) /\ cur \in Chunks BY <1>0, <3>1 DEF Counting, Waiting
    <3>3. moved[cur] \in Nat /\ outcome[cur] \in {"data", "eof"}
      BY <3>1, <3>2 DEF TransferTypeOK, PipeTypeOK, Replies
    <3>4. CASE count' > 0 BY <3>1, <3>4 DEF ReadParts
    <3>5. CASE ~(count' > 0)
      <4>1. count = 0 /\ moved[cur] = 0 /\ count' = 0 BY <1>0, <3>1, <3>3, <3>5
      <4>2. cur = 1 BY <3>2, <4>1, ChunkSizes
      <4>3. QED BY <3>1, <3>3, <3>5, <4>1, <4>2 DEF ReadParts
    <3>6. QED BY <3>4, <3>5
  <2>4. QED BY <1>5, <2>1, <2>2, <2>3 DEF ReadStep
<1>6. CASE UNCHANGED vars BY <1>1, <1>2, <1>6 DEF vars, pipeVars
<1>7. QED BY <1>3, <1>4, <1>5, <1>6, StepKinds

-----------------------------------------------------------------------------
(* Types, and the whole.                                                   *)

\* Every step keeps the types; count is CountingStep's.
LEMMA TypeStep ==
  ASSUME TransferTypeOK, Position, Replies, count' \in 0 .. TotalSize, [Next]_vars
  PROVE  TransferTypeOK'
<1> USE DEF flowVars, connVars, wireVars, R!flowVars, R!connVars, R!wireVars, W!flowVars,
            W!connVars, W!wireVars, Answers
<1>0. /\ cur \in Nat /\ sent \in Nat /\ NumChunks \in Nat \ {0} /\ sent <= NumChunks /\ cur <= sent
  BY ChunkCount DEF TransferTypeOK, PipeTypeOK, Position
<1>1. pc \in {"await", "took", "collect", "collected"} => cur \in Chunks
  BY <1>0 DEF Position, Chunks
<1>2. pc \in {"send", "writing"} => sent + 1 \in Chunks BY <1>0 DEF Position, Chunks
<1>3. Advance \/ SettleFrom(cur + 1) =>
         cur' \in 0 .. NumChunks /\ pc' \in {"await", "collect", "returned"}
  BY <1>0 DEF Advance, SettleFrom
<1>4. TearDown => /\ down' \in BOOLEAN /\ registered' \subseteq Chunks
                  /\ inbox' \in [Chunks -> {"empty", "reply", "down"}]
  BY DEF TearDown, TransferTypeOK, PipeTypeOK
<1>5. CASE CommonStep
  <2>1. CASE SendRegister \/ SendRefused \/ SendNotSent \/ SendWriteFails
    BY <1>2, <1>5, <2>1 DEF CommonStep, SendRegister, SendRefused, SendNotSent, SendWriteFails,
       TransferTypeOK, PipeTypeOK
  <2>2. CASE SendExhausted \/ SendWriteFailed
    BY <1>4, <1>5, <2>2 DEF CommonStep, SendExhausted, SendWriteFailed, TransferTypeOK, PipeTypeOK
  <2>3. CASE SendWritten
    <3>1. sent' \in 0 .. NumChunks BY <1>0, <2>3 DEF SendWritten, Position
    <3>2. QED BY <1>2, <1>5, <2>3, <3>1 DEF CommonStep, SendWritten, TransferTypeOK, PipeTypeOK
  <2>4. CASE Fed
    <3>1. cur' \in 0 .. NumChunks /\ pc' \in {"send", "await", "returned"}
      BY <1>0, <1>3, <2>4 DEF Fed, Advance
    <3>2. QED BY <1>5, <2>4, <3>1 DEF CommonStep, Fed, TransferTypeOK, PipeTypeOK
  <2>5. CASE TakeReply
    <3>1. msg' \in Answers \cup {"none", "down"}
      BY <1>1, <2>5 DEF TakeReply, TransferTypeOK, PipeTypeOK
    <3>2. QED BY <1>1, <1>5, <2>5, <3>1 DEF CommonStep, TakeReply, TransferTypeOK, PipeTypeOK
  <2>6. CASE CollectTake
    BY <1>1, <1>5, <2>6 DEF CommonStep, CollectTake, TransferTypeOK, PipeTypeOK
  <2>7. CASE CollectDelete
    BY <1>3, <1>5, <2>7 DEF CommonStep, CollectDelete, DeleteMID, TransferTypeOK, PipeTypeOK
  <2>8. CASE CollectTimeout \/ CollectDone
    <3>1. pc' \in {"abandon", "returned"} /\ gaveUp' \in BOOLEAN
      BY <2>8 DEF CollectTimeout, CollectDone, TransferTypeOK, PipeTypeOK
    <3>2. UNCHANGED <<cur, sent, taken, msg, count, err, ctxDone, inbox, registered, cancelled, down,
                      wire, outcome, moved, kind, draining>>
      BY <1>5, <2>8 DEF CommonStep, CollectTimeout, CollectDone
    <3>3. QED BY <3>1, <3>2 DEF TransferTypeOK, PipeTypeOK
  <2>9. CASE AbandonChunks
    BY <1>5, <2>9 DEF CommonStep, AbandonChunks, TransferTypeOK, PipeTypeOK
  <2>10. CASE ConnDown BY <1>4, <1>5, <2>10 DEF CommonStep, ConnDown, TransferTypeOK, PipeTypeOK
  <2>11. CASE EndContext BY <1>5, <2>11 DEF CommonStep, EndContext, TransferTypeOK, PipeTypeOK
  <2>12. ASSUME NEW i \in Chunks, NEW a \in Answers, NEW n \in 0 .. ChunkSize, Serve(i, a, n)
         PROVE  TransferTypeOK'
    BY <1>5, <2>12 DEF CommonStep, Serve, TransferTypeOK, PipeTypeOK
  <2>13. ASSUME NEW i \in Chunks, Deliver(i) PROVE TransferTypeOK'
    BY <1>5, <2>13 DEF CommonStep, Deliver, TransferTypeOK, PipeTypeOK
  <2>14. QED
    BY <1>5, <2>1, <2>2, <2>3, <2>4, <2>5, <2>6, <2>7, <2>8, <2>9, <2>10, <2>11, <2>12, <2>13
    DEF CommonStep, SendRequest, Settle, Environment
<1>6. CASE ReadStep
  <2>1. CASE R!SendFailed
    BY <1>3, <1>6, <2>1, SharedParts DEF ReadStep, R!SendFailed, TransferTypeOK, PipeTypeOK
  <2>2. CASE R!AwaitContext \/ R!AwaitDone
    <3>1. cur' = cur /\ pc' \in {"collect", "returned"}
      BY <1>0, <2>2, SharedParts DEF R!AwaitContext, R!AwaitDone, SettleFrom
    <3>2. QED
      BY <1>6, <2>2, <3>1 DEF ReadStep, R!AwaitContext, R!AwaitDone, TransferTypeOK, PipeTypeOK
  <2>3. CASE R!HandleFull
    <3>1. cur' \in 0 .. NumChunks /\ pc' \in {"send", "await", "collect", "returned"}
      BY <1>0, <1>3, <2>3, SharedParts DEF R!HandleFull
    <3>2. registered' \subseteq Chunks
      BY <2>3, SharedParts DEF R!HandleFull, DeleteMID, TransferTypeOK, PipeTypeOK
    <3>3. QED BY <1>6, <2>3, <3>1, <3>2 DEF ReadStep, R!HandleFull, TransferTypeOK, PipeTypeOK
  <2>4. CASE R!HandleShort \/ R!HandleFailed
    <3>1. registered' \subseteq Chunks /\ SettleFrom(cur + 1) /\ err' \in {"none", "eof", "failed"}
      BY <2>4, SharedParts DEF R!HandleShort, R!HandleFailed, DeleteMID, TransferTypeOK, PipeTypeOK
    <3>2. QED
      BY <1>3, <1>6, <2>4, <3>1
      DEF ReadStep, R!HandleShort, R!HandleFailed, TransferTypeOK, PipeTypeOK
  <2>5. QED BY <1>6, <2>1, <2>2, <2>3, <2>4 DEF ReadStep
<1>7. CASE WriteStep
  <2>1. ASSUME NEW c \in {"send", "ctx"}, W!StopFeeding(c)
        PROVE  draining' \in BOOLEAN /\ err' \in {"none", "ctx", "send", "conn", "eof", "failed", "short"}
    BY <2>1 DEF W!StopFeeding, TransferTypeOK, PipeTypeOK
  <2>2. CASE W!SendFailed
    BY <1>3, <1>7, <2>1, <2>2, SharedParts DEF WriteStep, W!SendFailed, TransferTypeOK, PipeTypeOK
  <2>3. CASE W!AwaitContext
    BY <1>7, <2>1, <2>3 DEF WriteStep, W!AwaitContext, TransferTypeOK, PipeTypeOK
  <2>4. CASE W!DrainTimeout \/ W!AwaitDone
    BY <1>7, <2>4 DEF WriteStep, W!DrainTimeout, W!AwaitDone, TransferTypeOK, PipeTypeOK
  <2>5. CASE W!HandleWritten
    <3>1. cur' \in 0 .. NumChunks /\ pc' \in {"send", "await", "collect", "returned"}
      BY <1>0, <1>3, <2>5, SharedParts DEF W!HandleWritten
    <3>2. registered' \subseteq Chunks
      BY <2>5, SharedParts DEF W!HandleWritten, DeleteMID, TransferTypeOK, PipeTypeOK
    <3>3. draining' \in BOOLEAN /\ err' \in {"none", "ctx", "send", "conn", "eof", "failed", "short"}
      BY <2>1, <2>5 DEF W!HandleWritten, TransferTypeOK, PipeTypeOK
    <3>4. QED
      BY <1>7, <2>5, <3>1, <3>2, <3>3 DEF WriteStep, W!HandleWritten, TransferTypeOK, PipeTypeOK
  <2>6. CASE W!HandleShort \/ W!HandleFailed
    <3>1. registered' \subseteq Chunks /\ SettleFrom(cur + 1) /\ err' \in {"short", "failed"}
      BY <2>6, SharedParts DEF W!HandleShort, W!HandleFailed, DeleteMID, TransferTypeOK, PipeTypeOK
    <3>2. QED
      BY <1>3, <1>7, <2>6, <3>1
      DEF WriteStep, W!HandleShort, W!HandleFailed, TransferTypeOK, PipeTypeOK
  <2>7. QED BY <1>7, <2>2, <2>3, <2>4, <2>5, <2>6 DEF WriteStep
<1>8. CASE UNCHANGED vars BY <1>8 DEF vars, pipeVars, TransferTypeOK, PipeTypeOK
<1>9. QED BY <1>5, <1>6, <1>7, <1>8, StepKinds

\* TransferIInv holds of a transfer that begins.
LEMMA TransferInit == Init => TransferIInv
<1> SUFFICES ASSUME Init PROVE TransferIInv
  OBVIOUS
<1> USE DEF Feeding, Waiting, Settling
<1>i. PipeInit /\ kind \in {"read", "write"} /\ draining = FALSE
  BY DEF Init, W!Init, W!PipeInit, W!Chunks, W!NumChunks, PipeInit, Chunks, NumChunks
<1>0. NumChunks \in Nat \ {0} /\ PipelineDepth \in Nat \ {0} /\ Covered(0) = 0
  BY ChunkCount, Depths DEF Covered
<1>1. TransferTypeOK
  <2>1. 0 \in 0 .. NumChunks /\ 0 \in 0 .. TotalSize /\ 0 \in 0 .. ChunkSize BY <1>0
  <2>2. moved \in [Chunks -> 0 .. ChunkSize] BY <1>i, <2>1 DEF PipeInit
  <2>3. QED BY <1>i, <2>1, <2>2 DEF PipeInit, TransferTypeOK, PipeTypeOK, Answers
<1>2. Position
  <2>1. \A i \in Chunks : i \in Nat /\ ~(i <= 0) BY <1>0 DEF Chunks
  <2>2. 1 .. 0 = {} OBVIOUS
  <2>3. QED BY <1>i, <1>0, <2>1, <2>2 DEF PipeInit, Position, Behind
<1>3. Entries BY <1>i, <1>0 DEF PipeInit, Entries, Expected, Chunks
<1>4. Replies
  <2>1. \A i \in Chunks : Size(i) \in Nat BY ChunkSizes
  <2>2. QED BY <1>i, <2>1 DEF PipeInit, Replies
<1>5. Counting BY <1>i, <1>0 DEF PipeInit, Counting, FullTo
<1>6. Backed
  <2>1. 1 \in Chunks BY <1>0 DEF Chunks
  <2>2. FullTo(1 - 1) /\ Covered(1 - 1) = 0 BY <1>0 DEF FullTo
  <2>3. QED BY <1>i, <2>1, <2>2 DEF PipeInit, Backed
<1>7. WriteParts /\ ReadParts BY <1>i DEF PipeInit, WriteParts, ReadParts
<1>8. QED BY <1>1, <1>2, <1>3, <1>4, <1>5, <1>6, <1>7 DEF TransferIInv

\* TransferIInv is an invariant of both transfers, for any amount of data, any
\* chunk size and any depth of the pipeline.
THEOREM TransferInvariant == Spec => []TransferIInv
<1>1. Init => TransferIInv BY TransferInit
<1>2. TransferIInv /\ [Next]_vars => TransferIInv'
  BY PositionStep, EntriesStep, RepliesStep, CountingStep, WriteStepKeeps, ReadStepKeeps, TypeStep
  DEF TransferIInv
<1>3. QED BY <1>1, <1>2, PTL DEF Spec

\* Never more requests are in flight than the server takes, and a transfer that
\* returns on a live connection without having given up leaves none behind.
THEOREM SettlesOnReturn == Spec => []SettledOnReturn
<1>1. TransferIInv => SettledOnReturn
  <2> SUFFICES ASSUME TransferIInv PROVE SettledOnReturn
    OBVIOUS
  <2>0. /\ cur \in Nat /\ sent \in Nat /\ NumChunks \in Nat \ {0} /\ sent <= NumChunks /\ cur <= sent
        /\ PipelineDepth \in Nat /\ Position
    BY ChunkCount, Depths DEF TransferIInv, TransferTypeOK, PipeTypeOK, Position
  <2>1. PICK k \in 0 .. sent : Behind(k)
    <3>1. pc \in Feeding \cup {"took", "collected", "await", "collect", "abandon", "returned"}
      BY DEF TransferIInv, TransferTypeOK, PipeTypeOK, Feeding
    <3>2. pc \in {"await", "collect", "abandon"} => cur - 1 \in 0 .. sent BY <2>0 DEF Position
    <3>3. QED BY <2>0, <3>1, <3>2 DEF Position
  <2>2. Outstanding = (k + 1) .. sent
    BY <2>0, <2>1 DEF Outstanding, Position, Behind, Chunks
  <2>3. Cardinality(Outstanding) <= PipelineDepth
    <3>1. k + 1 \in Int /\ sent \in Int /\ k \in Nat /\ k <= sent BY <2>0, <2>1
    <3>2. Cardinality((k + 1) .. sent) = sent - (k + 1) + 1 \/ Cardinality((k + 1) .. sent) = 0
      BY <3>1, FS_Interval
    <3>3. QED BY <2>0, <2>1, <2>2, <3>1, <3>2 DEF Behind
  <2>4. (pc = "returned" /\ ~down /\ ~gaveUp) => Outstanding = {}
    BY <2>0 DEF Outstanding, Position, Chunks
  <2>5. QED BY <2>3, <2>4 DEF SettledOnReturn
<1>2. QED BY <1>1, TransferInvariant, PTL

\* The delete by MID finds the transfer's own entry, and what a transfer leaves
\* in the pending map is marked cancelled and still awaits its reply.
THEOREM EntriesAreOwned == Spec => []EntriesOwned
<1>1. TransferIInv => EntriesOwned
  <2> SUFFICES ASSUME TransferIInv PROVE EntriesOwned
    OBVIOUS
  <2>0. /\ cur \in Nat /\ sent \in Nat /\ NumChunks \in Nat /\ sent <= NumChunks /\ cur <= sent
        /\ Position /\ Entries
    BY ChunkCount DEF TransferIInv, TransferTypeOK, PipeTypeOK, Position
  <2>1. (pc \in {"took", "collected"} /\ ~down) => cur \in registered
    BY <2>0 DEF Position, Entries, Expected, Chunks
  <2>2. (pc = "writing" /\ ~down) => sent + 1 \in registered
    BY <2>0 DEF Position, Entries, Expected, Chunks
  <2>3. QED BY <2>0, <2>1, <2>2 DEF EntriesOwned, Entries
<1>2. QED BY <1>1, TransferInvariant, PTL

\* Prefix in the instances is Prefix here.
LEMMA SharedPrefix == R!Prefix = Prefix /\ W!Prefix = Prefix
BY DEF R!Prefix, W!Prefix, Prefix, R!Chunks, W!Chunks, Chunks, R!NumChunks, W!NumChunks, NumChunks,
   R!Size, W!Size, Size

\* The server has moved what either transfer counts, without a gap.
LEMMA CountWithinPrefix ==
  ASSUME TransferIInv
  PROVE  count <= Prefix
<1>1. PICK k \in Chunks : FullTo(k - 1) /\ count <= Covered(k - 1) + moved[k]
  BY DEF TransferIInv, Backed
<1>2. Covered(k - 1) + moved[k] <= Prefix BY <1>1, PrefixReaches DEF TransferIInv
<1>3. Covered(k - 1) \in Nat /\ moved[k] \in Nat /\ count \in Nat
  BY ChunkSizes DEF TransferIInv, TransferTypeOK, PipeTypeOK
<1>4. Prefix \in Int
  <2>1. CASE \A i \in Chunks : moved[i] = Size(i) BY <2>1 DEF Prefix
  <2>2. CASE ~(\A i \in Chunks : moved[i] = Size(i))
    <3> DEFINE S == {i \in Chunks : moved[i] # Size(i)}
    <3>0. \A i \in Chunks : /\ moved[i] \in Nat /\ Size(i) \in Nat /\ moved[i] <= Size(i)
                            /\ Covered(i - 1) \in Nat /\ i \in Nat
      BY ChunkSizes DEF TransferIInv, TransferTypeOK, PipeTypeOK, Replies
    <3>1. S # {} /\ S \subseteq Nat BY <2>2, <3>0
    <3>2. PICK g \in S : \A y \in S : g <= y
      <4> HIDE DEF S
      <4>1. QED BY <3>1, Least
    <3>3. g \in Chunks /\ moved[g] < Size(g) BY <3>0
    <3>4. FullTo(g - 1) BY <3>0, <3>2, ChunkCount DEF FullTo, Chunks
    <3>5. Prefix = Covered(g - 1) + moved[g] BY <3>3, <3>4, PrefixAtGap DEF TransferIInv
    <3>6. QED BY <3>0, <3>3, <3>5
  <2>3. QED BY <2>1, <2>2
<1>5. QED BY <1>1, <1>2, <1>3, <1>4

\* The count a Write returns is what the file holds, and a short count comes
\* with an error.
THEOREM CountIsTruthful == Spec => []TruthfulCount
<1>1. TransferIInv => TruthfulCount
  <2> SUFFICES ASSUME TransferIInv, kind = "write" PROVE W!TruthfulCount
    BY DEF TruthfulCount
  <2>1. count <= Prefix BY CountWithinPrefix
  <2>2. Exact => count = Prefix
    <3>1. CASE FullTo(NumChunks) /\ count = TotalSize BY <3>1 DEF FullTo, Prefix, Chunks
    <3>2. ASSUME NEW k \in Chunks, FullTo(k - 1), moved[k] < Size(k), count = Covered(k - 1) + moved[k]
          PROVE  count = Prefix
      BY <3>2, PrefixAtGap DEF TransferIInv
    <3>3. QED BY <3>1, <3>2 DEF Exact
  <2>3. (pc = "returned" /\ ~down /\ ~gaveUp /\ \A i \in Chunks : outcome[i] # "bad") => count = Prefix
    BY <2>2 DEF TransferIInv, WriteParts, Settling
  <2>4. (pc = "returned" /\ count < TotalSize) => err # "none"
    BY DEF TransferIInv, WriteParts, Settling
  <2>5. W!Chunks = Chunks BY DEF W!Chunks, W!NumChunks, Chunks, NumChunks
  <2>6. QED BY <2>1, <2>3, <2>4, <2>5, SharedPrefix DEF W!TruthfulCount
<1>2. QED BY <1>1, TransferInvariant, PTL

\* The bytes a Read reports are those at the start of the buffer, without a
\* hole, and io.EOF comes alone.
THEOREM ReadWithoutHole == Spec => []ReadHasNoHole
<1>1. TransferIInv => ReadHasNoHole
  <2> SUFFICES ASSUME TransferIInv, kind = "read" PROVE R!ReadHasNoHole
    BY DEF ReadHasNoHole
  <2>1. count <= Prefix BY CountWithinPrefix
  <2>2. QED BY <2>1, SharedPrefix DEF TransferIInv, ReadParts, Settling, R!ReadHasNoHole
<1>2. QED BY <1>1, TransferInvariant, PTL
=============================================================================
