-------------------------------- MODULE Wire --------------------------------
(***************************************************************************)
(* The sizes and offsets of SMB1 messages, as internal/smb1 computes them  *)
(* and a server reads them: packets (encoder.go), the NetBIOS frame around *)
(* them (netbios/session.go), the byte areas of the requests that carry    *)
(* strings or blocks, and the lengths of READ_ANDX and WRITE_ANDX.         *)
(*                                                                         *)
(* A message is its parameter length and the parts of its byte area in     *)
(* order, each with its length and whether it is UTF-16.  Offsets count    *)
(* from the SMB header; fields of 16 bits are taken modulo Word.           *)
(* A name that ends in a description of what is wrong is a plausible bug   *)
(* in the operator below it.                                               *)
(***************************************************************************)
EXTENDS Naturals, Sequences, SequencesExt

Word == 65536
HeaderSize == 32
MaxParametersSize == 510
MaxDataSize == 130048
MaxSmallDataSize == 65520
MaxMessageSize == 131072
SMBProtocolOverhead == 1024

AreaStart(params) == HeaderSize + 1 + params + 2

Part(what, len, wide) == [what |-> what, len |-> len, wide |-> wide]

Length(parts) == FoldLeft(LAMBDA sum, p : sum + p.len, 0, parts)

StartOf(msg, i) == AreaStart(msg.params) + Length(SubSeq(msg.area, 1, i - 1))

Odd(n) == n % 2 # 0

\* One byte when the next part would start at an odd offset.
Pad(params, parts) == IF Odd(AreaStart(params) + Length(parts)) THEN <<Part("pad", 1, FALSE)>> ELSE << >>

\* A null-terminated string of n characters.
Str(n, unicode) == Part("string", (n + 1) * (IF unicode THEN 2 ELSE 1), unicode)

Format == Part("format", 1, FALSE)

Message(params, parts) == [params |-> params, area |-> parts]

(***************************************************************************)
(* Requests with strings.                                                  *)
(***************************************************************************)

NTCreate(n, unicode) ==
  Message(48, (IF unicode THEN <<Part("pad", 1, FALSE)>> ELSE << >>) \o <<Str(n, unicode)>>)

\* OpenFile: twice the bytes of the name in UTF-8 when the session is Unicode.
\* A name has units UTF-16 units and utf8 bytes.
NameLength(name, unicode) == (IF unicode THEN 2 * name.utf8 ELSE name.utf8) % Word

\* Rename, DeleteDirectory and SetInformation prefix a backslash.
RenameUnpadded(n, m, unicode) == Message(2, <<Format, Str(n + 1, unicode), Format, Str(m + 1, unicode)>>)

Rename(n, m, unicode) ==
  Message(2, <<Format, Str(n + 1, unicode), Format>>
               \o (IF unicode THEN <<Part("pad", 1, FALSE)>> ELSE << >>) \o <<Str(m + 1, unicode)>>)

DeleteDirectory(n, unicode) == Message(0, <<Format, Str(n + 1, unicode)>>)

SetInformationRequest(n, unicode) ==
  Message(16, <<Format, Str(n + 1, unicode), Format, Part("empty", 1, FALSE)>>)

\* The password is the one null byte extended security asks for; the service
\* is always ASCII.
TreeConnect(n, service, unicode) ==
  Message(8, <<Part("password", 1, FALSE), Str(n, unicode), Str(service, FALSE)>>)

SessionSetup(blob, os, lanman, unicode) ==
  LET start == <<Part("blob", blob, FALSE)>>
      pad == IF unicode THEN Pad(24, start) ELSE << >>
  IN  Message(24, start \o pad \o <<Str(os, unicode), Str(lanman, unicode)>>)

(***************************************************************************)
(* Transactions: the message, and the counts and offsets it advertises.    *)
(***************************************************************************)

Advertise(msg, p, d, paramOffset, dataOffset) ==
  [msg |-> msg, paramCount |-> p % Word, dataCount |-> d % Word,
   paramOffset |-> paramOffset % Word, dataOffset |-> dataOffset % Word]

\* TRANS2 has one setup word and no name.  A path starts `before` bytes into
\* the parameters of a subcommand.
EncodeTrans2Request(p, d) ==
  LET fixed == 28 + 2
      pad1 == Pad(fixed, << >>)
      paramOffset == AreaStart(fixed) + Length(pad1)
      pad2 == IF Odd((paramOffset + p) % Word) THEN <<Part("pad", 1, FALSE)>> ELSE << >>
  IN  Advertise(Message(fixed, pad1 \o <<Part("params", p, FALSE)>> \o pad2 \o <<Part("data", d, FALSE)>>),
                p, d, paramOffset, paramOffset + p + Length(pad2))

FindNameAt == 12
PathNameAt == 6

\* buildTransactionByteArea derives the offsets from the layout as it grows.
buildTransactionByteArea(fixed, n, p, d, unicode) ==
  LET named == (IF unicode THEN Pad(fixed, << >>) ELSE << >>) \o <<Str(n, unicode)>>
      toParams == named \o Pad(fixed, named)
      params == toParams \o <<Part("params", p, FALSE)>>
      toData == params \o Pad(fixed, params)
  IN  [area |-> toData \o <<Part("data", d, FALSE)>>,
       paramOffset |-> AreaStart(fixed) + Length(toParams),
       dataOffset |-> AreaStart(fixed) + Length(toData)]

EncodeTransactionRequest(n, p, d, unicode) ==
  LET built == buildTransactionByteArea(28 + 4, n, p, d, unicode)
  IN  Advertise(Message(28 + 4, built.area), p, d, built.paramOffset, built.dataOffset)

EncodeTransactNamedPipeRequest(d, unicode) ==
  LET built == buildTransactionByteArea(28 + 4, 6, 0, d, unicode)
  IN  Advertise(Message(28 + 4, built.area), 0, d, built.paramOffset, built.dataOffset)

\* The reply data a request asks for, given the negotiated buffer.
MaxTransactionDataCount(maxBufferSize, maxParameterCount) ==
  LET overhead == 64 + maxParameterCount
  IN  IF maxBufferSize < overhead + 1024 THEN 1024
      ELSE IF maxBufferSize - overhead > Word - 1 THEN Word - 1
      ELSE maxBufferSize - overhead

(***************************************************************************)
(* Packets and frames.                                                     *)
(***************************************************************************)

EncodePacketOK(params, data) == ~Odd(params) /\ params <= MaxParametersSize /\ data <= MaxDataSize

EncodePacket(params, data) ==
  [size |-> AreaStart(params) + data, words |-> params \div 2, byteCount |-> data % Word]

DecodePacketExact(packet, size) ==
  LET params == packet.words * 2
      data == size - AreaStart(params)
  IN  IF size < AreaStart(0) \/ size < AreaStart(params) \/ data # packet.byteCount
      THEN [ok |-> FALSE, params |-> 0, data |-> 0]
      ELSE [ok |-> TRUE, params |-> params, data |-> data]

\* Of a packet of which only the first size bytes arrived.
DecodePacket(packet, size) ==
  LET params == packet.words * 2
      data == size - AreaStart(params)
  IN  IF \/ size < AreaStart(0)
         \/ size < AreaStart(params)
         \/ data < packet.byteCount /\ (packet.byteCount # Word - 1 \/ data = 0)
      THEN [ok |-> FALSE, params |-> 0, data |-> 0]
      ELSE [ok |-> TRUE, params |-> params, data |-> data]

WritePacketOK(size) == size <= MaxMessageSize

FrameHeader(size) == <<size \div 65536 % 256, size \div 256 % 256, size % 256>>

\* The length ReadPacket takes from a session message's header; 0 for a
\* keep-alive, which carries nothing.
FrameLength(header) == header[1] * 65536 + header[2] * 256 + header[3]

ReadPacketOK(type, length) ==
  /\ length <= MaxMessageSize
  /\ type \in {"message", "keepalive", "positive", "negative", "retarget"}
  /\ type = "keepalive" => length = 0

(***************************************************************************)
(* READ_ANDX and WRITE_ANDX.                                               *)
(***************************************************************************)

clampToNegotiatedBuffer(ceiling, maxBufferSize) ==
  IF maxBufferSize > SMBProtocolOverhead /\ maxBufferSize - SMBProtocolOverhead < ceiling
  THEN maxBufferSize - SMBProtocolOverhead ELSE ceiling

maxReadChunk(largeReadX, maxBufferSize) ==
  IF largeReadX THEN MaxSmallDataSize ELSE clampToNegotiatedBuffer(MaxSmallDataSize, maxBufferSize)

maxWriteChunk(largeWriteX, maxBufferSize) ==
  IF largeWriteX THEN MaxDataSize ELSE clampToNegotiatedBuffer(MaxSmallDataSize, maxBufferSize)

EncodeWriteRequest(d, largeFiles) ==
  LET params == IF largeFiles THEN 28 ELSE 24
  IN  [msg |-> Message(params, <<Part("data", d, FALSE)>>),
       DataLength |-> d % Word, DataLengthHigh |-> d \div Word, DataOffset |-> AreaStart(params) % Word]

Combined(low, high) == low + Word * high

\* The data of a read reply whose area has this many bytes: how many bytes
\* precede it and how many it has.
DecodeReadResponse(params, dataLength, dataLengthHigh, dataOffset, area) ==
  LET total == Combined(dataLength, dataLengthHigh)
      pad == IF dataOffset < AreaStart(params) \/ dataOffset - AreaStart(params) > area
             THEN 0 ELSE dataOffset - AreaStart(params)
  IN  IF params < 24 \/ pad + total > area THEN [ok |-> FALSE, skip |-> 0, len |-> 0]
      ELSE [ok |-> TRUE, skip |-> pad, len |-> total]

(***************************************************************************)
(* What they are for.                                                      *)
(***************************************************************************)

\* Every UTF-16 string of a request starts at an even offset.
StringsAligned(msg) ==
  \A i \in DOMAIN msg.area : msg.area[i].wide => ~Odd(StartOf(msg, i))

\* The blocks of a transaction are where its offsets say, and aligned, as
\* long as 16 bits can say it.
BlocksWhereSaid(t) ==
  LET at(what) == CHOOSE i \in DOMAIN t.msg.area : t.msg.area[i].what = what
  IN  StartOf(t.msg, at("data")) + t.msg.area[at("data")].len < Word =>
        /\ t.paramOffset = StartOf(t.msg, at("params")) /\ ~Odd(t.paramOffset)
        /\ t.dataOffset = StartOf(t.msg, at("data")) /\ ~Odd(t.dataOffset)
        /\ t.paramCount = t.msg.area[at("params")].len
        /\ t.dataCount = t.msg.area[at("data")].len

\* The layout of every request for strings of n and m characters, blocks of p
\* and d bytes.
RequestsLaidOut(n, m, p, d, unicode) ==
  /\ \A msg \in {NTCreate(n, unicode), Rename(n, m, unicode), DeleteDirectory(n, unicode),
                 SetInformationRequest(n, unicode), TreeConnect(n, m, unicode), SessionSetup(p, n, m, unicode),
                 EncodeTransactionRequest(n, p, d, unicode).msg} : StringsAligned(msg)
  /\ \A t \in {EncodeTrans2Request(p, d), EncodeTransactionRequest(n, p, d, unicode),
               EncodeTransactNamedPipeRequest(d, unicode)} : BlocksWhereSaid(t)
  /\ ~Odd(EncodeTrans2Request(p, d).paramOffset + FindNameAt)
  /\ ~Odd(EncodeTrans2Request(p, d).paramOffset + PathNameAt)

\* A packet the encoder accepts fits the frame, and the receiver gets back
\* what was sent; a packet cut short is refused, unless its byte count had
\* wrapped or reads as wrapped.
PacketsSurvive(params, data, cut) ==
  EncodePacketOK(params, data) =>
    LET packet == EncodePacket(params, data)
        whole == DecodePacket(packet, packet.size)
    IN  /\ WritePacketOK(packet.size)
        /\ ReadPacketOK("message", FrameLength(FrameHeader(packet.size)))
        /\ FrameLength(FrameHeader(packet.size)) = packet.size
        /\ whole = [ok |-> TRUE, params |-> params, data |-> data]
        /\ cut \in 1..packet.size /\ data < Word - 1 => ~DecodePacket(packet, packet.size - cut).ok

\* The data of a chunk is its whole byte area, and where the offset says.
ChunkLaidOut(write, len) ==
  Length(write.msg.area) = len /\ write.DataOffset = StartOf(write.msg, 1)

\* A chunk is a packet, says its own length, stays inside the negotiated
\* buffer when the server did not lift it, and the reply to the largest read
\* and to the largest transaction fit theirs.
ChunksFit(large, maxBufferSize, largeFiles) ==
  LET len == maxWriteChunk(large, maxBufferSize)
      write == EncodeWriteRequest(len, largeFiles)
  IN  /\ EncodePacketOK(write.msg.params, len)
      /\ Combined(write.DataLength, write.DataLengthHigh) = len
      /\ ~large => write.DataLengthHigh = 0
      /\ maxReadChunk(large, maxBufferSize) < Word
      /\ ~large /\ maxBufferSize > SMBProtocolOverhead =>
           /\ EncodePacket(write.msg.params, len).size <= maxBufferSize
           /\ AreaStart(24) + 3 + maxReadChunk(large, maxBufferSize) <= maxBufferSize
      /\ maxBufferSize >= 1024 + 64 + 1024 =>
           AreaStart(20) + 1024 + 4 + MaxTransactionDataCount(maxBufferSize, 1024) <= maxBufferSize

\* The data of a read reply is found wherever the server put it.
ReadReplyFound(words, skip, data) ==
  LET params == 24 + 2 * words
  IN  DecodeReadResponse(params, data % Word, data \div Word, AreaStart(params) + skip, skip + data)
        = [ok |-> TRUE, skip |-> skip, len |-> data]

\* The length an open request gives of its name is the length of its name.
NameLengthIsExact(name, unicode) ==
  NameLength(name, unicode) = (IF unicode THEN 2 * name.units ELSE name.utf8)
=============================================================================
