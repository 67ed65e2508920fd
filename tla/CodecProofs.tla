---------------------------- MODULE CodecProofs -----------------------------
(***************************************************************************)
(* The sizes of packets and frames, of the chunks of a transfer and of the *)
(* replies to them, for every length and every negotiated buffer.  TLC     *)
(* tries sizes on both sides of every limit; these theorems leave out none *)
(* between them.                                                           *)
(***************************************************************************)
EXTENDS Wire, TLAPS

\* The three bytes of a NetBIOS length give the length back (WritePacket and
\* ReadPacket of internal/netbios/session.go), for every packet that fits.
LEMMA FrameRoundTrip ==
  ASSUME NEW size \in Nat, size <= MaxMessageSize
  PROVE  FrameLength(FrameHeader(size)) = size
<1>1. PICK a, b, c : a = size \div 65536 /\ b = (size \div 256) % 256 /\ c = size % 256 OBVIOUS
<1>2. size \div 256 \in Nat /\ a \in Nat /\ b \in Nat /\ c \in Nat BY <1>1
<1>3. size = 256 * (size \div 256) + c BY <1>1
<1>4. size \div 256 = 256 * ((size \div 256) \div 256) + b BY <1>1, <1>2
<1>5. (size \div 256) \div 256 = a BY <1>1
<1>6. a < 256 BY <1>1 DEF MaxMessageSize
<1>7. a % 256 = a BY <1>2, <1>6
<1>8. FrameHeader(size) = <<a, b, c>> BY <1>1, <1>7 DEF FrameHeader
<1>9. FrameLength(<<a, b, c>>) = a * 65536 + b * 256 + c BY DEF FrameLength
<1>10. QED BY <1>2, <1>3, <1>4, <1>5, <1>8, <1>9

\* DecodePacket undoes EncodePacket whenever the encoder accepted the packet,
\* also when its byte count wrapped; the frame carries it; and of a packet whose
\* count did not wrap no proper part is accepted (internal/smb1/encoder.go).
THEOREM PacketsAlwaysSurvive ==
  \A params, data, cut \in Nat : PacketsSurvive(params, data, cut)
<1> SUFFICES ASSUME NEW params \in Nat, NEW data \in Nat, NEW cut \in Nat, EncodePacketOK(params, data)
             PROVE  PacketsSurvive(params, data, cut)
  BY DEF PacketsSurvive
<1> DEFINE packet == EncodePacket(params, data)
<1>1. params % 2 = 0 /\ params <= 510 /\ data <= 130048
  BY DEF EncodePacketOK, Odd, MaxParametersSize, MaxDataSize
<1>2. packet.size = 35 + params + data /\ packet.words * 2 = params /\ packet.byteCount = data % 65536
  <2>1. (params \div 2) * 2 = params BY <1>1
  <2>2. QED BY <2>1 DEF EncodePacket, AreaStart, HeaderSize, Word
<1>3. packet.size \in Nat /\ packet.size <= MaxMessageSize BY <1>1, <1>2 DEF MaxMessageSize
<1>4. FrameLength(FrameHeader(packet.size)) = packet.size BY <1>3, FrameRoundTrip
<1>5. DecodePacket(packet, packet.size) = [ok |-> TRUE, params |-> params, data |-> data]
  <2>1. packet.size - AreaStart(packet.words * 2) = data BY <1>2 DEF AreaStart, HeaderSize
  <2>2. ~(packet.size < AreaStart(0)) /\ ~(packet.size < AreaStart(packet.words * 2))
    BY <1>2 DEF AreaStart, HeaderSize
  <2>3. ~(data < packet.byteCount) BY <1>2
  <2>4. ~(packet.size - AreaStart(packet.words * 2) < packet.byteCount) BY <2>1, <2>3, Zenon
  <2>5. DecodePacket(packet, packet.size) =
           [ok |-> TRUE, params |-> packet.words * 2, data |-> packet.size - AreaStart(packet.words * 2)]
    BY <2>2, <2>4, Zenon DEF DecodePacket
  <2>6. packet.words * 2 = params BY <1>2
  <2>7. QED BY <2>1, <2>5, <2>6
<1>6. ASSUME cut \in 1 .. packet.size, data < Word - 1
      PROVE  ~DecodePacket(packet, packet.size - cut).ok
  <2>1. packet.byteCount = data /\ packet.byteCount # Word - 1 BY <1>2, <1>6 DEF Word
  <2>2. (packet.size - cut) - AreaStart(packet.words * 2) < packet.byteCount
    BY <1>2, <1>3, <1>6, <2>1 DEF AreaStart, HeaderSize
  <2>3. DecodePacket(packet, packet.size - cut) = [ok |-> FALSE, params |-> 0, data |-> 0]
    BY <2>1, <2>2, Zenon DEF DecodePacket
  <2>4. QED BY <2>3
<1>7. QED BY <1>3, <1>4, <1>5, <1>6 DEF PacketsSurvive, WritePacketOK, ReadPacketOK

\* DecodeReadResponse finds the data of a read reply wherever the server put
\* it, for lengths of 16 bits and of 32.
THEOREM ReadRepliesAreFound ==
  \A words, skip, data \in Nat : ReadReplyFound(words, skip, data)
<1> SUFFICES ASSUME NEW words \in Nat, NEW skip \in Nat, NEW data \in Nat
             PROVE  ReadReplyFound(words, skip, data)
  OBVIOUS
<1>1. Combined(data % Word, data \div Word) = data BY DEF Combined, Word
<1> DEFINE params == 24 + 2 * words
<1>2. params \in Nat /\ ~(params < 24) OBVIOUS
<1>3. AreaStart(params) \in Nat BY <1>2 DEF AreaStart, HeaderSize
<1>4. /\ ~(AreaStart(params) + skip < AreaStart(params))
      /\ (AreaStart(params) + skip) - AreaStart(params) = skip
      /\ ~(skip > skip + data) /\ ~(skip + data > skip + data)
  BY <1>3
<1>5. QED BY <1>1, <1>2, <1>4, Zenon DEF ReadReplyFound, DecodeReadResponse

\* A chunk of a write never exceeds what one packet and the 32 bits of its
\* length can say, and on a server without large writes neither it nor the
\* reply to a read exceeds the negotiated buffer, whatever buffer that is; nor
\* does the reply a transaction asks for (internal/client/file.go,
\* internal/smb1/trans2.go).
THEOREM ChunksAlwaysFit ==
  \A large, largeFiles \in BOOLEAN, buffer \in Nat : ChunksFit(large, buffer, largeFiles)
<1> SUFFICES ASSUME NEW large \in BOOLEAN, NEW largeFiles \in BOOLEAN, NEW buffer \in Nat
             PROVE  ChunksFit(large, buffer, largeFiles)
  OBVIOUS
<1>1. PICK len : len = maxWriteChunk(large, buffer) OBVIOUS
<1>2. PICK read : read = maxReadChunk(large, buffer) OBVIOUS
<1>3. /\ len \in Nat /\ len <= 130048 /\ (~large => len <= 65520)
      /\ ~large /\ buffer > 1024 => len <= buffer - 1024
  BY <1>1 DEF maxWriteChunk, clampToNegotiatedBuffer, MaxDataSize, MaxSmallDataSize, SMBProtocolOverhead
<1>4. read \in Nat /\ read < 65536 /\ (~large /\ buffer > 1024 => read <= buffer - 1024)
  BY <1>2 DEF maxReadChunk, clampToNegotiatedBuffer, MaxSmallDataSize, SMBProtocolOverhead
<1>5. PICK write : write = EncodeWriteRequest(len, largeFiles) OBVIOUS
<1>6. /\ write.msg.params \in {24, 28}
      /\ write.DataLength = len % 65536 /\ write.DataLengthHigh = len \div 65536
  BY <1>5 DEF EncodeWriteRequest, Message, Word
<1>7. EncodePacketOK(write.msg.params, len)
  BY <1>3, <1>6 DEF EncodePacketOK, Odd, MaxParametersSize, MaxDataSize
<1>8. Combined(write.DataLength, write.DataLengthHigh) = len BY <1>3, <1>6 DEF Combined, Word
<1>9. ~large => write.DataLengthHigh = 0 BY <1>3, <1>6
<1>10. ~large /\ buffer > SMBProtocolOverhead =>
          /\ EncodePacket(write.msg.params, len).size <= buffer
          /\ AreaStart(24) + 3 + read <= buffer
  BY <1>3, <1>4, <1>6 DEF EncodePacket, AreaStart, HeaderSize, SMBProtocolOverhead
<1>11. buffer >= 1024 + 64 + 1024 =>
          AreaStart(20) + 1024 + 4 + MaxTransactionDataCount(buffer, 1024) <= buffer
  BY DEF AreaStart, HeaderSize, MaxTransactionDataCount, Word
<1>12. read < Word BY <1>4 DEF Word
<1>13. QED BY <1>1, <1>2, <1>5, <1>7, <1>8, <1>9, <1>10, <1>11, <1>12 DEF ChunksFit
=============================================================================
