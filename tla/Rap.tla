-------------------------------- MODULE Rap --------------------------------
(***************************************************************************)
(* The reply to NetShareEnum (internal/smb1/rap.go): parseShareInfo1 and   *)
(* the comment strings its entries point to, through a converter the       *)
(* server chooses.  Data is a sequence of cells, an entry is its name and  *)
(* its comment pointer, 0 a null byte.                                     *)
(* A name that ends in a description of what is wrong is a plausible bug   *)
(* in the operator below it.                                               *)
(***************************************************************************)
EXTENDS Integers, Sequences, SequencesExt

EntrySize == 2
NoComment == << >>

(***************************************************************************)
(* The server: entries first, then the comments, in an order and with gaps *)
(* of its own, pointers shifted by the converter, 0 for no comment.        *)
(***************************************************************************)

\* comments[i] is the comment of share i, a sequence of non-zero cells.
CommentAt(comments, i) ==
  EntrySize * Len(comments)
    + FoldLeft(LAMBDA sum, c : sum + Len(c) + 1, 0, SubSeq(comments, 1, i - 1))

EnumReply(comments, converter, missing) ==
  LET entries == [i \in DOMAIN comments |->
                    <<10 + i, IF comments[i] = NoComment THEN 0 ELSE CommentAt(comments, i) + converter>>]
      strings == [i \in DOMAIN comments |-> comments[i] \o <<0>>]
      data == FlattenSeq(entries) \o FlattenSeq(strings)
  IN  [status |-> 0, converter |-> converter, count |-> Len(comments),
       data |-> SubSeq(data, 1, Len(data) - missing)]

(***************************************************************************)
(* The client.                                                             *)
(***************************************************************************)

parseNullTerminatedString(data, from) ==
  LET ends == {i \in from..Len(data) : data[i] = 0}
  IN  IF ends = {} THEN NoComment
      ELSE SubSeq(data, from, (CHOOSE i \in ends : \A j \in ends : i <= j) - 1)

CommentOffsetRaw(pointer, converter) == pointer

CommentOffset(pointer, converter) == pointer - converter

ShareInfo1(data, i, converter) ==
  LET at == (i - 1) * EntrySize
      pointer == data[at + 2]
      offset == CommentOffset(pointer, converter)
  IN  [name |-> data[at + 1],
       comment |-> IF pointer # 0 /\ offset >= 0 /\ offset < Len(data)
                   THEN parseNullTerminatedString(data, offset + 1) ELSE NoComment]

parseShareInfo1(data, count, converter) ==
  IF count * EntrySize > Len(data) THEN [err |-> TRUE, shares |-> << >>]
  ELSE [err |-> FALSE, shares |-> [i \in 1..count |-> ShareInfo1(data, i, converter)]]

DecodeNetShareEnumResponse(r) ==
  IF r.status # 0 THEN [err |-> TRUE, shares |-> << >>]
  ELSE parseShareInfo1(r.data, r.count, r.converter)

\* Every share the server listed comes back under its name and with its own
\* comment; a reply that lost its tail costs the comments that were in it and
\* never gives a share the comment of another, and one without room for the
\* entries is refused.
SharesListed(comments, converter, missing) ==
  LET r == EnumReply(comments, converter, missing)
      got == DecodeNetShareEnumResponse(r)
  IN  IF got.err THEN missing > 0
      ELSE /\ Len(got.shares) = Len(comments)
           /\ \A i \in DOMAIN comments :
                /\ got.shares[i].name = 10 + i
                /\ got.shares[i].comment \in {comments[i], NoComment}
                /\ missing = 0 => got.shares[i].comment = comments[i]
=============================================================================
