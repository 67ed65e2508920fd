------------------------------ MODULE Listing ------------------------------
(***************************************************************************)
(* One reply to a FIND_FIRST2 or FIND_NEXT2: the server lays out a batch   *)
(* of directory entries, sends parameters and data in as many messages and *)
(* in whatever order it likes, and the client puts them together           *)
(* (sendRecvTransaction and placeFragment of internal/client/conn.go,      *)
(* DecodeTrans2Response of internal/smb1/trans2.go) and parses the chain   *)
(* of entries (ParseFileBothDirectoryInfo).                                *)
(*                                                                         *)
(* Data is a sequence of cells.  The fixed part of an entry is two cells,  *)
(* NextEntryOffset and FileNameLength, and a name of n characters is n     *)
(* cells holding the number of the entry.  The parameters are two cells.   *)
(* A name that ends in a description of what is wrong is a plausible bug   *)
(* in the operator below it.                                               *)
(***************************************************************************)
EXTENDS Integers, Sequences, FiniteSets, SequencesExt

CONSTANTS MaxEntries,          \* entries in the batch
          MaxNameLength,
          MaxTrans2Fragments,  \* maxTrans2Fragments
          MaxSkipped           \* messages without content the server sends

VARIABLES reply,      \* the server's reply: its parameters and its data
          entries,    \* the names it holds, as lengths
          sent,       \* [params, data]: the cells already sent
          skipped,    \* messages without content so far
          assembly,   \* what sendRecvTransaction has put together
          result      \* what the caller has

listingVars == << reply, entries, sent, skipped, assembly, result >>

FixedSize == 2
ParamCells == <<7, 8>>
MinWords == 10        \* of a reply with blocks
HeaderArea(words) == 35 + 2 * words   \* HeaderSize + 1 + 2 * words + 2: where the byte area begins

(***************************************************************************)
(* The server.                                                             *)
(***************************************************************************)

Name(i, len) == [k \in 1..len |-> i]

\* The last entry ends the chain with 0 or points past the reply; entries of a
\* chain that ends with 0 may be followed by an unused cell.
RECURSIVE Chain(_, _, _, _)
Chain(names, i, gap, zeroTerminated) ==
  IF i > Len(names) THEN << >>
  ELSE LET size == FixedSize + names[i] + gap
           next == IF i = Len(names) /\ zeroTerminated THEN 0 ELSE size
       IN  <<next, names[i]>> \o Name(i, names[i]) \o [k \in 1..gap |-> 0]
             \o Chain(names, i + 1, gap, zeroTerminated)

\* One message: its two blocks with pads before them, and where they are.
Block(cells, from, to) == [cells |-> SubSeq(cells, from, to), displacement |-> from - 1]

MessageOf(p, d, pad1, pad2, setup) ==
  LET area == [k \in 1..pad1 |-> 0] \o p.cells \o [k \in 1..pad2 |-> 0] \o d.cells
      start == HeaderArea(MinWords + setup)
  IN  [area |-> area, words |-> MinWords + setup, SetupCount |-> setup,
       TotalParameterCount |-> Len(reply.params), TotalDataCount |-> Len(reply.data),
       ParameterCount |-> Len(p.cells), ParameterDisplacement |-> p.displacement,
       ParameterOffset |-> start + pad1,
       DataCount |-> Len(d.cells), DataDisplacement |-> d.displacement,
       DataOffset |-> start + pad1 + Len(p.cells) + pad2]

\* A message without a block: a whole one, one whose words end early, before
\* its setup or before that, and one without words.
Bare(words, setup) ==
  [MessageOf(Block(reply.params, 1, 0), Block(reply.data, 1, 0), 0, 0, setup) EXCEPT !.words = words]

BareMessages == {Bare(MinWords, 0), Bare(MinWords, 1), Bare(MinWords - 1, 0), Bare(0, 0)}

(***************************************************************************)
(* The client.                                                             *)
(***************************************************************************)

\* A block that is not in the area is nothing, without an error.
Extract(m, count, offset) ==
  LET relative == offset - HeaderArea(m.words)
  IN  IF count > 0 /\ relative >= 0 /\ relative + count <= Len(m.area)
      THEN SubSeq(m.area, relative + 1, relative + count) ELSE << >>

\* Without words: no blocks, and totals of 0.
DecodeTrans2Response(m) ==
  IF m.words = 0 THEN [err |-> FALSE, params |-> << >>, data |-> << >>, totalParams |-> 0, totalData |-> 0]
  ELSE [err |-> m.words < MinWords + m.SetupCount,
        params |-> Extract(m, m.ParameterCount, m.ParameterOffset),
        data |-> Extract(m, m.DataCount, m.DataOffset),
        totalParams |-> m.TotalParameterCount, totalData |-> m.TotalDataCount]

Overflows(buf, cells, displacement) == cells # << >> /\ displacement + Len(cells) > Len(buf)

placeFragmentNext(buf, cells, displacement, got) ==
  [i \in DOMAIN buf |-> IF i - got \in DOMAIN cells THEN cells[i - got] ELSE buf[i]]

placeFragment(buf, cells, displacement, got) ==
  [i \in DOMAIN buf |-> IF i - displacement \in DOMAIN cells THEN cells[i - displacement] ELSE buf[i]]

\* ParseFileBothDirectoryInfo from an offset: the names found and whether the
\* data ended early.
RECURSIVE Parse(_, _, _)
Parse(data, offset, names) ==
  LET nextOffset == data[offset + 1]
      nameLength == data[offset + 2]
      nameEnd == offset + FixedSize + nameLength
      found == Append(names, SubSeq(data, offset + FixedSize + 1, nameEnd))
  IN  IF offset >= Len(data) THEN [names |-> names, truncated |-> FALSE]
      ELSE IF Len(data) - offset < FixedSize THEN [names |-> names, truncated |-> TRUE]
      ELSE IF nameEnd > Len(data) THEN [names |-> names, truncated |-> TRUE]
      ELSE IF nextOffset = 0 THEN [names |-> found, truncated |-> FALSE]
      ELSE IF nextOffset < FixedSize + nameLength THEN [names |-> found, truncated |-> TRUE]
      ELSE IF offset + nextOffset >= Len(data) THEN [names |-> found, truncated |-> FALSE]
      ELSE Parse(data, offset + nextOffset, found)

Failed == [done |-> TRUE, err |-> TRUE, names |-> << >>]
NotYet == [done |-> FALSE, err |-> FALSE, names |-> << >>]

DecodeFindFirst2Response(params, data) ==
  LET parsed == Parse(data, 0, << >>)
  IN  IF Len(params) < Len(ParamCells) \/ parsed.truncated THEN Failed
      ELSE [done |-> TRUE, err |-> FALSE, names |-> parsed.names]

\* No parameters at all are the end of the search; otherwise as the first.
DecodeFindNext2Response(params, data) ==
  IF params = << >> THEN [done |-> TRUE, err |-> FALSE, names |-> << >>]
  ELSE DecodeFindFirst2Response(params, data)

DecodeFind(params, data) ==
  IF reply.to = "FIND_FIRST2" THEN DecodeFindFirst2Response(params, data)
  ELSE DecodeFindNext2Response(params, data)

(***************************************************************************)
(* The steps.                                                              *)
(***************************************************************************)

ListingInit ==
  \E to \in {"FIND_FIRST2", "FIND_NEXT2"}, n \in 0..MaxEntries, gap \in {0, 1}, zeroTerminated \in BOOLEAN :
    \E names \in [1..n -> 1..MaxNameLength] :
      \E cut \in 0..1 :         \* a reply the server itself cut short
        LET chain == Chain(names, 1, gap, zeroTerminated)
        IN  /\ cut <= Len(chain) /\ (gap = 0 \/ zeroTerminated)
            /\ entries = names
            /\ reply = [to |-> to, params |-> ParamCells, data |-> SubSeq(chain, 1, Len(chain) - cut)]
            /\ sent = [params |-> {}, data |-> {}]
            /\ skipped = 0
            /\ assembly = [started |-> FALSE, params |-> << >>, data |-> << >>,
                           gotParams |-> 0, gotData |-> 0, read |-> 0, empty |-> 0]
            /\ result = NotYet

\* The buffers take the totals of the first message.
StartedBy(frag) ==
  IF assembly.started THEN assembly
  ELSE [assembly EXCEPT !.started = TRUE,
                        !.params = [i \in 1..frag.totalParams |-> 0],
                        !.data = [i \in 1..frag.totalData |-> 0]]

CompleteEarly(a) == a.gotParams >= Len(a.params)

Complete(a) == a.gotParams >= Len(a.params) /\ a.gotData >= Len(a.data)

\* One round of the loop of sendRecvTransaction: message m arrives.
Receive(m) ==
  LET frag == DecodeTrans2Response(m)
      a == StartedBy(frag)
      placed == [a EXCEPT !.params = placeFragment(@, frag.params, m.ParameterDisplacement, a.gotParams),
                          !.data = placeFragment(@, frag.data, m.DataDisplacement, a.gotData),
                          !.gotParams = @ + Len(frag.params),
                          !.gotData = @ + Len(frag.data)]
      nothing == frag.params = << >> /\ frag.data = << >>
      counted == [placed EXCEPT !.read = @ + 1, !.empty = @ + (IF nothing THEN 1 ELSE 0)]
  IN  IF \/ frag.err
         \/ Overflows(a.params, frag.params, m.ParameterDisplacement)
         \/ Overflows(a.data, frag.data, m.DataDisplacement)
      THEN result' = Failed /\ UNCHANGED assembly
      ELSE IF Complete(placed)
      THEN result' = DecodeFind(placed.params, placed.data) /\ assembly' = placed
      ELSE /\ assembly' = counted
           /\ result' = IF counted.empty > 1 \/ counted.read > MaxTrans2Fragments
                        THEN Failed ELSE NotYet

Unsent(cells, done) == {r \in {<<i, j>> : i, j \in DOMAIN cells} :
                          r[1] <= r[2] /\ \A k \in r[1]..r[2] : k \notin done}

\* The server sends the parameters, a piece of the data or both, laid out in one
\* of two ways: a pad before the first block and a setup word, or a pad before
\* the second block and none.
Fragment ==
  /\ ~result.done
  /\ \E pr \in (Unsent(reply.params, sent.params) \cap {<<1, Len(reply.params)>>}) \cup {<<1, 0>>},
        dr \in Unsent(reply.data, sent.data) \cup {<<1, 0>>}, setup \in {0, 1} :
       /\ pr[2] >= pr[1] \/ dr[2] >= dr[1]
       /\ Receive(MessageOf(Block(reply.params, pr[1], pr[2]), Block(reply.data, dr[1], dr[2]),
                            setup, 1 - setup, setup))
       /\ sent' = [params |-> sent.params \cup (pr[1]..pr[2]), data |-> sent.data \cup (dr[1]..dr[2])]
  /\ UNCHANGED << reply, entries, skipped >>

\* A message that contributes nothing, or is refused.
EmptyFragment ==
  /\ ~result.done /\ skipped < MaxSkipped
  /\ \E m \in BareMessages : Receive(m)
  /\ skipped' = skipped + 1
  /\ UNCHANGED << reply, entries, sent >>

\* An error status ends the transaction, whatever came before it.
ErrorStatus ==
  /\ ~result.done
  /\ result' = Failed
  /\ UNCHANGED << reply, entries, sent, skipped, assembly >>

ListingNext == Fragment \/ EmptyFragment \/ ErrorStatus

(***************************************************************************)
(* What the caller may rely on.                                            *)
(***************************************************************************)

\* The caller gets every entry of the batch with its whole name and in the
\* server's order, or an error: never a listing that is short or holds a name
\* made of pieces that are not its own.  The exception is a FIND_NEXT2 whose
\* first message has no words: the client takes it for the end of the search,
\* whatever the server had left.  And once the server has sent all of the
\* reply the caller waits no longer.
ListingWhole ==
  /\ result.done /\ ~result.err =>
       \/ result.names = [i \in DOMAIN entries |-> Name(i, entries[i])]
       \/ reply.to = "FIND_NEXT2" /\ assembly.params = << >> /\ result.names = << >>
  /\ ~result.done =>
       \/ \E i \in DOMAIN reply.params : i \notin sent.params
       \/ \E i \in DOMAIN reply.data : i \notin sent.data
=============================================================================
