----------------------------- MODULE Algorithms -----------------------------
(***************************************************************************)
(* The pure parts of the client, each checked on the inputs a behaviour of *)
(* this module builds: a topic is chosen and then its input grows by one   *)
(* term, character, wrapper or comment at a time.  The topic "listing" is  *)
(* the state machine of Listing.                                           *)
(***************************************************************************)
EXTENDS Match, Paths, Errors, FileInfo, Wire, Rap, Listing

CONSTANTS MaxTerms, MaxNameChars,   \* of a pattern and the name it is matched with
          MaxPathChars,
          MaxWrappers,              \* around an error
          MaxShares,
          Sizes,                    \* the block sizes tried, on both sides of every limit
          BufferSizes               \* the negotiated buffers tried

VARIABLES topic, input

vars == << topic, input, listingVars >>

(***************************************************************************)
(* The inputs.                                                             *)
(***************************************************************************)

DirNames == {<< >>, <<"a">>, <<".">>, <<".", "/", "a">>, <<"a", "\\", ".", ".">>, <<"a", "\\", "a">>}

FileNames == {n \in [units: 0..2, utf8: 0..6] : n.units <= n.utf8 /\ n.utf8 <= 3 * n.units}

Infos ==
  {i \in [queried: Attrs, stored: Attrs, zeroForNormal: BOOLEAN, writable: BOOLEAN,
          answer: {"OK", "NOT_SUPPORTED", "ACCESS_DENIED"}] :
     ("DIRECTORY" \in i.queried) = ("DIRECTORY" \in i.stored)}

Replies == [kind: {"geometry"}, sectors: {0, 8}, bytes: {0, 512}]
             \cup [kind: {"short", "unsupported", "error"}, sectors: {0}, bytes: {0}]

\* Every time a FILETIME can hold, and the stored ones at the limits.
FileTimes == (1 - Epoch) * TickNanos .. (Width - Epoch) * TickNanos - 1
StoredTimes == LET last == Width \div (2 * TickNanos)
               IN  {0, 1, Epoch - 1, Epoch, Epoch + last - 1, Epoch + last, Width - 1}

Starts0 ==
  [match |-> {[terms |-> << >>, name |-> << >>]},
   path |-> {[dir |-> d, path |-> << >>] : d \in DirNames},
   error |-> FirstErrors,
   info |-> Infos,
   time |-> [stored: StoredTimes, t: {Zero} \cup FileTimes],
   statfs |-> [size: Replies, allocation: Replies],
   request |-> [n: 0..2, m: 0..2, p: 0..3 \cup Sizes, d: Sizes, unicode: BOOLEAN],
   open |-> [name: FileNames, unicode: BOOLEAN],
   packet |-> [params: {0, 2, 3, 24, 28, 510, 512}, data: Sizes, cut: {0, 1, 2, 35, 36, 65534}],
   chunk |-> [large: BOOLEAN, buffer: BufferSizes, largeFiles: BOOLEAN],
   read |-> [words: 0..1, skip: 0..3, data: Sizes \ {0}],
   shares |-> [comments: {<< >>}, converter: {0, 3}, missing: 0..3]]

Unused ==
  /\ reply = << >> /\ entries = << >> /\ sent = << >> /\ skipped = 0
  /\ assembly = << >> /\ result = NotYet

Init ==
  \/ topic = "listing" /\ input = << >> /\ ListingInit
  \/ topic \in DOMAIN Starts0 /\ input \in Starts0[topic] /\ Unused

(***************************************************************************)
(* The steps.                                                              *)
(***************************************************************************)

AddTerm ==
  /\ topic = "match" /\ input.name = << >>
  /\ Len(input.terms) < MaxTerms /\ ~Malformed(input.terms)
  /\ \E t \in Terms \cup BadTerms : input' = [input EXCEPT !.terms = Append(@, t)]

AddNameChar ==
  /\ topic = "match" /\ Len(input.name) < MaxNameChars
  /\ \E c \in NameChars : input' = [input EXCEPT !.name = Append(@, c)]

AddPathChar ==
  /\ topic = "path" /\ Len(input.path) < MaxPathChars
  /\ \E c \in PathChars : input' = [input EXCEPT !.path = Append(@, c)]

Rewrap ==
  /\ topic = "error" /\ Len(input.wraps) < MaxWrappers
  /\ input' \in Rewrapped(input)

AddShare ==
  /\ topic = "shares" /\ Len(input.comments) < MaxShares
  /\ \E c \in {NoComment, <<1>>, <<2, 3>>} : input' = [input EXCEPT !.comments = Append(@, c)]

ListingStep == topic = "listing" /\ ListingNext /\ UNCHANGED input

Next ==
  /\ UNCHANGED topic
  /\ \/ (AddTerm \/ AddNameChar \/ AddPathChar \/ Rewrap \/ AddShare) /\ UNCHANGED listingVars
     \/ ListingStep

Spec == Init /\ [][Next]_vars

(***************************************************************************)
(* The properties.                                                         *)
(***************************************************************************)

\* Match (match.go) finds exactly the names its documented grammar means,
\* with '*' resolved greedily chunk by chunk and classes compared by code
\* point; a malformed pattern never matches and is reported when its first
\* chunk is the malformed one.
MatchAgrees == topic = "match" => Agrees(input.terms, input.name)

\* The paths the operations send stay inside the share whatever prefix of
\* them is resolved, UNC paths are server and share, and a DirFS opens what
\* its name says below its root (session.go, dirfs.go).  Names with white space at
\* an end are excepted: Share trims the joined path (session.go:1649) after the
\* name was found valid, and what it opens may be another file, the directory
\* itself or its parent, against dirfs.go:13 and 19; never one further up.
PathsAgree ==
  topic = "path" => /\ FilePathsAgree(input.path)
                    /\ MountPathsAgree(input.path)
                    /\ DirFSPathsAgree(input.dir, input.path)

\* However often an error is wrapped and mapped on its way out, the
\* predicates of errors.go answer for it as they do for its cause, but that
\* one about a missing file or a permission keeps its own predicates only.
ErrorsKeepClass == topic = "error" => ErrorKeepsClass(input)

\* A listing put together from fragments is the server's or an error, and the
\* shares of an enumeration keep their own comments.
RepliesWhole ==
  /\ topic = "listing" => ListingWhole
  /\ topic = "shares" /\ input.missing <= Len(EnumReply(input.comments, 0, 0).data) =>
       SharesListed(input.comments, input.converter, input.missing)

\* Strings are aligned and blocks are where the offsets say in every request;
\* the length of a name is that of the name sent, if it is ASCII; a packet
\* survives the frame and a cut one is refused; chunks and replies stay inside
\* the limits of the frame and of the negotiated buffer.  For a name outside ASCII
\* OpenFile doubles the UTF-8 length (client/file.go:184), which is more than the
\* length of the file name in bytes that file_ops.go:39 says the field is.
MessagesFit ==
  /\ topic = "request" => RequestsLaidOut(input.n, input.m, input.p, input.d, input.unicode)
  /\ topic = "open" /\ input.name.units = input.name.utf8 => NameLengthIsExact(input.name, input.unicode)
  /\ topic = "packet" => PacketsSurvive(input.params, input.data, input.cut)
  /\ topic = "chunk" =>
       LET len == maxWriteChunk(input.large, input.buffer)
       IN  /\ ChunkLaidOut(EncodeWriteRequest(len, input.largeFiles), len)
           /\ ChunksFit(input.large, input.buffer, input.largeFiles)
  /\ topic = "read" => ReadReplyFound(input.words, input.skip, input.data)

\* Chmod sets the read-only attribute as asked on servers of both kinds and
\* keeps the others when nobody else changes them meanwhile, a time set
\* between 1970 and 2262 is the time read back, and no capacity is reported
\* from a unit without bytes.  The comments promise more: that all other
\* attributes are preserved (setinfo.go:42), while what another client changes
\* between the two requests of a Chmod is set back, and that a modification time
\* is read back (setinfo.go:22), while the nanoseconds are counted in an int64
\* and what is before 1970 is read as the zero time (fileinfo.go:110, 126).
InfoKept ==
  /\ topic = "info" => ChmodDoes(input.queried, input.stored, input.zeroForNormal, input.writable, input.answer)
  /\ topic = "time" => TimesDo(input.stored, input.t)
  /\ topic = "statfs" => StatfsDoes(input.size, input.allocation)
=============================================================================
