------------------------------ MODULE FileInfo ------------------------------
(***************************************************************************)
(* Attributes, times and capacity: Chmod and Chtimes (setinfo.go, the      *)
(* SetAttributes and SetPathAttributes of internal/client), the mode and   *)
(* the times of a FileStat (fileinfo.go) and Statfs (fsinfo.go).           *)
(*                                                                         *)
(* An attribute word is the set of its bits.  A server keeps the bits that *)
(* describe the file and reports NORMAL, or 0 as some do, when there are   *)
(* none.  Times are scaled down and keep their order: the nanoseconds an   *)
(* int64 holds on either side of 1970 are fewer ticks than there are       *)
(* between 1601 and 1970, and those fewer than an int64 counts.            *)
(* A name that ends in a description of what is wrong is a plausible bug   *)
(* in the operator below it.                                               *)
(***************************************************************************)
EXTENDS Integers, Sequences

DOS == {"READONLY", "HIDDEN", "SYSTEM", "ARCHIVE"}

Attrs == SUBSET (DOS \cup {"DIRECTORY"})

chmodAttributesZero(attrs, writable) ==
  IF writable THEN attrs \ {"READONLY"} ELSE attrs \cup {"READONLY"}

chmodAttributes(attrs, writable) ==
  LET changed == IF writable THEN attrs \ {"READONLY"} ELSE attrs \cup {"READONLY"}
  IN  IF changed = {} THEN {"NORMAL"} ELSE changed

dosAttributes(attrs) == attrs \cap DOS

\* What the server does.  SMB_SET_FILE_BASIC_INFO leaves the attributes alone
\* when the word is 0; SMB_COM_SET_INFORMATION sets them absolutely and cannot
\* make a directory of a file or a file of a directory.
SetBasicInfo(stored, word) == IF word = {} THEN stored ELSE word \ {"NORMAL"}

SetInformation(stored, word) == word \cup (stored \cap {"DIRECTORY"})

Reported(stored, zeroForNormal) == IF stored = {} /\ ~zeroForNormal THEN {"NORMAL"} ELSE stored

\* SetPathAttributes and File.SetAttributes: the fallback only after
\* STATUS_NOT_SUPPORTED.
SetAttributes(stored, word, answer) ==
  CASE answer = "OK" -> [err |-> FALSE, stored |-> SetBasicInfo(stored, word)]
    [] answer = "NOT_SUPPORTED" -> [err |-> FALSE, stored |-> SetInformation(stored, dosAttributes(word))]
    [] OTHER -> [err |-> TRUE, stored |-> stored]

\* Chmod by path: the attributes it read are those it writes back, whatever
\* another client has set in between.
Chmod(queried, stored, zeroForNormal, writable, answer) ==
  SetAttributes(stored, chmodAttributes(Reported(queried, zeroForNormal), writable), answer)

\* The mode of a FileStat: directory, and whether the owner may write.
attributesToMode(attrs) ==
  [dir |-> "DIRECTORY" \in attrs, writable |-> "READONLY" \notin attrs]

(***************************************************************************)
(* Times.  A time.Time is its nanoseconds since 1970, Zero the zero one; a *)
(* FILETIME is the ticks since 1601, of TickNanos nanoseconds each.        *)
(***************************************************************************)
TickNanos == 4                 \* 100
Width == 128                   \* 2^64
Epoch == 20                    \* windowsToUnixEpoch
Zero == -1000                  \* January 1 of the year 1

\* The int64 with these bits, and Go's division, which rounds toward zero.
Int64(x) == ((x + Width \div 2) % Width) - Width \div 2
Quotient(x, n) == IF x >= 0 THEN x \div n ELSE -((-x) \div n)

convertFileTimeToTimeUnchecked(filetime) ==
  IF filetime = 0 THEN Zero ELSE Int64(Int64(filetime - Epoch) * TickNanos)

convertFileTimeToTime(filetime) ==
  IF filetime = 0 \/ filetime < Epoch THEN Zero ELSE Int64(Int64(filetime - Epoch) * TickNanos)

\* UnixNano wraps for a time an int64 of nanoseconds cannot hold.
convertTimeToFileTime(t) ==
  IF t = Zero THEN 0 ELSE (Quotient(Int64(t), TickNanos) + Epoch) % Width

\* Chtimes: a zero FILETIME leaves the stored time as it is.
Chtimes(storedTime, t) ==
  IF convertTimeToFileTime(t) = 0 THEN storedTime ELSE convertTimeToFileTime(t)

(***************************************************************************)
(* Statfs.  A reply is an error class or a geometry.                       *)
(***************************************************************************)
newFileFsSizeInfo(g) == IF g.sectors = 0 \/ g.bytes = 0 THEN "error" ELSE "ok"

\* decoding: DecodeFsSizeInfo and DecodeFsAllocationInfo refuse a short reply.
Level(reply) ==
  CASE reply.kind = "short" -> "error"
    [] reply.kind = "geometry" -> newFileFsSizeInfo(reply)
    [] OTHER -> reply.kind

statfsTree(size, allocation) ==
  LET first == Level(size)
  IN  IF first = "unsupported" THEN [level |-> "allocation", result |-> Level(allocation)]
      ELSE [level |-> "size", result |-> first]

(***************************************************************************)
(* What they are for.                                                      *)
(***************************************************************************)

\* Chmod makes the file read-only exactly when the mode has no owner write
\* bit, on either kind of server and whatever another client did meanwhile,
\* and the mode of a later Stat says so.  Every other attribute stays, when
\* nobody changed one between the query and the set; a change in between is lost.
ChmodDoes(queried, stored, zeroForNormal, writable, answer) ==
  LET done == Chmod(queried, stored, zeroForNormal, writable, answer)
  IN  IF done.err THEN done.stored = stored
      ELSE /\ attributesToMode(done.stored).writable = writable
           /\ attributesToMode(done.stored).dir = ("DIRECTORY" \in stored)
           /\ queried = stored => done.stored \ {"READONLY"} = stored \ {"READONLY"}

\* The times a FILETIME and an int64 of nanoseconds both hold from 1970 on
\* (until 2262), and a time to the tick.
InRange(t) == t >= 0 /\ t < Width \div 2
ToTick(t) == Quotient(t, TickNanos) * TickNanos

ReadBack(storedTime, t) == convertFileTimeToTime(Chtimes(storedTime, t)) = ToTick(t)

\* A time a caller sets from 1970 to 2262 is, to the tick, the time it reads
\* back; the zero time changes nothing; and of a FILETIME before 1970 it reads
\* the zero time, of one until 2262 the time it stands for.
TimesDo(storedTime, t) ==
  /\ InRange(t) => ReadBack(storedTime, t)
  /\ Chtimes(storedTime, Zero) = storedTime
  /\ storedTime < Epoch => convertFileTimeToTime(storedTime) = Zero
  /\ InRange((storedTime - Epoch) * TickNanos) =>
       convertFileTimeToTime(storedTime) = (storedTime - Epoch) * TickNanos

\* Statfs asks the legacy level only of a server that declined the other, and
\* reports no capacity when the unit has no bytes.
StatfsDoes(size, allocation) ==
  LET done == statfsTree(size, allocation)
      used == IF done.level = "size" THEN size ELSE allocation
  IN  /\ done.result = "ok" => used.kind = "geometry" /\ used.sectors * used.bytes > 0
      /\ (done.level = "allocation") = (size.kind = "unsupported")
=============================================================================
