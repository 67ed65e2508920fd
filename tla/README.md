# A TLA+ model of smb1client

smb1client is an SMB1 client library in Go. At its centre is one connection that
many goroutines share: requests carry a 16-bit multiplex ID (MID), one background
goroutine reads replies and hands them to whoever holds the MID, callers may give
up at any moment, and the server answers an abandoned request all the same. On
top of it sit files with a position, pipelined transfers, sessions and trees, the
operations of a share that take many requests while other clients change the same
tree, and a pool that lends whole sessions out. Beside these are pure parts, where
one byte or one comparison decides: patterns, paths, errors, message sizes,
reassembly. This project models them, model-checks them, and proves the safety of
every part that has state, for all values of its constants.

## Inventory

| Part | State | Operations | What makes it correct |
| --- | --- | --- | --- |
| Connection, `internal/client/conn.go` | `nextMID`, `pending`, `done`, `err`, one channel per request | `beginRequest`, `sendRecv`, `sendRecvSettled`, `sendRecvTransaction`, `releaseLocked`, `Receive`, `setError`, `Close` | a caller gets its own replies only; MIDs are held exactly as long as a reply may come; teardown happens once and wakes everybody |
| NetBIOS framing, `internal/netbios/session.go` | the socket and its read deadline | `ReadPacketContext`, `WritePacketContext`, `Close` | a packet that was not sent leaves the stream usable, one that failed half way does not |
| Pipelined transfers, `internal/client/file.go` | chunks, the next one to send, the count so far, whether the write drains | `readPipelined`, `writePipelined`, `collectReplies`, `abandonChunks` | the count is truthful, no request is left on the server, the depth is respected, the call ends |
| Files, `internal/client/file.go`, `file.go` | position, FID | sequential `Read`/`Write`, `ReadAt`, `WriteAt`, `Seek`, `Truncate`, `Close` | positions follow the counts; short and empty replies mean what io.Reader says; nothing is on the server when `Close` is sent |
| Session and tree, `internal/client/session.go`, `negotiate.go`, `dialer.go`, `initiator.go`, `internal/ntlm` | UID, TIDs, keys, negotiated limits | dial, negotiate, session setup, tree connect, share enumeration, and their reverse | every failure on the way up closes what was opened; both ends agree on the keys; trees are given back |
| Pool, `pool.go` | `idle`, `active`, `closed`, `waitChan`, the cleanup goroutine | `Get`, `put`, `remove`, `cleanupExpired`, `Close` | one holder per session, the count adds up, waiters are woken, `Close` ends |
| Share operations, `session.go`, `dirfs.go` | none of their own | `Remove`, `RemoveAll`, `MkdirAll`, `Rename`, `ReadDir`, `Walk`, `Glob`, `CopyFile` | success means it, partial failure is reported, listings are whole, searches and handles are closed |
| Paths and patterns, `match.go`, `session.go`, `dirfs.go` | none | `Match`, `validateFilePath`, `normalizePath`, `smbPath` | agree with their definition on every input |
| Errors, `errors.go` | none | wrapping, mapping, predicates | a cause is recognised however often it was wrapped |
| Messages, `internal/smb1` | none | encode, decode, reassemble | counts and offsets agree, strings are aligned, a listing is the server's or an error |
| File information, `setinfo.go`, `fileinfo.go`, `fsinfo.go` | none | `Chmod`, times, `Statfs` | nothing else is changed |
| DCE/RPC, status table, facade | none | encode, forward | not modelled |

How they interact: a public `Session` owns a `client.Session`, which owns a
`Conn`; `Conn.Receive` runs in a goroutine of its own. `File` calls
`sendRecvSettled` for single reads and writes and reaches into the connection's
`pending` map itself for pipelined ones. Listings go through
`sendRecvTransaction`. The pool owns public sessions and ends them with `Logoff`,
which ends in `Conn.Close`. What the parts share is the connection's mutex, the
file's, the session's and the pool's, channels, and the server's view of what is
still outstanding or open.

The behaviours that are hard: replies to abandoned requests; a reply that arrives
between the end of a wait and the release of its MID; replies in several messages;
MIDs wrapping and running out; teardown from four places at once; cancellation in
the middle of a pipeline; a position that is read and advanced in different
critical sections; wake-ups lost between waiters of the pool; a tree that changes
between two requests of one call; a TID given out again while its old name is
being forgotten. `PROJECT.json` lists them as hazards, each at its line.

## Modules

### The connection

`Conn` models the connection. A *request* is one call of `sendRecv`,
`sendRecvSettled` or `sendRecvTransaction` (the constants `Settled` and
`Transactions` say which). The code sees only MIDs; the model tags every message
with the request the server meant it for, which is what lets it say that a
message went to the wrong caller. Each critical section of `c.mu` is one action;
what happens between two of them is another. So `beginRequest` is
`BeginRefused`, `BeginRegister` or `BeginExhausted` under the lock, then
`WriteSent`, `WriteNotSent` (`ErrNotSent`) or `WriteFails` and, after it,
`WriteFailed`. The wait is `AwaitReply`, `AwaitContext`, `AwaitDone`, one action
per case of the `select`; `SettleReply`, `SettleTimeout` and `SettleDone` are the
second wait of `sendRecvSettled`; `Finish` is `releaseLocked`. The receive loop is
`ReceiveCheck`, `ReceiveRead` and its variants, `ReceiveDispatch`. `Close` is
`CloseFirst` under the lock, then one `CloseSweep` per waiter and `CloseSocket`
outside it, or `CloseAgain`. The server answers in any order, with one message or
with several for a transaction, or not at all. It never answers a request twice
with two replies; an unbidden oplock break carries the reserved MID.

`Calls` is what the connection promises, without MIDs, channels or goroutines: a
call ends with the server's answer to that very call, with an error that has a
cause, or with the certainty that the server was never asked. `ConnCalls` maps
`Conn` to it; `ImplementsCalls` says that `Conn` implements `Calls` under this
mapping. `ConnInv` holds the inductive invariant in its layers, `ConnIInv`,
`CallIInv` and `PanicIInv`; `ConnProofs` proves them one after the other, and the
refinement last.

### Transfers and files

`Pipeline` models what `readPipelined` and `writePipelined` share: sending a
chunk, the server serving chunks in any order and with any outcome, delivery,
`collectReplies` and `abandonChunks`. `PipelinedRead` and `PipelinedWrite` add
the two loops; `Transfer` is a Read or a Write with either. The connection appears
as what a transfer sees of it: down or not, and which of the transfer's own
requests are registered or cancelled. It may go down at any step, as `Conn` says
it may. `TransferProofs` has its invariant and its theorems.

`File` is one open file used by several goroutines at a time: the sequential
transfers with the settled wait of each request and the one deadline of
`writeSequential`, `ReadAt` and `WriteAt`, `Seek` in its two critical sections,
`Truncate` and `Close`. A byte is known by its position, so that a hole or a
repetition shows. `FileProofs` proves what it promises.

### Sessions and shares

`Session` runs from `Dial` through negotiation and the one or two rounds of
session setup to goroutines that mount, unmount, list the share names and log off.
The connection under it may break at any moment, and `Close` then leaves its socket
open. A request is carried out and answered, refused, or carried out with its reply
lost to a caller who has gone; the table `Steps` says where each one continues,
fallbacks and deferred clean-up included. `Ntlm` is the exchange inside session
setup with hashes, ciphers and random values as terms. The proofs are in
`SessionProofs`.

`ServerTree` is the server's tree with the handles and searches open on it and the
other clients that change, hold or refuse things. `Share` runs one operation on
it as a stack of frames, since `RemoveAll`, `Walk` and `Glob` recurse. A request
and its reply are one step, and between any two of them the others may act; or the
context ends once the server has acted, and the caller hears nothing of it
(`ReplyLost`). The
server lists a directory in an order of its own, which may differ from one batch to
the next, in batches that are full until the last (`Batches`). Sorting is stated by
what it gives, a reordering with nothing before what is less (`Sorts`), and that
there is one is proved. `ShareProofs` proves what a nil error means and that nothing
stays open, `ShareListProofs` what walks, globs and paged listings find.

### Pool

`Pool` models the pool. Each critical section of `p.mu` is one action; dialling,
health checks and logging off happen between them. A `Get` runs from `GetCall`
through `GetIdle`, `GetCreate` or `GetExhausted`, and from waiting back to the
top of the loop. `PoolProofs` has the proofs.

### Pure parts

`Match`, `Paths`, `Errors`, `FileInfo`, `Wire` and `Rap` define the functions of
the code as operators, next to a reference: what a pattern means by full
backtracking, what a server reads where an offset points, what the cause of an
error is. `Listing` is the reassembly of the reply to a `FIND_FIRST2` or `FIND_NEXT2`
as a small state machine, with a server that cuts the reply as it likes and sends
messages without blocks, with too few words or with none. `Algorithms` grows the
inputs one element at a time, so that TLC goes through all of them. `CodecProofs`
proves the arithmetic of `Wire` for all sizes.

The `MC*` modules are the instances TLC runs. Definitions whose comment begins
with *Fault*, and in the pure modules those whose name ends in a description of
what is wrong, are deliberately broken variants of the definition below them. No
specification uses them; each shows that a property would notice that mistake.

## Runs

| Run | Checks |
| --- | --- |
| `conn_reuse` | Three requests, one of each kind, a single usable MID and channels of one slot. `RepliesAreOwn`: only one's own replies arrive. `HeldMIDsAwaitReply`: a MID outlives its caller only while a reply may come. `SettledBeforeReturn`: a settled call returns with its reply in. `TornDownOnce`: the first reason for teardown stands. `ConnIInv`: the invariant the proofs rest on. |
| `conn_live` | `NoPanic`: nobody reads nil from a closed channel or can send on one. `CancelReturns`, `AnsweredReturns`, `TeardownWakesAll`: a call returns when its context ends, when it has been answered, when the connection is down. `ImplementsCalls`: the connection implements `Calls`. |
| `transfer` | `TruthfulCount`: the count of a write is what the file holds, and a short one has an error. `ReadHasNoHole`: what a read returns is contiguous, and io.EOF comes alone. `SettledOnReturn`: nothing is pending on the server, and the depth was kept to. `EntriesOwned`: the pending map is left right, although entries are deleted by MID alone. `EndsWhenCancelled`. |
| `file` | `ReadContiguous`, `TruthfulWrite`, `NothingLeftBehind`, `PositionAddsUp`: the position is the last seek plus all that was reported since, whatever overlaps. `CancelledReturns`. |
| `share` | `NilMeansDone`: after a nil error the path was gone, the directories above the path had been there and something at the path, the copy is whole. `NothingLeftOpen`: searches and handles. `WalkComplete`, `ListingsComplete`: what lasted is found, once, in order where the code sorts. `CallReturns`. |
| `session` | `KeysAgree`: the right secret is accepted and both ends have the same keys. `NothingLeft`, `MapIsCurrent`: trees and pipes. `EndsClosed`: a dial that fails leaves no working connection, and a `Logoff` that the server answers, or whose connection breaks, ends the connection. |
| `pool` | `OneHolder`. `LimitKept`: the connections idle, in use, tested or dialled never exceed `MaxActive`, and the count covers them. `GetReturns`, `CloseReturns`, unless the server holds a dial or a logoff for ever. |
| `algorithms` | `MatchAgrees`, `PathsAgree`, `ErrorsKeepClass`, `RepliesWhole`, `MessagesFit`, `InfoKept`. |
| `conn_close_socket` | Violated. After a failed read or write, `Close` finds `c.done` closed and returns without closing the socket. |
| `pool_lost_wakeup` | Violated. With two connections, the one slot of `waitChan` and the drain at the top of `Get` can leave a client asleep beside an idle session. |
| `pool_active_leak` | Violated. A session that fails its health check stays counted in `active`. |
| `session_guest` | Violated. A guest session granted in one round is handed out without `AllowGuest`, and `IsGuest` says false. |

The violated properties say what a comment in the code says; the findings in
`PROJECT.json` quote it. Other disagreements between the code and its comments, and
things the code does that a user would not expect, are exceptions of the passing
properties, which say so where they are defined. These are worth knowing:

- A caller in `conn.Write` to a peer that has stopped reading stays there when its
  context ends (`internal/netbios/session.go:280`, against line 235).
  `CancelReturns`, `TeardownWakesAll` and `EndsWhenCancelled` except that caller.
- `Logoff` waits for its answer without a deadline (`session.go:170`). A `Get` whose
  session fails the health check because the server is silent does not come back
  with a new one (against `pool.go:45`), and neither does `Close` of the pool come
  back. `GetReturns` and `CloseReturns` name these cases.
- `WriteAt` sends one chunk (`internal/client/file.go:1085`) and returns the count of
  the reply without an error (against `file.go:70`). `TruthfulWrite` is about `Write`.
- The length of a name in an open request is twice its length in UTF-8
  (`internal/client/file.go:184`), which for a name outside ASCII is not the "length
  of file name in bytes" of `internal/smb1/file_ops.go:39`. `MessagesFit` asks for
  ASCII names.
- An empty domain is the target name of the challenge and never `WORKGROUP`
  (`internal/ntlm/client.go:139`, against `initiator.go:49`).
- White space at the end of a `DirFS` name is trimmed after the name was checked and
  joined to the root (`session.go:1649`, against `dirfs.go:13` and `19`): another file
  is opened, and for `".. "` the parent. `PathsAgree` asks for the rest, and that no
  name leads further up than that.
- A time before 1970 or after 2262 is not read back as it was set (`fileinfo.go:110`
  and `126`, against `setinfo.go:22`), and `Chmod` undoes what another client changes
  between its two requests (`setinfo.go:63`, against line 42). `InfoKept` is about the
  times between and about a file nobody else changes.

- `put` on a closed pool forgets the session without logging it off
  (`pool.go:330`, against `pool.go:478`).
- On a connection that a failed read or write has torn down, `Close` leaves the
  socket open (`conn_close_socket`), also for a dial that fails so and for `Logoff`.
  `EndsClosed` asks for a connection that is closed or broken.
- `ReadDir` whose context ends between two batches leaves its search open, and a
  context that ends before the reply to an open or to a `FIND_FIRST2` is read leaves
  on the server what was opened, since the FID or SID is in that reply.
  `NothingLeftOpen` excepts behaviours in which that has happened.
- A `FIND_NEXT2` whose first message has no words counts as the end of the search
  (`internal/smb1/trans2.go:545`), whatever the server had left. `RepliesWhole`
  excepts it; a `FIND_FIRST2` answered so is an error.
- `MkdirAll` takes a file at its path for the directory (`session.go:626`, against
  line 601). `NilMeansDone` says of the path only that something was there, and of
  the components above it that they were directories.
- A `TREE_CONNECT` whose reply nobody reads leaves its tree on the server, and
  the reply to a lost `TREE_DISCONNECT` its entry in the map. `NothingLeft` and
  `MapIsCurrent` except them. A tree that was given the TID of one just being
  disconnected can lose its map entry; only `File.Readdir` looks there.
- `CopyFile` of a file onto itself truncates it, and the error of closing the
  destination is dropped. `NilMeansDone` excepts the first; the second is not an
  error of the call.
- `RemoveAll` stops at the first child it cannot remove, where its comment says
  that it removes everything it can. `ReadDir` and `Walk` promise an order and do
  not sort; `WalkComplete` speaks of parents before children only. For a directory
  it cannot list, `walk` calls `walkFn` a second time with the error; "once" in
  `WalkComplete` is about the first call.
- A challenge whose target information has flags without the MIC bit is changed
  in place while it is encoded (`internal/ntlm/ntlm.go:215`). `KeysAgree` leaves
  it out, and the challenge without the version flag, with which the server side
  takes the MIC from where the client has the version
  (`internal/ntlm/server.go:240`, against line 131).
- An error about a missing file or a permission, once mapped to an os error, keeps
  the predicates of its own class only. `ErrorsKeepClass` says so.
- Transaction blocks of 65536 bytes wrap their counts. `MessagesFit` is stated for
  blocks that fit.
- A negated character class may stand for the separator, and a star takes the
  shortest run and none beyond a separator: `*[^x]*b` means `a\b` and does not
  match it. `MatchAgrees` leaves out such a class between two stars.

### Bounds

- *Requests and MIDs.* A MID must be reused for a late reply to go astray: two
  requests on one usable MID do it, and the third adds the third kind of caller.
  With one usable MID, running out is an ordinary event.
- *Fragments and queue.* Two fragments make "more may follow" different from
  "that was all". In the code a channel holds 64 messages and a transaction may
  have as many, and so they are equal in `conn_live`. In `conn_reuse` the channel
  is shorter than the reply, so that the receive loop drops fragments: no caller
  gets a wrong message even then. It may get nil, though (`AwaitNil`), if `Close`
  closes a full channel; that `NoPanic` rests on the equality of the two sizes is
  worth knowing before one of them is changed.
- *Chunks.* Four chunks with two in flight have a chunk being waited for, one
  behind it, one that takes its place and one not yet sent. The last is shorter
  than the others. A chunk of two bytes can be short in both ways, with and
  without data. `DepthCap` is below `MaxMpxCount`.
- *File.* Two callers make two calls in all. Buffers of three bytes and chunks of
  two make every transfer two requests; a file of two bytes ends in the middle of
  a transfer. Of the pairs of calls only those are left out in which neither call
  uses the position.
- *Pool.* Two clients, two connections of which one finds room in the idle list: a
  session too many is closed, one expires, the server of one drops it or falls silent. Each
  session is dialled once, so `Sessions` bounds the dials of a behaviour; when
  they are used up dialling fails, which the code must cope with anyway. Four
  clients, symmetric, in `pool_lost_wakeup`; `pool`, which checks liveness, uses no
  symmetry.
- *Share.* A directory that can hold two entries and a path beside it; listings in
  batches of one, so that two entries take a `FIND_NEXT2` and an end; one retry of
  `removeDir`; one interference by another client, the server or the context
  (`MaxTrouble`) at any point of one call.
- *Session.* Two goroutines with two calls each, two TIDs, so that a TID is given
  out again, and one request that is refused or loses its reply. What an old
  server does not support it refuses without being counted.
- *Pure parts.* Patterns of four terms on names of three characters, paths of five
  characters of seven kinds, errors wrapped four times, three shares, two entries in
  three messages and any order. Sizes are picked on both sides of every limit.
  Attributes are all subsets. Times are scaled down to a width of seven bits and a
  tick of four nanoseconds, in the order the real numbers have: the years an int64
  of nanoseconds holds on either side of 1970 are fewer than those from 1601 to 1970.

### Fairness

Weak fairness of the steps a goroutine takes on its own: Go runs every runnable
goroutine, a `select` with a ready case proceeds, timers fire, and a read or
write on a closed socket returns. The server need not answer, nobody need
cancel, close or give a session back, and neither a read nor a write on an open
socket need return: `writePacketType` looks at the context before it writes and
sets no deadline. So `CancelReturns`, `TeardownWakesAll` and `EndsWhenCancelled`
except a caller that is held in a write for good. `file` abstracts from the write: there a request that is sent is on the
server.

In `pool` a dial need not end, nor the logoff of a session whose server is
silent, nor what comes after it in a loop; `GetReturns` and `CloseReturns` name
these cases. In `session` a request on an open connection need not be
answered, and fails once the connection is broken or closed.

`share` assumes that each request is answered or fails, which is what
`CancelReturns`, `AnsweredReturns` and `TeardownWakesAll` give a caller whose
context ends, whose server answers or whose connection breaks.

Deadlock is checked in the runs of `Conn`, `Transfer` and `Pool`, where `Quiet` or
its like says when coming to rest is legitimate: every call has returned. In the
others the bounds on calls make behaviours end, and the liveness properties say
that every call has returned by then.

## Proofs

Every theorem holds for all values of the constants that satisfy the assumptions
the modules declare, and these only exclude what makes no sense (no MID, a chunk of
no bytes, a path without its parent). One theorem-level assumption is stronger:
`RoomForReply`, `MaxFragments <= QueueDepth`, under which `NeverPanics` and
`ConnImplementsCalls` are stated. In the code both numbers are 64
(`responseQueueDepth`, `maxTrans2Fragments`).

| Module | Theorems | State |
| --- | --- | --- |
| `ConnProofs` | `ConnInvariant`, `TypeCorrect`, `OwnReplies`, `OneTeardown`, `CallInvariant`, `HeldForAReply`, `SettledReturns`, `NeverPanics`, `ConnImplementsCalls` | `ConnIInv`, `TypeOK`, `RepliesAreOwn`, `TornDownOnce`, `CallIInv`, `HeldMIDsAwaitReply`, `SettledBeforeReturn`, `NoPanic`, `ImplementsCalls` |
| `TransferProofs` | `TransferInvariant`, `SettlesOnReturn`, `EntriesAreOwned`, `CountIsTruthful`, `ReadWithoutHole` | `TransferIInv`, `SettledOnReturn`, `EntriesOwned`, `TruthfulCount`, `ReadHasNoHole` |
| `FileProofs` | `FileInvariant`, `ReadsAreContiguous`, `WritesAreTruthful`, `NothingStaysBehind`, `PositionIsKept` | `FileIInv`, `ReadContiguous`, `TruthfulWrite`, `NothingLeftBehind`, `PositionAddsUp` |
| `SessionProofs` | `SessionInvariant`, `SessionTypeCorrect`, `MapStaysCurrent`, `NothingIsLeft`, `KeysAlwaysAgree` | `SessionIInv`, `TypeOK`, `MapIsCurrent`, `NothingLeft`, `KeysAgree` |
| `PoolProofs` | `PoolInvariant`, `PoolTypeCorrect`, `OneHolderAlways`, `LimitAlwaysKept` | `PoolIInv`, `TypeOK`, `OneHolder`, `LimitKept` |
| `ShareProofs` | `ShareInvariant`, `NilIsDone`, `NothingStaysOpen` | `ShareIInv`, `NilMeansDone`, `NothingLeftOpen` |
| `ShareListProofs` | `ListInvariant`, `WalkIsComplete`, `ListingsAreComplete` | `TreeIInv` and `ListIInv`, `WalkComplete`, `ListingsComplete` |
| `CodecProofs` | `PacketsAlwaysSurvive`, `ReadRepliesAreFound`, `ChunksAlwaysFit` | `PacketsSurvive`, `ReadReplyFound`, `ChunksFit`, parts of `MessagesFit`, for every size |

Each invariant was checked with TLC before it was proved. A proof that a step keeps
it has one step per action and under it one per conjunct the action can disturb.

**Connection, who gets a message.** `RepliesAreOwn` is not inductive: it says what
is in the channels, and the harm is done when a message is dispatched by MID. The
argument is that on a live connection a message which may still be dispatched finds
its own request under its MID. `LiveRequestsHold` says so: a request holds its MID
while its caller is at it *or* a message for it is owed by the server or in the
hands of the receive loop. Keeping that through `ReleaseLocked` takes the rest. An
answered single-message request may free its MID because no second message exists
(`MessagesAddUp`, `SingleReply`). A caller that says it was answered has really
taken the reply, or the whole of it (`ReleasedWithCause`, `SettlingForContext`). A
reply that is in the channel is not also on the way (`MessagesAddUp` again). A
request that is not on the wire is owed nothing (`UnsentUnanswered`), so `Cleanup`
is safe. Abandoned entries are freed by the receive loop only on the last message a
request can have (`CancelledReturned`, `PacketInHand`). And the reserved MID is
nobody's (`HoldersHold`), so an oplock break finds no taker. Once the connection is
down the map is empty for good (`DownMeansEmpty`).

**Connection, how calls end.** `CallIInv` counts messages over teardown too: the
teardown message is the last of a channel, and what a caller took, what is in its
channel, in hand and owed never exceeds what the server sent. On a live connection
a single reply is lost only to a caller that gave up, and one that stopped waiting
without it has not taken it, so a MID that is kept is kept for a reply. How a wait
ended has a cause, which is what the step simulation of `Calls` needs: every action
of `Conn` maps to one of `Calls` or to a stutter. Its fairness stays with TLC.
`PanicIInv` adds that a waiter whose channel `Close` has closed finds the teardown
message in it or the rest of its reply; this is where `RoomForReply` is needed.

**Transfers.** `TransferIInv` says where a transfer stands (the chunks are sent and
read in order, and no further apart than the depth), which chunks have an entry
in the map, what the server has done with each and what of it has arrived, and that
the count is the bytes of the chunks passed. That the count is what the server
applied *without a gap* goes by the first chunk that is not whole: it exists because
the numbers are well ordered, and a write that returns has either passed all chunks
or stopped at that one.

**Files.** `FileIInv` is a statement about each caller by itself: the request it
waits for begins where its count ends, its buffer holds what it counts, what the
server wrote for a Write is what it has counted plus the reply in hand, and only a
caller that gave up leaves a request behind. A step of one caller leaves all of
that of another alone. What they share is the position, and `PositionAddsUp` is
kept because every advance adds what is reported.

**Sessions.** `SessionIInv` says which goroutine answers for which tree and pipe on
the server: somebody for each, and nobody for one that is another's, unless a reply
to a disconnect was lost. Requests are grouped by what they can do (connect,
disconnect, go on, log off), so that the proof has one case per kind and not one per
row of `Steps`. `KeysAgree` follows from the exchange itself: the terms are built
from constructors that are equal only for equal arguments, and the invariant
(`Answered`) says that the message in hand answers a challenge the client accepted.
The two kinds of challenge that `KeysAgree` leaves out are those where the MIC the
server computes or reads is not the one the client made.

**Pool.** `LimitKept` says that the count covers the places, for an open pool and a
closed one. A step that frees a place lowers the count by one, or not at all (a
session that failed its health check, `put` on a closed pool), so keeping it needs
to know that the place was one: `PoolIInv` places each session, dealt with by one
client, idle once, or to be closed, never two of these.

**Shares.** `ShareIInv` speaks of the stack. Every handle is held by some frame
whose place says so (`Holds`), unless a close failed or the reply to the open was
lost. A search is open only between
two batches of the innermost call, and its directory cannot be removed meanwhile, so
the next batch finds it. The history of a call covers the tree: what is there has
been present, what is not there has been absent. The last parts say how far the
outermost call has come. `RemoveAll` waits for the `Stat` of its own path when it
may hear of an absence. `MkdirAll` has seen to the components before the one it is
at, and a component has been a directory once something was created or found below
it. A copy has written as much as it has read, into a file that nobody can take away
while it is open, and has read no more than there is of a source that nobody
touched. The frames of `Walk`, `Glob` and the listings only come and go above these.

**Walks and listings.** `WalkComplete` and `ListingsComplete` speak of the moment a
call returns, and of paths that *lasted*: there when the call began and left alone
since. The invariant adds three layers to `ShareIInv`.

- `TreeIInv`: the tree stays a tree, whatever this client or another does to it. Each
  entry is in a directory, and what lasted is in one that lasted. Without this a walk
  could not reach what it has to find. It also says which calls can be on the stack
  under which outermost call, so that the other layers need not look at removals.
- `SaidOK`: what `Stat` and `ReadDir` say is true of everything that lasted. A `Stat`
  of such a path does not say "not found"; a listing, and what the batches of a
  listing under way have gathered, names each entry once, each was there, and every
  entry that lasted is named or still to be given. It needs to know who has called
  (`CallersOK`), since the caller reads the answer one step later.
- The accounts. For `Walk`: everything that lasted has been visited, is below
  something skipped, or is *awaited* by a frame of the stack, that is, it is at or
  below the path the frame has yet to visit, or one of the entries it has yet to take
  up (`Pending`, `AllOK`). When the stack is empty nothing awaits, and this is
  `WalkComplete`. That no path comes twice, and no entry before its directory, is kept
  because what a frame awaits is not visited yet and frames await disjoint parts of
  the tree (`AroundOK`, `VisitOK`, `OrderOK`). For `Glob`: what has been gathered is
  sorted, was there and matches, and has everything that lasted and matches except in
  the directories still to be looked at (`Gathers`). This holds for each level of the
  pattern, where the matches of one level are the directories of the next, and only
  while no request has failed, since a directory that cannot be read counts as empty.
  For a paged listing: the pages given and the entries left are together one sorted
  listing (`DirOK`).

The lemmas below them are about paths (what a prefix, a parent, an entry is), about
the order of names (`Less` is total and transitive on paths of one length), and about
sorting: a finite sequence has a sorting permutation, and sorting keeps the members
and makes different ones strictly ordered.

**Messages.** The theorems of `CodecProofs` are arithmetic. That the three length
bytes of a frame give back the length is a lemma on quotients and remainders by 256.

*Only model-checked.* All liveness: TLAPS does not reason about fairness. Of the
safety properties only those of the pure parts: `MatchAgrees`, `PathsAgree` and
`ErrorsKeepClass`, because `Match`, `Paths` and `Errors` follow the recursion of the
code with recursive operators, which these provers do not take; `RepliesWhole`,
because `Rap` and `Listing` fold over sequences of any length; of `MessagesFit` the
layouts, for the same reason; `InfoKept`, which has finitely many inputs, and TLC
goes through them. The induction the other proofs need goes over numbers, by the
least counterexample (`LeastNumber` in `ShareListProofs`), and never over the
definition of an operator.

## Not modelled

- The values of fields that only travel, byte order, ASN.1, NDR, sealing, the
  table of status texts; the decoders of negotiate, session setup and tree connect
  replies. They have no state and no arithmetic a model would add to.
- `Conn.send`, which nothing calls.
- A server that answers one request twice, or a transaction with more data than
  its totals announce.
- The NetBIOS session request of port 139.
- `File.Readdir`: `Open` refuses directories, so no caller reaches it on one.
- Oplock breaks beyond finding no taker; the client never asks for an oplock.
- Closing one pooled handle twice; a negative `WaitTimeout` (wait for ever).
- Two transfers on one connection: the depth bound is one per transfer, so the
  connection as a whole may exceed `MaxMpxCount`.
- `remove`, a full idle list, a failed dial and cleanup lower `active` without a
  signal, so a waiter can time out with `ErrPoolExhausted` while there is room.
  `GetReturns` covers that it ends, not how.
- The retry of `Umount` after a lost reply may disconnect a tree that was given
  the same TID meanwhile.

## Plan

The model has the parts the source has, and every safety property of a part with
state is a theorem. What is left:

1. The reassembly of `Listing` as a theorem: a listing is the server's or an error.
   Its state machine has an invariant by message; what is missing is a form of the
   folds that can be reasoned about.
2. `PathsAgree` and `MatchAgrees` for patterns without a star, with the recursion
   written as functions over positions.
3. Type correctness of `Share` as it is stated for TLC: sizes bounded by `FileLen`.
