------------------------------ MODULE ConnInv -------------------------------
(***************************************************************************)
(* The inductive invariants of the connection.  ConnIInv is behind         *)
(* RepliesAreOwn: why a MID is never free while the server may still send  *)
(* a message that carries it.  CallIInv adds what is known of each call,   *)
(* on a connection that may be down, until it has returned and why.        *)
(***************************************************************************)
EXTENDS Conn

\* The receive loop holds a packet of request r that it has yet to dispatch.
InHand(r) == rxPc = "dispatching" /\ rxOf = r

\* A message carrying r's MID may still reach ReceiveDispatch.
Outstanding(r) == owed[r] > 0 \/ InHand(r)

\* Between registering and releasing.
Active(r) == pc[r] \in {"writing", "waiting", "settling", "releasing"}

\* The pending map is empty for good once the connection is down.
DownMeansEmpty == IsDone => \A m \in MIDs : pending[m] = NoReq

\* A MID belongs to the request that was given it, and is never the reserved one.
HoldersHold ==
    \A m \in MIDs : pending[m] # NoReq =>
       m # reservedMID /\ mid[pending[m]] = m /\ pc[pending[m]] \notin {"idle", "writeFailed"}

\* On a live connection a request holds its MID for as long as its caller is
\* at it or a message for it may come.
LiveRequestsHold ==
    ~IsDone => \A r \in Requests : (Active(r) \/ Outstanding(r)) => pending[mid[r]] = r

\* On a live connection no message is counted twice and none is made up.
MessagesAddUp ==
    ~IsDone => \A r \in Requests :
       got[r] + Len(respCh[r]) + (IF InHand(r) THEN 1 ELSE 0) + owed[r] <= total[r]

SingleReply == \A r \in Requests \ Transactions : total[r] <= 1

\* Nothing can arrive for a request that is not on the wire.
UnsentUnanswered ==
    \A r \in Requests : pc[r] \in {"idle", "writing", "writeFailed"} => total[r] = 0

\* The packet in hand carries the MID of the request it answers.
PacketInHand ==
    rxPc = "dispatching" => IF rxOf = NoReq THEN rxMid = reservedMID ELSE rxMid = mid[rxOf]

\* Only a caller that has returned leaves a cancelled entry behind.
CancelledReturned == \A r \in cancelled : pc[r] = "returned"

\* A caller about to release its request knows how its wait ended: unless the
\* connection is down, it has the whole reply or it counts as giving up.
EndedFor(r) ==
    \/ IsDone
    \/ result[r] = "reply" /\ got[r] >= 1 /\ (r \in Transactions => got[r] >= total[r])
    \/ result[r] = "ctx" /\ r \in ctxDone /\ (r \in Settled => got[r] >= 1)
    \/ result[r] = "timeout" /\ r \in Settled
    \/ result[r] = "badfragment" /\ r \in Transactions

ReleasedWithCause == \A r \in Requests : pc[r] = "releasing" => EndedFor(r)

SettlingForContext ==
    \A r \in Requests : pc[r] = "settling" => r \in Settled /\ r \in ctxDone /\ (IsDone \/ result[r] = "ctx")

\* A teardown message is in a channel only once the connection is down.
DownOnlyWhenDone ==
    ~IsDone => \A r \in Requests : \A i \in 1 .. Len(respCh[r]) : respCh[r][i] # Down

\* Close touches channels only after it has taken the connection down.
SweptWhenDone == chClosed \cup swept # {} => IsDone

\* The invariant Next preserves and from which RepliesAreOwn follows.
ConnIInv ==
    /\ TypeOK
    /\ RepliesAreOwn
    /\ DownMeansEmpty
    /\ HoldersHold
    /\ LiveRequestsHold
    /\ MessagesAddUp
    /\ SingleReply
    /\ UnsentUnanswered
    /\ PacketInHand
    /\ CancelledReturned
    /\ ReleasedWithCause
    /\ SettlingForContext
    /\ DownOnlyWhenDone
    /\ SweptWhenDone

-----------------------------------------------------------------------------
\* The last message in r's channel is the one teardown put there.
EndsDown(r) == respCh[r] # <<>> /\ respCh[r][Len(respCh[r])] = Down

\* How many messages of the server are in r's channel.
Replies(r) == IF EndsDown(r) THEN Len(respCh[r]) - 1 ELSE Len(respCh[r])

\* Nothing comes after the teardown message.
DownComesLast ==
    \A r \in Requests : \A i \in 1 .. Len(respCh[r]) : respCh[r][i] = Down => i = Len(respCh[r])

\* MessagesAddUp, whether the connection is up or down.
RepliesAddUp ==
    \A r \in Requests : got[r] + Replies(r) + (IF InHand(r) THEN 1 ELSE 0) + owed[r] <= total[r]

TotalsBounded == \A r \in Requests : total[r] <= MaxFragments

\* Close has not come to the channels it has yet to sweep.
SweptUntouched == \A r \in swept : ~EndsDown(r)

\* On a live connection a single reply is lost only to a caller that gave up.
NothingLost ==
    ~IsDone => \A r \in Requests \ (Transactions \cup cancelled) :
       got[r] + Len(respCh[r]) + (IF InHand(r) THEN 1 ELSE 0) + owed[r] >= total[r]

\* A caller of a single reply that still waits for it, or has stopped waiting
\* without it, has not taken it.
StillWithout ==
    \A r \in Requests \ Transactions :
       \/ pc[r] \in {"waiting", "settling"}
       \/ pc[r] = "releasing" /\ result[r] = "timeout"
       \/ pc[r] = "releasing" /\ result[r] = "ctx" /\ r \notin Settled
       => got[r] = 0

\* How a wait ended has a cause, and a reply is a whole one.
HasCause(r) ==
    \/ result[r] = "reply" /\ got[r] >= 1 /\ (r \in Transactions => got[r] >= total[r])
    \/ result[r] = "ctx" /\ r \in ctxDone
    \/ result[r] = "timeout" /\ r \in ctxDone
    \/ result[r] = "conn" /\ IsDone
    \/ result[r] = "badfragment" /\ got[r] >= 1

EndedWithCause ==
    \A r \in Requests :
       /\ pc[r] \in {"settling", "releasing"} => HasCause(r)
       /\ pc[r] = "settling" => result[r] \in {"ctx", "conn"}

\* What is reported unsent was never sent.
UnsentNeverSent ==
    \A r \in Requests : pc[r] = "returned" /\ result[r] = "unsent" => total[r] = 0

\* The receive loop is on its way out while its own call of Close sweeps.
LoopCloses == closePc["receive"] = "sweeping" => rxPc = "closing"

\* The invariant behind HeldMIDsAwaitReply, SettledBeforeReturn and the
\* refinement of Calls.
CallIInv ==
    /\ DownComesLast
    /\ RepliesAddUp
    /\ TotalsBounded
    /\ SweptUntouched
    /\ NothingLost
    /\ StillWithout
    /\ EndedWithCause
    /\ UnsentNeverSent
    /\ LoopCloses
    /\ HeldMIDsAwaitReply
    /\ SettledBeforeReturn

\* A waiter whose channel Close has closed finds in it the teardown message or
\* what is left of its reply.
ClosedNotEmpty ==
    \A r \in chClosed :
       /\ pc[r] = "writing" => EndsDown(r)
       /\ pc[r] = "waiting" => EndsDown(r) \/ (respCh[r] # <<>> /\ got[r] + Len(respCh[r]) >= total[r])

\* A channel has room for everything the server sends for one request.
RoomForReply == MaxFragments <= QueueDepth

\* With that room nobody reads nil from a channel.
PanicIInv == ClosedNotEmpty /\ \A r \in Requests : pc[r] # "panicked"
=============================================================================
