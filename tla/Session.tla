------------------------------- MODULE Session ------------------------------
(***************************************************************************)
(* A session from Dial to Logoff (dialer.go, session.go,                   *)
(* internal/client/negotiate.go, internal/client/session.go): negotiation, *)
(* the one or two rounds of session setup, and then goroutines that mount  *)
(* and unmount shares, list the share names through IPC$ and log off, all  *)
(* on one connection.                                                      *)
(*                                                                         *)
(* A request ends in one of three ways: it is carried out and answered; it *)
(* is refused; it is carried out and its reply is lost to a caller whose   *)
(* context has ended.  A connection on which a read or a write has failed  *)
(* is broken: nothing can be asked on it any more, and Close, which finds  *)
(* it torn down, leaves its socket open (see CloseClosesSocket in Conn).   *)
(***************************************************************************)
EXTENDS Ntlm, Functions

CONSTANTS
    Users,      \* goroutines that share the session
    TIDs,       \* the tree identifiers the server gives out, again and again
    MaxFaults,  \* how many requests fail or lose their reply: a bound
    MaxCalls,   \* calls of each goroutine: a bound
    NoTID

ASSUME SessionAssumption ==
    /\ NoTID \notin TIDs
    /\ MaxFaults \in Nat /\ MaxCalls \in Nat

VARIABLES
    dial,       \* how far DialContext is, then how far the session is
    conn,       \* the connection: not made, open, broken, closed
    allowGuest, \* Dialer.AllowGuest
    isGuest,    \* Session.isGuest
    cred,       \* what the initiator was given, for as long as it is needed
    cmsg,       \* the challenge the server sent, while it is being answered
    amsg,       \* the answer to it, until the server has checked it
    granted,    \* what the server gave: nothing, a user's session, a guest's
    pc,         \* where each goroutine is
    tid,        \* the tree it deals with
    mount,      \* the share it has mounted
    trees,      \* Session.trees
    server,     \* the trees connected on the server
    live,       \* the server has not logged the session off
    pipes,      \* the trees with an open \srvsvc pipe
    fate,       \* what failed requests have left behind
    faults,
    calls

authVars == <<allowGuest, isGuest, cred, cmsg, amsg, granted>>
treeVars == <<trees, server, live, pipes>>
userVars == <<pc, tid, mount, calls>>
vars == <<dial, conn, authVars, userVars, treeVars, fate, faults>>

Credentials == [user : {"user"}, secret : {"right", "wrong"}, domain : {"", "DOMAIN"}, spn : {"spn"}]

\* Challenges with the flags a server may leave out, with MsvAvFlags or without.
Challenges ==
    {ChallengeMessage(DefaultFlags \ leftOut, av, whole) :
        leftOut \in SUBSET {"keyExch", "extended", "sign", "targetInfo", "version"},
        av \in {"none", "unset", "mic"}, whole \in BOOLEAN}

TypeOK ==
    /\ dial \in {"new", "negotiate", "setup", "authenticate", "up", "failed", "off"}
    /\ conn \in {"none", "open", "broken", "closed"}
    /\ trees \subseteq TIDs /\ server \subseteq TIDs /\ pipes \subseteq server
    /\ tid \in [Users -> TIDs \cup {NoTID}] /\ mount \in [Users -> TIDs \cup {NoTID}]
    /\ granted \in {"none", "user", "guest"}

NoMessage == <<>>

Init ==
    /\ dial = "new" /\ conn = "none"
    /\ allowGuest \in BOOLEAN /\ isGuest = FALSE
    /\ cred \in Credentials
    /\ cmsg = NoMessage /\ amsg = NoMessage
    /\ granted = "none"
    /\ pc = [u \in Users |-> "idle"]
    /\ tid = [u \in Users |-> NoTID] /\ mount = [u \in Users |-> NoTID]
    /\ trees = {} /\ server = {} /\ pipes = {} /\ live = TRUE
    /\ fate = {} /\ faults = 0
    /\ calls = [u \in Users |-> 0]

-----------------------------------------------------------------------------
(* Dial.                                                                   *)

\* NewConn and the receive loop, unless the context, the Initiator or its user
\* is missing: then the caller keeps its TCP connection as it was.
Dial ==
    /\ dial = "new"
    /\ \/ dial' = "failed" /\ UNCHANGED conn
       \/ dial' = "negotiate" /\ conn' = "open"
    /\ UNCHANGED <<authVars, userVars, treeVars, fate, faults>>

\* Conn.Close returns early when the connection has been torn down already.
Closed == IF conn = "broken" THEN "broken" ELSE "closed"

\* Fault: the error is returned and the connection left as it is.
DialFailsOpen == dial' = "failed" /\ UNCHANGED conn

DialFails == dial' = "failed" /\ conn' = Closed

\* What a server offers that this client can work with.
Offers == [dialect : BOOLEAN, caps : BOOLEAN, encrypt : BOOLEAN, userLevel : BOOLEAN, signing : BOOLEAN]

Acceptable(o) == o.dialect /\ o.caps /\ o.encrypt /\ o.userLevel /\ ~ o.signing

Negotiate ==
    /\ dial = "negotiate"
    /\ \/ DialFails
       \/ /\ conn = "open"
          /\ \E o \in Offers : IF Acceptable(o) THEN dial' = "setup" /\ UNCHANGED conn ELSE DialFails
    /\ UNCHANGED <<authVars, userVars, treeVars, fate, faults>>

\* Round 1: the server asks for more, grants a session at once, or fails.
SetupNegotiate ==
    /\ dial = "setup"
    /\ \/ /\ DialFails
          /\ UNCHANGED authVars
       \/ /\ conn = "open"
          /\ \E g \in {"user", "guest"} : granted' = g
          /\ dial' = "up"
          /\ cred' = NoMessage
          /\ UNCHANGED <<conn, allowGuest, isGuest, cmsg, amsg>>
       \/ /\ conn = "open"
          /\ \E c \in Challenges :
                /\ cmsg' = c
                /\ IF Refuses(c) THEN DialFails /\ UNCHANGED amsg
                   ELSE dial' = "authenticate" /\ amsg' = AuthenticateMessage(cred, c) /\ UNCHANGED conn
          /\ UNCHANGED <<allowGuest, isGuest, cred, granted>>
    /\ UNCHANGED <<userVars, treeVars, fate, faults>>

GuestRefused(g) == g = "guest" /\ ~ allowGuest

\* Round 2: the server checks the answer.  One that refuses it may still
\* grant a guest's session.
SetupAuthenticate ==
    /\ dial = "authenticate"
    /\ cred' = NoMessage /\ cmsg' = NoMessage /\ amsg' = NoMessage
    /\ \/ /\ DialFails
          /\ UNCHANGED <<isGuest, granted>>
       \/ /\ conn = "open"
          /\ \E g \in {"guest"} \cup (IF Accepts("right", cmsg, amsg) THEN {"user"} ELSE {}) :
                /\ granted' = g
                /\ isGuest' = (g = "guest")
                /\ IF GuestRefused(g) THEN DialFails ELSE dial' = "up" /\ UNCHANGED conn
    /\ UNCHANGED <<allowGuest, userVars, treeVars, fate, faults>>

-----------------------------------------------------------------------------
(* The goroutines.  The places where one waits for the server, and where   *)
(* it goes on when the request was answered and when it was not.           *)

StepsToClose ==
    [connect       |-> [ok |-> "store",     fail |-> "idle"],
     disconnect    |-> [ok |-> "delete",    fail |-> "idle"],
     rapConnect    |-> [ok |-> "rapStore",  fail |-> "rpcConnect"],
     rapSend       |-> [ok |-> "rapDone",   fail |-> "rapUndo"],
     rapDone       |-> [ok |-> "rapDelete", fail |-> "idle"],
     rapUndo       |-> [ok |-> "undoDelete", fail |-> "rpcConnect"],
     rpcConnect    |-> [ok |-> "rpcStore",  fail |-> "idle"],
     openPipe      |-> [ok |-> "bind",      fail |-> "rpcDisconnect"],
     bind          |-> [ok |-> "request",   fail |-> "bindByWrite"],
     bindByWrite   |-> [ok |-> "request",   fail |-> "closePipe"],
     request       |-> [ok |-> "closePipe", fail |-> "requestByWrite"],
     requestByWrite |-> [ok |-> "closePipe", fail |-> "closePipe"],
     closePipe     |-> [ok |-> "rpcDisconnect", fail |-> "rpcDisconnect"],
     rpcDisconnect |-> [ok |-> "delete",    fail |-> "idle"],
     logoff        |-> [ok |-> "close",     fail |-> "close"]]

\* Fault: a failed Logoff returns before the connection is closed.
StepsLogoffOpen == [StepsToClose EXCEPT !.logoff.fail = "idle"]

\* Fault: a pipe that cannot be opened returns without disconnecting from IPC$.
StepsKeepTree == [StepsToClose EXCEPT !.openPipe.fail = "idle"]

Steps == StepsToClose

Connecting == {"connect", "rapConnect", "rpcConnect"}
Disconnecting == {"disconnect", "rapDone", "rapUndo", "rpcDisconnect"}

Begin(u, label) ==
    /\ dial = "up"
    /\ pc[u] = "idle"
    /\ calls[u] < MaxCalls
    /\ calls' = [calls EXCEPT ![u] = @ + 1]
    /\ pc' = [pc EXCEPT ![u] = label]
    /\ UNCHANGED <<dial, conn, authVars, mount, treeVars, fate, faults>>

Mount(u) == mount[u] = NoTID /\ Begin(u, "connect") /\ UNCHANGED tid
Umount(u) == mount[u] # NoTID /\ Begin(u, "disconnect") /\ tid' = [tid EXCEPT ![u] = mount[u]]
ListSharenames(u) == Begin(u, "rapConnect") /\ UNCHANGED tid
Logoff(u) == Begin(u, "logoff") /\ UNCHANGED tid

\* What carrying out u's request does on the server, and to what u knows.
CarriedOut(u) ==
    CASE pc[u] \in Connecting ->
            \E t \in TIDs \ server : server' = server \cup {t} /\ tid' = [tid EXCEPT ![u] = t]
                               /\ UNCHANGED <<live, pipes>>
      [] pc[u] \in Disconnecting ->
            server' = server \ {tid[u]} /\ pipes' = pipes \ {tid[u]} /\ UNCHANGED <<live, tid>>
      [] pc[u] = "openPipe" -> pipes' = pipes \cup {tid[u]} /\ UNCHANGED <<server, live, tid>>
      [] pc[u] = "closePipe" -> pipes' = pipes \ {tid[u]} /\ UNCHANGED <<server, live, tid>>
      [] pc[u] = "logoff" -> live' = FALSE /\ server' = {} /\ pipes' = {} /\ UNCHANGED tid
      [] OTHER -> UNCHANGED <<server, live, pipes, tid>>

\* The server knows the session and the tree the request is for.
Valid(u) == live /\ (pc[u] \notin Connecting \cup {"logoff"} => tid[u] \in server)

Reply(u) ==
    /\ pc[u] \in DOMAIN Steps
    /\ conn = "open" /\ Valid(u)
    /\ CarriedOut(u)
    /\ pc' = [pc EXCEPT ![u] = Steps[@].ok]
    /\ UNCHANGED <<dial, conn, authVars, mount, calls, trees, fate, faults>>

\* What an old server does not support, and refuses as often as it is asked.
Optional == {"rapSend", "bind", "request"}

\* Refused, or the connection is down.
Refused(u) ==
    /\ pc[u] \in DOMAIN Steps
    /\ IF conn = "open" /\ Valid(u) /\ pc[u] \notin Optional
       THEN faults < MaxFaults /\ faults' = faults + 1
       ELSE UNCHANGED faults
    /\ fate' = IF pc[u] \in Disconnecting THEN fate \cup {"tree"} ELSE fate
    /\ pc' = [pc EXCEPT ![u] = Steps[@].fail]
    /\ UNCHANGED <<dial, conn, authVars, tid, mount, calls, treeVars>>

\* Carried out, but the caller had gone.
ReplyLost(u) ==
    /\ pc[u] \in DOMAIN Steps
    /\ conn = "open" /\ Valid(u)
    /\ faults < MaxFaults
    /\ faults' = faults + 1
    /\ CarriedOut(u)
    /\ fate' = CASE pc[u] \in Connecting -> fate \cup {"tree"}
                 [] pc[u] \in Disconnecting -> fate \cup {"entry"}
                 [] OTHER -> fate
    /\ pc' = [pc EXCEPT ![u] = Steps[@].fail]
    /\ UNCHANGED <<dial, conn, authVars, mount, calls, trees>>

\* TreeConnect puts its tree into the map.
Store(u) ==
    /\ pc[u] \in {"store", "rapStore", "rpcStore"}
    /\ trees' = trees \cup {tid[u]}
    /\ mount' = IF pc[u] = "store" THEN [mount EXCEPT ![u] = tid[u]] ELSE mount
    /\ pc' = [pc EXCEPT ![u] = CASE @ = "store" -> "idle"
                                  [] @ = "rapStore" -> "rapSend" [] OTHER -> "openPipe"]
    /\ UNCHANGED <<dial, conn, authVars, tid, calls, server, live, pipes, fate, faults>>

\* Fault: TreeDisconnect forgets to take its tree out of the map.
DeleteForgotten(t) == trees

DeleteTree(t) == trees \ {t}

\* TreeDisconnect takes it out.
Delete(u) ==
    /\ pc[u] \in {"delete", "rapDelete", "undoDelete"}
    /\ trees' = DeleteTree(tid[u])
    /\ mount' = IF mount[u] = tid[u] THEN [mount EXCEPT ![u] = NoTID] ELSE mount
    /\ pc' = [pc EXCEPT ![u] = IF @ = "undoDelete" THEN "rpcConnect" ELSE "idle"]
    /\ UNCHANGED <<dial, conn, authVars, tid, calls, server, live, pipes, fate, faults>>

\* Logoff closes the connection whatever the server has answered.  The server
\* forgets the trees of a connection that is gone.
CloseConn(u) ==
    /\ pc[u] = "close"
    /\ conn' = Closed
    /\ dial' = "off"
    /\ IF conn = "broken" THEN UNCHANGED <<server, pipes>> ELSE server' = {} /\ pipes' = {}
    /\ pc' = [pc EXCEPT ![u] = "idle"]
    /\ UNCHANGED <<authVars, tid, mount, calls, trees, live, fate, faults>>

\* A read or a write on the connection fails: setError.
Breaks ==
    /\ conn = "open"
    /\ conn' = "broken"
    /\ UNCHANGED <<dial, authVars, userVars, treeVars, fate, faults>>

Step(u) == Reply(u) \/ Refused(u) \/ ReplyLost(u) \/ Store(u) \/ Delete(u) \/ CloseConn(u)

Next ==
    \/ Dial \/ Negotiate \/ SetupNegotiate \/ SetupAuthenticate \/ Breaks
    \/ \E u \in Users : Mount(u) \/ Umount(u) \/ ListSharenames(u) \/ Logoff(u) \/ Step(u)

\* A request is on a live connection, and no deadline ends the wait for its reply.
OnTheServer(u) == pc[u] \in DOMAIN Steps /\ conn = "open"

\* A goroutine goes on, and a request on a connection that is not open fails.
\* Nothing is assumed of the server: Logoff need not be answered.
Spec == Init /\ [][Next]_vars /\ \A u \in Users : WF_vars(Step(u) /\ ~OnTheServer(u))

-----------------------------------------------------------------------------
\* A dial that fails does not leave a working connection behind, and a Logoff,
\* whether the server grants it or refuses it, or another one has closed the
\* connection under it, ends with the connection closed, or broken as it was;
\* only a server that does not answer keeps it (DialContext, Session.Logoff).
EndsClosed ==
    /\ [](dial = "failed" => conn # "open")
    /\ \A u \in Users : pc[u] = "logoff" ~> (conn \in {"closed", "broken"} \/ [](pc[u] = "logoff"))

\* A wrong secret is never accepted.  The right one is, wherever the domain comes
\* from and whichever of the other flags the server leaves out, both ends then
\* have the same keys, and the mechListMIC of the client verifies, except with
\* two kinds of challenge.  One is without the version flag: the server then takes
\* the MIC from where the client has put the version, against the layout of the
\* message in ntlm/server.go:131, and refuses the right secret if there is a MIC.
\* The other has an MsvAvFlags that lacks the MIC bit, which encode changes in
\* place before the client makes its MIC, while the server's is over what it sent.
\* A domain left empty is the challenge's target name on both ends, and never the
\* WORKGROUP of initiator.go:49.
KeysAgree ==
    dial = "authenticate" =>
        LET session == ServerSession("right", amsg)
        IN  IF cred.secret = "wrong" THEN ~ Accepts("right", cmsg, amsg)
            ELSE cmsg.av # "unset" /\ "version" \in cmsg.flags =>
                    /\ Accepts("right", cmsg, amsg)
                    /\ ClientSession(cred, cmsg) = session
                    /\ CheckSum(session, amsg.mechListMIC, "mechTypes")

AllIdle == \A u \in Users : pc[u] = "idle"

\* When nobody is at work, the only trees left on the server are the mounted
\* ones, and no pipe is open: ListSharenames gives back IPC$ and its pipe on
\* every path, RAP or RPC, unless a disconnect was refused or the reply to a
\* connect was lost.
NothingLeft ==
    conn = "open" /\ AllIdle /\ "tree" \notin fate => server \subseteq Range(mount) /\ pipes = {}

\* The map has no tree that the server has not, unless TreeDisconnect is about
\* to take it out or never heard that the server had disconnected it.
MapIsCurrent ==
    conn = "open" /\ live /\ "entry" \notin fate =>
        \A t \in trees :
           t \in server \/ \E u \in Users : tid[u] = t /\ pc[u] \in {"delete", "rapDelete", "undoDelete"}

-----------------------------------------------------------------------------
(* What comments promise and the code does not do.                         *)

\* A session that the server granted to a guest is handed out only to a caller
\* who allowed it, and says so (Dialer.AllowGuest, Session.IsGuest).
GuestKnown == dial = "up" /\ granted = "guest" => allowGuest /\ isGuest
=============================================================================
