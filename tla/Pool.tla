-------------------------------- MODULE Pool --------------------------------
(***************************************************************************)
(* The connection pool (pool.go): clients that Get a session, use it and   *)
(* return it with Close or drop it with ReallyClose, the idle list, the    *)
(* count of active connections, the one-slot channel that wakes waiters,   *)
(* the cleanup goroutine and Close.                                        *)
(*                                                                         *)
(* Every critical section of p.mu is one step.  Dialling, health checks    *)
(* and logging a session off happen outside the lock and are steps of      *)
(* their own.  A client closes the handle a Get gave it once, with Close   *)
(* or with ReallyClose, as the documentation tells it to.                  *)
(***************************************************************************)
EXTENDS Naturals, Sequences, FiniteSets

CONSTANTS
    Clients,        \* goroutines that use the pool
    Sessions,       \* the sessions that can be dialled, each once: a bound
    MaxActive,      \* PoolConfig.MaxActive, 0 for no limit
    ConfigMaxIdle,  \* PoolConfig.MaxIdle
    HealthCheck,    \* whether PoolConfig.HealthCheck is set
    NoSession

ASSUME PoolAssumption ==
    /\ MaxActive \in Nat
    /\ ConfigMaxIdle \in Nat
    /\ HealthCheck \in BOOLEAN
    /\ NoSession \notin Sessions
    /\ IsFiniteSet(Clients)
    /\ IsFiniteSet(Sessions)

\* The limit NewConnectionPool settles on.
MaxIdle == IF MaxActive > 0 /\ ConfigMaxIdle > MaxActive THEN MaxActive ELSE ConfigMaxIdle

VARIABLES
    idle,      \* p.idle, the most recently used last
    active,    \* p.active
    closed,    \* p.closed
    token,     \* p.waitChan holds its one signal
    pc,        \* where each client is
    held,      \* the session it is dealing with
    expired,   \* the clients whose WaitTimeout has run out in this Get
    conn,      \* each session's connection: not dialled, open, logged off
    health,    \* of each session's server: fine, hung up on it, or silent
    cleanPc,   \* where the cleanup goroutine is
    toClose,   \* what it has taken from the idle list and not yet closed
    closePc,   \* where Close is
    remaining, \* what Close has taken from the idle list and not yet closed
    quit       \* p.cleanupQuit is closed

poolVars  == <<idle, active, closed, token>>
cleanVars == <<cleanPc, toClose>>
closeVars == <<closePc, remaining, quit>>
vars == <<poolVars, pc, held, expired, conn, health, cleanVars, closeVars>>

TypeOK ==
    /\ idle \in Seq(Sessions) /\ Len(idle) <= MaxIdle
    /\ active \in Nat
    /\ closed \in BOOLEAN
    /\ token \in BOOLEAN
    /\ pc \in [Clients -> {"out", "get", "testing", "discarding", "creating", "createFailed",
                           "waiting", "holding", "closing"}]
    /\ held \in [Clients -> Sessions \cup {NoSession}]
    /\ expired \subseteq Clients
    /\ conn \in [Sessions -> {"none", "open", "closed"}]
    /\ health \in [Sessions -> {"fine", "dropped", "silent"}]
    /\ cleanPc \in {"running", "done"}
    /\ toClose \subseteq Sessions
    /\ closePc \in {"idle", "signalling", "waiting", "closing", "returned"}
    /\ remaining \subseteq Sessions
    /\ quit \in BOOLEAN

\* Without an IdleTimeout there is no cleanup goroutine to wait for.
Init ==
    /\ idle = <<>>
    /\ active = 0
    /\ closed = FALSE
    /\ token = FALSE
    /\ pc = [c \in Clients |-> "out"]
    /\ held = [c \in Clients |-> NoSession]
    /\ expired = {}
    /\ conn = [s \in Sessions |-> "none"]
    /\ health = [s \in Sessions |-> "fine"]
    /\ cleanPc \in {"running", "done"}
    /\ toClose = {}
    /\ closePc = "idle"
    /\ remaining = {}
    /\ quit = FALSE

Goto(c, label) == pc' = [pc EXCEPT ![c] = label]

\* Session.Logoff has returned.  It waits for the server's answer without a
\* deadline, so on a session whose server is silent it need not return.
LogOff(s) == conn' = [conn EXCEPT ![s] = "closed"]

-----------------------------------------------------------------------------
(* Get.                                                                    *)

GetCall(c) ==
    /\ pc[c] = "out"
    /\ Goto(c, "get")
    /\ expired' = expired \ {c}
    /\ UNCHANGED <<poolVars, held, conn, health, cleanVars, closeVars>>

\* Every pass of the loop begins by draining the wait channel.
GetClosed(c) ==
    /\ pc[c] = "get"
    /\ closed
    /\ token' = FALSE
    /\ Goto(c, "out")
    /\ UNCHANGED <<idle, active, closed, held, expired, conn, health, cleanVars, closeVars>>

\* Fault: the session is handed out and stays in the idle list.
GetIdleKept(c) ==
    /\ pc[c] = "get"
    /\ ~closed
    /\ idle # <<>>
    /\ token' = FALSE
    /\ held' = [held EXCEPT ![c] = idle[Len(idle)]]
    /\ Goto(c, "testing")
    /\ UNCHANGED <<idle, active, closed, expired, conn, health, cleanVars, closeVars>>

\* Take the most recently used idle session.
GetIdle(c) ==
    /\ pc[c] = "get"
    /\ ~closed
    /\ idle # <<>>
    /\ token' = FALSE
    /\ held' = [held EXCEPT ![c] = idle[Len(idle)]]
    /\ idle' = SubSeq(idle, 1, Len(idle) - 1)
    /\ Goto(c, "testing")
    /\ UNCHANGED <<active, closed, expired, conn, health, cleanVars, closeVars>>

\* Fault: one connection too many.
CanCreateOver == MaxActive = 0 \/ active <= MaxActive

CanCreate == MaxActive = 0 \/ active < MaxActive

\* Reserve a place for a new connection, to be dialled outside the lock.
GetCreate(c) ==
    /\ pc[c] = "get"
    /\ ~closed
    /\ idle = <<>>
    /\ CanCreate
    /\ token' = FALSE
    /\ active' = active + 1
    /\ Goto(c, "creating")
    /\ UNCHANGED <<idle, closed, held, expired, conn, health, cleanVars, closeVars>>

\* The pool is exhausted: wait, or give up if the time to wait is over.
GetExhausted(c) ==
    /\ pc[c] = "get"
    /\ ~closed
    /\ idle = <<>>
    /\ ~CanCreate
    /\ token' = FALSE
    /\ Goto(c, IF c \in expired THEN "out" ELSE "waiting")
    /\ UNCHANGED <<idle, active, closed, held, expired, conn, health, cleanVars, closeVars>>

IsAlive(s) == HealthCheck => health[s] = "fine"

TestAlive(c) ==
    /\ pc[c] = "testing"
    /\ IsAlive(held[c])
    /\ Goto(c, "holding")
    /\ UNCHANGED <<poolVars, held, expired, conn, health, cleanVars, closeVars>>

TestDead(c) ==
    /\ pc[c] = "testing"
    /\ ~IsAlive(held[c])
    /\ Goto(c, "discarding")
    /\ UNCHANGED <<poolVars, held, expired, conn, health, cleanVars, closeVars>>

\* Close the dead session and go round the loop again.
Discard(c) ==
    /\ pc[c] = "discarding"
    /\ LogOff(held[c])
    /\ held' = [held EXCEPT ![c] = NoSession]
    /\ Goto(c, "get")
    /\ UNCHANGED <<poolVars, expired, health, cleanVars, closeVars>>

CreateOK(c) ==
    /\ pc[c] = "creating"
    /\ \E s \in Sessions :
          /\ conn[s] = "none"
          /\ conn' = [conn EXCEPT ![s] = "open"]
          /\ held' = [held EXCEPT ![c] = s]
    /\ Goto(c, "holding")
    /\ UNCHANGED <<poolVars, expired, health, cleanVars, closeVars>>

\* Dialling or authenticating fails, or the context ends meanwhile.
CreateFails(c) ==
    /\ pc[c] = "creating"
    /\ Goto(c, "createFailed")
    /\ UNCHANGED <<poolVars, held, expired, conn, health, cleanVars, closeVars>>

CreateFailed(c) ==
    /\ pc[c] = "createFailed"
    /\ active' = active - 1
    /\ Goto(c, "out")
    /\ UNCHANGED <<idle, closed, token, held, expired, conn, health, cleanVars, closeVars>>

\* Fault: every wake-up starts the wait anew.
WaitSignalledAfresh(c) ==
    /\ pc[c] = "waiting"
    /\ token
    /\ token' = FALSE
    /\ Goto(c, "get")
    /\ expired' = expired \ {c}
    /\ UNCHANGED <<idle, active, closed, held, conn, health, cleanVars, closeVars>>

WaitSignalled(c) ==
    /\ pc[c] = "waiting"
    /\ token
    /\ token' = FALSE
    /\ Goto(c, "get")
    /\ UNCHANGED <<idle, active, closed, held, expired, conn, health, cleanVars, closeVars>>

\* The timer fires: ErrPoolExhausted.
WaitTimesOut(c) ==
    /\ pc[c] = "waiting"
    /\ c \in expired
    /\ Goto(c, "out")
    /\ UNCHANGED <<poolVars, held, expired, conn, health, cleanVars, closeVars>>

WaitCancelled(c) ==
    /\ pc[c] = "waiting"
    /\ Goto(c, "out")
    /\ UNCHANGED <<poolVars, held, expired, conn, health, cleanVars, closeVars>>

\* The clock passes the deadline a Get set itself when it was called.
DeadlinePasses(c) ==
    /\ pc[c] \in {"get", "waiting"}
    /\ c \notin expired
    /\ expired' = expired \cup {c}
    /\ UNCHANGED <<poolVars, pc, held, conn, health, cleanVars, closeVars>>

-----------------------------------------------------------------------------
(* Close and ReallyClose of a pooled session.                              *)

\* put on a closed pool leaves the session as it is.
PutClosedPool(c) ==
    /\ pc[c] = "holding"
    /\ closed
    /\ held' = [held EXCEPT ![c] = NoSession]
    /\ Goto(c, "out")
    /\ UNCHANGED <<poolVars, expired, conn, health, cleanVars, closeVars>>

IdleIsFull == MaxIdle = 0 \/ Len(idle) >= MaxIdle

\* put with no room: forget the session, then log it off outside the lock.
PutFull(c) ==
    /\ pc[c] = "holding"
    /\ ~closed
    /\ IdleIsFull
    /\ active' = active - 1
    /\ Goto(c, "closing")
    /\ UNCHANGED <<idle, closed, token, held, expired, conn, health, cleanVars, closeVars>>

\* put with room: keep the session and signal, unless a signal is there already.
PutIdle(c) ==
    /\ pc[c] = "holding"
    /\ ~closed
    /\ ~IdleIsFull
    /\ idle' = Append(idle, held[c])
    /\ token' = TRUE
    /\ held' = [held EXCEPT ![c] = NoSession]
    /\ Goto(c, "out")
    /\ UNCHANGED <<active, closed, expired, conn, health, cleanVars, closeVars>>

\* ReallyClose: remove finds the session in use.
Remove(c) ==
    /\ pc[c] = "holding"
    /\ active' = active - 1
    /\ Goto(c, "closing")
    /\ UNCHANGED <<idle, closed, token, held, expired, conn, health, cleanVars, closeVars>>

CloseHeld(c) ==
    /\ pc[c] = "closing"
    /\ LogOff(held[c])
    /\ held' = [held EXCEPT ![c] = NoSession]
    /\ Goto(c, "out")
    /\ UNCHANGED <<poolVars, expired, health, cleanVars, closeVars>>

-----------------------------------------------------------------------------
(* The cleanup goroutine and Close of the pool.                            *)

\* Fault: the expired sessions are closed and stay in the idle list.
CleanupExpiredKept ==
    /\ cleanPc = "running"
    /\ toClose = {}
    /\ \E k \in 1 .. Len(idle) :
          /\ toClose' = {idle[i] : i \in 1 .. k}
          /\ active' = active - k
    /\ UNCHANGED <<idle, closed, token, pc, held, expired, conn, health, cleanPc, closeVars>>

\* cleanupExpired: the idle list is in the order of last use, so what has
\* expired is a prefix of it.
CleanupExpired ==
    /\ cleanPc = "running"
    /\ toClose = {}
    /\ \E k \in 1 .. Len(idle) :
          /\ toClose' = {idle[i] : i \in 1 .. k}
          /\ idle' = SubSeq(idle, k + 1, Len(idle))
          /\ active' = active - k
    /\ UNCHANGED <<closed, token, pc, held, expired, conn, health, cleanPc, closeVars>>

CleanupClose(s) ==
    /\ s \in toClose
    /\ LogOff(s)
    /\ toClose' = toClose \ {s}
    /\ UNCHANGED <<poolVars, pc, held, expired, health, cleanPc, closeVars>>

\* The loop sees cleanupQuit closed and closes cleanupDone.
CleanupQuit ==
    /\ cleanPc = "running"
    /\ toClose = {}
    /\ quit
    /\ cleanPc' = "done"
    /\ UNCHANGED <<poolVars, pc, held, expired, conn, health, toClose, closeVars>>

CloseBegin ==
    /\ closePc = "idle"
    /\ closed' = TRUE
    /\ remaining' = {idle[i] : i \in 1 .. Len(idle)}
    /\ idle' = <<>>
    /\ closePc' = "signalling"
    /\ UNCHANGED <<active, token, pc, held, expired, conn, health, cleanVars, quit>>

\* Fault: Close waits for cleanupDone before it closes cleanupQuit.
CloseSignalLate ==
    /\ closePc = "signalling"
    /\ cleanPc = "done"
    /\ quit' = TRUE
    /\ closePc' = "waiting"
    /\ UNCHANGED <<poolVars, pc, held, expired, conn, health, cleanVars, remaining>>

CloseSignal ==
    /\ closePc = "signalling"
    /\ quit' = TRUE
    /\ closePc' = "waiting"
    /\ UNCHANGED <<poolVars, pc, held, expired, conn, health, cleanVars, remaining>>

CloseWait ==
    /\ closePc = "waiting"
    /\ cleanPc = "done"
    /\ closePc' = "closing"
    /\ UNCHANGED <<poolVars, pc, held, expired, conn, health, cleanVars, remaining, quit>>

CloseIdle(s) ==
    /\ closePc = "closing"
    /\ s \in remaining
    /\ LogOff(s)
    /\ remaining' = remaining \ {s}
    /\ UNCHANGED <<poolVars, pc, held, expired, health, cleanVars, closePc, quit>>

CloseReturn ==
    /\ closePc = "closing"
    /\ remaining = {}
    /\ closePc' = "returned"
    /\ UNCHANGED <<poolVars, pc, held, expired, conn, health, cleanVars, remaining, quit>>

\* The server stops answering on a connection, or the connection drops.
ServerDrops(s) ==
    /\ conn[s] = "open"
    /\ \E h \in {"dropped", "silent"} :
          /\ health[s] \in {"fine", "silent"} \ {h}
          /\ health' = [health EXCEPT ![s] = h]
    /\ UNCHANGED <<poolVars, pc, held, expired, conn, cleanVars, closeVars>>

-----------------------------------------------------------------------------
Get(c) ==
    \/ GetClosed(c) \/ GetIdle(c) \/ GetCreate(c) \/ GetExhausted(c)
    \/ TestAlive(c) \/ TestDead(c) \/ Discard(c)
    \/ CreateOK(c) \/ CreateFails(c) \/ CreateFailed(c)
    \/ WaitSignalled(c) \/ WaitTimesOut(c)

Return(c) == PutClosedPool(c) \/ PutFull(c) \/ PutIdle(c) \/ Remove(c)

Cleanup == (\E s \in Sessions : CleanupClose(s)) \/ CleanupQuit

Close == CloseSignal \/ CloseWait \/ (\E s \in Sessions : CloseIdle(s)) \/ CloseReturn

Next ==
    \/ \E c \in Clients :
          GetCall(c) \/ Get(c) \/ WaitCancelled(c) \/ DeadlinePasses(c) \/ Return(c) \/ CloseHeld(c)
    \/ CleanupExpired \/ Cleanup
    \/ CloseBegin \/ Close
    \/ \E s \in Sessions : ServerDrops(s)

\* Some session of S is one whose logoff nobody answers.
Unanswered(S) == \E s \in S : health[s] = "silent"

\* A Get is out of the pool's hands: net.Dial and the session setup run under
\* a context that need not have a deadline, and so does the logoff of a session
\* that failed its health check.
OnTheServer(c) == pc[c] = "creating" \/ (pc[c] = "discarding" /\ Unanswered({held[c]}))

\* Goroutines that can proceed do, clocks go on, health checks and the logoffs
\* that a server answers or a dropped connection refuses come to an end.
\* Dialling need not, nor the logoff of a session whose server is silent, nor
\* anything behind it in a loop.  Nobody has to call Get, give a session back or
\* close the pool, and the cleanup ticker need not find anything expired.
Fairness ==
    /\ \A c \in Clients :
          /\ WF_vars(Get(c) /\ ~OnTheServer(c))
          /\ WF_vars(DeadlinePasses(c))
    /\ WF_vars(Cleanup /\ ~Unanswered(toClose))
    /\ WF_vars(Close /\ ~Unanswered(remaining))

Spec == Init /\ [][Next]_vars /\ Fairness

-----------------------------------------------------------------------------
(* Safety.                                                                 *)

IdleSet == {idle[i] : i \in 1 .. Len(idle)}

Dealing(c) == pc[c] \in {"testing", "discarding", "holding", "closing"}

\* A session has one holder at most, is in the idle list once at most, is not
\* handed out while idle or while being closed, and nobody logs it off while
\* its holder uses it or while it waits in the idle list (Get, put,
\* cleanupExpired, Close).
OneHolder ==
    /\ \A c, d \in Clients : c # d /\ Dealing(c) /\ Dealing(d) => held[c] # held[d]
    /\ \A c \in Clients : Dealing(c) => held[c] \notin IdleSet \cup toClose \cup remaining
    /\ Cardinality(IdleSet) = Len(idle)
    /\ IdleSet \cap (toClose \cup remaining) = {}
    /\ \A c \in Clients : pc[c] \in {"testing", "holding"} => conn[held[c]] = "open"
    /\ \A s \in IdleSet : conn[s] = "open"

\* The clients p.active counts a place for, and all the places it stands for.
Counted == {"testing", "creating", "createFailed", "holding"}
Using == {c \in Clients : pc[c] \in Counted}
Places == Len(idle) + Cardinality(Using)

\* The connections that are idle, in use, being tested or being dialled never
\* exceed MaxActive, whatever combination of failed dials, full idle lists,
\* removals, expiry and health checks has moved p.active up and down: it is
\* never less than what it stands for (Get, put, remove, cleanupExpired).
LimitKept ==
    /\ Places <= active
    /\ MaxActive > 0 => active <= MaxActive

-----------------------------------------------------------------------------
(* What comments promise and the code does not do.                         *)

\* Active is the number of connections that are idle or in use, one that is
\* being dialled, tested or thrown out counted in (PoolStats, PoolConfig).
ActiveAddsUp ==
    ~closed => active = Places + Cardinality({c \in Clients : pc[c] = "discarding"})

\* While a client waits although a session is idle, a signal is there or a
\* client is about to look at the pool (put: "a waiter will check the pool").
NoWaiterStranded ==
    (idle # <<>> /\ \E c \in Clients : pc[c] = "waiting") =>
       token \/ \E c \in Clients : pc[c] = "get"

-----------------------------------------------------------------------------
(* Liveness.                                                               *)

\* Every Get comes to an end, however often it is woken to find the session it
\* was woken for gone, unless it dials for ever or waits for ever for the answer
\* to a logoff (Get, createConnection, closeSession).  Neither has a deadline, so
\* WaitTimeout does not bound them: a session that fails its health check because
\* its server is silent is not replaced, as pool.go:45 says it is.
GetReturns ==
    \A c \in Clients :
       pc[c] = "get" ~> \/ pc[c] \in {"holding", "out"}
                        \/ [](pc[c] = "creating")
                        \/ [](pc[c] = "discarding" /\ Unanswered({held[c]}))

\* Close of the pool returns, unless it or the cleanup goroutine it waits for is
\* held for ever by the logoff of a session whose server is silent.
CloseReturns == closed ~> (closePc = "returned" \/ []Unanswered(toClose \cup remaining))
=============================================================================
