-------------------------------- MODULE Share -------------------------------
(***************************************************************************)
(* The operations of a share that take several requests (session.go,       *)
(* dirfs.go, the directory side of internal/client/file.go): Stat and      *)
(* ReadDir, and what is built from them, Remove, RemoveAll, MkdirAll,      *)
(* Walk, Glob, the copies and the paged listings, while other clients      *)
(* change the tree between any two requests.                               *)
(*                                                                         *)
(* A request and its reply are one step.  The calls that are under way are *)
(* a stack of frames, the innermost last; ret is what the last finished    *)
(* call returned.                                                          *)
(***************************************************************************)
EXTENDS ServerTree, TLC

CONSTANTS
    Ops,        \* the operations an instance calls
    Batch,      \* findRequestBatchSize
    MaxRetries, \* maxRemoveRetries
    PageSize,   \* the n given to Readdir
    MaxCalls    \* calls one after the other: a bound

ASSUME ShareAssumption ==
    /\ Batch \in Nat \ {0} /\ PageSize \in Nat \ {0}
    /\ MaxRetries \in Nat /\ MaxCalls \in Nat

VARIABLES
    stack,      \* the calls under way
    ret,        \* the result of the last finished call
    goal,       \* the outermost call, its path and its second path
    ctxDone,    \* the context of the share has ended
    faulted,    \* the kinds of requests that have failed, and "search" and "handle"
                \* when the reply that opened one was lost
    visited,    \* what walkFn has been called with for the first time, in order
    skipped,    \* the directories walkFn skipped or was told an error about, a
                \* second call of it for one it had been called with included
    matches,    \* the matches of Glob, or the names a paged listing has returned
    calls       \* how many calls have been made

shareVars == <<stack, ret, goal, ctxDone, faulted, visited, skipped, matches, calls>>
vars == <<treeVars, shareVars>>

Nothing == [err |-> "none", dir |-> FALSE, list |-> <<>>, paths |-> <<>>]
Error(e) == [Nothing EXCEPT !.err = e]
NoGoal == [op |-> "none", path |-> Root, to |-> Root]

Frame(op, pc, path) ==
    [op |-> op, pc |-> pc, path |-> path, to |-> path, todo |-> <<>>, seen |-> {},
     paths |-> <<>>, err |-> "none", dir |-> FALSE, n |-> 0]

Idle == stack = <<>>
Top == stack[Len(stack)]
At(op, pc) == ~ Idle /\ Top.op = op /\ Top.pc = pc

\* The innermost call goes on as f, calls g, or returns r.
Become(f) == stack' = [stack EXCEPT ![Len(stack)] = f]
Goto(pc) == Become([Top EXCEPT !.pc = pc])
Call(f, g) == stack' = Append([stack EXCEPT ![Len(stack)] = f], g)
Return(r) == stack' = Front(stack) /\ ret' = r

noTree == treeVars
noWalk == <<visited, skipped, matches>>
noCall == <<goal, ctxDone, faulted, calls>>

\* The places where a call waits for the server.
Requests == {<<"stat", "basic">>, <<"stat", "standard">>, <<"readDir", "first">>, <<"readDir", "next">>,
             <<"removeDir", "delete">>, <<"remove", "open">>, <<"remove", "close">>,
             <<"mkdir", "create">>, <<"mkdir", "close">>, <<"copy", "openSrc">>, <<"copy", "openFile">>,
             <<"copy", "openDst">>, <<"copy", "move">>, <<"copy", "closeDst">>, <<"copy", "closeSrc">>,
             <<"rename", "send">>}

TypeOK ==
    /\ TreeTypeOK
    /\ \A i \in DOMAIN stack : stack[i].path \in Paths \cup {Root} /\ stack[i].n \in Nat
    /\ ret.err \in {"none", "eof", "notFound", "exist", "sharing", "notEmpty", "isDirectory",
                    "denied", "ctx", "invalid", "skipDir", "stop"}
    /\ ctxDone \in BOOLEAN /\ faulted \subseteq {r[2] : r \in Requests} \cup {"search", "handle"}
    /\ visited \in Seq(Paths \cup {Root}) /\ skipped \subseteq Paths \cup {Root}
    /\ calls \in 0 .. MaxCalls

Init ==
    /\ TreeInit
    /\ stack = <<>> /\ ret = Nothing /\ goal = NoGoal
    /\ ctxDone = FALSE /\ faulted = {}
    /\ visited = <<>> /\ skipped = {} /\ matches = <<>>
    /\ calls = 0

\* A call of the public API.  A later one has a context of its own.
Start(op, pc, path, to) ==
    /\ Idle
    /\ op \in Ops
    /\ calls < MaxCalls
    /\ calls' = calls + 1
    /\ stack' = <<[Frame(op, pc, path) EXCEPT !.to = to]>>
    /\ goal' = [op |-> op, path |-> path, to |-> to]
    /\ ret' = Nothing
    /\ ctxDone' = FALSE /\ UNCHANGED faulted
    /\ visited' = <<>> /\ skipped' = {} /\ matches' = <<>>
    /\ StartHistory
    /\ UNCHANGED <<tree, size, held, handles, searches, trouble>>

-----------------------------------------------------------------------------
(* Requests that fail: the server refuses, the context ends.               *)

Requesting == ~ Idle /\ <<Top.op, Top.pc>> \in Requests

\* Fault: a destination that cannot be opened leaves the source open.
UnwindEarly(f) ==
    IF f.pc = "move" /\ f.to # Root THEN "closeDst"
    ELSE IF f.pc \in {"statted", "move", "closeDst"} /\ f.path # Root THEN "closeSrc" ELSE "done"

\* The closes a copy has deferred, after the place where it is.  The root
\* stands for a local file.
Unwind(f) ==
    IF f.pc = "move" /\ f.to # Root THEN "closeDst"
    ELSE IF f.pc \in {"statted", "openDst", "move", "closeDst"} /\ f.path # Root THEN "closeSrc" ELSE "done"

\* A copy fails with e: the deferred closes are still made.
CopyFails(e) == Become([Top EXCEPT !.err = e, !.pc = Unwind(Top)])

\* What a failed request leads to.  The error of a deferred close is dropped.
FailWith(e) ==
    /\ faulted' = faulted \cup {Top.pc}
    /\ IF Top.op # "copy" THEN Return(Error(e))
       ELSE /\ IF Top.pc \in {"closeDst", "closeSrc"} THEN Goto(Unwind(Top)) ELSE CopyFails(e)
            /\ UNCHANGED ret

RequestDenied ==
    /\ Requesting
    /\ ~ ctxDone
    /\ Interfere
    /\ FailWith("denied")
    /\ UNCHANGED <<tree, size, held, handles, searches, history, noWalk, goal, ctxDone, calls>>

\* The context has ended: nothing is sent, or the reply is not waited for.
RequestRefused ==
    /\ Requesting
    /\ ctxDone
    /\ FailWith("ctx")
    /\ UNCHANGED <<noTree, noWalk, goal, ctxDone, calls>>

EndContext ==
    /\ ~ Idle
    /\ ~ ctxDone
    /\ ctxDone' = TRUE
    /\ UNCHANGED <<noTree, stack, ret, goal, faulted, noWalk, calls>>

\* A request is answered in time.
Answered(op, pc) == At(op, pc) /\ ~ ctxDone

-----------------------------------------------------------------------------
(* Stat.                                                                   *)

StatBasic ==
    /\ Answered("stat", "basic")
    /\ IF Kind(Top.path) = "none"
       THEN Return(Error("notFound"))
       ELSE Become([Top EXCEPT !.pc = "standard", !.dir = Kind(Top.path) = "dir"]) /\ UNCHANGED ret
    /\ UNCHANGED <<noTree, noWalk, noCall>>

\* A directory in either answer is a directory.
StatStandard ==
    /\ Answered("stat", "standard")
    /\ IF Kind(Top.path) = "none"
       THEN Return(Error("notFound"))
       ELSE Return([Nothing EXCEPT !.dir = Top.dir \/ Kind(Top.path) = "dir"])
    /\ UNCHANGED <<noTree, noWalk, noCall>>

-----------------------------------------------------------------------------
(* ReadDir: FIND_FIRST2 and FIND_NEXT2, in batches.                        *)

\* The order of two paths with the same number of names.
Less(p, q) == \E i \in DOMAIN p : p[i] < q[i] /\ \A j \in 1 .. i - 1 : p[j] = q[j]

\* The server gives what it has not given yet in an order of its own; a batch is
\* full, or has all that is left.
Batches(rest) ==
    {b \in UNION {[1 .. n -> rest] : n \in 0 .. Batch} :
        /\ \A i, j \in DOMAIN b : b[i] = b[j] => i = j
        /\ Len(b) = Batch \/ Range(b) = rest}

Found(b) == [i \in DOMAIN b |-> [path |-> b[i], dir |-> tree[b[i]] = "dir"]]

\* Fault: only FIND_FIRST2 asks for the search to be closed at its end.
AtEndOfSearchFirstOnly(p) == searches' = IF Top.pc = "first" THEN searches \ {p} ELSE searches

\* SMB_FIND_CLOSE_AT_EOS rides on every request.
AtEndOfSearch(p) == searches' = searches \ {p}

\* Fault: the loop ends with the first batch.
MoreIgnored(rest) == FALSE

\* EndOfSearch is not set; a batch before the last is full, so that its
\* SearchCount is not zero.
More(rest) == rest # {}

\* Fault: the search goes on at the last name found, not after it.
GatheredAgain(f, found) == (IF f.todo = <<>> THEN <<>> ELSE Append(f.todo, Last(f.todo))) \o found

Gathered(f, found) == f.todo \o found

Find ==
    /\ Answered("readDir", "first") \/ Answered("readDir", "next")
    /\ \E b \in Batches(Children(Top.path) \ Top.seen) :
         LET p == Top.path
             seen == Top.seen \cup Range(b)
         IN  \/ /\ ListStatus(p) # "none"
                /\ Return(Error("notFound"))
                /\ UNCHANGED searches
             \/ /\ ListStatus(p) = "none" /\ More(Children(p) \ seen)
                /\ Become([Top EXCEPT !.pc = "next", !.todo = Gathered(Top, Found(b)), !.seen = seen])
                /\ searches' = searches \cup {p}
                /\ UNCHANGED ret
             \/ /\ ListStatus(p) = "none" /\ ~ More(Children(p) \ seen)
                /\ Return([Nothing EXCEPT !.list = Gathered(Top, Found(b))])
                /\ AtEndOfSearch(p)
    /\ UNCHANGED <<tree, size, held, handles, trouble, history, noWalk, noCall>>

-----------------------------------------------------------------------------
(* Remove and RemoveAll.                                                   *)

RemoveCall(p) == Start("remove", "begin", p, p)
RemoveAllCall(p) == Start("removeAll", "begin", p, p)

\* The calls of Stat and of ReadDir inside another operation.
Ask(resume, g) ==
    /\ Call([Top EXCEPT !.pc = resume], g)
    /\ UNCHANGED <<noTree, ret, noWalk, noCall>>

RemoveStat == At("remove", "begin") /\ Ask("kind", Frame("stat", "basic", Top.path))

RemoveKind ==
    /\ At("remove", "kind")
    /\ IF ret.err # "none" THEN Return(ret)
       ELSE /\ Become(IF ret.dir THEN Frame("removeDir", "delete", Top.path)
                                 ELSE [Top EXCEPT !.pc = "open"])
            /\ UNCHANGED ret
    /\ UNCHANGED <<noTree, noWalk, noCall>>

\* Opened with FILE_DELETE_ON_CLOSE.
RemoveOpen ==
    /\ Answered("remove", "open")
    /\ IF OpenForDeleteStatus(Top.path) # "none"
       THEN Return(Error(OpenForDeleteStatus(Top.path))) /\ UNCHANGED handles
       ELSE handles' = handles \cup {Top.path} /\ Goto("close") /\ UNCHANGED ret
    /\ UNCHANGED <<tree, size, held, searches, trouble, history, noWalk, noCall>>

RemoveClose ==
    /\ Answered("remove", "close")
    /\ handles' = handles \ {Top.path}
    /\ Put(Top.path, "none", 0)
    /\ Return(Nothing)
    /\ UNCHANGED <<held, searches, trouble, noWalk, noCall>>

\* Fault: a directory that is still held after all retries counts as removed.
GiveUpSilently == Return(Nothing)

GiveUp == Return(Error("sharing"))

\* Fault: the retries are not counted.
RetryUncounted == Goto("sleep")

Retry == Become([Top EXCEPT !.pc = "sleep", !.n = @ + 1])

\* SMB_COM_DELETE_DIRECTORY, tried again while somebody holds the directory.
RemoveDir ==
    /\ Answered("removeDir", "delete")
    /\ LET status == DeleteDirectoryStatus(Top.path)
       IN  \/ /\ status = "none"
              /\ Put(Top.path, "none", 0)
              /\ Return(Nothing)
           \/ /\ status = "sharing"
              /\ IF Top.n < MaxRetries
                 THEN Retry /\ UNCHANGED ret
                 ELSE GiveUp
              /\ UNCHANGED <<tree, size, history>>
           \/ /\ status \notin {"none", "sharing"}
              /\ Return(Error(status))
              /\ UNCHANGED <<tree, size, history>>
    /\ UNCHANGED <<held, handles, searches, trouble, noWalk, noCall>>

\* The delay before the next try ends with the context as well.
RemoveDirSleep ==
    /\ At("removeDir", "sleep")
    /\ \/ Goto("delete") /\ UNCHANGED ret
       \/ ctxDone /\ Return(Error("ctx"))
    /\ UNCHANGED <<noTree, noWalk, noCall>>

RemoveAllExists == At("removeAll", "begin") /\ Ask("exists", Frame("stat", "basic", Top.path))

\* Fault: Exists reports any failure as absence.
IsAbsentOnError(r) == r.err # "none"

\* Exists: only a not-found error is an absence.
IsAbsent(r) == r.err = "notFound"

RemoveAllIsDir ==
    /\ At("removeAll", "exists")
    /\ \/ /\ IsAbsent(ret)
          /\ Return(Nothing)
       \/ /\ ~ IsAbsent(ret) /\ ret.err # "none"
          /\ Return(ret)
       \/ /\ ret.err = "none"
          /\ Call([Top EXCEPT !.pc = "isDir"], Frame("stat", "basic", Top.path))
          /\ UNCHANGED ret
    /\ UNCHANGED <<noTree, noWalk, noCall>>

\* IsDir: what is not found is no directory.
RemoveAllList ==
    /\ At("removeAll", "isDir")
    /\ \/ /\ ~ IsAbsent(ret) /\ ret.err # "none"
          /\ Return(ret)
       \/ /\ IsAbsent(ret) \/ (ret.err = "none" /\ ~ ret.dir)
          /\ Become(Frame("remove", "begin", Top.path))
          /\ UNCHANGED ret
       \/ /\ ret.err = "none" /\ ret.dir
          /\ Call([Top EXCEPT !.pc = "listed"], Frame("readDir", "first", Top.path))
          /\ UNCHANGED ret
    /\ UNCHANGED <<noTree, noWalk, noCall>>

RemoveAllListed ==
    /\ At("removeAll", "listed")
    /\ IF ret.err # "none" THEN Return(ret)
       ELSE Become([Top EXCEPT !.pc = "children", !.todo = ret.list]) /\ ret' = Nothing
    /\ UNCHANGED <<noTree, noWalk, noCall>>

\* The first child that cannot be removed ends the call.
RemoveAllChild ==
    /\ At("removeAll", "children")
    /\ \/ /\ ret.err # "none"
          /\ Return(ret)
       \/ /\ ret.err = "none" /\ Top.todo # <<>>
          /\ Call([Top EXCEPT !.todo = Tail(@)], Frame("removeAll", "begin", Head(Top.todo).path))
          /\ UNCHANGED ret
       \/ /\ ret.err = "none" /\ Top.todo = <<>>
          /\ Become(Frame("remove", "begin", Top.path))
          /\ UNCHANGED ret
    /\ UNCHANGED <<noTree, noWalk, noCall>>

-----------------------------------------------------------------------------
(* Mkdir, MkdirAll and Rename.                                             *)

MkdirCall(p) == Start("mkdir", "create", p, p)
MkdirAllCall(p) == Start("mkdirAll", "next", p, p)

MkdirCreate ==
    /\ Answered("mkdir", "create")
    /\ IF CreateDirectoryStatus(Top.path) # "none"
       THEN Return(Error(CreateDirectoryStatus(Top.path))) /\ UNCHANGED <<tree, size, history, handles>>
       ELSE /\ Put(Top.path, "dir", 0)
            /\ handles' = handles \cup {Top.path}
            /\ Goto("close")
            /\ UNCHANGED ret
    /\ UNCHANGED <<held, searches, trouble, noWalk, noCall>>

MkdirClose ==
    /\ Answered("mkdir", "close")
    /\ handles' = handles \ {Top.path}
    /\ Return(Nothing)
    /\ UNCHANGED <<tree, size, held, searches, trouble, history, noWalk, noCall>>

\* Fault: a component that is already there is an error.
TolerableNever(e) == e = "none"

\* IsExistError.
Tolerable(e) == e \in {"none", "exist"}

\* One component after the other.
MkdirAllNext ==
    /\ At("mkdirAll", "next")
    /\ IF ~ Tolerable(ret.err) \/ Top.n = Len(Top.path)
       THEN Return(IF Tolerable(ret.err) THEN Nothing ELSE ret)
       ELSE /\ Call([Top EXCEPT !.n = @ + 1], Frame("mkdir", "create", SubSeq(Top.path, 1, Top.n + 1)))
            /\ ret' = Nothing
    /\ UNCHANGED <<noTree, noWalk, noCall>>

\* Only what can have no children is moved: a bound.
RenameCall(p, q) == p # q /\ Below(p) = {p} /\ Start("rename", "send", p, q)

RenameSend ==
    /\ Answered("rename", "send")
    /\ IF RenameStatus(Top.path, Top.to) # "none"
       THEN Return(Error(RenameStatus(Top.path, Top.to))) /\ UNCHANGED <<tree, size, history>>
       ELSE Move(Top.path, Top.to) /\ Return(Nothing)
    /\ UNCHANGED <<held, handles, searches, trouble, noWalk, noCall>>

-----------------------------------------------------------------------------
(* Walk.                                                                   *)

\* The root of the share cannot be asked about and is taken for granted.
WalkCall(p) == Start("walk", "begin", p, p)

WalkStat ==
    /\ At("walk", "begin")
    /\ IF Top.path = Root
       THEN Call([Top EXCEPT !.pc = "end"], [Frame("visit", "fn", Root) EXCEPT !.dir = TRUE])
       ELSE Call([Top EXCEPT !.pc = "statted"], Frame("stat", "basic", Top.path))
    /\ UNCHANGED <<noTree, ret, noWalk, noCall>>

\* What walkFn answers.
Verdicts == {"none", "skipDir", "stop"}

WalkStatted ==
    /\ At("walk", "statted")
    /\ IF ret.err # "none"
       THEN /\ \E v \in Verdicts : Return(IF v = "skipDir" THEN Nothing ELSE Error(v))
            /\ skipped' = skipped \cup {Top.path}
       ELSE /\ Call([Top EXCEPT !.pc = "end"], [Frame("visit", "fn", Top.path) EXCEPT !.dir = ret.dir])
            /\ UNCHANGED <<ret, skipped>>
    /\ UNCHANGED <<noTree, visited, matches, noCall>>

WalkEnd ==
    /\ At("walk", "end")
    /\ Return(IF ret.err = "skipDir" THEN Nothing ELSE ret)
    /\ UNCHANGED <<noTree, noWalk, noCall>>

\* SkipDir from a directory leaves it out, from a file the rest of its directory.
VisitFn ==
    /\ At("visit", "fn")
    /\ visited' = Append(visited, Top.path)
    /\ \E v \in Verdicts :
          \/ /\ v = "none" /\ Top.dir
             /\ Call([Top EXCEPT !.pc = "listed"], Frame("readDir", "first", Top.path))
             /\ UNCHANGED <<ret, skipped>>
          \/ /\ v = "none" /\ ~ Top.dir
             /\ Return(Nothing)
             /\ UNCHANGED skipped
          \/ /\ v # "none"
             /\ Return(IF Top.dir /\ v = "skipDir" THEN Nothing ELSE Error(v))
             /\ skipped' = skipped \cup {IF Top.dir \/ Top.path = Root THEN Top.path ELSE Front(Top.path)}
    /\ UNCHANGED <<noTree, matches, noCall>>

\* walkFn hears of a directory that cannot be read, and decides.
VisitListed ==
    /\ At("visit", "listed")
    /\ IF ret.err # "none"
       THEN /\ \E v \in Verdicts : Return(Error(v))
            /\ skipped' = skipped \cup {Top.path}
       ELSE /\ Become([Top EXCEPT !.pc = "entries", !.todo = ret.list])
            /\ ret' = Nothing
            /\ UNCHANGED skipped
    /\ UNCHANGED <<noTree, visited, matches, noCall>>

\* Fault: a skipped directory ends the listing it is in.
PassesOnAlways(isDir, e) == e # "none"

\* Which result of an entry ends the walk of its directory.
PassesOn(isDir, e) == e # "none" /\ (~ isDir \/ e # "skipDir")

\* Top.n tells whether the entry just walked is a directory.
VisitEntry ==
    /\ At("visit", "entries")
    /\ \/ /\ PassesOn(Top.n = 1, ret.err)
          /\ Return(ret)
       \/ /\ ~ PassesOn(Top.n = 1, ret.err) /\ Top.todo = <<>>
          /\ Return(Nothing)
       \/ /\ ~ PassesOn(Top.n = 1, ret.err) /\ Top.todo # <<>>
          /\ LET e == Head(Top.todo)
             IN  Call([Top EXCEPT !.todo = Tail(@), !.n = IF e.dir THEN 1 ELSE 0],
                      [Frame("visit", "fn", e.path) EXCEPT !.dir = e.dir])
          /\ ret' = Nothing
    /\ UNCHANGED <<noTree, noWalk, noCall>>

-----------------------------------------------------------------------------
(* Glob.  A pattern has the set of names each of its elements matches; an  *)
(* element that matches one name is a literal.                             *)

CONSTANT Patterns

ASSUME PatternAssumption == Patterns \subseteq Seq(SUBSET Nat) \ {<<>>}

Literal(pattern) == \A i \in DOMAIN pattern : \E x \in pattern[i] : pattern[i] = {x}
PathOf(pattern) == [i \in DOMAIN pattern |-> CHOOSE x \in pattern[i] : TRUE]
Matching(p, pattern) == Len(p) = Len(pattern) /\ \A i \in DOMAIN p : p[i] \in pattern[i]

GlobFrame(pattern) == [Frame("glob", "begin", Root) EXCEPT !.to = pattern]
GlobCall(pattern) == Start("glob", "begin", Root, pattern)

GlobBegin ==
    /\ At("glob", "begin")
    /\ LET dir == Front(Top.to) IN
       \/ /\ Literal(Top.to)
          /\ Call([Top EXCEPT !.pc = "literal"], Frame("stat", "basic", PathOf(Top.to)))
       \/ /\ ~ Literal(Top.to) /\ Literal(dir)
          /\ Become([Frame("globDir", "begin", PathOf(dir)) EXCEPT !.to = Top.to])
       \/ /\ ~ Literal(Top.to) /\ ~ Literal(dir)
          /\ Call([Top EXCEPT !.pc = "dirs"], GlobFrame(dir))
    /\ UNCHANGED <<noTree, ret, noWalk, noCall>>

GlobLiteral ==
    /\ At("glob", "literal")
    /\ Return([Nothing EXCEPT !.paths = IF ret.err = "none" THEN <<PathOf(Top.to)>> ELSE <<>>])
    /\ UNCHANGED <<noTree, noWalk, noCall>>

\* Fault: the matches of the directories stay among the matches.
GlobDirsKept ==
    /\ At("glob", "dirs")
    /\ Become([Top EXCEPT !.pc = "gather", !.paths = ret.paths])
    /\ UNCHANGED <<noTree, ret, noWalk, noCall>>

\* The directories are known; their matches are gathered anew.
GlobDirs ==
    /\ At("glob", "dirs")
    /\ Become([Top EXCEPT !.pc = "gather", !.paths = ret.paths])
    /\ matches' = <<>>
    /\ UNCHANGED <<noTree, ret, visited, skipped, noCall>>

GlobGather ==
    /\ At("glob", "gather")
    /\ IF Top.paths = <<>>
       THEN Return([Nothing EXCEPT !.paths = matches])
       ELSE /\ Call([Top EXCEPT !.paths = Tail(@)],
                    [Frame("globDir", "begin", Head(Top.paths)) EXCEPT !.to = Top.to])
            /\ UNCHANGED ret
    /\ UNCHANGED <<noTree, noWalk, noCall>>

\* Fault: the matches are not sorted.
InOrderAsListed(m) == m

\* sort.Strings and sort.Slice: a reordering that leaves nothing before what is
\* less.
Sorts(p, m) == \A i, j \in DOMAIN m : i < j => m[p[i]] = m[p[j]] \/ Less(m[p[i]], m[p[j]])

InOrder(m) ==
    LET p == CHOOSE q \in Bijection(DOMAIN m, DOMAIN m) : Sorts(q, m)
    IN  [i \in DOMAIN m |-> m[p[i]]]

\* The entries that an element of a pattern matches, in any order: they are
\* sorted next.
Matched(l, element) ==
    LET at == SetToSeq({i \in DOMAIN l : l[i].path[Len(l[i].path)] \in element})
    IN  [k \in DOMAIN at |-> l[at[k]].path]

GlobDir ==
    \/ /\ At("globDir", "begin")
       /\ Call([Top EXCEPT !.pc = IF Top.path = Root THEN "listed" ELSE "statted"],
               IF Top.path = Root THEN Frame("readDir", "first", Root) ELSE Frame("stat", "basic", Top.path))
       /\ UNCHANGED <<ret, matches>>
    \/ /\ At("globDir", "statted")
       /\ IF ret.err # "none" \/ ~ ret.dir
          THEN Return([Nothing EXCEPT !.paths = matches])
          ELSE Call([Top EXCEPT !.pc = "listed"], Frame("readDir", "first", Top.path)) /\ UNCHANGED ret
       /\ UNCHANGED matches
    \/ /\ At("globDir", "listed")
       /\ LET m == IF ret.err # "none" THEN matches
                   ELSE InOrder(matches \o Matched(ret.list, Top.to[Len(Top.to)]))
          IN  matches' = m /\ Return([Nothing EXCEPT !.paths = m])

GlobDirStep == GlobDir /\ UNCHANGED <<noTree, visited, skipped, noCall>>
-----------------------------------------------------------------------------
(* CopyFile, CopyFrom, CopyTo, ReadFile and WriteFile.  The root in the    *)
(* place of a path stands for a local file, whose length is FileLen.       *)

CopyCall(p, q) ==
    /\ p # Root \/ q # Root
    /\ Start("copy", IF p = Root THEN "openDst" ELSE "openSrc", p, q)

\* ReadFile does not need Stat to succeed.
ReadFileCall(p) == Start("copy", "openFile", p, Root)

CopyOpenSrc ==
    /\ Answered("copy", "openSrc") \/ Answered("copy", "openFile")
    /\ \/ /\ OpenStatus(Top.path) # "none"
          /\ CopyFails(OpenStatus(Top.path))
          /\ UNCHANGED handles
       \/ /\ OpenStatus(Top.path) = "none"
          /\ handles' = handles \cup {Top.path}
          /\ IF Top.pc = "openFile" THEN Goto("move")
             ELSE Call([Top EXCEPT !.pc = "statted"], Frame("stat", "basic", Top.path))
    /\ UNCHANGED <<tree, size, held, searches, trouble, history, ret, noWalk, noCall>>

CopyStatted ==
    /\ At("copy", "statted")
    /\ CASE ret.err # "none" -> CopyFails(ret.err)
         [] ret.err = "none" /\ ret.dir -> CopyFails("invalid")
         [] OTHER -> Goto(IF Top.to = Root THEN "move" ELSE "openDst")
    /\ ret' = Nothing
    /\ UNCHANGED <<noTree, noWalk, noCall>>

\* O_WRONLY|O_CREATE|O_TRUNC.
CopyOpenDst ==
    /\ Answered("copy", "openDst")
    /\ IF OverwriteStatus(Top.to) # "none"
       THEN CopyFails(OverwriteStatus(Top.to)) /\ UNCHANGED <<tree, size, history, handles>>
       ELSE Put(Top.to, "file", 0) /\ handles' = handles \cup {Top.to} /\ Goto("move")
    /\ UNCHANGED <<held, searches, trouble, ret, noWalk, noCall>>

\* Fault: a read that does not fill the buffer is taken for the end.
AtEOFWhenShort(n, len) == n + 1 >= len

\* Read reports io.EOF.
AtEOF(n, len) == n >= len

\* copyStream, buffer by buffer.
CopyMove ==
    /\ Answered("copy", "move")
    /\ IF AtEOF(Top.n, IF Top.path = Root THEN FileLen ELSE size[Top.path])
       THEN Goto(Unwind(Top)) /\ UNCHANGED size
       ELSE /\ Become([Top EXCEPT !.n = @ + 1])
            /\ IF Top.to = Root THEN UNCHANGED size ELSE size' = [size EXCEPT ![Top.to] = Top.n + 1]
    /\ UNCHANGED <<tree, held, handles, searches, trouble, history, ret, noWalk, noCall>>

CopyClose ==
    /\ Answered("copy", "closeDst") \/ Answered("copy", "closeSrc")
    /\ handles' = handles \ {IF Top.pc = "closeDst" THEN Top.to ELSE Top.path}
    /\ Goto(Unwind(Top))
    /\ UNCHANGED <<tree, size, held, searches, trouble, history, ret, noWalk, noCall>>

CopyDone ==
    /\ At("copy", "done")
    /\ Return(Error(Top.err))
    /\ UNCHANGED <<noTree, noWalk, noCall>>

-----------------------------------------------------------------------------
(* dirFSDir.ReadDir, called with n > 0 until it reports io.EOF.            *)

DirFSCall(p) == Start("dirFS", "load", p, p)

DirFSLoad == At("dirFS", "load") /\ Ask("loaded", Frame("readDir", "first", Top.path))

DirFSLoaded ==
    /\ At("dirFS", "loaded")
    /\ IF ret.err # "none" THEN Return(ret)
       ELSE /\ Become([Top EXCEPT !.pc = "page", !.paths = InOrder([i \in DOMAIN ret.list |-> ret.list[i].path])])
            /\ ret' = Nothing
    /\ UNCHANGED <<noTree, noWalk, noCall>>

\* Fault: every call lists the directory anew and goes on at the offset.
EntriesRelisted(f) == SetToSortSeq(Children(f.path), Less)

\* The entries that the first call has listed.
Entries(f) == f.paths

DirFSPage ==
    /\ At("dirFS", "page")
    /\ LET rest == SubSeq(Entries(Top), Top.n + 1, Len(Entries(Top)))
           n == Min({PageSize, Len(rest)})
       IN  IF rest = <<>> THEN Return(Error("eof")) /\ UNCHANGED matches
           ELSE /\ Become([Top EXCEPT !.n = @ + n])
                /\ matches' = matches \o SubSeq(rest, 1, n)
                /\ UNCHANGED ret
    /\ UNCHANGED <<noTree, visited, skipped, noCall>>

-----------------------------------------------------------------------------
(* The context ends while a request is under way: the server carries it out *)
(* and the caller, which learns nothing of it, is at RequestRefused next.   *)

Opened(p) == handles' = handles \cup {p} /\ faulted' = faulted \cup {"handle"}
Closed(p) == handles' = handles \ {p} /\ UNCHANGED faulted

\* The requests that open something, and whose reply has what would close it.
OpenedUnheard ==
    \/ /\ At("readDir", "first") /\ ListStatus(Top.path) = "none"
       /\ \E b \in Batches(Children(Top.path)) : More(Children(Top.path) \ Range(b))
       /\ searches' = searches \cup {Top.path} /\ faulted' = faulted \cup {"search"}
       /\ UNCHANGED <<tree, size, history, handles>>
    \/ /\ \/ At("remove", "open") /\ OpenForDeleteStatus(Top.path) = "none"
          \/ (At("copy", "openSrc") \/ At("copy", "openFile")) /\ OpenStatus(Top.path) = "none"
       /\ Opened(Top.path)
       /\ UNCHANGED <<tree, size, history, searches>>
    \/ /\ At("mkdir", "create") /\ CreateDirectoryStatus(Top.path) = "none"
       /\ Put(Top.path, "dir", 0) /\ Opened(Top.path)
       /\ UNCHANGED searches
    \/ /\ At("copy", "openDst") /\ OverwriteStatus(Top.to) = "none"
       /\ Put(Top.to, "file", 0) /\ Opened(Top.to)
       /\ UNCHANGED searches

\* The requests that close, write, remove or move something.
DoneUnheard ==
    \/ /\ At("readDir", "next") /\ ListStatus(Top.path) = "none"
       /\ \E b \in Batches(Children(Top.path) \ Top.seen) : ~ More((Children(Top.path) \ Top.seen) \ Range(b))
       /\ AtEndOfSearch(Top.path)
       /\ UNCHANGED <<tree, size, history, handles, faulted>>
    \/ /\ At("remove", "close")
       /\ Put(Top.path, "none", 0) /\ Closed(Top.path)
       /\ UNCHANGED searches
    \/ /\ At("removeDir", "delete") /\ DeleteDirectoryStatus(Top.path) = "none"
       /\ Put(Top.path, "none", 0)
       /\ UNCHANGED <<handles, searches, faulted>>
    \/ /\ At("mkdir", "close") \/ At("copy", "closeDst") \/ At("copy", "closeSrc")
       /\ Closed(IF Top.pc = "closeDst" THEN Top.to ELSE Top.path)
       /\ UNCHANGED <<tree, size, history, searches>>
    \/ /\ At("copy", "move") /\ Top.to # Root
       /\ ~ AtEOF(Top.n, IF Top.path = Root THEN FileLen ELSE size[Top.path])
       /\ size' = [size EXCEPT ![Top.to] = Top.n + 1]
       /\ UNCHANGED <<tree, history, handles, searches, faulted>>
    \/ /\ At("rename", "send") /\ RenameStatus(Top.path, Top.to) = "none"
       /\ Move(Top.path, Top.to)
       /\ UNCHANGED <<handles, searches, faulted>>

ReplyLost ==
    /\ ~ ctxDone
    /\ ctxDone' = TRUE
    /\ OpenedUnheard \/ DoneUnheard
    /\ UNCHANGED <<held, trouble, stack, ret, goal, noWalk, calls>>

-----------------------------------------------------------------------------
\* What a caller may ask for.
Calls ==
    \/ \E p \in Paths : \/ RemoveCall(p) \/ RemoveAllCall(p) \/ MkdirCall(p) \/ MkdirAllCall(p)
                        \/ ReadFileCall(p)
    \/ \E p, q \in Paths : RenameCall(p, q)
    \/ \E p, q \in Paths \cup {Root} : CopyCall(p, q)
    \/ \E p \in Paths \cup {Root} : WalkCall(p) \/ DirFSCall(p)
    \/ \E pattern \in Patterns : GlobCall(pattern)

\* The client goes on, with an answer or without one.
Step ==
    \/ RequestRefused
    \/ StatBasic \/ StatStandard \/ Find
    \/ RemoveStat \/ RemoveKind \/ RemoveOpen \/ RemoveClose \/ RemoveDir \/ RemoveDirSleep
    \/ RemoveAllExists \/ RemoveAllIsDir \/ RemoveAllList \/ RemoveAllListed \/ RemoveAllChild
    \/ MkdirCreate \/ MkdirClose \/ MkdirAllNext \/ RenameSend
    \/ WalkStat \/ WalkStatted \/ WalkEnd \/ VisitFn \/ VisitListed \/ VisitEntry
    \/ GlobBegin \/ GlobLiteral \/ GlobDirs \/ GlobGather \/ GlobDirStep
    \/ CopyOpenSrc \/ CopyStatted \/ CopyOpenDst \/ CopyMove \/ CopyClose \/ CopyDone
    \/ DirFSLoad \/ DirFSLoaded \/ DirFSPage

Environment == (Others /\ ~ Idle /\ UNCHANGED shareVars) \/ RequestDenied \/ EndContext \/ ReplyLost

Next == Calls \/ Step \/ Environment

\* A request is answered or fails, and the client goes on.
Spec == Init /\ [][Next]_vars /\ WF_vars(Step)

-----------------------------------------------------------------------------
Finished(op) == Idle /\ goal.op = op

\* A nil error means what the call was for: after RemoveAll the path was
\* missing at some moment of the call, nothing it could not remove, read or ask
\* about being reported as removed; after MkdirAll every component above the
\* path has been a directory, and the path itself a directory or a file that was
\* in the way, what is there already being never an error; a copy to another
\* file has moved the whole of a source that nobody else has touched.  The file
\* in the way is the code's: it drops every IsExistError (session.go:626), where
\* the comment at session.go:601 promises a directory or an error.
NilMeansDone ==
    /\ Finished("removeAll") /\ ret.err = "none" => goal.path \in absent
    /\ Finished("mkdirAll") =>
          /\ ret.err # "exist"
          /\ ret.err = "none" =>
                /\ \A i \in 1 .. Len(goal.path) - 1 : SubSeq(goal.path, 1, i) \in dirs
                /\ goal.path \in present
    /\ ~ Idle /\ Top.op = "copy" /\ Top.err = "none" /\ Top.path # Top.to
           /\ ((Top.pc = "closeDst" /\ Top.to \in handles) \/ (Top.pc = "closeSrc" /\ Top.to = Root))
           /\ Top.path \in lasting \cup {Root} =>
          (IF Top.to = Root THEN Top.n ELSE size[Top.to]) = (IF Top.path = Root THEN FileLen ELSE size[Top.path])

\* A search stays open on the server only while its listing is under way or
\* after one that broke off between two batches, so that the retries of
\* removeDir never wait for a search of their own call that ended as it should;
\* and between two calls every handle has been closed, on every error path,
\* unless a close itself failed.  What the server has opened in answer to a
\* request whose context ended first is the other exception: its caller has
\* nothing to close it with.
NothingLeftOpen ==
    /\ faulted \cap {"next", "search"} = {} =>
          searches \subseteq {stack[i].path : i \in {j \in DOMAIN stack : stack[j].op = "readDir"}}
    /\ Idle /\ faulted \cap {"close", "closeDst", "closeSrc", "handle"} = {} => handles = {}

\* Hidden by a directory that walkFn left out or was told an error about, or
\* that has not lasted.
Hidden(p) == \E i \in 0 .. Len(p) - 1 : SubSeq(p, 1, i) \in skipped

\* Walk calls walkFn once for each path, for a directory before its entries and
\* a second time only with the error of its listing; and when it returns nil and
\* walkFn did not stop it, it has done so for every path below the root of the
\* walk that lasted and was not skipped, whatever else was created, removed or
\* refused in between.
WalkComplete ==
    /\ \A i \in DOMAIN visited : \A j \in 1 .. i - 1 : ~ IsPrefix(visited[i], visited[j])
    /\ Finished("walk") /\ ret.err = "none" =>
          \A p \in Below(goal.path) \cap lasting : Hidden(p) \/ p \in skipped \/ p \in Range(visited)

Sorted(s) == \A i \in 1 .. Len(s) - 1 : Less(s[i], s[i + 1])

\* Glob, when no request failed, returns the matches in order and once each:
\* all that lasted, and nothing that was never there.  The pages of a dirFS
\* directory, up to io.EOF, add up to one such listing, though entries come and
\* go between two pages.
ListingsComplete ==
    /\ Finished("glob") /\ faulted = {} =>
          /\ Sorted(ret.paths)
          /\ {p \in lasting : Matching(p, goal.to)} \subseteq Range(ret.paths)
          /\ Range(ret.paths) \subseteq {p \in present : Matching(p, goal.to)}
    /\ Finished("dirFS") /\ ret.err = "eof" =>
          /\ Sorted(matches)
          /\ {p \in lasting : Len(p) = Len(goal.path) + 1 /\ IsPrefix(goal.path, p)} \subseteq Range(matches)
          /\ Range(matches) \subseteq present

\* Every call returns: the retries, the batches and the recursion end, though
\* the tree changes under them.
CallReturns == ~ Idle ~> Idle
=============================================================================
