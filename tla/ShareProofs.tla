----------------------------- MODULE ShareProofs ----------------------------
(***************************************************************************)
(* What the operations of a share promise, whatever the tree, the          *)
(* patterns, the batches and the retries: a nil error means that the call  *)
(* has done what it was for, and nothing stays open that could be closed.  *)
(* The invariant says what each call in the stack has open, and for the    *)
(* outermost one how far it has come.                                      *)
(***************************************************************************)
EXTENDS Share, SequenceTheorems, TLAPS

Fields == {"op", "pc", "path", "to", "todo", "seen", "paths", "err", "dir", "n"}

\* The stack is a sequence of frames.
StackOK ==
    /\ stack \in Seq(Range(stack))
    /\ \A i \in 1 .. Len(stack) : DOMAIN stack[i] = Fields

\* The tree and the sizes have their types, and while a call is under way its
\* history knows of everything that is there and of everything that is not.
TreeOK ==
    /\ tree \in [Paths -> {"none", "file", "dir"}]
    /\ size \in [Paths -> Nat]
    /\ stack # <<>> => \A p \in Paths : IF tree[p] = "none" THEN p \in absent ELSE p \in present
    /\ stack # <<>> => \A p \in Paths : tree[p] = "dir" => p \in dirs

\* What a search is left by: a batch that failed, or a first reply that was lost.
Broken == {"next", "search"}

\* An open search is that of the innermost call, between two of its batches,
\* and its directory cannot go away meanwhile.
SearchOK ==
    faulted \cap Broken = {} =>
        \A p \in searches :
            /\ stack # <<>> /\ Top.op = "readDir" /\ Top.pc = "next" /\ Top.path = p
            /\ Kind(p) = "dir"

\* What a handle is left by: a close that failed, or a reply that was lost.
Closes == {"close", "closeDst", "closeSrc", "handle"}

\* What a call has open, where it is.
Holds(f) ==
    CASE f.op \in {"remove", "mkdir"} /\ f.pc = "close" -> {f.path}
      [] f.op = "copy" /\ f.pc \in {"statted", "openDst", "closeSrc"} -> {f.path} \ {Root}
      [] f.op = "copy" /\ f.pc \in {"move", "closeDst"} -> {f.path, f.to} \ {Root}
      [] OTHER -> {}

\* Every handle is some call's to close, unless a close has failed.
HandlesOK ==
    faulted \cap Closes = {} =>
        \A h \in handles : \E i \in 1 .. Len(stack) : h \in Holds(stack[i])

\* A copy and a rename are outermost calls, and have the paths they were given.
FramesOK ==
    \A i \in 1 .. Len(stack) :
        /\ stack[i].op = "copy" => goal.op = "copy"
        /\ stack[i].op = "rename" => stack[i].path \in Paths /\ stack[i].to \in Paths

\* RemoveAll is told of an absence only by the Stat of its own path.
RemoveAllOK ==
    goal.op = "removeAll" =>
        /\ goal.path \in Paths
        /\ stack = <<>> /\ ret.err = "none" => goal.path \in absent
        /\ stack # <<>> =>
              /\ stack[1].op \in {"removeAll", "remove", "removeDir"} /\ stack[1].path = goal.path
              /\ stack[1].op = "removeAll" /\ stack[1].pc = "exists" =>
                    IF Len(stack) = 1 THEN IsAbsent(ret) => goal.path \in absent
                    ELSE Len(stack) = 2 /\ stack[2].op = "stat" /\ stack[2].path = goal.path

Prefix(p, i) == SubSeq(p, 1, i)

\* The first n names of p are there, and a directory above the last of them.
Reached(p, n) == Prefix(p, n) \in present /\ (n > 1 => Prefix(p, n - 1) \in dirs)

\* MkdirAll has seen to the components before the one it is at.
MkdirAllOK ==
    goal.op = "mkdirAll" =>
        /\ goal.path \in Paths
        /\ stack = <<>> =>
              /\ ret.err # "exist"
              /\ ret.err = "none" => /\ \A i \in 1 .. Len(goal.path) - 1 : Prefix(goal.path, i) \in dirs
                                     /\ goal.path \in present
        /\ stack # <<>> =>
              /\ stack[1].op = "mkdirAll" /\ stack[1].path = goal.path
              /\ stack[1].n \in 0 .. Len(goal.path)
              /\ \A i \in 1 .. stack[1].n - 2 : Prefix(goal.path, i) \in dirs
              /\ IF Len(stack) = 1
                 THEN stack[1].n > 0 /\ Tolerable(ret.err) => Reached(goal.path, stack[1].n)
                 ELSE /\ Len(stack) = 2 /\ stack[1].n > 0
                      /\ stack[2].op = "mkdir" /\ stack[2].path = Prefix(goal.path, stack[1].n)
                      /\ stack[2].pc = "close" => Reached(goal.path, stack[1].n)

\* The length of the source of a copy.
SourceLen(p) == IF p = Root THEN FileLen ELSE size[p]

\* A copy has written what it has read, into a file nobody can take away while it
\* is open, and has not read more than there is.  A write whose reply was lost
\* is the exception, and ends the copy.
Copying(f) ==
    /\ f.n \in Nat
    /\ f.pc \in {"openSrc", "openFile", "statted", "openDst"} => f.n = 0
    /\ f.pc = "openFile" => f.to = Root
    /\ f.pc = "closeDst" => f.to # Root
    /\ f.pc = "move" /\ f.to # Root => f.to \in handles
    /\ f.pc \in {"move", "closeDst"} /\ f.to \in handles \ {Root} => tree[f.to] # "none"
    /\ f.err = "none" /\ f.path # f.to =>
          /\ f.pc = "move" /\ f.to # Root => size[f.to] = f.n \/ ctxDone
          /\ f.pc = "closeDst" /\ f.to \in handles => size[f.to] = f.n
          /\ f.path \in lasting \cup {Root} =>
                /\ f.pc = "move" => f.n <= SourceLen(f.path)
                /\ f.pc = "closeDst" \/ (f.pc = "closeSrc" /\ f.to = Root) => f.n = SourceLen(f.path)

CopyOK ==
    goal.op = "copy" /\ stack # <<>> =>
        /\ stack[1].op = "copy"
        /\ stack[1].path \in Paths \cup {Root} /\ stack[1].to \in Paths \cup {Root}
        /\ Len(stack) > 1 => Len(stack) = 2 /\ stack[1].pc = "statted" /\ stack[2].op = "stat"
        /\ Copying(stack[1])

ShareIInv ==
    /\ StackOK /\ TreeOK /\ SearchOK /\ HandlesOK /\ FramesOK
    /\ RemoveAllOK /\ MkdirAllOK /\ CopyOK

-----------------------------------------------------------------------------
(* The three ways a step changes the stack.                                *)

\* A sequence over some set is one over its own elements.
LEMMA OwnRange ==
  ASSUME NEW S, NEW s \in Seq(S)
  PROVE  s \in Seq(Range(s))
BY DEF Range

\* The innermost call goes on as f.
LEMMA BecomeStack ==
  ASSUME NEW S, NEW s \in Seq(S), s # <<>>, NEW f, NEW t, t = [s EXCEPT ![Len(s)] = f]
  PROVE  /\ t \in Seq(S \cup {f}) /\ Len(t) = Len(s) /\ t[Len(s)] = f
         /\ \A i \in 1 .. Len(s) - 1 : t[i] = s[i]
OBVIOUS

\* The innermost call goes on as f and calls g.
LEMMA CallStack ==
  ASSUME NEW S, NEW s \in Seq(S), s # <<>>, NEW f, NEW g, NEW t,
         t = Append([s EXCEPT ![Len(s)] = f], g)
  PROVE  /\ t \in Seq(S \cup {f, g}) /\ Len(t) = Len(s) + 1 /\ t[Len(s)] = f /\ t[Len(s) + 1] = g
         /\ \A i \in 1 .. Len(s) - 1 : t[i] = s[i]
OBVIOUS

\* Facts about numbers, to be used with lengths.
LEMMA Shorter ==
  ASSUME NEW m \in Nat, m > 0
  PROVE  (IF 1 <= m - 1 THEN (m - 1) - 1 + 1 ELSE 0) = m - 1
OBVIOUS

\* A number from one to two is one or two.
LEMMA OneOrTwo ==
  ASSUME NEW m \in Nat, m >= 1, m <= 2
  PROVE  m = 1 \/ m = 2
OBVIOUS

\* The innermost call returns.
LEMMA ReturnStack ==
  ASSUME NEW S, NEW s \in Seq(S), s # <<>>, NEW t, t = Front(s)
  PROVE  /\ t \in Seq(S) /\ Len(t) = Len(s) - 1
         /\ \A i \in 1 .. Len(s) - 1 : t[i] = s[i]
<1>1. Len(s) \in Nat /\ Len(s) > 0 OBVIOUS
<1>2. \A i \in 1 .. Len(s) - 1 : s[i] \in S BY <1>1
<1>3. t = SubSeq(s, 1, Len(s) - 1) BY DEF Front
<1>4. /\ SubSeq(s, 1, Len(s) - 1) \in Seq(S)
      /\ Len(SubSeq(s, 1, Len(s) - 1)) = IF 1 <= Len(s) - 1 THEN (Len(s) - 1) - 1 + 1 ELSE 0
      /\ \A i \in 1 .. (Len(s) - 1) - 1 + 1 : SubSeq(s, 1, Len(s) - 1)[i] = s[1 + i - 1]
  BY <1>1, <1>2, SubSeqProperties
<1>5. t \in Seq(S) /\ Len(t) = Len(s) - 1
  <2>1. t \in Seq(S) BY <1>3, <1>4
  <2>2. Len(t) = IF 1 <= Len(s) - 1 THEN (Len(s) - 1) - 1 + 1 ELSE 0 BY <1>3, <1>4, Zenon
  <2>3. (IF 1 <= Len(s) - 1 THEN (Len(s) - 1) - 1 + 1 ELSE 0) = Len(s) - 1 BY <1>1, Shorter
  <2>4. QED BY <2>1, <2>2, <2>3, Zenon
<1>6. ASSUME NEW i \in 1 .. Len(s) - 1 PROVE t[i] = s[i]
  <2>1. i \in 1 .. (Len(s) - 1) - 1 + 1 /\ 1 + i - 1 = i BY <1>1
  <2>2. SubSeq(s, 1, Len(s) - 1)[i] = s[1 + i - 1] BY <1>4, <2>1
  <2>3. QED BY <1>3, <2>1, <2>2
<1>7. QED BY <1>5, <1>6

Depth == Len(stack)

\* The calls around the innermost one stay as they are.
Reshaped ==
    /\ Len(stack') \in {Depth - 1, Depth, Depth + 1}
    /\ \A i \in 1 .. Depth - 1 : stack'[i] = stack[i]

\* The innermost call goes on, calls another one, or returns.
Kept(f) == StackOK' /\ Reshaped /\ Len(stack') = Depth /\ stack'[Depth] = f
Pushed(f, g) == StackOK' /\ Reshaped /\ Len(stack') = Depth + 1 /\ stack'[Depth] = f /\ stack'[Depth + 1] = g
Popped == StackOK' /\ Reshaped /\ Len(stack') = Depth - 1

\* A stack that is not empty has an innermost call.
LEMMA StackFacts ==
  ASSUME StackOK
  PROVE  /\ Depth \in Nat
         /\ stack = <<>> <=> Depth = 0
         /\ stack # <<>> => Depth \in 1 .. Depth /\ DOMAIN Top = Fields
BY DEF StackOK, Depth, Top

\* What Become makes of the stack.
LEMMA BecomeStep ==
  ASSUME StackOK, stack # <<>>, NEW f, DOMAIN f = Fields, Become(f)
  PROVE  Kept(f)
<1>1. stack \in Seq(Range(stack)) BY DEF StackOK
<1>2. stack' = [stack EXCEPT ![Len(stack)] = f] BY DEF Become
<1>3. /\ stack' \in Seq(Range(stack) \cup {f}) /\ Len(stack') = Len(stack) /\ stack'[Len(stack)] = f
      /\ \A i \in 1 .. Len(stack) - 1 : stack'[i] = stack[i]
  BY <1>1, <1>2, BecomeStack
<1>4. stack' \in Seq(Range(stack')) BY <1>3, OwnRange
<1>5. \A i \in 1 .. Len(stack') : DOMAIN stack'[i] = Fields BY <1>1, <1>3 DEF StackOK
<1>6. QED BY <1>1, <1>3, <1>4, <1>5 DEF Kept, StackOK, Reshaped, Depth

\* What Call makes of the stack.
LEMMA CallStep ==
  ASSUME StackOK, stack # <<>>, NEW f, NEW g, DOMAIN f = Fields, DOMAIN g = Fields, Call(f, g)
  PROVE  Pushed(f, g)
<1>1. stack \in Seq(Range(stack)) BY DEF StackOK
<1>2. stack' = Append([stack EXCEPT ![Len(stack)] = f], g) BY DEF Call
<1>3. /\ stack' \in Seq(Range(stack) \cup {f, g}) /\ Len(stack') = Len(stack) + 1
      /\ stack'[Len(stack)] = f /\ stack'[Len(stack) + 1] = g
      /\ \A i \in 1 .. Len(stack) - 1 : stack'[i] = stack[i]
  BY <1>1, <1>2, CallStack
<1>4. stack' \in Seq(Range(stack')) BY <1>3, OwnRange
<1>5. \A i \in 1 .. Len(stack') : DOMAIN stack'[i] = Fields BY <1>1, <1>3 DEF StackOK
<1>6. QED BY <1>1, <1>3, <1>4, <1>5 DEF Pushed, StackOK, Reshaped, Depth

\* What Return makes of the stack.
LEMMA ReturnStep ==
  ASSUME StackOK, stack # <<>>, NEW r, Return(r)
  PROVE  Popped /\ ret' = r
<1>1. stack \in Seq(Range(stack)) BY DEF StackOK
<1>2. stack' = Front(stack) BY DEF Return
<1>3. /\ stack' \in Seq(Range(stack)) /\ Len(stack') = Len(stack) - 1
      /\ \A i \in 1 .. Len(stack) - 1 : stack'[i] = stack[i]
  BY <1>1, <1>2, ReturnStack
<1>4. stack' \in Seq(Range(stack')) BY <1>3, OwnRange
<1>5. \A i \in 1 .. Len(stack') : DOMAIN stack'[i] = Fields BY <1>1, <1>3 DEF StackOK
<1>6. QED BY <1>1, <1>3, <1>4, <1>5 DEF Return, Popped, StackOK, Reshaped, Depth

-----------------------------------------------------------------------------
(* What a step of the innermost call leaves of each part.                  *)

\* Only ReadDir opens searches, and it is left between two batches only by an
\* error.
LEMMA SearchStep ==
  ASSUME SearchOK, stack # <<>>, searches' = searches, faulted \subseteq faulted',
         Top.op = "readDir" /\ Top.pc = "next" => "next" \in faulted'
  PROVE  SearchOK'
BY DEF SearchOK, Broken

\* Handles that are opened belong to the innermost call, and it does not leave
\* one behind unless its close failed.
LEMMA HandlesStep ==
  ASSUME StackOK, StackOK', HandlesOK, stack # <<>>, Reshaped, faulted \subseteq faulted',
         \A h \in handles' : h \in handles \/ (Len(stack') >= Depth /\ h \in Holds(stack'[Depth])),
         \A h \in handles' : h \in Holds(Top) =>
             \/ faulted' \cap Closes # {}
             \/ Len(stack') >= Depth /\ h \in Holds(stack'[Depth])
  PROVE  HandlesOK'
<1> SUFFICES ASSUME faulted' \cap Closes = {}, NEW h \in handles'
             PROVE  \E i \in 1 .. Len(stack') : h \in Holds(stack'[i])
  BY DEF HandlesOK, Holds
<1>1. Depth \in Nat /\ Depth > 0 /\ Len(stack') \in Nat BY StackFacts DEF StackOK
<1>2. CASE Len(stack') >= Depth /\ h \in Holds(stack'[Depth])
  BY <1>1, <1>2
<1>3. CASE ~(Len(stack') >= Depth /\ h \in Holds(stack'[Depth]))
  <2>1. h \in handles /\ h \notin Holds(Top) BY <1>3
  <2>2. faulted \cap Closes = {} OBVIOUS
  <2>3. PICK i \in 1 .. Len(stack) : h \in Holds(stack[i]) BY <2>1, <2>2 DEF HandlesOK
  <2>4. i # Depth BY <2>1, <2>3 DEF Top, Depth
  <2>5. i \in 1 .. Depth - 1 /\ i \in 1 .. Len(stack') BY <1>1, <2>4 DEF Depth, Reshaped
  <2>6. stack'[i] = stack[i] BY <2>5 DEF Reshaped
  <2>7. QED BY <2>3, <2>5, <2>6
<1>4. QED BY <1>2, <1>3

\* Nobody calls a copy or a rename.
LEMMA FramesStep ==
  ASSUME StackOK, StackOK', FramesOK, stack # <<>>, Reshaped, goal' = goal,
         Len(stack') >= Depth => /\ stack'[Depth].op = "copy" => Top.op = "copy"
                             /\ stack'[Depth].op # "rename",
         Len(stack') > Depth => stack'[Depth + 1].op \notin {"copy", "rename"}
  PROVE  FramesOK'
<1>1. Depth \in Nat /\ Depth > 0 /\ Len(stack') \in Nat BY StackFacts DEF StackOK
<1> SUFFICES ASSUME NEW i \in 1 .. Len(stack')
             PROVE  /\ stack'[i].op = "copy" => goal.op = "copy"
                    /\ stack'[i].op = "rename" => stack'[i].path \in Paths /\ stack'[i].to \in Paths
  BY DEF FramesOK
<1>2. CASE i < Depth
  BY <1>1, <1>2 DEF FramesOK, Reshaped, Depth
<1>3. CASE i = Depth
  BY <1>1, <1>3 DEF FramesOK, Reshaped, Depth, Top
<1>4. CASE i > Depth
  <2>1. i = Depth + 1 BY <1>1, <1>4 DEF Reshaped
  <2>2. QED BY <1>1, <1>4, <2>1 DEF FramesOK, Reshaped, Depth
<1>5. QED BY <1>1, <1>2, <1>3, <1>4

\* RemoveAll hears of an absence from the Stat of its own path, and other calls
\* inside it say nothing of it.
LEMMA RemoveAllStep ==
  ASSUME StackOK, StackOK', RemoveAllOK, stack # <<>>, Reshaped, goal' = goal,
         absent \subseteq absent',
         Depth = 1 /\ goal.op = "removeAll" /\ Top.op \in {"removeAll", "remove", "removeDir"}
            /\ Top.path = goal.path => RemoveAllOK',
         Top.op = "stat" =>
             /\ Len(stack') <= Depth
             /\ Len(stack') = Depth => stack'[Depth].op = "stat" /\ stack'[Depth].path = Top.path
             /\ Len(stack') < Depth /\ IsAbsent(ret') /\ Top.path \in Paths => Top.path \in absent'
  PROVE  RemoveAllOK'
<1>1. Depth \in Nat /\ Depth > 0 /\ Len(stack') \in Nat BY StackFacts DEF StackOK
<1> SUFFICES ASSUME goal.op = "removeAll" PROVE RemoveAllOK' BY DEF RemoveAllOK
<1>2. /\ goal.path \in Paths
      /\ stack[1].op \in {"removeAll", "remove", "removeDir"} /\ stack[1].path = goal.path
  BY DEF RemoveAllOK
<1>3. CASE Depth = 1 BY <1>2, <1>3 DEF Top, Depth
<1>4. CASE Depth > 1
  <2>1. stack'[1] = stack[1] /\ stack' # <<>> /\ Len(stack') >= 1
    BY <1>1, <1>4 DEF Reshaped, StackOK
  <2>2. CASE ~(stack[1].op = "removeAll" /\ stack[1].pc = "exists")
    BY <1>2, <2>1, <2>2 DEF RemoveAllOK
  <2>3. CASE stack[1].op = "removeAll" /\ stack[1].pc = "exists"
    <3>1. Depth = 2 /\ Top.op = "stat" /\ Top.path = goal.path
      BY <1>4, <2>3 DEF RemoveAllOK, Depth, Top
    <3>2. Len(stack') = 1 \/ Len(stack') = 2
      <4>1. Len(stack') <= 2 BY <3>1
      <4>2. QED BY <1>1, <2>1, <4>1, OneOrTwo
    <3>3. Len(stack') = 1 => (IsAbsent(ret') => goal.path \in absent') BY <1>2, <3>1
    <3>4. Len(stack') = 2 => stack'[2].op = "stat" /\ stack'[2].path = goal.path BY <3>1
    <3>5. QED BY <1>2, <2>1, <2>3, <3>2, <3>3, <3>4 DEF RemoveAllOK, IsAbsent
  <2>4. QED BY <2>2, <2>3
<1>5. QED BY <1>1, <1>3, <1>4

\* Inside MkdirAll there are only MkdirAll itself and Mkdir.
LEMMA MkdirAllStep ==
  ASSUME StackOK, MkdirAllOK, stack # <<>>, goal' = goal, Top.op \notin {"mkdirAll", "mkdir"}
  PROVE  MkdirAllOK'
BY StackFacts DEF MkdirAllOK, Top, Depth

\* Inside a copy there is only Stat, for which the copy waits.
LEMMA CopyStep ==
  ASSUME StackOK, StackOK', CopyOK, stack # <<>>, Reshaped, goal' = goal, Top.op # "copy",
         Top.op = "stat" => /\ Len(stack') <= Depth
                            /\ Len(stack') = Depth => stack'[Depth].op = "stat"
  PROVE  CopyOK'
<1>1. Depth \in Nat /\ Depth > 0 /\ Len(stack') \in Nat BY StackFacts DEF StackOK
<1> SUFFICES ASSUME goal.op = "copy" PROVE CopyOK' BY DEF CopyOK
<1>2. Depth = 2 /\ Top.op = "stat" /\ stack[1].pc = "statted"
  BY <1>1 DEF CopyOK, Top, Depth
<1>3. stack'[1] = stack[1] BY <1>2 DEF Reshaped
<1>4. Copying(stack[1])' BY <1>2, <1>3 DEF CopyOK, Copying
<1>5. /\ stack'[1].op = "copy"
      /\ stack'[1].path \in Paths \cup {Root} /\ stack'[1].to \in Paths \cup {Root}
  BY <1>3 DEF CopyOK
<1>6. Len(stack') <= 2 BY <1>2
<1>7. Len(stack') > 1 => Len(stack') = 2 BY <1>1, <1>6
<1>8. Len(stack') = 2 => stack'[2].op = "stat" BY <1>2
<1>9. QED BY <1>1, <1>2, <1>3, <1>4, <1>5, <1>7, <1>8 DEF CopyOK

\* The tree and its history stay.
LEMMA TreeStep ==
  ASSUME TreeOK, stack # <<>>, UNCHANGED <<tree, size, lasting, present, absent, dirs>>
  PROVE  TreeOK'
BY DEF TreeOK

\* One path becomes something else.
LEMMA PutStep ==
  ASSUME TreeOK, stack # <<>>, NEW p, NEW k \in {"none", "file", "dir"}, NEW len \in Nat,
         Put(p, k, len)
  PROVE  /\ TreeOK' /\ absent \subseteq absent' /\ present \subseteq present' /\ dirs \subseteq dirs'
         /\ k = "none" => p \in absent'
         /\ k # "none" => p \in present'
<1>1. tree' \in [Paths -> {"none", "file", "dir"}] /\ size' \in [Paths -> Nat] BY DEF TreeOK, Put
<1>2. \A q \in Paths : q # p => tree'[q] = tree[q] BY DEF TreeOK, Put
<1>3. p \in Paths => tree'[p] = k BY DEF TreeOK, Put
<1>4. /\ absent \subseteq absent' /\ present \subseteq present' /\ dirs \subseteq dirs'
      /\ k = "dir" => p \in dirs'
  BY DEF Put
<1>5. (k = "none" => p \in absent') /\ (k # "none" => p \in present') BY DEF Put
<1>6. \A q \in Paths : IF tree'[q] = "none" THEN q \in absent' ELSE q \in present'
  BY <1>2, <1>3, <1>4, <1>5 DEF TreeOK
<1>7. \A q \in Paths : tree'[q] = "dir" => q \in dirs' BY <1>2, <1>3, <1>4 DEF TreeOK
<1>8. QED BY <1>1, <1>4, <1>5, <1>6, <1>7 DEF TreeOK

\* What is at one path moves to another.
LEMMA MoveStep ==
  ASSUME TreeOK, stack # <<>>, NEW p \in Paths, NEW q \in Paths, p # q, tree[p] # "none", Move(p, q)
  PROVE  TreeOK' /\ absent \subseteq absent' /\ present \subseteq present' /\ dirs \subseteq dirs'
<1>1. tree' \in [Paths -> {"none", "file", "dir"}] /\ size' \in [Paths -> Nat] BY DEF TreeOK, Move
<1>2. /\ tree'[p] = "none" /\ tree'[q] = tree[p]
      /\ \A r \in Paths \ {p, q} : tree'[r] = tree[r]
  BY DEF TreeOK, Move
<1>3. /\ absent' = absent \cup {p} /\ present' = present \cup {q} /\ dirs \subseteq dirs'
      /\ tree[p] = "dir" => q \in dirs'
  BY DEF Move
<1>4. \A r \in Paths : IF tree'[r] = "none" THEN r \in absent' ELSE r \in present'
  BY <1>2, <1>3 DEF TreeOK
<1>5. \A r \in Paths : tree'[r] = "dir" => r \in dirs' BY <1>2, <1>3 DEF TreeOK
<1>6. QED BY <1>1, <1>3, <1>4, <1>5 DEF TreeOK

\* A step of the innermost call that changes nothing but the stack and what
\* calls have said: it is enough to look at what it makes of the stack.
LEMMA PlainStep ==
  ASSUME ShareIInv, stack # <<>>, StackOK', Reshaped, goal' = goal, faulted \subseteq faulted',
         UNCHANGED <<tree, size, handles, searches, lasting, present, absent, dirs>>,
         Top.op \notin {"copy", "mkdirAll"},
         Top.op = "mkdir" => MkdirAllOK',
         Top.op = "readDir" /\ Top.pc = "next" => "next" \in faulted',
         Top.pc = "close" => "close" \in faulted',
         Len(stack') >= Depth => stack'[Depth].op \notin {"copy", "rename"},
         Len(stack') > Depth => stack'[Depth + 1].op \notin {"copy", "rename"},
         Depth = 1 /\ goal.op = "removeAll" /\ Top.op \in {"removeAll", "remove", "removeDir"}
            /\ Top.path = goal.path => RemoveAllOK',
         Top.op = "stat" =>
             /\ Len(stack') <= Depth
             /\ Len(stack') = Depth => stack'[Depth].op = "stat" /\ stack'[Depth].path = Top.path
             /\ Len(stack') < Depth /\ IsAbsent(ret') /\ Top.path \in Paths => Top.path \in absent'
  PROVE  ShareIInv'
<1>0. StackOK /\ TreeOK /\ SearchOK /\ HandlesOK /\ FramesOK /\ RemoveAllOK /\ MkdirAllOK /\ CopyOK
  BY DEF ShareIInv
<1>1. TreeOK' BY <1>0, TreeStep
<1>2. SearchOK' BY <1>0, SearchStep
<1>3. HandlesOK'
  <2>1. Top.pc # "close" => Holds(Top) = {} BY DEF Holds
  <2>2. faulted' \cap Closes = {} => Top.pc # "close" BY DEF Closes
  <2>3. \A h \in handles' : h \in Holds(Top) => faulted' \cap Closes # {} BY <2>1, <2>2
  <2>4. QED BY <1>0, <2>3, HandlesStep
<1>4. FramesOK' BY <1>0, FramesStep
<1>5. RemoveAllOK' BY <1>0, RemoveAllStep
<1>6. MkdirAllOK' BY <1>0, MkdirAllStep
<1>7. CopyOK' BY <1>0, CopyStep
<1>8. QED BY <1>1, <1>2, <1>3, <1>4, <1>5, <1>6, <1>7 DEF ShareIInv

\* A step of the innermost call that opens, closes, creates or removes: what it
\* has opened is its own, and what it leaves is closed.
LEMMA ChangeStep ==
  ASSUME ShareIInv, stack # <<>>, StackOK', Reshaped, TreeOK', absent \subseteq absent',
         UNCHANGED <<searches, goal, faulted>>,
         Top.op \notin {"copy", "mkdirAll", "readDir", "stat"},
         Top.op = "mkdir" => MkdirAllOK',
         \A h \in handles' : h \in handles \/ (Len(stack') >= Depth /\ h \in Holds(stack'[Depth])),
         \A h \in handles' : h \in Holds(Top) => Len(stack') >= Depth /\ h \in Holds(stack'[Depth]),
         Len(stack') >= Depth => stack'[Depth].op \notin {"copy", "rename"},
         Len(stack') <= Depth,
         Depth = 1 /\ goal.op = "removeAll" /\ Top.op \in {"removeAll", "remove", "removeDir"}
            /\ Top.path = goal.path => RemoveAllOK'
  PROVE  ShareIInv'
<1>0. StackOK /\ SearchOK /\ HandlesOK /\ FramesOK /\ RemoveAllOK /\ MkdirAllOK /\ CopyOK
  BY DEF ShareIInv
<1>1. Depth \in Nat /\ Len(stack') \in Nat BY <1>0, StackFacts DEF StackOK
<1>2. SearchOK' BY <1>0, SearchStep
<1>3. HandlesOK' BY <1>0, HandlesStep
<1>4. FramesOK' BY <1>0, <1>1, FramesStep
<1>5. RemoveAllOK' BY <1>0, RemoveAllStep
<1>6. MkdirAllOK' BY <1>0, MkdirAllStep
<1>7. CopyOK' BY <1>0, CopyStep
<1>8. QED BY <1>2, <1>3, <1>4, <1>5, <1>6, <1>7 DEF ShareIInv

\* The step leaves the innermost call in X, or calls one in Y, or returns.
StepTo(X, Y) ==
    /\ StackOK' /\ Reshaped
    /\ Len(stack') >= Depth => stack'[Depth].op \in X
    /\ Len(stack') > Depth => stack'[Depth + 1].op \in Y

IsFrame(f, X) == DOMAIN f = Fields /\ f.op \in X

\* A call that goes on as f, for the plain steps.
LEMMA KeepsTo ==
  ASSUME StackOK, stack # <<>>, NEW X, NEW Y, NEW f, IsFrame(f, X), Become(f)
  PROVE  StepTo(X, Y)
BY BecomeStep, StackFacts DEF StepTo, Kept, IsFrame

\* A call that goes on as f and calls g, for the plain steps.
LEMMA CallsTo ==
  ASSUME StackOK, stack # <<>>, NEW X, NEW Y, NEW f, NEW g, IsFrame(f, X), IsFrame(g, Y), Call(f, g)
  PROVE  StepTo(X, Y)
BY CallStep, StackFacts DEF StepTo, Pushed, IsFrame

\* A call that returns r, for the plain steps.
LEMMA ReturnsTo ==
  ASSUME StackOK, stack # <<>>, NEW X, NEW Y, NEW r, Return(r)
  PROVE  StepTo(X, Y)
BY ReturnStep, StackFacts DEF StepTo, Popped

\* The frames that steps make are frames.
LEMMA FrameFacts ==
  ASSUME NEW X, NEW op \in X, NEW pc, NEW path
  PROVE  /\ IsFrame(Frame(op, pc, path), X)
         /\ \A to : IsFrame([Frame(op, pc, path) EXCEPT !.to = to], X)
         /\ \A d : IsFrame([Frame(op, pc, path) EXCEPT !.dir = d], X)
BY DEF Frame, Fields, IsFrame

\* The forms the innermost call is given when it goes on.
LEMMA TopFacts ==
  ASSUME StackOK, stack # <<>>, NEW X, Top.op \in X
  PROVE  /\ \A a : IsFrame([Top EXCEPT !.pc = a], X)
         /\ \A a : IsFrame([Top EXCEPT !.todo = a], X)
         /\ \A a : IsFrame([Top EXCEPT !.paths = a], X)
         /\ \A a : IsFrame([Top EXCEPT !.n = a], X)
         /\ \A a, b : IsFrame([Top EXCEPT !.pc = a, !.todo = b], X)
         /\ \A a, b : IsFrame([Top EXCEPT !.pc = a, !.paths = b], X)
         /\ \A a, b : IsFrame([Top EXCEPT !.todo = a, !.n = b], X)
BY StackFacts DEF Fields, IsFrame

-----------------------------------------------------------------------------
(* Walk, Glob and DirFS.                                                   *)

Listers == {"walk", "visit", "glob", "globDir", "dirFS"}
Callees == {"stat", "readDir", "visit", "glob", "globDir"}

\* A step of one of them is plain.
LEMMA ListerStep ==
  ASSUME ShareIInv, stack # <<>>, Top.op \in Listers, Top.pc # "close", StepTo(Listers, Callees),
         UNCHANGED <<tree, size, handles, searches, lasting, present, absent, dirs, goal, faulted>>
  PROVE  ShareIInv'
BY PlainStep DEF StepTo, Listers, Callees

\* Which calls only list and look.
LEMMA ListerNames ==
  /\ "globDir" \in Listers
  /\ "stat" \in Callees /\ "readDir" \in Callees /\ "visit" \in Callees /\ "glob" \in Callees
  /\ "globDir" \in Callees
BY DEF Listers, Callees

\* Walk looks at its root and ends.
LEMMA WalkStep ==
  ASSUME ShareIInv, WalkStat \/ WalkStatted \/ WalkEnd
  PROVE  ShareIInv'
<1> USE DEF noTree, noWalk, noCall, treeVars, At, Idle
<1>0. StackOK BY DEF ShareIInv
<1>1. stack # <<>> /\ Top.op = "walk" /\ Top.pc \in {"begin", "statted", "end"}
  BY DEF WalkStat, WalkStatted, WalkEnd
<1>2. UNCHANGED <<tree, size, handles, searches, lasting, present, absent, dirs, goal, faulted>>
  BY DEF WalkStat, WalkStatted, WalkEnd
<1>3. SUFFICES ASSUME Top.op \in Listers PROVE StepTo(Listers, Callees)
  BY <1>1, <1>2, ListerStep DEF Listers
<1>4. CASE WalkStat
  <2>1. \/ Call([Top EXCEPT !.pc = "end"], [Frame("visit", "fn", Root) EXCEPT !.dir = TRUE])
        \/ Call([Top EXCEPT !.pc = "statted"], Frame("stat", "basic", Top.path))
    BY <1>4 DEF WalkStat
  <2>2. QED BY <1>0, <1>1, <1>3, <2>1, CallsTo, FrameFacts, TopFacts, ListerNames, Zenon
<1>5. CASE WalkStatted
  <2>1. \/ \E r : Return(r)
        \/ Call([Top EXCEPT !.pc = "end"], [Frame("visit", "fn", Top.path) EXCEPT !.dir = ret.dir])
    BY <1>5 DEF WalkStatted
  <2>2. QED BY <1>0, <1>1, <1>3, <2>1, CallsTo, ReturnsTo, FrameFacts, TopFacts, ListerNames, Zenon
<1>6. CASE WalkEnd BY <1>0, <1>1, <1>6, ReturnsTo DEF WalkEnd
<1>7. QED BY <1>4, <1>5, <1>6

\* Walk goes through a directory, with walkFn.
LEMMA VisitStep ==
  ASSUME ShareIInv, VisitFn \/ VisitListed \/ VisitEntry
  PROVE  ShareIInv'
<1> USE DEF noTree, noWalk, noCall, treeVars, At, Idle
<1>0. StackOK BY DEF ShareIInv
<1>1. stack # <<>> /\ Top.op = "visit" /\ Top.pc \in {"fn", "listed", "entries"}
  BY DEF VisitFn, VisitListed, VisitEntry
<1>2. UNCHANGED <<tree, size, handles, searches, lasting, present, absent, dirs, goal, faulted>>
  BY DEF VisitFn, VisitListed, VisitEntry
<1>3. SUFFICES ASSUME Top.op \in Listers PROVE StepTo(Listers, Callees)
  BY <1>1, <1>2, ListerStep DEF Listers
<1>4. CASE VisitFn
  <2>1. \/ Call([Top EXCEPT !.pc = "listed"], Frame("readDir", "first", Top.path))
        \/ \E r : Return(r)
    BY <1>4 DEF VisitFn
  <2>2. QED BY <1>0, <1>1, <1>3, <2>1, CallsTo, ReturnsTo, FrameFacts, TopFacts, ListerNames, Zenon
<1>5. CASE VisitListed
  <2>1. \/ \E r : Return(r)
        \/ Become([Top EXCEPT !.pc = "entries", !.todo = ret.list])
    BY <1>5 DEF VisitListed
  <2>2. QED BY <1>0, <1>1, <1>3, <2>1, KeepsTo, ReturnsTo, TopFacts, ListerNames, Zenon
<1>6. CASE VisitEntry
  <2>1. \/ \E r : Return(r)
        \/ \E a, b, p, d : Call([Top EXCEPT !.todo = a, !.n = b], [Frame("visit", "fn", p) EXCEPT !.dir = d])
    BY <1>6 DEF VisitEntry
  <2>2. QED BY <1>0, <1>1, <1>3, <2>1, CallsTo, ReturnsTo, FrameFacts, TopFacts, ListerNames, Zenon
<1>7. QED BY <1>4, <1>5, <1>6

\* Glob goes through the directories of its pattern.
LEMMA GlobStep ==
  ASSUME ShareIInv, GlobBegin \/ GlobLiteral \/ GlobDirs \/ GlobGather \/ GlobDirStep
  PROVE  ShareIInv'
<1> USE DEF noTree, noWalk, noCall, treeVars, At, Idle
<1>0. StackOK BY DEF ShareIInv
<1>1. stack # <<>> /\ Top.op \in {"glob", "globDir"}
         /\ Top.pc \in {"begin", "literal", "dirs", "gather", "statted", "listed"}
  BY DEF GlobBegin, GlobLiteral, GlobDirs, GlobGather, GlobDirStep, GlobDir
<1>2. UNCHANGED <<tree, size, handles, searches, lasting, present, absent, dirs, goal, faulted>>
  BY DEF GlobBegin, GlobLiteral, GlobDirs, GlobGather, GlobDirStep
<1>3. SUFFICES ASSUME Top.op \in Listers PROVE StepTo(Listers, Callees)
  BY <1>1, <1>2, ListerStep DEF Listers
<1>4. CASE GlobBegin
  <2>1. \/ \E p : Call([Top EXCEPT !.pc = "literal"], Frame("stat", "basic", p))
        \/ \E p, q : Become([Frame("globDir", "begin", p) EXCEPT !.to = q])
        \/ \E p : Call([Top EXCEPT !.pc = "dirs"], [Frame("glob", "begin", Root) EXCEPT !.to = p])
    BY <1>4 DEF GlobBegin, GlobFrame
  <2>2. QED BY <1>0, <1>1, <1>3, <2>1, CallsTo, KeepsTo, FrameFacts, TopFacts, ListerNames, Zenon
<1>5. CASE GlobLiteral BY <1>0, <1>1, <1>5, ReturnsTo DEF GlobLiteral
<1>6. CASE GlobDirs
  <2>1. Become([Top EXCEPT !.pc = "gather", !.paths = ret.paths]) BY <1>6 DEF GlobDirs
  <2>2. QED BY <1>0, <1>1, <1>3, <2>1, KeepsTo, TopFacts, ListerNames, Zenon
<1>7. CASE GlobGather
  <2>1. \/ \E r : Return(r)
        \/ \E a, p, q : Call([Top EXCEPT !.paths = a], [Frame("globDir", "begin", p) EXCEPT !.to = q])
    BY <1>7 DEF GlobGather
  <2>2. QED BY <1>0, <1>1, <1>3, <2>1, CallsTo, ReturnsTo, FrameFacts, TopFacts, ListerNames, Zenon
<1>8. CASE GlobDirStep
  <2>1. \/ \E r : Return(r)
        \/ \E a : Call([Top EXCEPT !.pc = a], Frame("readDir", "first", Root))
        \/ \E a : Call([Top EXCEPT !.pc = a], Frame("stat", "basic", Top.path))
        \/ \E a : Call([Top EXCEPT !.pc = a], Frame("readDir", "first", Top.path))
    BY <1>8 DEF GlobDirStep, GlobDir
  <2>2. QED BY <1>0, <1>1, <1>3, <2>1, CallsTo, ReturnsTo, FrameFacts, TopFacts, ListerNames, Zenon
<1>9. QED BY <1>4, <1>5, <1>6, <1>7, <1>8

\* A directory of dirFS is listed and given out in pages.
LEMMA DirFSStep ==
  ASSUME ShareIInv, DirFSLoad \/ DirFSLoaded \/ DirFSPage
  PROVE  ShareIInv'
<1> USE DEF noTree, noWalk, noCall, treeVars, At, Idle, Ask
<1>0. StackOK BY DEF ShareIInv
<1>1. stack # <<>> /\ Top.op = "dirFS" /\ Top.pc \in {"load", "loaded", "page"}
  BY DEF DirFSLoad, DirFSLoaded, DirFSPage
<1>2. UNCHANGED <<tree, size, handles, searches, lasting, present, absent, dirs, goal, faulted>>
  BY DEF DirFSLoad, DirFSLoaded, DirFSPage
<1>3. SUFFICES ASSUME Top.op \in Listers PROVE StepTo(Listers, Callees)
  BY <1>1, <1>2, ListerStep DEF Listers
<1>4. CASE DirFSLoad
  <2>1. Call([Top EXCEPT !.pc = "loaded"], Frame("readDir", "first", Top.path))
    BY <1>4 DEF DirFSLoad
  <2>2. QED BY <1>0, <1>1, <1>3, <2>1, CallsTo, FrameFacts, TopFacts, ListerNames, Zenon
<1>5. CASE DirFSLoaded
  <2>1. \/ \E r : Return(r)
        \/ \E a : Become([Top EXCEPT !.pc = "page", !.paths = a])
    BY <1>5 DEF DirFSLoaded
  <2>2. QED BY <1>0, <1>1, <1>3, <2>1, KeepsTo, ReturnsTo, TopFacts, ListerNames, Zenon
<1>6. CASE DirFSPage
  <2>1. \/ \E r : Return(r)
        \/ \E a : Become([Top EXCEPT !.n = a])
    BY <1>6 DEF DirFSPage
  <2>2. QED BY <1>0, <1>1, <1>3, <2>1, KeepsTo, ReturnsTo, TopFacts, ListerNames, Zenon
<1>7. QED BY <1>4, <1>5, <1>6

-----------------------------------------------------------------------------
(* Stat, and requests that fail.                                           *)

\* Stat says that a path is not found only when it is not there.
LEMMA StatStep ==
  ASSUME ShareIInv, StatBasic \/ StatStandard
  PROVE  ShareIInv'
<1> USE DEF noTree, noWalk, noCall, treeVars, Answered, At, Idle
<1>0. StackOK /\ TreeOK BY DEF ShareIInv
<1>1. stack # <<>> /\ Top.op = "stat" /\ Top.pc \in {"basic", "standard"}
  BY DEF StatBasic, StatStandard
<1>2. UNCHANGED <<tree, size, handles, searches, lasting, present, absent, dirs, goal, faulted>>
  BY DEF StatBasic, StatStandard
<1>3. \/ Kind(Top.path) = "none" /\ Return(Error("notFound"))
      \/ \E b : Return([Nothing EXCEPT !.dir = b])
      \/ \E b : Become([Top EXCEPT !.pc = "standard", !.dir = b])
  BY DEF StatBasic, StatStandard
<1>4. CASE Kind(Top.path) = "none" /\ Return(Error("notFound"))
  <2>1. Popped BY <1>0, <1>1, <1>4, ReturnStep
  <2>2. Top.path \in Paths => Top.path \in absent'
    BY <1>0, <1>1, <1>2, <1>4, TreeAssumption DEF TreeOK, Kind, Root
  <2>3. Depth \in Nat BY <1>0, StackFacts
  <2>4. QED BY <1>1, <1>2, <2>1, <2>2, <2>3, PlainStep DEF Popped
<1>5. CASE \E b : Return([Nothing EXCEPT !.dir = b])
  <2>1. PICK b : Return([Nothing EXCEPT !.dir = b]) BY <1>5
  <2>2. Popped /\ ret' = [Nothing EXCEPT !.dir = b] BY <1>0, <1>1, <2>1, ReturnStep, Zenon
  <2>3. ~IsAbsent(ret') BY <2>2 DEF IsAbsent, Nothing
  <2>4. Depth \in Nat BY <1>0, StackFacts
  <2>5. QED BY <1>1, <1>2, <2>2, <2>3, <2>4, PlainStep DEF Popped
<1>6. CASE \E b : Become([Top EXCEPT !.pc = "standard", !.dir = b])
  <2>1. PICK b, f : f = [Top EXCEPT !.pc = "standard", !.dir = b] /\ Become(f) BY <1>6, Zenon
  <2>2. DOMAIN f = Fields /\ f.op = "stat" /\ f.path = Top.path
    BY <1>0, <1>1, <2>1, StackFacts DEF Fields
  <2>3. Kept(f) BY <1>0, <1>1, <2>1, <2>2, BecomeStep
  <2>4. Depth \in Nat BY <1>0, StackFacts
  <2>5. QED BY <1>1, <1>2, <2>2, <2>3, <2>4, PlainStep DEF Kept
<1>7. QED BY <1>3, <1>4, <1>5, <1>6

\* A request that fails ends its call with an error that is no answer, and the
\* closes and the searches it was about count as left open.
LEMMA FailStep ==
  ASSUME ShareIInv, Requesting, Top.op # "copy", NEW e \in {"denied", "ctx"}, FailWith(e),
         UNCHANGED <<tree, size, handles, searches, lasting, present, absent, dirs, goal>>
  PROVE  ShareIInv'
<1>0. StackOK /\ RemoveAllOK /\ MkdirAllOK BY DEF ShareIInv
<1>1. stack # <<>> /\ Top.op # "mkdirAll" BY DEF Requesting, Requests, Idle
<1>2. faulted' = faulted \cup {Top.pc} /\ Return(Error(e)) BY DEF FailWith
<1>3. Popped /\ ret' = Error(e) BY <1>0, <1>1, <1>2, ReturnStep
<1>4. ret'.err = e /\ ~IsAbsent(ret') /\ ~Tolerable(ret'.err) /\ ret'.err \notin {"none", "exist"}
  BY <1>3 DEF Error, Nothing, IsAbsent, Tolerable
<1>5. Depth \in Nat /\ Depth > 0 /\ Len(stack') = Depth - 1 /\ (stack' = <<>> <=> Len(stack') = 0)
  BY <1>0, <1>1, <1>3, StackFacts DEF Popped, StackOK
<1>6. Depth = 1 /\ goal.op = "removeAll" => RemoveAllOK'
  BY <1>0, <1>4, <1>5 DEF RemoveAllOK
<1>7. Top.op = "mkdir" => MkdirAllOK'
  <2> SUFFICES ASSUME goal.op = "mkdirAll" PROVE MkdirAllOK' BY DEF MkdirAllOK
  <2>1. Depth = 2 BY <1>0, <1>1, <1>5 DEF MkdirAllOK, Top, Depth
  <2>2. stack' # <<>> /\ Len(stack') = 1 /\ stack'[1] = stack[1]
    BY <1>3, <1>5, <2>1 DEF Popped, Reshaped
  <2>3. QED BY <1>0, <1>1, <1>4, <2>1, <2>2 DEF MkdirAllOK
<1>8. QED BY <1>1, <1>2, <1>3, <1>4, <1>5, <1>6, <1>7, PlainStep DEF Popped

-----------------------------------------------------------------------------
(* Remove and RemoveAll.                                                   *)

Removers == {"removeAll", "remove", "removeDir"}

\* The removal of p goes on as f.
Removing(f, p) == DOMAIN f = Fields /\ f.op \in Removers /\ f.path = p

\* The outermost removal returns, goes on or calls.
LEMMA RemovalReturns ==
  ASSUME StackOK, stack # <<>>, RemoveAllOK, Depth = 1, goal' = goal, NEW r, Return(r),
         r.err = "none" => goal.path \in absent'
  PROVE  RemoveAllOK'
<1>1. Popped /\ ret' = r BY ReturnStep
<1>2. stack' = <<>> BY <1>1 DEF Popped, StackOK
<1>3. QED BY <1>1, <1>2 DEF RemoveAllOK

\* The outermost removal goes on as f.
LEMMA RemovalKeeps ==
  ASSUME StackOK, stack # <<>>, RemoveAllOK, Depth = 1, goal' = goal, NEW f, Become(f),
         Removing(f, goal.path), ~(f.op = "removeAll" /\ f.pc = "exists")
  PROVE  RemoveAllOK'
<1>1. Kept(f) BY BecomeStep DEF Removing
<1>2. stack' # <<>> /\ stack'[1] = f BY <1>1 DEF Kept
<1>3. QED BY <1>1, <1>2 DEF RemoveAllOK, Removing, Removers

\* The outermost removal goes on as f and calls g.
LEMMA RemovalCalls ==
  ASSUME StackOK, stack # <<>>, RemoveAllOK, Depth = 1, goal' = goal, NEW f, NEW g, Call(f, g),
         Removing(f, goal.path), DOMAIN g = Fields,
         f.op = "removeAll" /\ f.pc = "exists" => g.op = "stat" /\ g.path = goal.path
  PROVE  RemoveAllOK'
<1>1. Pushed(f, g) BY CallStep DEF Removing
<1>2. stack' # <<>> /\ stack'[1] = f /\ Len(stack') = 2 /\ stack'[2] = g BY <1>1 DEF Pushed
<1>3. QED BY <1>1, <1>2 DEF RemoveAllOK, Removing, Removers

Quietly == UNCHANGED <<tree, size, handles, searches, lasting, present, absent, dirs, goal, faulted>>

\* A step of a removal that changes nothing on the server, the outermost one or
\* not.
LEMMA RemoverReturns ==
  ASSUME ShareIInv, stack # <<>>, Top.op \in Removers, Top.pc # "close", Quietly, NEW r, Return(r),
         Depth = 1 /\ goal.op = "removeAll" /\ r.err = "none" => goal.path \in absent
  PROVE  ShareIInv'
<1>0. StackOK /\ RemoveAllOK BY DEF ShareIInv
<1>1. Popped BY <1>0, ReturnStep
<1>2. Depth = 1 /\ goal.op = "removeAll" => RemoveAllOK'
  BY <1>0, RemovalReturns DEF Quietly
<1>3. Depth \in Nat BY <1>0, StackFacts
<1>4. QED BY <1>1, <1>2, <1>3, PlainStep DEF Popped, Quietly, Removers

\* A removal goes on as f.
LEMMA RemoverKeeps ==
  ASSUME ShareIInv, stack # <<>>, Top.op \in Removers, Top.pc # "close", Quietly, NEW f, Become(f),
         Removing(f, Top.path), ~(f.op = "removeAll" /\ f.pc = "exists")
  PROVE  ShareIInv'
<1>0. StackOK /\ RemoveAllOK BY DEF ShareIInv
<1>1. Kept(f) BY <1>0, BecomeStep DEF Removing
<1>2. Depth = 1 /\ goal.op = "removeAll" /\ Top.path = goal.path => RemoveAllOK'
  BY <1>0, RemovalKeeps DEF Quietly
<1>3. Depth \in Nat BY <1>0, StackFacts
<1>4. QED BY <1>1, <1>2, <1>3, PlainStep DEF Kept, Quietly, Removers, Removing

\* A removal goes on as f and calls g.
LEMMA RemoverCalls ==
  ASSUME ShareIInv, stack # <<>>, Top.op \in Removers, Top.pc # "close", Quietly, NEW f, NEW g,
         Call(f, g), Removing(f, Top.path), DOMAIN g = Fields, g.op \in {"stat", "readDir", "removeAll"},
         f.op = "removeAll" /\ f.pc = "exists" => g.op = "stat" /\ g.path = Top.path
  PROVE  ShareIInv'
<1>0. StackOK /\ RemoveAllOK BY DEF ShareIInv
<1>1. Pushed(f, g) BY <1>0, CallStep DEF Removing
<1>2. Depth = 1 /\ goal.op = "removeAll" /\ Top.path = goal.path => RemoveAllOK'
  BY <1>0, RemovalCalls DEF Quietly
<1>3. Depth \in Nat BY <1>0, StackFacts
<1>4. QED BY <1>1, <1>2, <1>3, PlainStep DEF Pushed, Quietly, Removers, Removing

\* What a removal makes of its frame.
LEMMA RemoverForms ==
  ASSUME StackOK, stack # <<>>, Top.op \in Removers
  PROVE  /\ \A a : LET f == [Top EXCEPT !.pc = a]
                   IN  Removing(f, Top.path) /\ f.op = Top.op /\ f.pc = a
         /\ \A a : LET f == [Top EXCEPT !.todo = a]
                   IN  Removing(f, Top.path) /\ f.op = Top.op /\ f.pc = Top.pc
         /\ \A a, b : LET f == [Top EXCEPT !.pc = a, !.todo = b]
                      IN  Removing(f, Top.path) /\ f.op = Top.op /\ f.pc = a
         /\ \A op, pc : op \in Removers => LET f == Frame(op, pc, Top.path)
                                           IN  Removing(f, Top.path) /\ f.op = op /\ f.pc = pc
BY StackFacts DEF Removing, Fields, Frame

\* Remove asks what is at its path.
LEMMA RemoveStep ==
  ASSUME ShareIInv, RemoveStat \/ RemoveKind
  PROVE  ShareIInv'
<1> USE DEF noTree, noWalk, noCall, treeVars, At, Idle, Ask, Quietly
<1>0. StackOK BY DEF ShareIInv
<1>1. stack # <<>> /\ Top.op = "remove" /\ Top.pc \in {"begin", "kind"} BY DEF RemoveStat, RemoveKind
<1>2. Quietly BY DEF RemoveStat, RemoveKind
<1>3. Top.op \in Removers /\ "removeDir" \in Removers BY <1>1 DEF Removers
<1>4. CASE RemoveStat
  <2>1. PICK f, g : /\ f = [Top EXCEPT !.pc = "kind"] /\ g = Frame("stat", "basic", Top.path)
                    /\ Call(f, g)
    BY <1>4, Zenon DEF RemoveStat
  <2>2. Removing(f, Top.path) /\ f.op = "remove" BY <1>0, <1>1, <1>3, <2>1, RemoverForms
  <2>3. DOMAIN g = Fields /\ g.op = "stat" BY <2>1 DEF Frame, Fields
  <2>4. QED BY <1>1, <1>2, <1>3, <2>1, <2>2, <2>3, RemoverCalls
<1>5. CASE RemoveKind
  <2>1. CASE ret.err # "none"
    <3>1. Return(ret) BY <1>5, <2>1 DEF RemoveKind
    <3>2. QED BY <1>1, <1>2, <1>3, <2>1, <3>1, RemoverReturns
  <2>2. CASE ret.err = "none"
    <3>1. PICK f : /\ f = (IF ret.dir THEN Frame("removeDir", "delete", Top.path)
                                      ELSE [Top EXCEPT !.pc = "open"])
                   /\ Become(f)
      BY <1>5, <2>2, Zenon DEF RemoveKind
    <3>2. Removing(f, Top.path) /\ f.op # "removeAll" BY <1>0, <1>1, <1>3, <3>1, RemoverForms
    <3>3. QED BY <1>1, <1>2, <1>3, <3>1, <3>2, RemoverKeeps
  <2>3. QED BY <2>1, <2>2
<1>6. QED BY <1>4, <1>5

\* RemoveAll asks, lists, and goes through the children.
LEMMA RemoveAllSteps ==
  ASSUME ShareIInv,
         RemoveAllExists \/ RemoveAllIsDir \/ RemoveAllList \/ RemoveAllListed \/ RemoveAllChild
  PROVE  ShareIInv'
<1> USE DEF noTree, noWalk, noCall, treeVars, At, Idle, Ask, Quietly
<1>0. StackOK /\ RemoveAllOK BY DEF ShareIInv
<1>1. /\ stack # <<>> /\ Top.op = "removeAll"
      /\ Top.pc \in {"begin", "exists", "isDir", "listed", "children"}
  BY DEF RemoveAllExists, RemoveAllIsDir, RemoveAllList, RemoveAllListed, RemoveAllChild
<1>2. Quietly
  BY DEF RemoveAllExists, RemoveAllIsDir, RemoveAllList, RemoveAllListed, RemoveAllChild
<1>3. Top.op \in Removers /\ "remove" \in Removers BY <1>1 DEF Removers
<1>4. CASE RemoveAllExists
  <2>1. PICK f, g : /\ f = [Top EXCEPT !.pc = "exists"] /\ g = Frame("stat", "basic", Top.path)
                    /\ Call(f, g)
    BY <1>4, Zenon DEF RemoveAllExists
  <2>2. Removing(f, Top.path) BY <1>0, <1>1, <1>3, <2>1, RemoverForms
  <2>3. DOMAIN g = Fields /\ g.op = "stat" /\ g.path = Top.path
    BY <2>1 DEF Frame, Fields
  <2>4. QED BY <1>1, <1>2, <1>3, <2>1, <2>2, <2>3, RemoverCalls
<1>5. CASE RemoveAllIsDir
  <2>1. CASE IsAbsent(ret) /\ Return(Nothing)
    <3>1. Depth = 1 /\ goal.op = "removeAll" => goal.path \in absent
      BY <1>0, <1>1, <1>5, <2>1 DEF RemoveAllIsDir, RemoveAllOK, Top, Depth
    <3>2. QED BY <1>1, <1>2, <1>3, <2>1, <3>1, RemoverReturns
  <2>2. CASE ret.err # "none" /\ Return(ret) BY <1>1, <1>2, <1>3, <2>2, RemoverReturns
  <2>3. CASE Call([Top EXCEPT !.pc = "isDir"], Frame("stat", "basic", Top.path))
    <3>1. PICK f, g : /\ f = [Top EXCEPT !.pc = "isDir"] /\ g = Frame("stat", "basic", Top.path)
                      /\ Call(f, g)
      BY <2>3, Zenon
    <3>2. Removing(f, Top.path) /\ f.pc = "isDir" BY <1>0, <1>1, <1>3, <3>1, RemoverForms
    <3>3. DOMAIN g = Fields /\ g.op = "stat" BY <3>1 DEF Frame, Fields
    <3>4. QED BY <1>1, <1>2, <1>3, <3>1, <3>2, <3>3, RemoverCalls
  <2>4. QED BY <1>5, <2>1, <2>2, <2>3, Zenon DEF RemoveAllIsDir
<1>6. CASE RemoveAllList
  <2>1. CASE ret.err # "none" /\ Return(ret) BY <1>1, <1>2, <1>3, <2>1, RemoverReturns
  <2>2. CASE Become(Frame("remove", "begin", Top.path))
    <3>1. PICK f : f = Frame("remove", "begin", Top.path) /\ Become(f) BY <2>2, Zenon
    <3>2. Removing(f, Top.path) /\ f.op = "remove" BY <1>3, <3>1 DEF Frame, Fields, Removing
    <3>3. QED BY <1>1, <1>2, <1>3, <3>1, <3>2, RemoverKeeps
  <2>3. CASE Call([Top EXCEPT !.pc = "listed"], Frame("readDir", "first", Top.path))
    <3>1. PICK f, g : /\ f = [Top EXCEPT !.pc = "listed"] /\ g = Frame("readDir", "first", Top.path)
                      /\ Call(f, g)
      BY <2>3, Zenon
    <3>2. Removing(f, Top.path) /\ f.pc = "listed" BY <1>0, <1>1, <1>3, <3>1, RemoverForms
    <3>3. DOMAIN g = Fields /\ g.op = "readDir" BY <3>1 DEF Frame, Fields
    <3>4. QED BY <1>1, <1>2, <1>3, <3>1, <3>2, <3>3, RemoverCalls
  <2>4. QED BY <1>6, <2>1, <2>2, <2>3, Zenon DEF RemoveAllList
<1>7. CASE RemoveAllListed
  <2>1. CASE ret.err # "none" /\ Return(ret) BY <1>1, <1>2, <1>3, <2>1, RemoverReturns
  <2>2. CASE Become([Top EXCEPT !.pc = "children", !.todo = ret.list])
    <3>1. PICK f : f = [Top EXCEPT !.pc = "children", !.todo = ret.list] /\ Become(f) BY <2>2, Zenon
    <3>2. Removing(f, Top.path) /\ f.pc = "children" BY <1>0, <1>1, <1>3, <3>1, RemoverForms
    <3>3. QED BY <1>1, <1>2, <1>3, <3>1, <3>2, RemoverKeeps
  <2>3. QED BY <1>7, <2>1, <2>2, Zenon DEF RemoveAllListed
<1>8. CASE RemoveAllChild
  <2>1. CASE ret.err # "none" /\ Return(ret) BY <1>1, <1>2, <1>3, <2>1, RemoverReturns
  <2>2. CASE Become(Frame("remove", "begin", Top.path))
    <3>1. PICK f : f = Frame("remove", "begin", Top.path) /\ Become(f) BY <2>2, Zenon
    <3>2. Removing(f, Top.path) /\ f.op = "remove" BY <1>3, <3>1 DEF Frame, Fields, Removing
    <3>3. QED BY <1>1, <1>2, <1>3, <3>1, <3>2, RemoverKeeps
  <2>3. CASE Call([Top EXCEPT !.todo = Tail(@)], Frame("removeAll", "begin", Head(Top.todo).path))
    <3>1. PICK f, g : /\ f = [Top EXCEPT !.todo = Tail(Top.todo)]
                      /\ g = Frame("removeAll", "begin", Head(Top.todo).path)
                      /\ Call(f, g)
      BY <2>3, Zenon
    <3>2. Removing(f, Top.path) /\ f.pc = Top.pc BY <1>0, <1>1, <1>3, <3>1, RemoverForms
    <3>3. DOMAIN g = Fields /\ g.op = "removeAll" BY <3>1 DEF Frame, Fields
    <3>4. Top.pc = "children" BY <1>8 DEF RemoveAllChild
    <3>5. QED BY <1>1, <1>2, <1>3, <3>1, <3>2, <3>3, <3>4, RemoverCalls
  <2>4. QED BY <1>8, <2>1, <2>2, <2>3, Zenon DEF RemoveAllChild
<1>9. QED BY <1>4, <1>5, <1>6, <1>7, <1>8

\* The directory is gone when its removal succeeds; after the last retry the
\* removal fails.
LEMMA RemoveDirStep ==
  ASSUME ShareIInv, RemoveDir
  PROVE  ShareIInv'
<1> USE DEF noWalk, noCall, Answered, At, Idle
<1>0. StackOK /\ TreeOK /\ RemoveAllOK BY DEF ShareIInv
<1>1. stack # <<>> /\ Top.op = "removeDir" /\ Top.pc = "delete" /\ Top.op \in Removers
  BY DEF RemoveDir, Removers
<1>2. UNCHANGED <<handles, searches, goal, faulted>> BY DEF RemoveDir
<1>3. CASE Put(Top.path, "none", 0) /\ Return(Nothing)
  <2>1. TreeOK' /\ absent \subseteq absent' /\ Top.path \in absent' BY <1>0, <1>1, <1>3, PutStep
  <2>2. Popped BY <1>0, <1>1, <1>3, ReturnStep
  <2>3. StackOK' /\ Reshaped /\ Len(stack') = Depth - 1 /\ Depth \in Nat
    BY <1>0, <2>2, StackFacts DEF Popped
  <2>4. Depth = 1 /\ goal.op = "removeAll" /\ Top.path = goal.path => RemoveAllOK'
    BY <1>0, <1>1, <1>2, <1>3, <2>1, RemovalReturns
  <2>5. Holds(Top) = {} BY <1>1 DEF Holds
  <2>6. QED BY <1>1, <1>2, <2>1, <2>3, <2>4, <2>5, ChangeStep
<1>4. CASE UNCHANGED <<tree, size, history>> /\ Retry
  <2>1. PICK f : f = [Top EXCEPT !.pc = "sleep", !.n = Top.n + 1] /\ Become(f)
    BY <1>4, Zenon DEF Retry
  <2>2. Removing(f, Top.path) /\ f.op = "removeDir"
    BY <1>0, <1>1, <2>1, StackFacts DEF Removing, Fields
  <2>3. QED BY <1>1, <1>2, <1>4, <2>1, <2>2, RemoverKeeps DEF Quietly, history
<1>5. ASSUME NEW e, e # "none", UNCHANGED <<tree, size, history>>, Return(Error(e)) PROVE ShareIInv'
  <2>1. Error(e).err # "none" BY <1>5 DEF Error, Nothing
  <2>2. QED BY <1>1, <1>2, <1>5, <2>1, RemoverReturns DEF Quietly, history
<1>6. QED BY <1>3, <1>4, <1>5 DEF RemoveDir, GiveUp

\* The delay before the next try of removeDir ends.
LEMMA RemoveDirSleeps ==
  ASSUME ShareIInv, RemoveDirSleep
  PROVE  ShareIInv'
<1> USE DEF noTree, noWalk, noCall, treeVars, At, Idle, Quietly
<1>0. StackOK BY DEF ShareIInv
<1>1. stack # <<>> /\ Top.op = "removeDir" /\ Top.pc = "sleep" /\ Top.op \in Removers /\ Quietly
  BY DEF RemoveDirSleep, Removers
<1>2. CASE Goto("delete")
  <2>1. PICK f : f = [Top EXCEPT !.pc = "delete"] /\ Become(f) BY <1>2, Zenon DEF Goto
  <2>2. Removing(f, Top.path) /\ f.op = "removeDir" BY <1>0, <1>1, <2>1, RemoverForms
  <2>3. QED BY <1>1, <2>1, <2>2, RemoverKeeps
<1>3. CASE Return(Error("ctx"))
  <2>1. Error("ctx").err # "none" BY DEF Error, Nothing
  <2>2. QED BY <1>1, <1>3, <2>1, RemoverReturns
<1>4. QED BY <1>2, <1>3 DEF RemoveDirSleep

\* A handle is opened for deletion by the call that will close it.
LEMMA RemoveOpens ==
  ASSUME ShareIInv, RemoveOpen
  PROVE  ShareIInv'
<1> USE DEF noWalk, noCall, Answered, At, Idle
<1>0. StackOK /\ TreeOK /\ RemoveAllOK BY DEF ShareIInv
<1>1. stack # <<>> /\ Top.op = "remove" /\ Top.pc = "open" /\ Top.op \in Removers
  BY DEF RemoveOpen, Removers
<1>2. UNCHANGED <<tree, size, searches, lasting, present, absent, dirs, goal, faulted>>
  BY DEF RemoveOpen, history
<1>3. ASSUME NEW e, e # "none", Return(Error(e)), UNCHANGED handles PROVE ShareIInv'
  <2>1. Error(e).err # "none" BY <1>3 DEF Error, Nothing
  <2>2. QED BY <1>1, <1>2, <1>3, <2>1, RemoverReturns DEF Quietly
<1>4. CASE handles' = handles \cup {Top.path} /\ Goto("close")
  <2>1. PICK f : f = [Top EXCEPT !.pc = "close"] /\ Become(f) BY <1>4, Zenon DEF Goto
  <2>2. Removing(f, Top.path) /\ f.op = "remove" /\ f.pc = "close"
    BY <1>0, <1>1, <2>1, RemoverForms
  <2>3. Kept(f) BY <1>0, <1>1, <2>1, <2>2, BecomeStep DEF Removing
  <2>4. Holds(f) = {Top.path} /\ Holds(Top) = {} BY <1>1, <2>2 DEF Holds, Removing
  <2>5. TreeOK' BY <1>0, <1>1, <1>2, TreeStep
  <2>6. Depth = 1 /\ goal.op = "removeAll" /\ Top.path = goal.path => RemoveAllOK'
    BY <1>0, <1>1, <1>2, <2>1, <2>2, RemovalKeeps
  <2>7. Depth \in Nat BY <1>0, StackFacts
  <2>8. QED BY <1>1, <1>2, <1>4, <2>2, <2>3, <2>4, <2>5, <2>6, <2>7, ChangeStep DEF Kept
<1>5. QED BY <1>3, <1>4 DEF RemoveOpen

\* The close takes the file away.
LEMMA RemoveCloses ==
  ASSUME ShareIInv, RemoveClose
  PROVE  ShareIInv'
<1> USE DEF noWalk, noCall, Answered, At, Idle
<1>0. StackOK /\ TreeOK /\ RemoveAllOK BY DEF ShareIInv
<1>1. stack # <<>> /\ Top.op = "remove" /\ Top.pc = "close" BY DEF RemoveClose
<1>2. UNCHANGED <<searches, goal, faulted>> /\ handles' = handles \ {Top.path} BY DEF RemoveClose
<1>3. Put(Top.path, "none", 0) /\ Return(Nothing) BY DEF RemoveClose
<1>4. TreeOK' /\ absent \subseteq absent' /\ Top.path \in absent' BY <1>0, <1>1, <1>3, PutStep
<1>5. Popped BY <1>0, <1>1, <1>3, ReturnStep
<1>6. Holds(Top) = {Top.path} BY <1>1 DEF Holds
<1>7. Depth = 1 /\ goal.op = "removeAll" /\ Top.path = goal.path => RemoveAllOK'
  BY <1>0, <1>1, <1>2, <1>3, <1>4, RemovalReturns
<1>8. Depth \in Nat BY <1>0, StackFacts
<1>9. QED BY <1>1, <1>2, <1>4, <1>5, <1>6, <1>7, <1>8, ChangeStep DEF Popped

-----------------------------------------------------------------------------
(* Mkdir, MkdirAll and Rename.                                             *)

\* What is in front of the last of the first n names.
LEMMA PrefixFacts ==
  ASSUME NEW p \in Seq(Nat), NEW n \in 1 .. Len(p)
  PROVE  /\ Front(Prefix(p, n)) = Prefix(p, n - 1)
         /\ n > 1 => Prefix(p, n - 1) # Root
         /\ Prefix(p, Len(p)) = p
<1>1. Prefix(p, n) \in Seq(Nat) /\ Len(Prefix(p, n)) = n BY DEF Prefix
<1>2. Front(Prefix(p, n)) = SubSeq(SubSeq(p, 1, n), 1, n - 1) BY <1>1 DEF Front, Prefix
<1>3. SubSeq(SubSeq(p, 1, n), 1, n - 1) = SubSeq(p, 1, n - 1) OBVIOUS
<1>4. n > 1 => Prefix(p, n - 1) # Root
  <2> SUFFICES ASSUME n > 1 PROVE Prefix(p, n - 1) # Root OBVIOUS
  <2>1. n - 1 \in 1 .. Len(p) OBVIOUS
  <2>2. Len(Prefix(p, n - 1)) = n - 1 BY <2>1 DEF Prefix
  <2>3. QED BY <2>1, <2>2 DEF Root
<1>5. Prefix(p, Len(p)) = p BY SubSeqFull DEF Prefix
<1>6. QED BY <1>2, <1>3, <1>4, <1>5 DEF Prefix

\* What exists is there, and in a directory.
LEMMA ExistSays ==
  ASSUME NEW p, CreateDirectoryStatus(p) = "exist"
  PROVE  HasParent(p) /\ Kind(p) # "none"
<1>1. CASE ~ HasParent(p) BY <1>1 DEF CreateDirectoryStatus
<1>2. CASE HasParent(p) /\ Kind(p) = "none" BY <1>2 DEF CreateDirectoryStatus
<1>3. QED BY <1>1, <1>2

\* A component that is tolerated as existing has been there.
LEMMA MkdirCreates ==
  ASSUME ShareIInv, MkdirCreate
  PROVE  ShareIInv'
<1> USE DEF noWalk, noCall, Answered, At, Idle
<1>0. StackOK /\ TreeOK /\ MkdirAllOK BY DEF ShareIInv
<1>1. stack # <<>> /\ Top.op = "mkdir" /\ Top.pc = "create" BY DEF MkdirCreate
<1>2. UNCHANGED <<searches, goal, faulted>> BY DEF MkdirCreate
<1>3. Depth \in Nat /\ Depth > 0 BY <1>0, <1>1, StackFacts
<1>4. goal.op = "mkdirAll" => /\ Depth = 2 /\ stack[1].n \in 1 .. Len(goal.path)
                              /\ Top.path = Prefix(goal.path, stack[1].n)
  BY <1>0, <1>1, <1>3 DEF MkdirAllOK, Top, Depth
<1>4a. goal.op = "mkdirAll" /\ HasParent(Top.path) =>
          (stack[1].n > 1 => Prefix(goal.path, stack[1].n - 1) \in dirs)
  <2> SUFFICES ASSUME goal.op = "mkdirAll", HasParent(Top.path), stack[1].n > 1
               PROVE  Prefix(goal.path, stack[1].n - 1) \in dirs
    OBVIOUS
  <2>0. goal.path \in Seq(Nat) BY <1>0, TreeAssumption DEF MkdirAllOK
  <2>1. Front(Top.path) = Prefix(goal.path, stack[1].n - 1) BY <1>4, <2>0, PrefixFacts
  <2>2. Prefix(goal.path, stack[1].n - 1) # Root BY <1>4, <2>0, PrefixFacts
  <2>3. QED BY <1>0, <1>1, <2>1, <2>2 DEF HasParent, Kind, TreeOK
<1>5. ASSUME NEW e, e = CreateDirectoryStatus(Top.path), e # "none", Return(Error(e)),
             UNCHANGED <<tree, size, history, handles>>
      PROVE  ShareIInv'
  <2>1. Popped /\ ret' = Error(e) BY <1>0, <1>1, <1>5, ReturnStep
  <2>2. ret'.err = e BY <2>1 DEF Error, Nothing
  <2>3. e = "exist" => (Top.path = Root \/ Top.path \in present) /\ HasParent(Top.path)
    <3>1. e = "exist" => HasParent(Top.path) /\ Kind(Top.path) # "none" BY <1>5, ExistSays
    <3>2. Kind(Top.path) # "none" => Top.path = Root \/ Top.path \in present
      BY <1>0, <1>1 DEF Kind, TreeOK
    <3>3. QED BY <3>1, <3>2
  <2>4. goal.op = "mkdirAll" => Top.path # Root
    <3> SUFFICES ASSUME goal.op = "mkdirAll" PROVE Top.path # Root OBVIOUS
    <3>1. goal.path \in Seq(Nat) BY <1>0, TreeAssumption DEF MkdirAllOK
    <3>2. QED BY <1>4, <3>1 DEF Prefix, Root
  <2>5. MkdirAllOK'
    <3> SUFFICES ASSUME goal.op = "mkdirAll" PROVE MkdirAllOK' BY <1>2 DEF MkdirAllOK
    <3>1. stack' # <<>> /\ Len(stack') = 1 /\ stack'[1] = stack[1]
      <4>1. Depth = 2 /\ Len(stack') = 1 BY <1>4, <2>1 DEF Popped
      <4>2. QED BY <2>1, <4>1 DEF Popped, Reshaped
    <3>2. Tolerable(ret'.err) => Reached(goal.path, stack[1].n)
      BY <1>4, <1>4a, <1>5, <2>2, <2>3, <2>4 DEF Tolerable, Reached
    <3>3. present' = present /\ dirs' = dirs BY <1>5 DEF history
    <3>4. QED BY <1>0, <1>1, <1>2, <3>1, <3>2, <3>3 DEF MkdirAllOK, Reached
  <2>6. TreeOK' /\ absent' = absent BY <1>0, <1>1, <1>5, TreeStep DEF history
  <2>7. Holds(Top) = {} BY <1>1 DEF Holds
  <2>8. QED BY <1>1, <1>2, <1>3, <1>5, <2>1, <2>5, <2>6, <2>7, ChangeStep DEF Popped
<1>6. CASE /\ Put(Top.path, "dir", 0) /\ handles' = handles \cup {Top.path} /\ Goto("close")
           /\ HasParent(Top.path)
  <2>1. PICK f : f = [Top EXCEPT !.pc = "close"] /\ Become(f) BY <1>6, Zenon DEF Goto
  <2>2. DOMAIN f = Fields /\ f.op = "mkdir" /\ f.path = Top.path /\ f.pc = "close"
    BY <1>0, <1>1, <2>1, StackFacts DEF Fields
  <2>3. Kept(f) BY <1>0, <1>1, <2>1, <2>2, BecomeStep
  <2>4. /\ TreeOK' /\ absent \subseteq absent' /\ present \subseteq present' /\ dirs \subseteq dirs'
        /\ Top.path \in present'
    BY <1>0, <1>1, <1>6, PutStep
  <2>5. MkdirAllOK'
    <3> SUFFICES ASSUME goal.op = "mkdirAll" PROVE MkdirAllOK' BY <1>2 DEF MkdirAllOK
    <3>1. stack' # <<>> /\ Len(stack') = 2 /\ stack'[1] = stack[1] /\ stack'[2] = f
      BY <1>4, <2>3 DEF Kept, Reshaped
    <3>2. Reached(goal.path, stack[1].n)' BY <1>2, <1>4, <1>4a, <1>6, <2>4, <3>1 DEF Reached
    <3>3. QED BY <1>0, <1>1, <1>2, <1>4, <2>2, <2>4, <3>1, <3>2 DEF MkdirAllOK
  <2>6. Holds(f) = {Top.path} /\ Holds(Top) = {} BY <1>1, <2>2 DEF Holds
  <2>7. QED BY <1>1, <1>2, <1>3, <1>6, <2>2, <2>3, <2>4, <2>5, <2>6, ChangeStep DEF Kept
<1>7. CreateDirectoryStatus(Top.path) = "none" => HasParent(Top.path) BY DEF CreateDirectoryStatus
<1>8. QED BY <1>5, <1>6, <1>7 DEF MkdirCreate

\* Mkdir closes the directory it has created.
LEMMA MkdirCloses ==
  ASSUME ShareIInv, MkdirClose
  PROVE  ShareIInv'
<1> USE DEF noWalk, noCall, Answered, At, Idle
<1>0. StackOK /\ TreeOK /\ MkdirAllOK BY DEF ShareIInv
<1>1. stack # <<>> /\ Top.op = "mkdir" /\ Top.pc = "close" BY DEF MkdirClose
<1>2. /\ UNCHANGED <<tree, size, lasting, present, absent, dirs, searches, goal, faulted>>
      /\ handles' = handles \ {Top.path} /\ Return(Nothing)
  BY DEF MkdirClose, history
<1>3. Depth \in Nat /\ Depth > 0 BY <1>0, <1>1, StackFacts
<1>4. Popped BY <1>0, <1>1, <1>2, ReturnStep
<1>5. MkdirAllOK'
  <2> SUFFICES ASSUME goal.op = "mkdirAll" PROVE MkdirAllOK' BY <1>2 DEF MkdirAllOK
  <2>1. Depth = 2 /\ stack[1].n > 0 /\ Reached(goal.path, stack[1].n)
    BY <1>0, <1>1, <1>3 DEF MkdirAllOK, Top, Depth
  <2>2. Len(stack') = 1 BY <1>4, <2>1 DEF Popped
  <2>3. stack' # <<>> /\ stack'[1] = stack[1]
    <3>1. stack'[1] = stack[1] BY <1>4, <2>1 DEF Popped, Reshaped
    <3>2. QED BY <2>2, <3>1
  <2>4. QED BY <1>0, <1>1, <1>2, <2>1, <2>2, <2>3 DEF MkdirAllOK, Reached
<1>6. TreeOK' BY <1>0, <1>1, <1>2, TreeStep
<1>7. Holds(Top) = {Top.path} BY <1>1 DEF Holds
<1>8. QED BY <1>1, <1>2, <1>3, <1>4, <1>5, <1>6, <1>7, ChangeStep DEF Popped

\* The step to the next component, or the end.
LEMMA MkdirAllNexts ==
  ASSUME ShareIInv, MkdirAllNext
  PROVE  ShareIInv'
<1> USE DEF noTree, noWalk, noCall, treeVars, At, Idle
<1>0. StackOK /\ TreeOK /\ SearchOK /\ HandlesOK /\ FramesOK /\ RemoveAllOK /\ MkdirAllOK /\ CopyOK
  BY DEF ShareIInv
<1>1. stack # <<>> /\ Top.op = "mkdirAll" /\ Top.pc = "next" BY DEF MkdirAllNext
<1>2. UNCHANGED <<tree, size, lasting, present, absent, dirs, handles, searches, goal, faulted>>
  BY DEF MkdirAllNext
<1>3. Depth \in Nat /\ Depth > 0 BY <1>0, <1>1, StackFacts
<1>4. goal.op = "mkdirAll" =>
         /\ Depth = 1 /\ Top = stack[1] /\ Top.path = goal.path /\ goal.path \in Seq(Nat)
         /\ Top.n \in 0 .. Len(goal.path)
         /\ \A i \in 1 .. Top.n - 2 : Prefix(goal.path, i) \in dirs
         /\ Top.n > 0 /\ Tolerable(ret.err) => Reached(goal.path, Top.n)
  BY <1>0, <1>1, <1>3, TreeAssumption DEF MkdirAllOK, Top, Depth
<1>5. goal.op = "mkdirAll" /\ Tolerable(ret.err) =>
         \A i \in 1 .. Top.n - 1 : Prefix(goal.path, i) \in dirs
  <2> SUFFICES ASSUME goal.op = "mkdirAll", Tolerable(ret.err), NEW i \in 1 .. Top.n - 1
               PROVE  Prefix(goal.path, i) \in dirs
    OBVIOUS
  <2>1. Len(goal.path) \in Nat /\ Top.n \in Nat /\ i \in Nat /\ Top.n > 1 BY <1>4
  <2>2. CASE i = Top.n - 1 BY <1>4, <2>1, <2>2 DEF Reached
  <2>3. CASE i < Top.n - 1 BY <1>4, <2>1, <2>3
  <2>4. QED BY <2>1, <2>2, <2>3
<1>6. SUFFICES /\ StackOK' /\ Reshaped
               /\ Len(stack') >= Depth => stack'[Depth].op = "mkdirAll"
               /\ Len(stack') > Depth => stack'[Depth + 1].op = "mkdir"
               /\ MkdirAllOK'
  <2>1. TreeOK' BY <1>0, <1>1, <1>2, TreeStep
  <2>2. SearchOK' BY <1>0, <1>1, <1>2, SearchStep
  <2>3. Holds(Top) = {} BY <1>1 DEF Holds
  <2>4. HandlesOK' BY <1>0, <1>1, <1>2, <1>6, <2>3, HandlesStep
  <2>5. FramesOK' BY <1>0, <1>1, <1>2, <1>6, FramesStep
  <2>6. RemoveAllOK' BY <1>0, <1>1, <1>2, <1>6, RemoveAllStep
  <2>7. CopyOK' BY <1>0, <1>1, <1>2, <1>6, CopyStep
  <2>8. QED BY <1>6, <2>1, <2>2, <2>4, <2>5, <2>6, <2>7 DEF ShareIInv
<1>7. CASE ~ Tolerable(ret.err) \/ Top.n = Len(Top.path)
  <2>1. PICK r : r = (IF Tolerable(ret.err) THEN Nothing ELSE ret) /\ Return(r)
    BY <1>7, Zenon DEF MkdirAllNext
  <2>2. Popped /\ ret' = r BY <1>0, <1>1, <2>1, ReturnStep
  <2>3. MkdirAllOK'
    <3> SUFFICES ASSUME goal.op = "mkdirAll" PROVE MkdirAllOK' BY <1>2 DEF MkdirAllOK
    <3>1. stack' = <<>> BY <1>4, <2>2 DEF Popped, StackOK
    <3>2. ret'.err # "exist" BY <2>1, <2>2 DEF Tolerable, Nothing
    <3>3. ret'.err = "none" => Tolerable(ret.err) BY <2>1, <2>2 DEF Tolerable
    <3>4. ret'.err = "none" => \A i \in 1 .. Len(goal.path) - 1 : Prefix(goal.path, i) \in dirs
      BY <1>4, <1>5, <1>7, <3>3
    <3>5. ret'.err = "none" => goal.path \in present
      <4>1. goal.path # <<>> BY <1>0, TreeAssumption DEF MkdirAllOK
      <4>2. Len(goal.path) \in Nat /\ Len(goal.path) > 0 BY <1>4, <4>1
      <4>3. Prefix(goal.path, Len(goal.path)) = goal.path BY <1>4, <4>2, PrefixFacts
      <4>4. QED BY <1>4, <1>7, <3>3, <4>2, <4>3 DEF Reached
    <3>6. QED BY <1>0, <1>2, <3>1, <3>2, <3>4, <3>5 DEF MkdirAllOK
  <2>4. QED BY <1>3, <2>2, <2>3 DEF Popped
<1>8. CASE Tolerable(ret.err) /\ Top.n # Len(Top.path)
  <2>1. PICK f, g : /\ f = [Top EXCEPT !.n = Top.n + 1]
                    /\ g = Frame("mkdir", "create", Prefix(Top.path, Top.n + 1))
                    /\ Call(f, g)
    BY <1>8, Zenon DEF MkdirAllNext, Prefix
  <2>2. DOMAIN f = Fields /\ f.op = "mkdirAll" /\ f.path = Top.path /\ f.n = Top.n + 1
    BY <1>0, <1>1, <2>1, StackFacts DEF Fields
  <2>3. /\ DOMAIN g = Fields /\ g.op = "mkdir" /\ g.pc = "create"
        /\ g.path = Prefix(Top.path, Top.n + 1)
    BY <2>1 DEF Frame, Fields
  <2>4. Pushed(f, g) BY <1>0, <1>1, <2>1, <2>2, <2>3, CallStep
  <2>5. MkdirAllOK'
    <3> SUFFICES ASSUME goal.op = "mkdirAll" PROVE MkdirAllOK' BY <1>2 DEF MkdirAllOK
    <3>1. stack' # <<>> /\ Len(stack') = 2 /\ stack'[1] = f /\ stack'[2] = g
      <4>1. Depth = 1 BY <1>4
      <4>2. Len(stack') = 2 /\ stack'[1] = f /\ stack'[2] = g BY <2>4, <4>1 DEF Pushed
      <4>3. QED BY <4>2
    <3>2. Len(goal.path) \in Nat /\ Top.n \in Nat BY <1>4
    <3>3. f.n \in 0 .. Len(goal.path) /\ f.n > 0 BY <1>4, <1>8, <2>2, <3>2
    <3>4. \A i \in 1 .. f.n - 2 : Prefix(goal.path, i) \in dirs' BY <1>2, <1>5, <1>8, <2>2, <3>2
    <3>5. QED BY <1>0, <1>1, <1>2, <1>4, <2>2, <2>3, <3>1, <3>3, <3>4 DEF MkdirAllOK
  <2>6. QED BY <1>3, <2>2, <2>3, <2>4, <2>5 DEF Pushed
<1>9. QED BY <1>7, <1>8

\* The server moves only what is there, and to where nothing is.
LEMMA RenameMoves ==
  ASSUME NEW p \in Paths, NEW q \in Paths, RenameStatus(p, q) = "none"
  PROVE  tree[p] # "none" /\ p # q
BY TreeAssumption DEF RenameStatus, Kind, Root

\* Rename moves a path in one request.
LEMMA RenameSends ==
  ASSUME ShareIInv, RenameSend
  PROVE  ShareIInv'
<1> USE DEF noWalk, noCall, Answered, At, Idle
<1>0. StackOK /\ TreeOK /\ FramesOK BY DEF ShareIInv
<1>1. stack # <<>> /\ Top.op = "rename" BY DEF RenameSend
<1>2. UNCHANGED <<handles, searches, goal, faulted>> BY DEF RenameSend
<1>3. Depth \in Nat /\ Depth > 0 BY <1>0, <1>1, StackFacts
<1>4. Top.path \in Paths /\ Top.to \in Paths BY <1>0, <1>1, <1>3 DEF FramesOK, Top, Depth
<1>5. \E r : Return(r) BY DEF RenameSend
<1>6. Popped BY <1>0, <1>1, <1>5, ReturnStep
<1>7. TreeOK' /\ absent \subseteq absent'
  <2>1. CASE UNCHANGED <<tree, size, history>> BY <1>0, <1>1, <2>1, TreeStep DEF history
  <2>2. CASE Move(Top.path, Top.to) /\ RenameStatus(Top.path, Top.to) = "none"
    <3>1. tree[Top.path] # "none" /\ Top.path # Top.to BY <1>4, <2>2, RenameMoves
    <3>2. QED BY <1>0, <1>1, <1>4, <2>2, <3>1, MoveStep
  <2>3. QED BY <2>1, <2>2 DEF RenameSend
<1>8. Holds(Top) = {} BY <1>1 DEF Holds
<1>9. QED BY <1>1, <1>2, <1>3, <1>6, <1>7, <1>8, ChangeStep DEF Popped

-----------------------------------------------------------------------------
(* ReadDir.                                                                *)

\* The search is open between two batches and closed with the last.  Its
\* directory is still there for the next batch, so that only a failed request
\* leaves it.
LEMMA FindStep ==
  ASSUME ShareIInv, Find
  PROVE  ShareIInv'
<1> USE DEF noWalk, noCall, Answered, At, Idle
<1>0. StackOK /\ TreeOK /\ SearchOK /\ HandlesOK /\ FramesOK /\ RemoveAllOK /\ MkdirAllOK /\ CopyOK
  BY DEF ShareIInv
<1>1. stack # <<>> /\ Top.op = "readDir" /\ Top.pc \in {"first", "next"} BY DEF Find
<1>2. UNCHANGED <<tree, size, handles, lasting, present, absent, dirs, goal, faulted>> BY DEF Find, history
<1>3. Depth \in Nat /\ Depth > 0 BY <1>0, <1>1, StackFacts
<1>4. faulted \cap Broken = {} => searches \subseteq {Top.path} /\ (searches # {} => Kind(Top.path) = "dir")
  BY <1>0 DEF SearchOK
<1>5. ASSUME StackOK', Reshaped, Len(stack') <= Depth, SearchOK',
             Len(stack') >= Depth => stack'[Depth].op = "readDir"
      PROVE  ShareIInv'
  <2>1. TreeOK' BY <1>0, <1>1, <1>2, TreeStep
  <2>2. Holds(Top) = {} BY <1>1 DEF Holds
  <2>3. HandlesOK' BY <1>0, <1>1, <1>2, <1>5, <2>2, HandlesStep
  <2>4. Len(stack') \in Nat BY <1>5 DEF StackOK
  <2>5. FramesOK' BY <1>0, <1>1, <1>2, <1>3, <1>5, <2>4, FramesStep
  <2>6. RemoveAllOK' BY <1>0, <1>1, <1>2, <1>5, RemoveAllStep
  <2>7. MkdirAllOK' BY <1>0, <1>1, <1>2, MkdirAllStep
  <2>8. CopyOK' BY <1>0, <1>1, <1>2, <1>5, CopyStep
  <2>9. QED BY <1>5, <2>1, <2>3, <2>5, <2>6, <2>7, <2>8 DEF ShareIInv
<1>6. ASSUME NEW r, Return(r), SearchOK' PROVE ShareIInv'
  <2>1. Popped BY <1>0, <1>1, <1>6, ReturnStep
  <2>2. QED BY <1>3, <1>5, <1>6, <2>1 DEF Popped
<1>7. CASE ListStatus(Top.path) # "none" /\ UNCHANGED searches /\ \E r : Return(r)
  <2>1. Kind(Top.path) # "dir" BY <1>7 DEF ListStatus
  <2>2. faulted' \cap Broken = {} => searches' = {} BY <1>2, <1>4, <1>7, <2>1
  <2>3. SearchOK' BY <2>2 DEF SearchOK
  <2>4. QED BY <1>6, <1>7, <2>3
<1>8. CASE searches' = searches \ {Top.path} /\ \E r : Return(r)
  <2>1. faulted' \cap Broken = {} => searches' = {} BY <1>2, <1>4, <1>8
  <2>2. SearchOK' BY <2>1 DEF SearchOK
  <2>3. QED BY <1>6, <1>8, <2>2
<1>9. ASSUME ListStatus(Top.path) = "none", searches' = searches \cup {Top.path}, NEW a, NEW b,
             Become([Top EXCEPT !.pc = "next", !.todo = a, !.seen = b])
      PROVE  ShareIInv'
  <2>1. PICK f : f = [Top EXCEPT !.pc = "next", !.todo = a, !.seen = b] /\ Become(f) BY <1>9, Zenon
  <2>2. DOMAIN f = Fields /\ f.op = "readDir" /\ f.pc = "next" /\ f.path = Top.path
    BY <1>0, <1>1, <2>1, StackFacts DEF Fields
  <2>3. Kept(f) BY <1>0, <1>1, <2>1, <2>2, BecomeStep
  <2>4. stack' # <<>> /\ Top' = f BY <1>3, <2>3 DEF Kept, Top
  <2>5. faulted' \cap Broken = {} => \A p \in searches' : p = Top.path BY <1>2, <1>4, <1>9
  <2>6. Kind(Top.path) = "dir" BY <1>9 DEF ListStatus
  <2>7. SearchOK'
    <3> SUFFICES ASSUME faulted' \cap Broken = {}, NEW p \in searches'
                 PROVE  /\ stack' # <<>> /\ Top'.op = "readDir" /\ Top'.pc = "next" /\ Top'.path = p
                        /\ Kind(p)' = "dir"
      BY DEF SearchOK
    <3>1. p = Top.path BY <2>5
    <3>2. Kind(p)' = Kind(p) BY <1>2 DEF Kind
    <3>3. QED BY <2>2, <2>4, <2>6, <3>1, <3>2
  <2>8. QED BY <1>3, <1>5, <2>2, <2>3, <2>7 DEF Kept
<1>10. QED BY <1>7, <1>8, <1>9 DEF Find, AtEndOfSearch

-----------------------------------------------------------------------------
(* Copies.                                                                 *)

\* A copy that is the innermost call is the only one.
LEMMA CopyFacts ==
  ASSUME ShareIInv, stack # <<>>, Top.op = "copy"
  PROVE  /\ goal.op = "copy" /\ Depth = 1 /\ Top = stack[1] /\ DOMAIN Top = Fields
         /\ Top.path \in Paths \cup {Root} /\ Top.to \in Paths \cup {Root}
         /\ Copying(Top)
<1>0. StackOK /\ FramesOK /\ CopyOK BY DEF ShareIInv
<1>1. Depth \in Nat /\ Depth > 0 /\ DOMAIN Top = Fields BY <1>0, StackFacts
<1>2. goal.op = "copy" BY <1>0, <1>1 DEF FramesOK, Top, Depth
<1>3. Depth = 1
  <2>1. Depth > 1 => Depth = 2 /\ stack[2].op = "stat" BY <1>0, <1>2 DEF CopyOK, Depth
  <2>2. Depth = 2 => Top = stack[2] BY DEF Top, Depth
  <2>3. ~(Depth > 1) BY <2>1, <2>2
  <2>4. QED BY <1>1, <2>3
<1>4. Top = stack[1] BY <1>3 DEF Top, Depth
<1>5. QED BY <1>0, <1>1, <1>2, <1>3, <1>4 DEF CopyOK

\* The copy goes on: what it has open it still has to close.
LEMMA CopyKeeps ==
  ASSUME ShareIInv, stack # <<>>, Top.op = "copy", UNCHANGED <<searches, goal>>,
         faulted \subseteq faulted', TreeOK', absent \subseteq absent',
         NEW f, Become(f), DOMAIN f = Fields, f.op = "copy", f.path = Top.path, f.to = Top.to,
         Copying(f)',
         \A h \in handles' : h \in handles \/ h \in Holds(f),
         \A h \in handles' : h \in Holds(Top) => faulted' \cap Closes # {} \/ h \in Holds(f)
  PROVE  ShareIInv'
<1>0. StackOK /\ SearchOK /\ HandlesOK /\ FramesOK /\ RemoveAllOK /\ MkdirAllOK BY DEF ShareIInv
<1>1. goal.op = "copy" /\ Depth = 1 /\ Top.path \in Paths \cup {Root} /\ Top.to \in Paths \cup {Root}
  BY CopyFacts
<1>2. Kept(f) BY <1>0, BecomeStep
<1>3. StackOK' /\ Reshaped /\ Len(stack') = 1 /\ stack'[1] = f BY <1>1, <1>2 DEF Kept
<1>4. SearchOK' BY <1>0, SearchStep
<1>5. HandlesOK' BY <1>0, <1>1, <1>3, HandlesStep
<1>6. FramesOK' BY <1>1, <1>3 DEF FramesOK
<1>7. RemoveAllOK' /\ MkdirAllOK' BY <1>1 DEF RemoveAllOK, MkdirAllOK
<1>8. CopyOK' BY <1>1, <1>3 DEF CopyOK
<1>9. QED BY <1>3, <1>4, <1>5, <1>6, <1>7, <1>8 DEF ShareIInv

\* A copy that fails goes to the first of its deferred closes.
LEMMA CopyFailing ==
  ASSUME ShareIInv, stack # <<>>, Top.op = "copy", NEW e, e # "none", CopyFails(e),
         Top.pc \in {"openSrc", "openFile", "statted", "openDst", "move"},
         UNCHANGED <<tree, size, handles, searches, lasting, present, absent, dirs, goal>>,
         faulted \subseteq faulted'
  PROVE  ShareIInv'
<1>0. StackOK /\ TreeOK BY DEF ShareIInv
<1>1. PICK f : f = [Top EXCEPT !.err = e, !.pc = Unwind(Top)] /\ Become(f) BY Zenon DEF CopyFails
<1>2. DOMAIN Top = Fields /\ Copying(Top) BY CopyFacts
<1>3. /\ DOMAIN f = Fields /\ f.op = "copy" /\ f.path = Top.path /\ f.to = Top.to /\ f.n = Top.n
      /\ f.err = e /\ f.pc = Unwind(Top)
  BY <1>1, <1>2 DEF Fields
<1>4. TreeOK' BY <1>0, TreeStep
<1>5. Copying(f)' BY <1>2, <1>3 DEF Copying, Unwind
<1>6. Holds(Top) \subseteq Holds(f) BY <1>3 DEF Holds, Unwind
<1>7. QED BY <1>1, <1>3, <1>4, <1>5, <1>6, CopyKeeps

\* A request of a copy fails; a failed close goes on to the next one.
LEMMA CopyFailStep ==
  ASSUME ShareIInv, Requesting, Top.op = "copy", NEW e \in {"denied", "ctx"}, FailWith(e),
         UNCHANGED <<tree, size, handles, searches, lasting, present, absent, dirs, goal>>
  PROVE  ShareIInv'
<1>0. StackOK /\ TreeOK BY DEF ShareIInv
<1>1. /\ stack # <<>>
      /\ Top.pc \in {"openSrc", "openFile", "openDst", "move", "closeDst", "closeSrc"}
  BY DEF Requesting, Requests, Idle
<1>2. faulted' = faulted \cup {Top.pc} BY DEF FailWith
<1>3. CASE Top.pc \in {"closeDst", "closeSrc"}
  <2>1. PICK f : f = [Top EXCEPT !.pc = Unwind(Top)] /\ Become(f) BY <1>3, Zenon DEF FailWith, Goto
  <2>2. DOMAIN Top = Fields /\ Copying(Top) BY <1>1, CopyFacts
  <2>3. /\ DOMAIN f = Fields /\ f.op = "copy" /\ f.path = Top.path /\ f.to = Top.to /\ f.n = Top.n
        /\ f.err = Top.err /\ f.pc = Unwind(Top)
    BY <2>1, <2>2 DEF Fields
  <2>4. TreeOK' BY <1>0, <1>1, TreeStep
  <2>5. Copying(f)' BY <1>3, <2>2, <2>3 DEF Copying, Unwind
  <2>6. faulted' \cap Closes # {} BY <1>2, <1>3 DEF Closes
  <2>7. QED BY <1>1, <1>2, <2>1, <2>3, <2>4, <2>5, <2>6, CopyKeeps
<1>4. CASE Top.pc \notin {"closeDst", "closeSrc"}
  <2>1. CopyFails(e) BY <1>4 DEF FailWith
  <2>2. QED BY <1>1, <1>2, <1>4, <2>1, CopyFailing
<1>5. QED BY <1>3, <1>4

\* A copy opens its source.
LEMMA CopyOpensSrc ==
  ASSUME ShareIInv, CopyOpenSrc
  PROVE  ShareIInv'
<1> USE DEF noWalk, noCall, Answered, At, Idle, history
<1>0. StackOK /\ TreeOK /\ SearchOK /\ HandlesOK BY DEF ShareIInv
<1>1. stack # <<>> /\ Top.op = "copy" /\ Top.pc \in {"openSrc", "openFile"} BY DEF CopyOpenSrc
<1>2. UNCHANGED <<tree, size, searches, lasting, present, absent, dirs, goal, faulted>> BY DEF CopyOpenSrc
<1>3. /\ goal.op = "copy" /\ Depth = 1 /\ DOMAIN Top = Fields /\ Copying(Top)
      /\ Top.path \in Paths \cup {Root} /\ Top.to \in Paths \cup {Root}
  BY <1>1, CopyFacts
<1>4. TreeOK' BY <1>0, <1>1, <1>2, TreeStep
<1>5. CASE OpenStatus(Top.path) # "none" /\ CopyFails(OpenStatus(Top.path)) /\ UNCHANGED handles
  BY <1>1, <1>2, <1>5, CopyFailing
<1>6. OpenStatus(Top.path) = "none" => Top.path # Root BY DEF OpenStatus, Kind
<1>7. CASE /\ OpenStatus(Top.path) = "none" /\ handles' = handles \cup {Top.path}
           /\ Top.pc = "openFile" /\ Goto("move")
  <2>1. PICK f : f = [Top EXCEPT !.pc = "move"] /\ Become(f) BY <1>7, Zenon DEF Goto
  <2>2. /\ DOMAIN f = Fields /\ f.op = "copy" /\ f.path = Top.path /\ f.to = Top.to /\ f.n = Top.n
        /\ f.err = Top.err /\ f.pc = "move"
    BY <1>1, <1>3, <2>1 DEF Fields
  <2>3. f.to = Root /\ f.n = 0 BY <1>3, <1>7, <2>2 DEF Copying
  <2>4. SourceLen(f.path)' \in Nat BY <1>3, <1>4, <2>2, TreeAssumption DEF SourceLen, TreeOK
  <2>5. Copying(f)' BY <2>2, <2>3, <2>4 DEF Copying
  <2>6. Top.path \in Holds(f) /\ Holds(Top) = {} BY <1>1, <1>6, <1>7, <2>2 DEF Holds
  <2>7. QED BY <1>1, <1>2, <1>4, <1>7, <2>1, <2>2, <2>5, <2>6, CopyKeeps
<1>8. CASE /\ OpenStatus(Top.path) = "none" /\ handles' = handles \cup {Top.path}
           /\ Call([Top EXCEPT !.pc = "statted"], Frame("stat", "basic", Top.path))
  <2>1. PICK f, g : /\ f = [Top EXCEPT !.pc = "statted"] /\ g = Frame("stat", "basic", Top.path)
                    /\ Call(f, g)
    BY <1>8, Zenon
  <2>2. /\ DOMAIN f = Fields /\ f.op = "copy" /\ f.path = Top.path /\ f.to = Top.to /\ f.n = Top.n
        /\ f.err = Top.err /\ f.pc = "statted"
    BY <1>1, <1>3, <2>1 DEF Fields
  <2>3. DOMAIN g = Fields /\ g.op = "stat" BY <2>1 DEF Frame, Fields
  <2>4. Pushed(f, g) BY <1>0, <1>1, <2>1, <2>2, <2>3, CallStep
  <2>5. StackOK' /\ Reshaped /\ Len(stack') = 2 /\ stack'[1] = f /\ stack'[2] = g
    BY <1>3, <2>4 DEF Pushed
  <2>6. Top.path \in Holds(f) /\ Holds(Top) = {} BY <1>1, <1>6, <1>8, <2>2 DEF Holds
  <2>7. SearchOK' BY <1>0, <1>1, <1>2, SearchStep
  <2>8. HandlesOK' BY <1>0, <1>1, <1>2, <1>3, <1>8, <2>5, <2>6, HandlesStep
  <2>9. FramesOK' BY <1>2, <1>3, <2>2, <2>3, <2>5 DEF FramesOK
  <2>10. RemoveAllOK' /\ MkdirAllOK' BY <1>2, <1>3 DEF RemoveAllOK, MkdirAllOK
  <2>11. Copying(f)' BY <1>1, <1>3, <2>2 DEF Copying
  <2>12. CopyOK' BY <1>2, <1>3, <2>2, <2>3, <2>5, <2>11 DEF CopyOK
  <2>13. QED BY <1>4, <2>5, <2>7, <2>8, <2>9, <2>10, <2>12 DEF ShareIInv
<1>9. QED BY <1>5, <1>7, <1>8, Zenon DEF CopyOpenSrc

\* A copy knows what its source is.
LEMMA CopyIsStatted ==
  ASSUME ShareIInv, CopyStatted
  PROVE  ShareIInv'
<1> USE DEF noTree, noWalk, noCall, treeVars, At, Idle
<1>0. StackOK /\ TreeOK BY DEF ShareIInv
<1>1. stack # <<>> /\ Top.op = "copy" /\ Top.pc = "statted" BY DEF CopyStatted
<1>2. UNCHANGED <<tree, size, handles, searches, lasting, present, absent, dirs, goal, faulted>>
  BY DEF CopyStatted
<1>3. /\ DOMAIN Top = Fields /\ Copying(Top)
      /\ Top.path \in Paths \cup {Root} /\ Top.to \in Paths \cup {Root}
  BY <1>1, CopyFacts
<1>4. TreeOK' BY <1>0, <1>1, <1>2, TreeStep
<1>5. CASE ret.err # "none" /\ CopyFails(ret.err) BY <1>1, <1>2, <1>5, CopyFailing
<1>6. CASE CopyFails("invalid") BY <1>1, <1>2, <1>6, CopyFailing
<1>7. CASE Goto(IF Top.to = Root THEN "move" ELSE "openDst")
  <2>1. PICK f : f = [Top EXCEPT !.pc = IF Top.to = Root THEN "move" ELSE "openDst"] /\ Become(f)
    BY <1>7, Zenon DEF Goto
  <2>2. /\ DOMAIN f = Fields /\ f.op = "copy" /\ f.path = Top.path /\ f.to = Top.to /\ f.n = Top.n
        /\ f.err = Top.err /\ f.pc = IF Top.to = Root THEN "move" ELSE "openDst"
    BY <1>1, <1>3, <2>1 DEF Fields
  <2>3. f.n = 0 BY <1>1, <1>3, <2>2 DEF Copying
  <2>4. SourceLen(f.path)' \in Nat BY <1>3, <1>4, <2>2, TreeAssumption DEF SourceLen, TreeOK
  <2>5. Copying(f)' BY <2>2, <2>3, <2>4 DEF Copying
  <2>6. Holds(Top) \subseteq Holds(f) BY <1>1, <2>2 DEF Holds
  <2>7. QED BY <1>1, <1>2, <1>4, <2>1, <2>2, <2>5, <2>6, CopyKeeps
<1>8. QED BY <1>5, <1>6, <1>7 DEF CopyStatted

\* A copy creates or truncates its destination.
LEMMA CopyOpensDst ==
  ASSUME ShareIInv, CopyOpenDst
  PROVE  ShareIInv'
<1> USE DEF noWalk, noCall, Answered, At, Idle
<1>0. StackOK /\ TreeOK BY DEF ShareIInv
<1>1. stack # <<>> /\ Top.op = "copy" /\ Top.pc = "openDst" BY DEF CopyOpenDst
<1>2. UNCHANGED <<searches, goal, faulted>> BY DEF CopyOpenDst
<1>3. /\ DOMAIN Top = Fields /\ Copying(Top)
      /\ Top.path \in Paths \cup {Root} /\ Top.to \in Paths \cup {Root}
  BY <1>1, CopyFacts
<1>4. CASE OverwriteStatus(Top.to) # "none"
  <2>1. CopyFails(OverwriteStatus(Top.to)) /\ UNCHANGED <<tree, size, history, handles>>
    BY <1>4 DEF CopyOpenDst
  <2>2. QED BY <1>1, <1>2, <1>4, <2>1, CopyFailing DEF history
<1>5. CASE OverwriteStatus(Top.to) = "none"
  <2>1. Put(Top.to, "file", 0) /\ handles' = handles \cup {Top.to} /\ Goto("move")
    BY <1>5 DEF CopyOpenDst
  <2>2. Top.to # Root BY <1>5 DEF OverwriteStatus, Kind
  <2>3. PICK f : f = [Top EXCEPT !.pc = "move"] /\ Become(f) BY <2>1, Zenon DEF Goto
  <2>4. /\ DOMAIN f = Fields /\ f.op = "copy" /\ f.path = Top.path /\ f.to = Top.to /\ f.n = Top.n
        /\ f.err = Top.err /\ f.pc = "move"
    BY <1>1, <1>3, <2>3 DEF Fields
  <2>5. TreeOK' /\ absent \subseteq absent' BY <1>0, <1>1, <2>1, PutStep
  <2>6. f.n = 0 BY <1>1, <1>3, <2>4 DEF Copying
  <2>7. tree'[Top.to] = "file" /\ size'[Top.to] = 0 BY <1>0, <1>3, <2>1, <2>2 DEF Put, TreeOK
  <2>8. SourceLen(f.path)' \in Nat BY <1>3, <2>4, <2>5, TreeAssumption DEF SourceLen, TreeOK
  <2>9. Copying(f)' BY <2>1, <2>4, <2>6, <2>7, <2>8 DEF Copying
  <2>10. Holds(Top) \subseteq Holds(f) /\ Top.to \in Holds(f) BY <1>1, <2>2, <2>4 DEF Holds
  <2>11. QED BY <1>1, <1>2, <2>1, <2>3, <2>4, <2>5, <2>9, <2>10, CopyKeeps
<1>6. QED BY <1>4, <1>5

\* A buffer is moved, or the source is at its end and the closes follow.
LEMMA CopyMoves ==
  ASSUME ShareIInv, CopyMove
  PROVE  ShareIInv'
<1> USE DEF noWalk, noCall, Answered, At, Idle, history
<1>0. StackOK /\ TreeOK BY DEF ShareIInv
<1>1. stack # <<>> /\ Top.op = "copy" /\ Top.pc = "move" BY DEF CopyMove
<1>2. /\ UNCHANGED <<tree, handles, searches, lasting, present, absent, dirs, goal, faulted>>
      /\ ~ ctxDone /\ ctxDone' = ctxDone
  BY DEF CopyMove
<1>3. /\ DOMAIN Top = Fields /\ Copying(Top)
      /\ Top.path \in Paths \cup {Root} /\ Top.to \in Paths \cup {Root}
  BY <1>1, CopyFacts
<1>4. SourceLen(Top.path) \in Nat /\ Top.n \in Nat
  BY <1>0, <1>3, TreeAssumption DEF SourceLen, TreeOK, Copying
<1>5. CASE Top.n >= SourceLen(Top.path) /\ Goto(Unwind(Top)) /\ UNCHANGED size
  <2>1. PICK f : f = [Top EXCEPT !.pc = Unwind(Top)] /\ Become(f) BY <1>5, Zenon DEF Goto
  <2>2. /\ DOMAIN f = Fields /\ f.op = "copy" /\ f.path = Top.path /\ f.to = Top.to /\ f.n = Top.n
        /\ f.err = Top.err /\ f.pc = Unwind(Top)
    BY <1>1, <1>3, <2>1 DEF Fields
  <2>3. TreeOK' BY <1>0, <1>1, <1>2, <1>5, TreeStep
  <2>4. f.n <= SourceLen(f.path) => f.n = SourceLen(f.path) BY <1>4, <1>5, <2>2
  <2>5. SourceLen(f.path)' = SourceLen(f.path) BY <1>5 DEF SourceLen
  <2>6. Copying(f)' BY <1>1, <1>2, <1>3, <1>5, <2>2, <2>4, <2>5 DEF Copying, Unwind
  <2>7. Holds(Top) \subseteq Holds(f) BY <1>1, <2>2 DEF Holds, Unwind
  <2>8. QED BY <1>1, <1>2, <2>1, <2>2, <2>3, <2>6, <2>7, CopyKeeps
<1>6. CASE /\ ~(Top.n >= SourceLen(Top.path)) /\ Become([Top EXCEPT !.n = Top.n + 1])
           /\ IF Top.to = Root THEN UNCHANGED size ELSE size' = [size EXCEPT ![Top.to] = Top.n + 1]
  <2>1. PICK f : f = [Top EXCEPT !.n = Top.n + 1] /\ Become(f) BY <1>6, Zenon
  <2>2. /\ DOMAIN f = Fields /\ f.op = "copy" /\ f.path = Top.path /\ f.to = Top.to
        /\ f.n = Top.n + 1 /\ f.err = Top.err /\ f.pc = "move"
    BY <1>1, <1>3, <2>1 DEF Fields
  <2>3. f.n \in Nat /\ f.n <= SourceLen(f.path) BY <1>4, <1>6, <2>2
  <2>4. size' \in [Paths -> Nat] BY <1>0, <1>4, <1>6 DEF TreeOK
  <2>5. TreeOK' BY <1>0, <1>1, <1>2, <2>4 DEF TreeOK
  <2>6. f.path # f.to => SourceLen(f.path)' = SourceLen(f.path)
    BY <1>0, <1>3, <1>6, <2>2 DEF SourceLen, TreeOK
  <2>7. f.to # Root => size'[f.to] = f.n BY <1>0, <1>3, <1>6, <2>2 DEF TreeOK
  <2>8. Copying(f)' BY <1>1, <1>2, <1>3, <2>2, <2>3, <2>6, <2>7 DEF Copying
  <2>9. Holds(Top) = Holds(f) BY <1>1, <2>2 DEF Holds
  <2>10. QED BY <1>1, <1>2, <2>1, <2>2, <2>5, <2>8, <2>9, CopyKeeps
<1>7. QED BY <1>5, <1>6 DEF CopyMove, AtEOF, SourceLen

\* The deferred closes, one after the other.
LEMMA CopyCloses ==
  ASSUME ShareIInv, CopyClose
  PROVE  ShareIInv'
<1> USE DEF noWalk, noCall, Answered, At, Idle, history
<1>0. StackOK /\ TreeOK BY DEF ShareIInv
<1>1. stack # <<>> /\ Top.op = "copy" /\ Top.pc \in {"closeDst", "closeSrc"} BY DEF CopyClose
<1>2. UNCHANGED <<tree, size, searches, lasting, present, absent, dirs, goal, faulted>> BY DEF CopyClose
<1>3. DOMAIN Top = Fields /\ Copying(Top) BY <1>1, CopyFacts
<1>4. handles' = handles \ {IF Top.pc = "closeDst" THEN Top.to ELSE Top.path} BY DEF CopyClose
<1>5. PICK f : f = [Top EXCEPT !.pc = Unwind(Top)] /\ Become(f) BY Zenon DEF CopyClose, Goto
<1>6. /\ DOMAIN f = Fields /\ f.op = "copy" /\ f.path = Top.path /\ f.to = Top.to /\ f.n = Top.n
      /\ f.err = Top.err /\ f.pc = Unwind(Top)
  BY <1>1, <1>3, <1>5 DEF Fields
<1>7. TreeOK' BY <1>0, <1>1, <1>2, TreeStep
<1>8. Copying(f)' BY <1>1, <1>2, <1>3, <1>6 DEF Copying, Unwind
<1>9. \A h \in handles' : h \in Holds(Top) => h \in Holds(f)
  BY <1>1, <1>4, <1>6 DEF Holds, Unwind
<1>10. QED BY <1>1, <1>2, <1>4, <1>5, <1>6, <1>7, <1>8, <1>9, CopyKeeps

\* A copy returns, with everything closed.
LEMMA CopyIsDone ==
  ASSUME ShareIInv, CopyDone
  PROVE  ShareIInv'
<1> USE DEF noTree, noWalk, noCall, treeVars, At, Idle
<1>0. StackOK /\ TreeOK /\ SearchOK /\ HandlesOK /\ FramesOK BY DEF ShareIInv
<1>1. stack # <<>> /\ Top.op = "copy" /\ Top.pc = "done" BY DEF CopyDone
<1>2. UNCHANGED <<tree, size, handles, searches, lasting, present, absent, dirs, goal, faulted>>
  BY DEF CopyDone
<1>3. goal.op = "copy" /\ Depth = 1 BY <1>1, CopyFacts
<1>4. Return(Error(Top.err)) BY DEF CopyDone
<1>5. Popped BY <1>0, <1>1, <1>4, ReturnStep
<1>6. StackOK' /\ Reshaped /\ Len(stack') = 0 /\ stack' = <<>>
  BY <1>3, <1>5 DEF Popped, StackOK
<1>7. Holds(Top) = {} BY <1>1 DEF Holds
<1>8. TreeOK' BY <1>0, <1>1, <1>2, TreeStep
<1>9. SearchOK' BY <1>0, <1>1, <1>2, SearchStep
<1>10. HandlesOK' BY <1>0, <1>1, <1>2, <1>3, <1>6, <1>7, HandlesStep
<1>11. FramesOK' BY <1>6 DEF FramesOK
<1>12. RemoveAllOK' /\ MkdirAllOK' /\ CopyOK' BY <1>2, <1>3, <1>6 DEF RemoveAllOK, MkdirAllOK, CopyOK
<1>13. QED BY <1>6, <1>8, <1>9, <1>10, <1>11, <1>12 DEF ShareIInv

-----------------------------------------------------------------------------
(* The other clients, the context and the caller.                          *)

\* Another client creates something, or replaces or removes what this client
\* has neither open nor under search.
LEMMA OtherPuts ==
  ASSUME ShareIInv, stack # <<>>, NEW p \in Paths, NEW k \in {"none", "file", "dir"}, Put(p, k, 0),
         tree[p] = "none" \/ p \notin handles \cup searches,
         UNCHANGED <<handles, searches, shareVars>>
  PROVE  ShareIInv'
<1>0. StackOK /\ TreeOK /\ SearchOK /\ HandlesOK /\ FramesOK /\ RemoveAllOK /\ MkdirAllOK /\ CopyOK
  BY DEF ShareIInv
<1>1. UNCHANGED <<stack, ret, goal, faulted, ctxDone>> BY DEF shareVars
<1>2. TreeOK' /\ absent \subseteq absent' /\ present \subseteq present' /\ dirs \subseteq dirs' BY <1>0, PutStep
<1>3. /\ \A q \in Paths : q # p => tree'[q] = tree[q] /\ size'[q] = size[q]
      /\ lasting' = lasting \ {p}
  BY <1>0 DEF TreeOK, Put
<1>4. StackOK' BY <1>0, <1>1 DEF StackOK
<1>5. SearchOK'
  <2> SUFFICES ASSUME faulted' \cap Broken = {}, NEW q \in searches'
               PROVE  /\ stack' # <<>> /\ Top'.op = "readDir" /\ Top'.pc = "next" /\ Top'.path = q
                      /\ Kind(q)' = "dir"
    BY DEF SearchOK
  <2>1. stack # <<>> /\ Top.op = "readDir" /\ Top.pc = "next" /\ Top.path = q /\ Kind(q) = "dir"
    BY <1>0, <1>1 DEF SearchOK
  <2>2. Kind(q)' = "dir" BY <1>3, <2>1 DEF Kind
  <2>3. Top' = Top BY <1>1 DEF Top
  <2>4. QED BY <1>1, <2>1, <2>2, <2>3
<1>6. HandlesOK' BY <1>0, <1>1 DEF HandlesOK
<1>7. FramesOK' BY <1>0, <1>1 DEF FramesOK
<1>8. RemoveAllOK' BY <1>0, <1>1, <1>2 DEF RemoveAllOK
<1>9. MkdirAllOK' BY <1>0, <1>1, <1>2 DEF MkdirAllOK, Reached
<1>10. CopyOK'
  <2> SUFFICES ASSUME goal.op = "copy" PROVE CopyOK' BY <1>1 DEF CopyOK
  <2>1. PICK f : f = stack[1] OBVIOUS
  <2>2. f.path \in Paths \cup {Root} /\ f.to \in Paths \cup {Root} /\ Copying(f) BY <1>0, <2>1 DEF CopyOK
  <2>3. f.path \in lasting' \cup {Root} => f.path \in lasting \cup {Root} /\ SourceLen(f.path)' = SourceLen(f.path)
    BY <1>3, <2>2 DEF SourceLen
  <2>4. f.pc \in {"move", "closeDst"} /\ f.to \in handles \ {Root} =>
            tree'[f.to] = tree[f.to] /\ size'[f.to] = size[f.to]
    BY <1>3, <2>2 DEF Copying
  <2>5. Copying(f)' BY <1>1, <2>2, <2>3, <2>4 DEF Copying
  <2>6. stack'[1] = f BY <1>1, <2>1
  <2>7. QED BY <1>0, <1>1, <2>1, <2>5, <2>6 DEF CopyOK
<1>11. QED BY <1>2, <1>4, <1>5, <1>6, <1>7, <1>8, <1>9, <1>10 DEF ShareIInv

\* A step that changes nothing the invariant speaks of.
LEMMA IdleStep ==
  ASSUME ShareIInv,
         UNCHANGED <<tree, size, handles, searches, lasting, present, absent, dirs, stack, ret, goal, faulted>>,
         ctxDone => ctxDone'
  PROVE  ShareIInv'
<1>0. StackOK /\ TreeOK /\ SearchOK /\ HandlesOK /\ FramesOK /\ RemoveAllOK /\ MkdirAllOK /\ CopyOK
  BY DEF ShareIInv
<1>1. StackOK' BY <1>0 DEF StackOK
<1>2. TreeOK' BY <1>0 DEF TreeOK
<1>3. SearchOK' BY <1>0 DEF SearchOK, Top, Kind
<1>4. HandlesOK' BY <1>0 DEF HandlesOK
<1>5. FramesOK' BY <1>0 DEF FramesOK
<1>6. RemoveAllOK' /\ MkdirAllOK' BY <1>0 DEF RemoveAllOK, MkdirAllOK, Reached
<1>7. CopyOK' BY <1>0 DEF CopyOK, Copying, SourceLen
<1>8. QED BY <1>1, <1>2, <1>3, <1>4, <1>5, <1>6, <1>7 DEF ShareIInv

\* The server carries out a request whose caller is not told: the calls stay as
\* they are, and it is enough to look at the server's side.
LEMMA UnheardStep ==
  ASSUME ShareIInv, stack # <<>>, UNCHANGED <<stack, ret, goal>>, faulted \subseteq faulted',
         TreeOK', absent \subseteq absent', present \subseteq present', dirs \subseteq dirs',
         handles' \subseteq handles \/ "handle" \in faulted', SearchOK', CopyOK'
  PROVE  ShareIInv'
<1>0. StackOK /\ HandlesOK /\ FramesOK /\ RemoveAllOK /\ MkdirAllOK BY DEF ShareIInv
<1>1. StackOK' BY <1>0 DEF StackOK
<1>2. HandlesOK' BY <1>0 DEF HandlesOK, Closes
<1>3. FramesOK' BY <1>0 DEF FramesOK
<1>4. RemoveAllOK' BY <1>0 DEF RemoveAllOK
<1>5. MkdirAllOK' BY <1>0 DEF MkdirAllOK, Reached
<1>6. QED BY <1>1, <1>2, <1>3, <1>4, <1>5 DEF ShareIInv

\* A call that is no listing has no search open, and opens none.
LEMMA UnheardSearch ==
  ASSUME SearchOK, stack # <<>>, searches' = searches, faulted \subseteq faulted', Top.op # "readDir"
  PROVE  SearchOK'
BY DEF SearchOK

\* A request of a call inside another one says nothing of a copy.
LEMMA UnheardCopy ==
  ASSUME ShareIInv, stack # <<>>, UNCHANGED <<stack, goal>>, Top.op \notin {"copy", "stat"}
  PROVE  CopyOK'
<1>0. StackOK /\ CopyOK BY DEF ShareIInv
<1>1. Depth \in Nat /\ Depth > 0 BY <1>0, StackFacts
<1>2. goal.op # "copy"
  <2> SUFFICES ASSUME goal.op = "copy" PROVE FALSE OBVIOUS
  <2>1. stack[1].op = "copy" /\ (Depth > 1 => Depth = 2 /\ stack[2].op = "stat")
    BY <1>0 DEF CopyOK, Depth
  <2>2. CASE Depth = 1 BY <2>1, <2>2 DEF Top, Depth
  <2>3. CASE Depth > 1 BY <2>1, <2>3 DEF Top, Depth
  <2>4. QED BY <1>1, <2>2, <2>3
<1>3. QED BY <1>2 DEF CopyOK

\* A copy that is the only call under way stays one.
LEMMA SameCopy ==
  ASSUME ShareIInv, stack # <<>>, Top.op = "copy", UNCHANGED <<stack, goal>>, NEW f, f = stack[1], Copying(f)'
  PROVE  CopyOK'
<1>1. goal.op = "copy" /\ Depth = 1 /\ CopyOK BY CopyFacts DEF ShareIInv
<1>2. stack'[1] = f /\ stack' = stack /\ Len(stack') = 1 BY <1>1 DEF Depth
<1>3. QED BY <1>1, <1>2 DEF CopyOK

\* A copy that has opened no destination has moved nothing.
LEMMA EarlyCopy ==
  ASSUME ShareIInv, stack # <<>>, Top.op = "copy", UNCHANGED <<stack, goal>>,
         Top.pc \in {"openSrc", "openFile", "openDst"}
  PROVE  CopyOK'
<1>1. PICK f : f = stack[1] OBVIOUS
<1>2. Top = f /\ Copying(f) BY <1>1, CopyFacts
<1>3. Copying(f)' BY <1>2 DEF Copying
<1>4. QED BY <1>1, <1>3, SameCopy

\* The requests that open something.
LEMMA OpenedStep ==
  ASSUME ShareIInv, OpenedUnheard, ctxDone' = TRUE, UNCHANGED <<stack, ret, goal>>
  PROVE  ShareIInv'
<1> USE DEF At, Idle
<1>0. StackOK /\ TreeOK /\ SearchOK /\ HandlesOK BY DEF ShareIInv
<1>1. CASE /\ At("readDir", "first") /\ faulted' = faulted \cup {"search"}
           /\ UNCHANGED <<tree, size, history, handles>>
  <2>1. stack # <<>> /\ Top.op = "readDir" BY <1>1
  <2>2. UNCHANGED <<tree, size, lasting, present, absent, dirs, handles>> BY <1>1 DEF history
  <2>3. TreeOK' BY <1>0, <2>1, <2>2, TreeStep
  <2>4. SearchOK' BY <1>1 DEF SearchOK, Broken
  <2>5. CopyOK' BY <2>1, UnheardCopy
  <2>6. QED BY <1>1, <2>1, <2>2, <2>3, <2>4, <2>5, UnheardStep
<1>2. CASE /\ At("remove", "open") /\ Opened(Top.path) /\ UNCHANGED <<tree, size, history, searches>>
  <2>1. stack # <<>> /\ Top.op = "remove" BY <1>2
  <2>2. /\ UNCHANGED <<tree, size, lasting, present, absent, dirs, searches>>
        /\ faulted \subseteq faulted' /\ "handle" \in faulted'
    BY <1>2 DEF history, Opened
  <2>3. TreeOK' BY <1>0, <2>1, <2>2, TreeStep
  <2>4. SearchOK' BY <1>0, <2>1, <2>2, UnheardSearch
  <2>5. CopyOK' BY <2>1, UnheardCopy
  <2>6. QED BY <2>1, <2>2, <2>3, <2>4, <2>5, UnheardStep
<1>3. CASE /\ At("copy", "openSrc") \/ At("copy", "openFile")
           /\ Opened(Top.path) /\ UNCHANGED <<tree, size, history, searches>>
  <2>1. stack # <<>> /\ Top.op = "copy" /\ Top.pc \in {"openSrc", "openFile"} BY <1>3
  <2>2. /\ UNCHANGED <<tree, size, lasting, present, absent, dirs, searches>>
        /\ faulted \subseteq faulted' /\ "handle" \in faulted'
    BY <1>3 DEF history, Opened
  <2>3. TreeOK' BY <1>0, <2>1, <2>2, TreeStep
  <2>4. SearchOK' BY <1>0, <2>1, <2>2, UnheardSearch
  <2>5. CopyOK' BY <2>1, EarlyCopy
  <2>6. QED BY <2>1, <2>2, <2>3, <2>4, <2>5, UnheardStep
<1>4. CASE At("mkdir", "create") /\ Put(Top.path, "dir", 0) /\ Opened(Top.path) /\ UNCHANGED searches
  <2>1. stack # <<>> /\ Top.op = "mkdir" BY <1>4
  <2>2. searches' = searches /\ faulted \subseteq faulted' /\ "handle" \in faulted' BY <1>4 DEF Opened
  <2>3. TreeOK' /\ absent \subseteq absent' /\ present \subseteq present' /\ dirs \subseteq dirs'
    BY <1>0, <1>4, <2>1, PutStep
  <2>4. SearchOK' BY <1>0, <2>1, <2>2, UnheardSearch
  <2>5. CopyOK' BY <2>1, UnheardCopy
  <2>6. QED BY <2>1, <2>2, <2>3, <2>4, <2>5, UnheardStep
<1>5. CASE At("copy", "openDst") /\ Put(Top.to, "file", 0) /\ Opened(Top.to) /\ UNCHANGED searches
  <2>1. stack # <<>> /\ Top.op = "copy" /\ Top.pc = "openDst" BY <1>5
  <2>2. searches' = searches /\ faulted \subseteq faulted' /\ "handle" \in faulted' BY <1>5 DEF Opened
  <2>3. TreeOK' /\ absent \subseteq absent' /\ present \subseteq present' /\ dirs \subseteq dirs'
    BY <1>0, <1>5, <2>1, PutStep
  <2>4. SearchOK' BY <1>0, <2>1, <2>2, UnheardSearch
  <2>5. CopyOK' BY <2>1, EarlyCopy
  <2>6. QED BY <2>1, <2>2, <2>3, <2>4, <2>5, UnheardStep
<1>6. QED BY <1>1, <1>2, <1>3, <1>4, <1>5, Zenon DEF OpenedUnheard

\* The requests that close, write, remove or move something.
LEMMA DoneStep ==
  ASSUME ShareIInv, DoneUnheard, ctxDone' = TRUE, UNCHANGED <<stack, ret, goal>>
  PROVE  ShareIInv'
<1> USE DEF At, Idle
<1>0. StackOK /\ TreeOK /\ SearchOK /\ FramesOK BY DEF ShareIInv
<1>1. CASE /\ At("readDir", "next") /\ AtEndOfSearch(Top.path)
           /\ UNCHANGED <<tree, size, history, handles, faulted>>
  <2>1. stack # <<>> /\ Top.op = "readDir" BY <1>1
  <2>2. UNCHANGED <<tree, size, lasting, present, absent, dirs, handles, faulted>> /\ searches' \subseteq searches
    BY <1>1 DEF history, AtEndOfSearch
  <2>3. TreeOK' BY <1>0, <2>1, <2>2, TreeStep
  <2>4. SearchOK' BY <1>0, <2>2 DEF SearchOK, Top, Kind
  <2>5. CopyOK' BY <2>1, UnheardCopy
  <2>6. QED BY <2>1, <2>2, <2>3, <2>4, <2>5, UnheardStep
<1>2. CASE At("remove", "close") /\ Put(Top.path, "none", 0) /\ Closed(Top.path) /\ UNCHANGED searches
  <2>1. stack # <<>> /\ Top.op = "remove" BY <1>2
  <2>2. UNCHANGED <<searches, faulted>> /\ handles' \subseteq handles BY <1>2 DEF Closed
  <2>3. TreeOK' /\ absent \subseteq absent' /\ present \subseteq present' /\ dirs \subseteq dirs'
    BY <1>0, <1>2, <2>1, PutStep
  <2>4. SearchOK' BY <1>0, <2>1, <2>2, UnheardSearch
  <2>5. CopyOK' BY <2>1, UnheardCopy
  <2>6. QED BY <2>1, <2>2, <2>3, <2>4, <2>5, UnheardStep
<1>3. CASE At("removeDir", "delete") /\ Put(Top.path, "none", 0) /\ UNCHANGED <<handles, searches, faulted>>
  <2>1. stack # <<>> /\ Top.op = "removeDir" BY <1>3
  <2>2. UNCHANGED <<searches, faulted, handles>> BY <1>3
  <2>3. TreeOK' /\ absent \subseteq absent' /\ present \subseteq present' /\ dirs \subseteq dirs'
    BY <1>0, <1>3, <2>1, PutStep
  <2>4. SearchOK' BY <1>0, <2>1, <2>2, UnheardSearch
  <2>5. CopyOK' BY <2>1, UnheardCopy
  <2>6. QED BY <2>1, <2>2, <2>3, <2>4, <2>5, UnheardStep
<1>4. CASE At("mkdir", "close") /\ (\E p : Closed(p)) /\ UNCHANGED <<tree, size, history, searches>>
  <2>1. stack # <<>> /\ Top.op = "mkdir" BY <1>4
  <2>2. /\ UNCHANGED <<tree, size, lasting, present, absent, dirs, searches, faulted>>
        /\ handles' \subseteq handles
    BY <1>4 DEF history, Closed
  <2>3. TreeOK' BY <1>0, <2>1, <2>2, TreeStep
  <2>4. SearchOK' BY <1>0, <2>1, <2>2, UnheardSearch
  <2>5. CopyOK' BY <2>1, UnheardCopy
  <2>6. QED BY <2>1, <2>2, <2>3, <2>4, <2>5, UnheardStep
<1>5. CASE /\ At("copy", "closeDst") \/ At("copy", "closeSrc")
           /\ (\E p : Closed(p)) /\ UNCHANGED <<tree, size, history, searches>>
  <2>1. stack # <<>> /\ Top.op = "copy" /\ Top.pc \in {"closeDst", "closeSrc"} BY <1>5
  <2>2. /\ UNCHANGED <<tree, size, lasting, present, absent, dirs, searches, faulted>>
        /\ handles' \subseteq handles
    BY <1>5 DEF history, Closed
  <2>3. TreeOK' BY <1>0, <2>1, <2>2, TreeStep
  <2>4. SearchOK' BY <1>0, <2>1, <2>2, UnheardSearch
  <2>5. PICK f : f = stack[1] OBVIOUS
  <2>6. Top = f /\ goal.op = "copy" /\ Depth = 1 /\ Copying(f) BY <2>1, <2>5, CopyFacts
  <2>7. Copying(f)' BY <2>1, <2>2, <2>6 DEF Copying, SourceLen
  <2>8. CopyOK' BY <2>5, <2>7, SameCopy, <2>6, <2>1
  <2>9. QED BY <2>1, <2>2, <2>3, <2>4, <2>8, UnheardStep
<1>6. CASE /\ At("copy", "move") /\ Top.to # Root
           /\ size' = [size EXCEPT ![Top.to] = Top.n + 1]
           /\ UNCHANGED <<tree, history, handles, searches, faulted>>
  <2>1. stack # <<>> /\ Top.op = "copy" /\ Top.pc = "move" BY <1>6
  <2>2. UNCHANGED <<tree, lasting, present, absent, dirs, searches, faulted, handles>> BY <1>6 DEF history
  <2>3. PICK f : f = stack[1] OBVIOUS
  <2>4. /\ Top = f /\ goal.op = "copy" /\ Depth = 1 /\ Copying(f)
        /\ f.path \in Paths \cup {Root} /\ f.to \in Paths \cup {Root}
    BY <2>1, <2>3, CopyFacts
  <2>5. f.n \in Nat /\ f.pc = "move" BY <2>1, <2>4 DEF Copying
  <2>6. size' \in [Paths -> Nat] BY <1>0, <1>6, <2>4, <2>5 DEF TreeOK
  <2>7. TreeOK' BY <1>0, <2>1, <2>2, <2>6 DEF TreeOK
  <2>8. SearchOK' BY <1>0, <2>1, <2>2, UnheardSearch
  <2>9. f.path # f.to => SourceLen(f.path)' = SourceLen(f.path)
    BY <1>0, <1>6, <2>4 DEF SourceLen, TreeOK
  <2>10. Copying(f)' BY <2>2, <2>4, <2>5, <2>9 DEF Copying
  <2>11. CopyOK' BY <2>1, <2>3, <2>4, <2>10, SameCopy
  <2>12. QED BY <2>1, <2>2, <2>7, <2>8, <2>11, UnheardStep
<1>7. CASE /\ At("rename", "send") /\ RenameStatus(Top.path, Top.to) = "none"
           /\ Move(Top.path, Top.to) /\ UNCHANGED <<handles, searches, faulted>>
  <2>1. stack # <<>> /\ Top.op = "rename" BY <1>7
  <2>2. UNCHANGED <<searches, faulted, handles>> BY <1>7
  <2>3. Depth \in Nat /\ Depth > 0 BY <1>0, <2>1, StackFacts
  <2>4. Top.path \in Paths /\ Top.to \in Paths BY <1>0, <2>1, <2>3 DEF FramesOK, Top, Depth
  <2>5. tree[Top.path] # "none" /\ Top.path # Top.to BY <1>7, <2>4, RenameMoves
  <2>6. TreeOK' /\ absent \subseteq absent' /\ present \subseteq present' /\ dirs \subseteq dirs'
    BY <1>0, <1>7, <2>1, <2>4, <2>5, MoveStep
  <2>7. SearchOK' BY <1>0, <2>1, <2>2, UnheardSearch
  <2>8. CopyOK' BY <2>1, UnheardCopy
  <2>9. QED BY <2>1, <2>2, <2>6, <2>7, <2>8, UnheardStep
<1>8. QED BY <1>1, <1>2, <1>3, <1>4, <1>5, <1>6, <1>7, Zenon DEF DoneUnheard

\* A reply is lost to an ended context.
LEMMA LostStep ==
  ASSUME ShareIInv, ReplyLost
  PROVE  ShareIInv'
BY OpenedStep, DoneStep DEF ReplyLost

\* Other clients, a server that refuses, the end of the context and a reply that
\* is lost to it.
LEMMA EnvironmentStep ==
  ASSUME ShareIInv, Environment
  PROVE  ShareIInv'
<1>1. CASE Others /\ ~ Idle /\ UNCHANGED shareVars
  <2>1. stack # <<>> BY <1>1 DEF Idle
  <2>2. PICK p \in Paths : OtherCreates(p) \/ OtherRemoves(p) \/ OtherHolds(p) \/ OtherReleases(p)
    BY <1>1 DEF Others
  <2>3. CASE OtherCreates(p)
    <3>1. PICK k \in {"file", "dir"} : Put(p, k, 0) BY <2>3 DEF OtherCreates
    <3>2. QED BY <1>1, <2>1, <2>3, <3>1, OtherPuts DEF OtherCreates
  <2>4. CASE OtherRemoves(p)
    <3>1. PICK k \in {"none", "file", "dir"} : Put(p, k, 0) BY <2>4 DEF OtherRemoves
    <3>2. QED BY <1>1, <2>1, <2>4, <3>1, OtherPuts DEF OtherRemoves
  <2>5. CASE OtherHolds(p) \/ OtherReleases(p)
    BY <1>1, <2>5, IdleStep DEF OtherHolds, OtherReleases, history, shareVars
  <2>6. QED BY <2>2, <2>3, <2>4, <2>5
<1>2. CASE RequestDenied
  <2>1. Requesting /\ FailWith("denied") /\ UNCHANGED <<tree, size, handles, searches, lasting, present, absent, dirs, goal>>
    BY <1>2 DEF RequestDenied, history
  <2>2. QED BY <2>1, FailStep, CopyFailStep
<1>3. CASE EndContext
  BY <1>3, IdleStep DEF EndContext, noTree, treeVars
<1>4. CASE ReplyLost BY <1>4, LostStep
<1>5. QED BY <1>1, <1>2, <1>3, <1>4 DEF Environment

\* A call begins with nothing open but what failed closes have left.
LEMMA StartStep ==
  ASSUME ShareIInv, NEW op, NEW pc, NEW path, NEW to, Start(op, pc, path, to),
         op = "removeAll" => path \in Paths /\ pc # "exists",
         op = "mkdirAll" => path \in Paths,
         op = "rename" => path \in Paths /\ to \in Paths,
         op = "copy" => /\ path \in Paths \cup {Root} /\ to \in Paths \cup {Root}
                        /\ pc \in {"openSrc", "openFile", "openDst"}
                        /\ pc = "openFile" => to = Root
  PROVE  ShareIInv'
<1>0. TreeOK /\ SearchOK /\ HandlesOK BY DEF ShareIInv
<1>1. stack = <<>> /\ UNCHANGED <<tree, size, handles, searches, faulted>> BY DEF Start, Idle
<1>2. PICK f : f = [Frame(op, pc, path) EXCEPT !.to = to] /\ stack' = <<f>> BY Zenon DEF Start
<1>3. /\ DOMAIN f = Fields /\ f.op = op /\ f.pc = pc /\ f.path = path /\ f.to = to /\ f.n = 0
  BY <1>2 DEF Frame, Fields
<1>4. goal' = [op |-> op, path |-> path, to |-> to] /\ ret' = Nothing BY DEF Start
<1>5. goal'.op = op /\ goal'.path = path BY <1>4
<1>6. stack' # <<>> /\ Len(stack') = 1 /\ stack'[1] = f BY <1>2
<1>7. StackOK'
  <2>1. stack' \in Seq({f}) BY <1>2
  <2>2. stack' \in Seq(Range(stack')) BY <2>1, OwnRange
  <2>3. QED BY <1>3, <1>6, <2>2 DEF StackOK
<1>8. TreeOK' BY <1>0, <1>1 DEF TreeOK, Start, StartHistory
<1>9. SearchOK' BY <1>0, <1>1 DEF SearchOK
<1>10. HandlesOK' BY <1>0, <1>1 DEF HandlesOK
<1>11. FramesOK' BY <1>3, <1>5, <1>6 DEF FramesOK
<1>12. RemoveAllOK' BY <1>3, <1>5, <1>6 DEF RemoveAllOK
<1>13. MkdirAllOK'
  <2> SUFFICES ASSUME op = "mkdirAll" PROVE MkdirAllOK' BY <1>5 DEF MkdirAllOK
  <2>1. Len(path) \in Nat BY TreeAssumption
  <2>2. QED BY <1>3, <1>5, <1>6, <2>1 DEF MkdirAllOK
<1>14. CopyOK'
  <2> SUFFICES ASSUME op = "copy" PROVE CopyOK' BY <1>5 DEF CopyOK
  <2>1. Copying(f)' BY <1>3 DEF Copying
  <2>2. QED BY <1>3, <1>6, <2>1 DEF CopyOK
<1>15. QED BY <1>7, <1>8, <1>9, <1>10, <1>11, <1>12, <1>13, <1>14 DEF ShareIInv

\* A call of the public API.
LEMMA CallsStep ==
  ASSUME ShareIInv, Calls
  PROVE  ShareIInv'
<1>1. CASE \E p \in Paths : RemoveCall(p) \/ RemoveAllCall(p) \/ MkdirCall(p) \/ MkdirAllCall(p)
  BY <1>1, StartStep DEF RemoveCall, RemoveAllCall, MkdirCall, MkdirAllCall
<1>2. CASE \E p \in Paths : ReadFileCall(p)
  BY <1>2, StartStep DEF ReadFileCall
<1>3. CASE \E p, q \in Paths : RenameCall(p, q)
  BY <1>3, StartStep DEF RenameCall
<1>4. CASE \E p, q \in Paths \cup {Root} : CopyCall(p, q)
  BY <1>4, StartStep DEF CopyCall
<1>5. CASE \E p \in Paths \cup {Root} : WalkCall(p) \/ DirFSCall(p)
  BY <1>5, StartStep DEF WalkCall, DirFSCall
<1>6. CASE \E pattern \in Patterns : GlobCall(pattern)
  BY <1>6, StartStep DEF GlobCall
<1>7. QED BY <1>1, <1>2, <1>3, <1>4, <1>5, <1>6 DEF Calls

-----------------------------------------------------------------------------
(* The theorems.                                                           *)

\* A step of the client, one case per operation.
LEMMA ClientStep ==
  ASSUME ShareIInv, Step
  PROVE  ShareIInv'
<1>1. CASE RequestRefused
  <2>1. Requesting /\ FailWith("ctx") /\ UNCHANGED <<tree, size, handles, searches, lasting, present, absent, dirs, goal>>
    BY <1>1 DEF RequestRefused, noTree, treeVars
  <2>2. QED BY <2>1, FailStep, CopyFailStep
<1>2. CASE StatBasic \/ StatStandard BY <1>2, StatStep
<1>3. CASE Find BY <1>3, FindStep
<1>4. CASE RemoveStat \/ RemoveKind BY <1>4, RemoveStep
<1>5. CASE RemoveOpen BY <1>5, RemoveOpens
<1>6. CASE RemoveClose BY <1>6, RemoveCloses
<1>7. CASE RemoveDir BY <1>7, RemoveDirStep
<1>8. CASE RemoveDirSleep BY <1>8, RemoveDirSleeps
<1>9. CASE RemoveAllExists \/ RemoveAllIsDir \/ RemoveAllList \/ RemoveAllListed \/ RemoveAllChild
  BY <1>9, RemoveAllSteps
<1>10. CASE MkdirCreate BY <1>10, MkdirCreates
<1>11. CASE MkdirClose BY <1>11, MkdirCloses
<1>12. CASE MkdirAllNext BY <1>12, MkdirAllNexts
<1>13. CASE RenameSend BY <1>13, RenameSends
<1>14. CASE WalkStat \/ WalkStatted \/ WalkEnd BY <1>14, WalkStep
<1>15. CASE VisitFn \/ VisitListed \/ VisitEntry BY <1>15, VisitStep
<1>16. CASE GlobBegin \/ GlobLiteral \/ GlobDirs \/ GlobGather \/ GlobDirStep BY <1>16, GlobStep
<1>17. CASE CopyOpenSrc BY <1>17, CopyOpensSrc
<1>18. CASE CopyStatted BY <1>18, CopyIsStatted
<1>19. CASE CopyOpenDst BY <1>19, CopyOpensDst
<1>20. CASE CopyMove BY <1>20, CopyMoves
<1>21. CASE CopyClose BY <1>21, CopyCloses
<1>22. CASE CopyDone BY <1>22, CopyIsDone
<1>23. CASE DirFSLoad \/ DirFSLoaded \/ DirFSPage BY <1>23, DirFSStep
<1>24. QED
  BY <1>1, <1>2, <1>3, <1>4, <1>5, <1>6, <1>7, <1>8, <1>9, <1>10, <1>11, <1>12, <1>13, <1>14, <1>15,
     <1>16, <1>17, <1>18, <1>19, <1>20, <1>21, <1>22, <1>23, Zenon DEF Step

\* The invariant holds when nothing has been called.
LEMMA ShareInit ==
  Init => ShareIInv
<1> SUFFICES ASSUME Init PROVE ShareIInv OBVIOUS
<1>1. stack = <<>> /\ handles = {} /\ searches = {} /\ goal.op = "none" BY DEF Init, TreeInit, NoGoal
<1>2. StackOK
  <2>1. stack \in Seq({0}) /\ Len(stack) = 0 BY <1>1
  <2>2. QED BY <2>1, OwnRange DEF StackOK
<1>3. size = [p \in Paths |-> IF tree[p] = "file" THEN FileLen ELSE 0] BY DEF Init, TreeInit
<1>4. size \in [Paths -> Nat] BY <1>3, TreeAssumption
<1>5. TreeOK BY <1>1, <1>4 DEF TreeOK, Init, TreeInit
<1>6. SearchOK /\ HandlesOK /\ FramesOK BY <1>1 DEF SearchOK, HandlesOK, FramesOK
<1>7. RemoveAllOK /\ MkdirAllOK /\ CopyOK BY <1>1 DEF RemoveAllOK, MkdirAllOK, CopyOK
<1>8. QED BY <1>2, <1>5, <1>6, <1>7 DEF ShareIInv

\* The invariant holds in every reachable state: what each call of session.go
\* has open and where, and how far RemoveAll, MkdirAll and the copies have come.
THEOREM ShareInvariant == Spec => []ShareIInv
<1>1. Init => ShareIInv BY ShareInit
<1>2. ASSUME ShareIInv, [Next]_vars PROVE ShareIInv'
  <2>1. CASE UNCHANGED vars BY <1>2, <2>1, IdleStep DEF vars, treeVars, shareVars
  <2>2. CASE Next BY <1>2, <2>2, CallsStep, ClientStep, EnvironmentStep DEF Next
  <2>3. QED BY <1>2, <2>1, <2>2
<1>3. QED BY <1>1, <1>2, PTL DEF Spec

\* RemoveAll, MkdirAll and the copies of session.go return a nil error only when
\* the path was missing, when what is above the path was a directory and the path
\* was there, and when the whole of the source was moved, whatever others do to
\* the tree meanwhile.
THEOREM NilIsDone == Spec => []NilMeansDone
<1>1. ASSUME ShareIInv PROVE NilMeansDone
  <2>0. RemoveAllOK /\ MkdirAllOK BY <1>1 DEF ShareIInv
  <2>1. Finished("removeAll") /\ ret.err = "none" => goal.path \in absent
    BY <2>0 DEF RemoveAllOK, Finished, Idle
  <2>2. Finished("mkdirAll") =>
          /\ ret.err # "exist"
          /\ ret.err = "none" =>
                /\ \A i \in 1 .. Len(goal.path) - 1 : SubSeq(goal.path, 1, i) \in dirs
                /\ goal.path \in present
    BY <2>0 DEF MkdirAllOK, Finished, Idle, Prefix
  <2>3. ASSUME ~ Idle, Top.op = "copy", Top.err = "none", Top.path # Top.to,
               (Top.pc = "closeDst" /\ Top.to \in handles) \/ (Top.pc = "closeSrc" /\ Top.to = Root),
               Top.path \in lasting \cup {Root}
        PROVE  (IF Top.to = Root THEN Top.n ELSE size[Top.to])
                  = (IF Top.path = Root THEN FileLen ELSE size[Top.path])
    <3>1. Copying(Top) BY <1>1, <2>3, CopyFacts DEF Idle
    <3>2. QED BY <2>3, <3>1 DEF Copying, SourceLen
  <2>4. QED BY <2>1, <2>2, <2>3 DEF NilMeansDone
<1>2. QED BY <1>1, ShareInvariant, PTL

\* The searches of ReadDir and the handles of Remove, Mkdir and the copies are
\* closed on every path out of a call, unless the request that closes them, or
\* the one that would have ended the search, failed, or the context ended between
\* the request that opened them and its reply.
THEOREM NothingStaysOpen == Spec => []NothingLeftOpen
<1>1. ASSUME ShareIInv PROVE NothingLeftOpen
  <2>0. StackOK /\ SearchOK /\ HandlesOK BY <1>1 DEF ShareIInv
  <2>1. ASSUME faulted \cap Broken = {}, NEW p \in searches
        PROVE  p \in {stack[i].path : i \in {j \in DOMAIN stack : stack[j].op = "readDir"}}
    <3>1. stack # <<>> /\ Top.op = "readDir" /\ Top.path = p BY <2>0, <2>1 DEF SearchOK
    <3>2. Len(stack) \in DOMAIN stack BY <2>0, <3>1 DEF StackOK
    <3>3. QED BY <3>1, <3>2 DEF Top
  <2>2. Idle /\ faulted \cap {"close", "closeDst", "closeSrc", "handle"} = {} => handles = {}
    BY <2>0 DEF HandlesOK, Closes, Idle
  <2>3. QED BY <2>1, <2>2 DEF NothingLeftOpen, Broken
<1>2. QED BY <1>1, ShareInvariant, PTL
=============================================================================
