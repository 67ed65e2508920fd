----------------------------- MODULE PoolProofs -----------------------------
(***************************************************************************)
(* Proofs about Pool for any number of clients and sessions, any limits    *)
(* and with or without a health check.  PoolIInv is inductive: it adds to  *)
(* OneHolder and LimitKept which sessions can be where, on a pool that may *)
(* be closed.                                                              *)
(***************************************************************************)
EXTENDS Pool, FiniteSetTheorems, TLAPS

USE PoolAssumption

\* A closed pool keeps nothing idle.
ClosedIsEmpty == closed => idle = <<>>

\* Whoever deals with a session has one, and it is not logged off.
DealtOpen == \A c \in Clients : Dealing(c) => held[c] \in Sessions /\ conn[held[c]] = "open"

\* No two clients deal with one session.
DistinctHolders == \A c, d \in Clients : c # d /\ Dealing(c) /\ Dealing(d) => held[c] # held[d]

\* What a client deals with is neither idle nor being closed by somebody else.
HeldApart == \A c \in Clients : Dealing(c) => held[c] \notin IdleSet \cup toClose \cup remaining

IdleOnce == \A i, j \in 1 .. Len(idle) : i # j => idle[i] # idle[j]

IdleApart == IdleSet \cap (toClose \cup remaining) = {}

IdleOpen == \A s \in IdleSet : conn[s] = "open"

\* What is to be closed has been dialled, so it cannot be dialled again.
ToCloseDialled == \A s \in toClose \cup remaining : conn[s] # "none"

SessionParts ==
    /\ ClosedIsEmpty
    /\ DealtOpen
    /\ DistinctHolders
    /\ HeldApart
    /\ IdleOnce
    /\ IdleApart
    /\ IdleOpen
    /\ ToCloseDialled

PoolIInv == TypeOK /\ SessionParts /\ LimitKept

-----------------------------------------------------------------------------
(* Lists and counts.                                                       *)

\* A part of a list.
LEMMA SubSeqFacts ==
  ASSUME NEW S, NEW s \in Seq(S), NEW m \in 1 .. Len(s) + 1, NEW n \in m - 1 .. Len(s)
  PROVE  /\ SubSeq(s, m, n) \in Seq(S)
         /\ Len(SubSeq(s, m, n)) = n - m + 1
         /\ \A i \in 1 .. n - m + 1 : SubSeq(s, m, n)[i] = s[m + i - 1]
OBVIOUS

\* How the size of a finite set changes when one element may come or go.
LEMMA OneMoves ==
  ASSUME NEW A, NEW B, NEW c, IsFiniteSet(A), \A d : d # c => (d \in A <=> d \in B)
  PROVE  /\ IsFiniteSet(B) /\ Cardinality(A) \in Nat /\ Cardinality(B) \in Nat
         /\ (c \in A <=> c \in B) => Cardinality(B) = Cardinality(A)
         /\ c \in A /\ c \notin B => Cardinality(B) = Cardinality(A) - 1
         /\ c \notin A /\ c \in B => Cardinality(B) = Cardinality(A) + 1
<1>1. CASE c \in A <=> c \in B
  <2>1. B = A BY <1>1
  <2>2. QED BY <1>1, <2>1, FS_CardinalityType
<1>2. CASE c \in A /\ c \notin B
  <2>1. B = A \ {c} BY <1>2
  <2>2. IsFiniteSet(B) /\ Cardinality(B) = Cardinality(A) - 1 BY <1>2, <2>1, FS_RemoveElement
  <2>3. QED BY <1>2, <2>2, FS_CardinalityType
<1>3. CASE c \notin A /\ c \in B
  <2>1. B = A \cup {c} BY <1>3
  <2>2. IsFiniteSet(B) /\ Cardinality(B) = Cardinality(A) + 1 BY <1>3, <2>1, FS_AddElement
  <2>3. QED BY <1>3, <2>2, FS_CardinalityType
<1>4. QED BY <1>1, <1>2, <1>3

\* The counts p.active accounts for are numbers.
LEMMA CountTypes ==
  ASSUME TypeOK
  PROVE  /\ IsFiniteSet(Using)
         /\ Cardinality(Using) \in Nat /\ Len(idle) \in Nat
<1>1. IsFiniteSet(Using)
  <2>1. Using \in SUBSET Clients BY DEF Using
  <2>2. QED BY <2>1, FS_Subset
<1>2. QED BY <1>1, FS_CardinalityType DEF TypeOK

\* How they change when one client moves on.
LEMMA ClientMoves ==
  ASSUME TypeOK, NEW c \in Clients, NEW l, Goto(c, l)
  PROVE  /\ Cardinality(Using') \in Nat
         /\ (pc[c] \in Counted <=> l \in Counted) => Cardinality(Using') = Cardinality(Using)
         /\ pc[c] \in Counted /\ l \notin Counted => Cardinality(Using') = Cardinality(Using) - 1
         /\ pc[c] \notin Counted /\ l \in Counted => Cardinality(Using') = Cardinality(Using) + 1
<1>1. /\ \A d : d # c => (d \in Using <=> d \in Using')
      /\ c \in Using <=> pc[c] \in Counted
      /\ c \in Using' <=> l \in Counted
  BY DEF TypeOK, Goto, Using, Counted
<1>2. IsFiniteSet(Using) BY CountTypes
<1>3. PICK A, B : A = Using /\ B = Using' OBVIOUS
<1>4. /\ Cardinality(B) \in Nat
      /\ (c \in A <=> c \in B) => Cardinality(B) = Cardinality(A)
      /\ c \in A /\ c \notin B => Cardinality(B) = Cardinality(A) - 1
      /\ c \notin A /\ c \in B => Cardinality(B) = Cardinality(A) + 1
  BY <1>1, <1>2, <1>3, OneMoves
<1>5. QED BY <1>1, <1>3, <1>4

-----------------------------------------------------------------------------
(* The idle list.                                                          *)

\* Get takes the last of the idle list.
LEMMA IdleTaken ==
  ASSUME TypeOK, IdleOnce, idle # <<>>, idle' = SubSeq(idle, 1, Len(idle) - 1)
  PROVE  /\ idle' \in Seq(Sessions) /\ Len(idle) \in Nat \ {0} /\ Len(idle') = Len(idle) - 1
         /\ idle[Len(idle)] \in IdleSet /\ idle[Len(idle)] \in Sessions
         /\ IdleSet' \subseteq IdleSet /\ idle[Len(idle)] \notin IdleSet'
         /\ IdleOnce'
<1>1. idle \in Seq(Sessions) /\ Len(idle) \in Nat \ {0} BY DEF TypeOK
<1>2. 1 \in 1 .. Len(idle) + 1 /\ Len(idle) - 1 \in (1 - 1) .. Len(idle) BY <1>1
<1>3. /\ idle' \in Seq(Sessions)
      /\ Len(idle') = Len(idle) - 1
      /\ \A i \in 1 .. Len(idle) - 1 : idle'[i] = idle[i]
  <2>1. /\ SubSeq(idle, 1, Len(idle) - 1) \in Seq(Sessions)
        /\ Len(SubSeq(idle, 1, Len(idle) - 1)) = Len(idle) - 1 - 1 + 1
        /\ \A i \in 1 .. Len(idle) - 1 - 1 + 1 : SubSeq(idle, 1, Len(idle) - 1)[i] = idle[1 + i - 1]
    BY ZenonT(30), <1>1, <1>2, SubSeqFacts
  <2>2. QED BY <1>1, <2>1
<1>4. Len(idle) \in 1 .. Len(idle) BY <1>1
<1>5. idle[Len(idle)] \in IdleSet /\ idle[Len(idle)] \in Sessions BY <1>1, <1>4 DEF IdleSet
<1>6. \A i \in 1 .. Len(idle') : i \in 1 .. Len(idle) /\ i # Len(idle) /\ idle'[i] = idle[i]
  BY <1>1, <1>3
<1>7. IdleSet' \subseteq IdleSet /\ idle[Len(idle)] \notin IdleSet'
  BY <1>4, <1>6 DEF IdleSet, IdleOnce
<1>8. IdleOnce' BY <1>6 DEF IdleOnce
<1>9. QED BY <1>1, <1>3, <1>5, <1>7, <1>8

\* put appends to it.
LEMMA IdlePut ==
  ASSUME TypeOK, IdleOnce, NEW s \in Sessions, s \notin IdleSet, idle' = Append(idle, s)
  PROVE  /\ idle' \in Seq(Sessions) /\ Len(idle) \in Nat /\ Len(idle') = Len(idle) + 1
         /\ IdleSet' \subseteq IdleSet \cup {s}
         /\ IdleOnce'
<1>1. idle \in Seq(Sessions) /\ Len(idle) \in Nat BY DEF TypeOK
<1>2. /\ idle' \in Seq(Sessions) /\ Len(idle') = Len(idle) + 1 /\ idle'[Len(idle) + 1] = s
      /\ \A i \in 1 .. Len(idle) : idle'[i] = idle[i]
  BY <1>1
<1>3. \A i \in 1 .. Len(idle') : \/ i \in 1 .. Len(idle) /\ idle'[i] = idle[i] /\ idle'[i] # s
                                 \/ i = Len(idle) + 1 /\ idle'[i] = s
  BY <1>1, <1>2 DEF IdleSet
<1>4. IdleSet' \subseteq IdleSet \cup {s} BY <1>3 DEF IdleSet
<1>5. IdleOnce' BY <1>3 DEF IdleOnce
<1>6. QED BY <1>1, <1>2, <1>4, <1>5

\* cleanupExpired takes a prefix of it.
LEMMA IdleExpired ==
  ASSUME TypeOK, IdleOnce, NEW k \in 1 .. Len(idle), idle' = SubSeq(idle, k + 1, Len(idle))
  PROVE  /\ idle' \in Seq(Sessions) /\ Len(idle) \in Nat /\ Len(idle') = Len(idle) - k
         /\ IdleSet' \subseteq IdleSet
         /\ {idle[i] : i \in 1 .. k} \subseteq IdleSet
         /\ IdleSet' \cap {idle[i] : i \in 1 .. k} = {}
         /\ IdleOnce'
<1>1. idle \in Seq(Sessions) /\ Len(idle) \in Nat /\ k \in Nat /\ k <= Len(idle) BY DEF TypeOK
<1>2. k + 1 \in 1 .. Len(idle) + 1 /\ Len(idle) \in (k + 1 - 1) .. Len(idle) BY <1>1
<1>3. /\ idle' \in Seq(Sessions)
      /\ Len(idle') = Len(idle) - k
      /\ \A i \in 1 .. Len(idle) - k : idle'[i] = idle[k + i]
  <2>1. /\ SubSeq(idle, k + 1, Len(idle)) \in Seq(Sessions)
        /\ Len(SubSeq(idle, k + 1, Len(idle))) = Len(idle) - (k + 1) + 1
        /\ \A i \in 1 .. Len(idle) - (k + 1) + 1 : SubSeq(idle, k + 1, Len(idle))[i] = idle[k + 1 + i - 1]
    BY <1>1, <1>2, SubSeqFacts
  <2>2. QED BY <1>1, <2>1
<1>4. \A i \in 1 .. Len(idle') : /\ k + i \in 1 .. Len(idle)
                                 /\ k + i \notin 1 .. k
                                 /\ idle'[i] = idle[k + i]
  BY <1>1, <1>3
<1>5. \A i \in 1 .. k : i \in 1 .. Len(idle) BY <1>1
<1>6. IdleSet' \subseteq IdleSet BY <1>4 DEF IdleSet
<1>7. IdleSet' \cap {idle[i] : i \in 1 .. k} = {} BY <1>4, <1>5 DEF IdleSet, IdleOnce
<1>8. IdleOnce'
  <2> SUFFICES ASSUME NEW i \in 1 .. Len(idle'), NEW j \in 1 .. Len(idle'), i # j
               PROVE  idle'[i] # idle'[j]
    BY DEF IdleOnce
  <2>1. k + i # k + j BY <1>1
  <2>2. QED BY <1>4, <2>1 DEF IdleOnce
<1>9. {idle[i] : i \in 1 .. k} \subseteq IdleSet BY <1>5 DEF IdleSet
<1>10. QED BY <1>1, <1>3, <1>6, <1>7, <1>8, <1>9

-----------------------------------------------------------------------------
(* Who has which session.                                                  *)

\* A step that moves no session.
LEMMA SessionsUntouched ==
  ASSUME SessionParts, UNCHANGED <<idle, closed, conn, toClose, remaining>>,
         \A c \in Clients : Dealing(c)' => Dealing(c) /\ held'[c] = held[c]
  PROVE  SessionParts'
<1>1. IdleSet' = IdleSet BY DEF IdleSet
<1>2. ClosedIsEmpty' /\ IdleOnce' BY DEF SessionParts, ClosedIsEmpty, IdleOnce
<1>3. DealtOpen' /\ DistinctHolders' BY DEF SessionParts, DealtOpen, DistinctHolders
<1>4. HeldApart' BY <1>1 DEF SessionParts, HeldApart
<1>5. IdleApart' /\ IdleOpen' BY <1>1 DEF SessionParts, IdleApart, IdleOpen
<1>6. ToCloseDialled' BY DEF SessionParts, ToCloseDialled
<1>7. QED BY <1>2, <1>3, <1>4, <1>5, <1>6 DEF SessionParts

\* A client logs off the session it deals with and lets go of it.
LEMMA HeldLoggedOff ==
  ASSUME TypeOK, SessionParts, NEW c \in Clients, Dealing(c), LogOff(held[c]), NEW l, Goto(c, l),
         l \in {"out", "get"}, held' = [held EXCEPT ![c] = NoSession],
         UNCHANGED <<idle, closed, toClose, remaining>>
  PROVE  SessionParts'
<1>1. IdleSet' = IdleSet BY DEF IdleSet
<1>2. held[c] \in Sessions /\ conn[held[c]] = "open" BY DEF SessionParts, DealtOpen
<1>3. \A s \in Sessions : conn'[s] = IF s = held[c] THEN "closed" ELSE conn[s]
  BY DEF TypeOK, LogOff
<1>4. \A d \in Clients : Dealing(d)' => Dealing(d) /\ held'[d] = held[d] /\ d # c
  BY DEF TypeOK, Goto, Dealing
<1>5. \A i \in 1 .. Len(idle) : idle[i] \in Sessions BY DEF TypeOK
<1>6. ClosedIsEmpty' /\ IdleOnce' BY DEF SessionParts, ClosedIsEmpty, IdleOnce
<1>7. DealtOpen'
  BY <1>3, <1>4 DEF SessionParts, DealtOpen, DistinctHolders
<1>8. DistinctHolders' BY <1>4 DEF SessionParts, DistinctHolders
<1>9. HeldApart' /\ IdleApart' BY <1>1, <1>4 DEF SessionParts, HeldApart, IdleApart
<1>10. IdleOpen'
  BY <1>1, <1>3, <1>5 DEF SessionParts, IdleOpen, HeldApart, IdleSet
<1>11. ToCloseDialled' BY <1>3 DEF SessionParts, ToCloseDialled, TypeOK
<1>12. QED BY <1>6, <1>7, <1>8, <1>9, <1>10, <1>11 DEF SessionParts

\* The cleanup goroutine or Close logs off a session it took from the idle list.
LEMMA TakenLoggedOff ==
  ASSUME TypeOK, SessionParts, NEW s \in toClose \cup remaining, LogOff(s),
         UNCHANGED <<idle, closed, pc, held>>,
         toClose' \subseteq toClose, remaining' \subseteq remaining
  PROVE  SessionParts'
<1>1. IdleSet' = IdleSet /\ s \in Sessions BY DEF IdleSet, TypeOK
<1>2. \A t \in Sessions : conn'[t] = IF t = s THEN "closed" ELSE conn[t]
  BY DEF TypeOK, LogOff
<1>3. \A d \in Clients : Dealing(d)' <=> Dealing(d) BY DEF Dealing
<1>4. \A i \in 1 .. Len(idle) : idle[i] \in Sessions BY DEF TypeOK
<1>5. ClosedIsEmpty' /\ IdleOnce' BY DEF SessionParts, ClosedIsEmpty, IdleOnce
<1>6. DealtOpen' /\ DistinctHolders'
  BY <1>2, <1>3 DEF SessionParts, DealtOpen, DistinctHolders, HeldApart
<1>7. HeldApart' /\ IdleApart' BY <1>1, <1>3 DEF SessionParts, HeldApart, IdleApart
<1>8. IdleOpen' BY <1>1, <1>2, <1>4 DEF SessionParts, IdleOpen, IdleApart, IdleSet
<1>9. ToCloseDialled'
  BY <1>2 DEF SessionParts, ToCloseDialled, TypeOK
<1>10. QED BY <1>5, <1>6, <1>7, <1>8, <1>9 DEF SessionParts

\* Every step keeps each session with one owner.
LEMMA SessionStep == ASSUME TypeOK, SessionParts, [Next]_vars PROVE SessionParts'
<1> USE DEF poolVars, cleanVars, closeVars
<1>1. ASSUME NEW c \in Clients, GetIdle(c) PROVE SessionParts'
  <2>1. /\ pc[c] = "get" /\ ~closed /\ idle # <<>>
        /\ held' = [held EXCEPT ![c] = idle[Len(idle)]]
        /\ idle' = SubSeq(idle, 1, Len(idle) - 1)
        /\ pc' = [pc EXCEPT ![c] = "testing"]
        /\ UNCHANGED <<closed, conn, toClose, remaining>>
    BY <1>1 DEF GetIdle, Goto
  <2>2. IdleOnce BY DEF SessionParts
  <2>3. /\ idle[Len(idle)] \in IdleSet /\ idle[Len(idle)] \in Sessions
        /\ IdleSet' \subseteq IdleSet /\ idle[Len(idle)] \notin IdleSet'
        /\ IdleOnce'
    BY <2>1, <2>2, IdleTaken
  <2>4. /\ ~Dealing(c) /\ held'[c] = idle[Len(idle)]
        /\ \A d \in Clients : d # c => held'[d] = held[d] /\ (Dealing(d)' <=> Dealing(d))
    BY <2>1 DEF TypeOK, Dealing
  <2>5. ClosedIsEmpty' BY <2>1 DEF ClosedIsEmpty
  <2>6. DealtOpen' BY <2>1, <2>3, <2>4 DEF SessionParts, DealtOpen, IdleOpen
  <2>7. DistinctHolders' BY <2>3, <2>4 DEF SessionParts, DistinctHolders, HeldApart
  <2>8. HeldApart' BY <2>1, <2>3, <2>4 DEF SessionParts, HeldApart, IdleApart
  <2>9. IdleApart' /\ IdleOpen' BY <2>1, <2>3 DEF SessionParts, IdleApart, IdleOpen
  <2>10. ToCloseDialled'
    BY <2>1 DEF SessionParts, ToCloseDialled
  <2>11. QED BY <2>3, <2>5, <2>6, <2>7, <2>8, <2>9, <2>10 DEF SessionParts
<1>2. ASSUME NEW c \in Clients, Discard(c) PROVE SessionParts'
  BY <1>2, HeldLoggedOff DEF Discard, Dealing
<1>3. ASSUME NEW c \in Clients, CreateOK(c) PROVE SessionParts'
  <2>1. PICK s \in Sessions : /\ conn[s] = "none"
                              /\ conn' = [conn EXCEPT ![s] = "open"]
                              /\ held' = [held EXCEPT ![c] = s]
    BY <1>3 DEF CreateOK
  <2>2. /\ pc[c] = "creating" /\ pc' = [pc EXCEPT ![c] = "holding"]
        /\ UNCHANGED <<idle, closed, toClose, remaining>>
    BY <1>3 DEF CreateOK, Goto
  <2>3. /\ ~Dealing(c) /\ held'[c] = s
        /\ \A d \in Clients : d # c => held'[d] = held[d] /\ (Dealing(d)' <=> Dealing(d))
    BY <2>1, <2>2 DEF TypeOK, Dealing
  <2>4. \A t \in Sessions : conn'[t] = IF t = s THEN "open" ELSE conn[t] BY <2>1 DEF TypeOK
  <2>5. IdleSet' = IdleSet /\ s \notin IdleSet \cup toClose \cup remaining
    BY <2>1, <2>2 DEF SessionParts, IdleSet, IdleOpen, ToCloseDialled
  <2>6. \A t \in IdleSet : t \in Sessions BY DEF IdleSet, TypeOK
  <2>7. ClosedIsEmpty' /\ IdleOnce' BY <2>2 DEF SessionParts, ClosedIsEmpty, IdleOnce
  <2>8. DealtOpen' BY <2>3, <2>4 DEF SessionParts, DealtOpen
  <2>9. DistinctHolders' BY <2>1, <2>3 DEF SessionParts, DistinctHolders, DealtOpen
  <2>10. HeldApart' /\ IdleApart' BY <2>2, <2>3, <2>5 DEF SessionParts, HeldApart, IdleApart
  <2>11. IdleOpen' BY <2>4, <2>5, <2>6 DEF SessionParts, IdleOpen
  <2>12. ToCloseDialled'
    BY <2>2, <2>4, <2>5 DEF SessionParts, ToCloseDialled, TypeOK
  <2>13. QED BY <2>7, <2>8, <2>9, <2>10, <2>11, <2>12 DEF SessionParts
<1>4. ASSUME NEW c \in Clients, PutIdle(c) PROVE SessionParts'
  <2>1. /\ pc[c] = "holding" /\ ~closed /\ idle' = Append(idle, held[c])
        /\ held' = [held EXCEPT ![c] = NoSession] /\ pc' = [pc EXCEPT ![c] = "out"]
        /\ UNCHANGED <<closed, conn, toClose, remaining>>
    BY <1>4 DEF PutIdle, Goto
  <2>2. Dealing(c) /\ \A d \in Clients : Dealing(d)' => Dealing(d) /\ held'[d] = held[d] /\ d # c
    BY <2>1 DEF TypeOK, Dealing
  <2>3. /\ held[c] \in Sessions /\ conn[held[c]] = "open"
        /\ held[c] \notin IdleSet \cup toClose \cup remaining
        /\ IdleOnce
    BY <2>2 DEF SessionParts, DealtOpen, HeldApart
  <2>4. IdleSet' \subseteq IdleSet \cup {held[c]} /\ IdleOnce' BY <2>1, <2>3, IdlePut
  <2>5. ClosedIsEmpty' BY <2>1 DEF ClosedIsEmpty
  <2>6. DealtOpen' /\ DistinctHolders' BY <2>1, <2>2 DEF SessionParts, DealtOpen, DistinctHolders
  <2>7. HeldApart' BY <2>1, <2>2, <2>4 DEF SessionParts, HeldApart, DistinctHolders
  <2>8. IdleApart' /\ IdleOpen' BY <2>1, <2>3, <2>4 DEF SessionParts, IdleApart, IdleOpen
  <2>9. ToCloseDialled'
    BY <2>1 DEF SessionParts, ToCloseDialled
  <2>10. QED BY <2>4, <2>5, <2>6, <2>7, <2>8, <2>9 DEF SessionParts
<1>5. ASSUME NEW c \in Clients, CloseHeld(c) PROVE SessionParts'
  BY <1>5, HeldLoggedOff DEF CloseHeld, Dealing
<1>6. ASSUME CleanupExpired PROVE SessionParts'
  <2>1. PICK k \in 1 .. Len(idle) : /\ toClose' = {idle[i] : i \in 1 .. k}
                                    /\ idle' = SubSeq(idle, k + 1, Len(idle))
    BY <1>6 DEF CleanupExpired
  <2>2. toClose = {} /\ UNCHANGED <<closed, pc, held, conn, remaining>>
    BY <1>6 DEF CleanupExpired
  <2>3. IdleOnce BY DEF SessionParts
  <2>4. /\ IdleSet' \subseteq IdleSet /\ toClose' \subseteq IdleSet
        /\ IdleSet' \cap toClose' = {} /\ IdleOnce'
    BY <2>1, <2>3, IdleExpired
  <2>5. \A d \in Clients : Dealing(d)' <=> Dealing(d) BY <2>2 DEF Dealing
  <2>6. ClosedIsEmpty'
    <3>1. idle # <<>> BY <2>1 DEF TypeOK
    <3>2. QED BY <2>2, <3>1 DEF SessionParts, ClosedIsEmpty
  <2>7. DealtOpen' /\ DistinctHolders' BY <2>2, <2>5 DEF SessionParts, DealtOpen, DistinctHolders
  <2>8. HeldApart' BY <2>2, <2>4, <2>5 DEF SessionParts, HeldApart
  <2>9. IdleApart' /\ IdleOpen' BY <2>2, <2>4 DEF SessionParts, IdleApart, IdleOpen
  <2>10. ToCloseDialled'
    BY <2>2, <2>4 DEF SessionParts, ToCloseDialled, IdleOpen
  <2>11. QED BY <2>4, <2>6, <2>7, <2>8, <2>9, <2>10 DEF SessionParts
<1>7. ASSUME NEW s \in Sessions, CleanupClose(s) PROVE SessionParts'
  BY <1>7, TakenLoggedOff DEF CleanupClose
<1>8. ASSUME CloseBegin PROVE SessionParts'
  <2>1. /\ closed' = TRUE /\ idle' = <<>> /\ remaining' = IdleSet
        /\ UNCHANGED <<pc, held, conn, toClose>>
    BY <1>8 DEF CloseBegin, IdleSet
  <2>2. IdleSet' = {} BY <2>1 DEF IdleSet
  <2>3. \A d \in Clients : Dealing(d)' <=> Dealing(d) BY <2>1 DEF Dealing
  <2>4. ClosedIsEmpty' /\ IdleOnce' BY <2>1 DEF ClosedIsEmpty, IdleOnce
  <2>5. DealtOpen' /\ DistinctHolders' BY <2>1, <2>3 DEF SessionParts, DealtOpen, DistinctHolders
  <2>6. HeldApart' BY <2>1, <2>2, <2>3 DEF SessionParts, HeldApart
  <2>7. IdleApart' /\ IdleOpen' BY <2>2 DEF IdleApart, IdleOpen
  <2>8. ToCloseDialled'
    BY <2>1 DEF SessionParts, ToCloseDialled, IdleOpen
  <2>9. QED BY <2>4, <2>5, <2>6, <2>7, <2>8 DEF SessionParts
<1>9. ASSUME NEW s \in Sessions, CloseIdle(s) PROVE SessionParts'
  BY <1>9, TakenLoggedOff DEF CloseIdle
<1>10. ASSUME NEW c \in Clients,
              \/ GetCall(c) \/ GetClosed(c) \/ GetCreate(c) \/ GetExhausted(c)
              \/ TestAlive(c) \/ TestDead(c) \/ CreateFails(c) \/ CreateFailed(c)
              \/ WaitSignalled(c) \/ WaitTimesOut(c) \/ WaitCancelled(c) \/ DeadlinePasses(c)
              \/ PutClosedPool(c) \/ PutFull(c) \/ Remove(c)
       PROVE  SessionParts'
  <2>1. UNCHANGED <<idle, closed, conn, toClose, remaining>>
    BY <1>10 DEF GetCall, GetClosed, GetCreate, GetExhausted, TestAlive, TestDead, CreateFails,
       CreateFailed, WaitSignalled, WaitTimesOut, WaitCancelled, DeadlinePasses, PutClosedPool,
       PutFull, Remove
  <2>2. \A d \in Clients : Dealing(d)' => Dealing(d) /\ held'[d] = held[d]
    BY <1>10 DEF GetCall, GetClosed, GetCreate, GetExhausted, TestAlive, TestDead, CreateFails,
       CreateFailed, WaitSignalled, WaitTimesOut, WaitCancelled, DeadlinePasses, PutClosedPool,
       PutFull, Remove, Goto, Dealing, TypeOK
  <2>3. QED BY <2>1, <2>2, SessionsUntouched
<1>11. CASE \/ CleanupQuit \/ CloseSignal \/ CloseWait \/ CloseReturn
            \/ (\E s \in Sessions : ServerDrops(s)) \/ UNCHANGED vars
  <2>1. UNCHANGED <<idle, closed, conn, toClose, remaining, pc, held>>
    BY <1>11 DEF CleanupQuit, CloseSignal, CloseWait, CloseReturn, ServerDrops, vars
  <2>2. QED BY <2>1, SessionsUntouched DEF Dealing
<1>12. QED
  BY <1>1, <1>2, <1>3, <1>4, <1>5, <1>6, <1>7, <1>8, <1>9, <1>10, <1>11
  DEF Next, Get, Return, Cleanup, Close

-----------------------------------------------------------------------------
(* What p.active counts.                                                   *)

\* A count that covers what it stands for, after a step that is no loss.
LEMMA StillCovers ==
  ASSUME NEW a \in Nat, NEW p \in Nat, NEW a1 \in Int, NEW p1 \in Nat,
         a >= p, a1 + p >= a + p1
  PROVE  a1 >= p1
OBVIOUS

\* p.active after a step, from how each term of Places has changed.
LEMMA PlacesChange ==
  ASSUME TypeOK, LimitKept,
         active' \in Int, Len(idle)' \in Nat, Cardinality(Using)' \in Nat,
         active' + Places >= active + Places',
         active' <= active \/ MaxActive = 0 \/ (active < MaxActive /\ active' = active + 1)
  PROVE  LimitKept' /\ active' \in Nat
<1>1. active \in Nat BY DEF TypeOK
<1>2. Places \in Nat
  <2>1. Len(idle) \in Nat /\ Cardinality(Using) \in Nat
    BY CountTypes
  <2>2. QED BY SMTT(30), <2>1 DEF Places
<1>3. Places' \in Nat BY DEF Places
<1>4. active >= Places /\ (MaxActive > 0 => active <= MaxActive)
  BY DEF LimitKept
<1>5. active' >= Places' BY <1>1, <1>2, <1>3, <1>4, StillCovers
<1>6. MaxActive > 0 => active' <= MaxActive BY <1>1, <1>4
<1>7. active' \in Nat BY <1>3, <1>5
<1>8. QED BY <1>5, <1>6, <1>7 DEF LimitKept

\* Every step keeps the count.
LEMMA ActiveStep ==
  ASSUME TypeOK, SessionParts, LimitKept, [Next]_vars
  PROVE  LimitKept' /\ active' \in Nat
<1> USE DEF poolVars, cleanVars, closeVars
<1>0. /\ active \in Nat /\ Len(idle) \in Nat /\ Cardinality(Using) \in Nat
  BY CountTypes DEF TypeOK
<1>1. ASSUME UNCHANGED <<idle, active, closed, pc>>
      PROVE  LimitKept' /\ active' \in Nat
  BY <1>0, <1>1 DEF LimitKept, Places, Using
<1>2. ASSUME NEW c \in Clients, NEW l, Goto(c, l), UNCHANGED <<idle, active, closed>>,
             pc[c] \in Counted <=> l \in Counted
      PROVE  LimitKept' /\ active' \in Nat
  <2>1. Cardinality(Using)' = Cardinality(Using)
    BY <1>2, ClientMoves
  <2>2. QED BY <1>0, <1>2, <2>1, PlacesChange DEF Places
<1>3. ASSUME NEW c \in Clients, GetIdle(c) PROVE LimitKept' /\ active' \in Nat
  <2>1. Cardinality(Using)' = Cardinality(Using) + 1
    BY <1>3, ClientMoves DEF GetIdle, Counted
  <2>2. Len(idle)' = Len(idle) - 1 /\ Len(idle) > 0
    BY <1>3, IdleTaken DEF GetIdle, SessionParts
  <2>3. UNCHANGED <<active, closed>> BY <1>3 DEF GetIdle
  <2>4. QED BY <1>0, <2>1, <2>2, <2>3, PlacesChange DEF Places, LimitKept
<1>4. ASSUME NEW c \in Clients, GetCreate(c) PROVE LimitKept' /\ active' \in Nat
  <2>1. Cardinality(Using)' = Cardinality(Using) + 1
    BY <1>4, ClientMoves DEF GetCreate, Counted
  <2>2. active' = active + 1 /\ UNCHANGED <<idle, closed>> /\ ~closed
    BY <1>4 DEF GetCreate
  <2>3. MaxActive = 0 \/ active < MaxActive BY <1>4 DEF GetCreate, CanCreate
  <2>4. QED BY SMTT(30), <1>0, <2>1, <2>2, <2>3, PlacesChange DEF Places
<1>5. ASSUME NEW c \in Clients, TestDead(c) PROVE LimitKept' /\ active' \in Nat
  <2>1. Cardinality(Using)' = Cardinality(Using) - 1 /\ Cardinality(Using)' \in Nat
    BY <1>5, ClientMoves DEF TestDead, Counted
  <2>2. UNCHANGED <<idle, active, closed>> BY <1>5 DEF TestDead
  <2>3. Places' = Places - 1 /\ Places \in Nat BY SMTT(30), <1>0, <2>1, <2>2 DEF Places
  <2>4. QED BY <1>0, <2>1, <2>2, <2>3, PlacesChange
<1>6. ASSUME NEW c \in Clients, Discard(c) PROVE LimitKept' /\ active' \in Nat
  BY <1>2, <1>6 DEF Discard, Counted
<1>7. ASSUME NEW c \in Clients, CreateFailed(c) \/ PutFull(c) \/ Remove(c)
      PROVE  LimitKept' /\ active' \in Nat
  <2>1. /\ pc[c] \in {"createFailed", "holding"}
        /\ \E l \in {"out", "closing"} : Goto(c, l)
        /\ active' = active - 1 /\ UNCHANGED <<idle, closed>>
    BY <1>7 DEF CreateFailed, PutFull, Remove
  <2>2. Cardinality(Using)' = Cardinality(Using) - 1 /\ Cardinality(Using)' \in Nat
    BY <2>1, ClientMoves DEF Counted
  <2>3. Places' = Places - 1 /\ Places \in Nat BY <1>0, <2>1, <2>2 DEF Places
  <2>4. QED BY <1>0, <2>1, <2>2, <2>3, PlacesChange
<1>8. ASSUME NEW c \in Clients, PutClosedPool(c) PROVE LimitKept' /\ active' \in Nat
  <2>1. Cardinality(Using)' = Cardinality(Using) - 1 /\ Cardinality(Using)' \in Nat
    BY <1>8, ClientMoves DEF PutClosedPool, Counted
  <2>2. closed' /\ UNCHANGED <<idle, active>> BY <1>8 DEF PutClosedPool
  <2>3. Places' = Places - 1 /\ Places \in Nat BY <1>0, <2>1, <2>2 DEF Places
  <2>4. QED BY <1>0, <2>1, <2>2, <2>3, PlacesChange
<1>9. ASSUME NEW c \in Clients, PutIdle(c) PROVE LimitKept' /\ active' \in Nat
  <2>1. Cardinality(Using)' = Cardinality(Using) - 1 /\ Cardinality(Using)' \in Nat
    BY <1>9, ClientMoves DEF PutIdle, Counted
  <2>2. held[c] \in Sessions /\ held[c] \notin IdleSet
    BY <1>9 DEF PutIdle, SessionParts, DealtOpen, HeldApart, Dealing
  <2>3. Len(idle)' = Len(idle) + 1
    BY <1>9, <2>2, IdlePut DEF PutIdle, SessionParts
  <2>4. ~closed /\ UNCHANGED <<active, closed>> BY <1>9 DEF PutIdle
  <2>5. Places' = Places /\ Places \in Nat BY SMTT(30), <1>0, <2>1, <2>3, <2>4 DEF Places
  <2>6. QED BY <1>0, <2>1, <2>3, <2>4, <2>5, PlacesChange
<1>10. ASSUME CleanupExpired PROVE LimitKept' /\ active' \in Nat
  <2>1. PICK k \in 1 .. Len(idle) : /\ idle' = SubSeq(idle, k + 1, Len(idle))
                                    /\ active' = active - k
    BY <1>10 DEF CleanupExpired
  <2>2. UNCHANGED <<closed, pc>> BY <1>10 DEF CleanupExpired
  <2>3. Len(idle)' = Len(idle) - k /\ k \in Nat /\ k <= Len(idle)
    BY <1>0, <2>1, IdleExpired DEF SessionParts
  <2>4. Using' = Using BY <2>2 DEF Using
  <2>5. QED BY SMTT(30), <1>0, <2>1, <2>2, <2>3, <2>4, PlacesChange DEF Places
<1>11. ASSUME CloseBegin PROVE LimitKept' /\ active' \in Nat
  <2>1. closed' /\ idle' = <<>> /\ UNCHANGED <<active, pc>> BY <1>11 DEF CloseBegin
  <2>2. Len(idle)' = 0 BY <2>1
  <2>3. Using' = Using BY <2>1 DEF Using
  <2>4. QED BY <1>0, <2>1, <2>2, <2>3, PlacesChange DEF Places
<1>12. ASSUME NEW c \in Clients, GetCall(c) \/ Get(c) \/ WaitCancelled(c) \/ DeadlinePasses(c)
                                 \/ Return(c) \/ CloseHeld(c)
       PROVE  LimitKept' /\ active' \in Nat
  <2>1. CASE GetCall(c) BY <1>2, <2>1 DEF GetCall, Counted
  <2>2. CASE GetClosed(c) BY <1>2, <2>2 DEF GetClosed, Counted
  <2>3. CASE GetExhausted(c) BY <1>2, <2>3 DEF GetExhausted, Counted
  <2>4. CASE TestAlive(c) BY <1>2, <2>4 DEF TestAlive, Counted
  <2>5. CASE CreateOK(c) BY <1>2, <2>5 DEF CreateOK, Counted
  <2>6. CASE CreateFails(c) BY <1>2, <2>6 DEF CreateFails, Counted
  <2>7. CASE WaitSignalled(c) BY <1>2, <2>7 DEF WaitSignalled, Counted
  <2>8. CASE WaitTimesOut(c) BY <1>2, <2>8 DEF WaitTimesOut, Counted
  <2>9. CASE WaitCancelled(c) BY <1>2, <2>9 DEF WaitCancelled, Counted
  <2>10. CASE CloseHeld(c) BY <1>2, <2>10 DEF CloseHeld, Counted
  <2>11. CASE DeadlinePasses(c) BY <1>1, <2>11 DEF DeadlinePasses
  <2>12. QED
    BY <1>3, <1>4, <1>5, <1>6, <1>7, <1>8, <1>9, <1>12, <2>1, <2>2, <2>3, <2>4, <2>5, <2>6,
       <2>7, <2>8, <2>9, <2>10, <2>11 DEF Get, Return
<1>13. CASE Cleanup \/ Close \/ (\E s \in Sessions : ServerDrops(s)) \/ UNCHANGED vars
  BY <1>1, <1>13 DEF Cleanup, CleanupClose, CleanupQuit, Close, CloseSignal, CloseWait, CloseIdle,
     CloseReturn, ServerDrops, vars
<1>14. QED BY <1>10, <1>11, <1>12, <1>13 DEF Next

-----------------------------------------------------------------------------
(* Types.                                                                  *)

\* The clients' labels, the sessions they hold and the fates of connections.
LEMMA TypeStep ==
  ASSUME TypeOK, SessionParts, active' \in Nat, [Next]_vars
  PROVE  TypeOK'
<1> USE DEF poolVars, cleanVars, closeVars, Goto, LogOff
<1>0. MaxIdle \in Nat BY DEF MaxIdle
<1>1. ASSUME NEW c \in Clients, GetIdle(c) PROVE TypeOK'
  <2>1. /\ idle' \in Seq(Sessions) /\ Len(idle) \in Nat \ {0} /\ Len(idle') = Len(idle) - 1
        /\ idle[Len(idle)] \in Sessions
    BY <1>1, IdleTaken DEF GetIdle, SessionParts
  <2>2. Len(idle') <= MaxIdle BY <1>0, <2>1 DEF TypeOK
  <2>3. QED BY <1>1, <2>1, <2>2 DEF GetIdle, TypeOK
<1>2. ASSUME NEW c \in Clients, PutIdle(c) PROVE TypeOK'
  <2>1. held[c] \in Sessions /\ held[c] \notin IdleSet
    BY <1>2 DEF PutIdle, SessionParts, DealtOpen, HeldApart, Dealing
  <2>2. idle' \in Seq(Sessions) /\ Len(idle) \in Nat /\ Len(idle') = Len(idle) + 1
    BY <1>2, <2>1, IdlePut DEF PutIdle, SessionParts
  <2>3. Len(idle') <= MaxIdle BY <1>0, <1>2, <2>2 DEF PutIdle, IdleIsFull
  <2>4. QED BY <1>2, <2>2, <2>3 DEF PutIdle, TypeOK
<1>3. ASSUME CleanupExpired PROVE TypeOK'
  <2>1. PICK k \in 1 .. Len(idle) : /\ toClose' = {idle[i] : i \in 1 .. k}
                                    /\ idle' = SubSeq(idle, k + 1, Len(idle))
    BY <1>3 DEF CleanupExpired
  <2>2. /\ idle' \in Seq(Sessions) /\ Len(idle) \in Nat /\ Len(idle') = Len(idle) - k
        /\ toClose' \subseteq IdleSet
    BY <2>1, IdleExpired DEF SessionParts
  <2>3. IdleSet \subseteq Sessions BY DEF IdleSet, TypeOK
  <2>4. Len(idle') <= MaxIdle BY <1>0, <2>1, <2>2 DEF TypeOK
  <2>5. QED BY <1>3, <2>2, <2>3, <2>4 DEF CleanupExpired, TypeOK
<1>4. ASSUME CloseBegin PROVE TypeOK'
  <2>1. idle' = <<>> /\ remaining' \subseteq Sessions BY <1>4 DEF CloseBegin, TypeOK
  <2>2. idle' \in Seq(Sessions) /\ Len(idle') = 0 BY <2>1
  <2>3. QED BY <1>0, <1>4, <2>1, <2>2 DEF CloseBegin, TypeOK
<1>5. ASSUME NEW c \in Clients, Discard(c) \/ CloseHeld(c) PROVE TypeOK'
  <2>1. held[c] \in Sessions BY <1>5 DEF Discard, CloseHeld, SessionParts, DealtOpen, Dealing
  <2>2. QED BY <1>5, <2>1 DEF Discard, CloseHeld, TypeOK
<1>6. ASSUME NEW c \in Clients,
             \/ GetCall(c) \/ GetClosed(c) \/ GetCreate(c) \/ GetExhausted(c)
             \/ TestAlive(c) \/ TestDead(c) \/ CreateOK(c) \/ CreateFails(c) \/ CreateFailed(c)
      PROVE  TypeOK'
  <2>1. CASE CreateOK(c)
    <3>1. PICK s \in Sessions : /\ conn' = [conn EXCEPT ![s] = "open"]
                                /\ held' = [held EXCEPT ![c] = s]
      BY <2>1 DEF CreateOK
    <3>2. QED BY <2>1, <3>1 DEF CreateOK, TypeOK
  <2>2. CASE GetExhausted(c) BY <2>2 DEF GetExhausted, TypeOK
  <2>3. CASE GetCall(c) \/ GetClosed(c) \/ GetCreate(c)
    BY <2>3 DEF GetCall, GetClosed, GetCreate, TypeOK
  <2>4. CASE TestAlive(c) \/ TestDead(c) \/ CreateFails(c) \/ CreateFailed(c)
    BY <2>4 DEF TestAlive, TestDead, CreateFails, CreateFailed, TypeOK
  <2>5. QED BY <1>6, <2>1, <2>2, <2>3, <2>4
<1>7. ASSUME NEW c \in Clients,
             \/ WaitSignalled(c) \/ WaitTimesOut(c) \/ WaitCancelled(c) \/ DeadlinePasses(c)
             \/ PutClosedPool(c) \/ PutFull(c) \/ Remove(c)
      PROVE  TypeOK'
  BY <1>7 DEF WaitSignalled, WaitTimesOut, WaitCancelled, DeadlinePasses, PutClosedPool, PutFull,
     Remove, TypeOK
<1>8. ASSUME Cleanup PROVE TypeOK'
  BY <1>8 DEF Cleanup, CleanupClose, CleanupQuit, TypeOK
<1>9. ASSUME Close PROVE TypeOK'
  BY <1>9 DEF Close, CloseSignal, CloseWait, CloseIdle, CloseReturn, TypeOK
<1>10. ASSUME NEW s \in Sessions, ServerDrops(s) PROVE TypeOK'
  BY <1>10 DEF ServerDrops, TypeOK
<1>11. CASE UNCHANGED vars BY <1>11 DEF vars, TypeOK
<1>12. QED
  BY <1>1, <1>2, <1>3, <1>4, <1>5, <1>6, <1>7, <1>8, <1>9, <1>10, <1>11 DEF Next, Get, Return

-----------------------------------------------------------------------------
\* PoolIInv holds of a new pool.
LEMMA PoolInit == Init => PoolIInv
<1> SUFFICES ASSUME Init PROVE PoolIInv
  OBVIOUS
<1>0. <<>> \in Seq(Sessions) /\ Len(idle) = 0 /\ MaxIdle \in Nat BY DEF Init, MaxIdle
<1>1. TypeOK
  <2>1. idle \in Seq(Sessions) /\ Len(idle) <= MaxIdle /\ active \in Nat BY <1>0 DEF Init
  <2>2. QED BY <2>1 DEF Init, TypeOK
<1>2. SessionParts
  BY <1>0 DEF Init, SessionParts, ClosedIsEmpty, DealtOpen, DistinctHolders, HeldApart, IdleOnce,
     IdleApart, IdleOpen, ToCloseDialled, IdleSet, Dealing
<1>3. Using = {} BY DEF Init, Using, Counted
<1>4. LimitKept BY <1>0, <1>3, FS_EmptySet DEF Init, LimitKept, Places
<1>5. QED BY <1>1, <1>2, <1>4 DEF PoolIInv

\* PoolIInv is an invariant of the pool, for any number of clients and
\* sessions, any MaxActive and MaxIdle, with and without a health check.
THEOREM PoolInvariant == Spec => []PoolIInv
<1>1. Init => PoolIInv BY PoolInit
<1>2. PoolIInv /\ [Next]_vars => PoolIInv' BY SessionStep, ActiveStep, TypeStep DEF PoolIInv
<1>3. QED BY <1>1, <1>2, PTL DEF Spec

\* Every variable of the pool keeps its type; the idle list never outgrows MaxIdle.
THEOREM PoolTypeCorrect == Spec => []TypeOK
<1>1. PoolIInv => TypeOK BY DEF PoolIInv
<1>2. QED BY <1>1, PoolInvariant, PTL

\* A session has one owner: a client, the idle list, the cleanup goroutine or
\* Close, and nobody logs it off while a client uses it or while it is idle.
THEOREM OneHolderAlways == Spec => []OneHolder
<1>1. PoolIInv => OneHolder
  <2> SUFFICES ASSUME PoolIInv PROVE OneHolder
    OBVIOUS
  <2>1. TypeOK /\ SessionParts BY DEF PoolIInv
  <2>2. Cardinality(IdleSet) = Len(idle)
    <3>1. idle \in Seq(Sessions) /\ Len(idle) \in Nat BY <2>1 DEF TypeOK
    <3>2. idle \in [1 .. Len(idle) -> IdleSet] BY <3>1 DEF IdleSet
    <3>3. \A s \in IdleSet : \E i \in 1 .. Len(idle) : idle[i] = s BY DEF IdleSet
    <3>4. \A i, j \in 1 .. Len(idle) : idle[i] = idle[j] => i = j
      BY <2>1 DEF SessionParts, IdleOnce
    <3>5. idle \in Surjection(1 .. Len(idle), IdleSet) /\ idle \in Injection(1 .. Len(idle), IdleSet)
      BY <3>2, <3>3, <3>4 DEF Surjection, Injection, IsInjective
    <3>6. IsFiniteSet(1 .. Len(idle)) /\ Cardinality(1 .. Len(idle)) = Len(idle)
      BY SMTT(30), <3>1, FS_Interval
    <3>7. QED BY <3>5, <3>6, FS_Surjection
  <2>3. QED
    BY <2>1, <2>2 DEF SessionParts, OneHolder, DealtOpen, DistinctHolders, HeldApart, IdleApart,
       IdleOpen, Dealing
<1>2. QED BY <1>1, PoolInvariant, PTL

\* The connections that are idle, in use, being tested or being dialled are
\* never more than p.active says, and that never exceeds MaxActive.
THEOREM LimitAlwaysKept == Spec => []LimitKept
<1>1. PoolIInv => LimitKept BY DEF PoolIInv
<1>2. QED BY <1>1, PoolInvariant, PTL

=============================================================================
