---------------------------- MODULE SessionProofs ---------------------------
(***************************************************************************)
(* Proofs about Session for any number of goroutines and tree identifiers  *)
(* and any bounds.  SessionIInv says which goroutine answers for which     *)
(* tree and pipe on the server, and that no two answer for the same one    *)
(* unless a reply to a disconnect was lost.                                *)
(***************************************************************************)
EXTENDS Session, TLAPS

USE SessionAssumption

\* Where a goroutine is between requests, and where it waits for one.
Requesting ==
    {"connect", "disconnect", "rapConnect", "rapSend", "rapDone", "rapUndo", "rpcConnect", "openPipe",
     "bind", "bindByWrite", "request", "requestByWrite", "closePipe", "rpcDisconnect", "logoff"}
Storing == {"store", "rapStore", "rpcStore"}
Deleting == {"delete", "rapDelete", "undoDelete"}
Labels == {"idle", "close"} \cup Requesting \cup Storing \cup Deleting

\* The tree a goroutine deals with is on the server, and the pipe may be open.
Dealing == Storing \cup (Requesting \ (Connecting \cup {"logoff"}))
WithPipe == {"bind", "bindByWrite", "request", "requestByWrite", "closePipe", "rpcDisconnect"}

SessionTypeOK ==
    /\ pc \in [Users -> Labels]
    /\ tid \in [Users -> TIDs \cup {NoTID}] /\ mount \in [Users -> TIDs \cup {NoTID}]
    /\ trees \subseteq TIDs /\ server \subseteq TIDs /\ pipes \subseteq server

\* u answers for t as the tree it deals with, and as the share it has mounted.
DealsWith(u, t) == pc[u] \in Dealing /\ tid[u] = t
Mounted(u, t) == mount[u] = t /\ t # NoTID /\ ~ (pc[u] \in Deleting /\ tid[u] = t)
Owns(u, t) == DealsWith(u, t) \/ Mounted(u, t)

\* A dial that has not begun has not ended; a Mount begins without a mounted
\* share and an Umount with the one it has.
CallParts ==
    /\ dial = "new" => conn = "none"
    /\ \A u \in Users : pc[u] \in {"connect", "store"} => mount[u] = NoTID
    /\ \A u \in Users : pc[u] \in Dealing => tid[u] \in TIDs
    /\ \A u \in Users : pc[u] = "disconnect" => mount[u] = tid[u]
    /\ live \/ server = {}

\* Somebody answers for every tree on the server, and for every pipe.
Covered ==
    conn \notin {"closed", "broken"} /\ "tree" \notin fate =>
       /\ \A t \in server : \E u \in Users : Owns(u, t)
       /\ \A t \in pipes : \E u \in Users : tid[u] = t /\ pc[u] \in WithPipe

\* The server has what a goroutine answers for.
OwnedLive ==
    conn \notin {"closed", "broken"} /\ live /\ "entry" \notin fate =>
       \A u \in Users, t \in TIDs : Owns(u, t) => t \in server

\* No two answer for one tree, nor one twice, but for the share being unmounted.
OwnedOnce ==
    conn \notin {"closed", "broken"} /\ live /\ "entry" \notin fate =>
       /\ \A u, v \in Users, t \in TIDs : Owns(u, t) /\ Owns(v, t) => u = v
       /\ \A u \in Users, t \in TIDs : DealsWith(u, t) /\ Mounted(u, t) => pc[u] = "disconnect"

\* The map has no tree that the server has not.
MapCurrent ==
    conn \notin {"closed", "broken"} /\ live /\ "entry" \notin fate =>
       \A t \in trees : t \in server \/ \E u \in Users : tid[u] = t /\ pc[u] \in Deleting

\* The exchange in hand is an answer to a challenge the client accepted.
Answered ==
    dial = "authenticate" =>
       /\ cred \in Credentials /\ cmsg \in Challenges
       /\ ~ Refuses(cmsg) /\ amsg = AuthenticateMessage(cred, cmsg)

CredKept == dial \in {"new", "negotiate", "setup", "authenticate"} => cred \in Credentials

SessionIInv ==
    /\ SessionTypeOK
    /\ CallParts
    /\ Covered
    /\ OwnedLive
    /\ OwnedOnce
    /\ MapCurrent
    /\ Answered
    /\ CredKept

-----------------------------------------------------------------------------
(* What a request can do.                                                  *)

\* A goroutine connects to a tree, and hears of it or not.
Connected(u) ==
    /\ pc[u] \in Connecting /\ live
    /\ \E t \in TIDs \ server : server' = server \cup {t} /\ tid' = [tid EXCEPT ![u] = t]
    /\ UNCHANGED <<live, pipes>>
    /\ \/ /\ pc'[u] \in Storing /\ (pc'[u] = "store" => pc[u] = "connect")
          /\ fate' = fate
       \/ /\ pc'[u] \in {"idle", "rpcConnect"}
          /\ fate' = fate \cup {"tree"}

\* It disconnects from one, and hears of it or not.
Disconnected(u) ==
    /\ pc[u] \in Disconnecting
    /\ server' = server \ {tid[u]} /\ pipes' = pipes \ {tid[u]}
    /\ UNCHANGED <<live, tid>>
    /\ \/ pc'[u] \in Deleting /\ fate' = fate
       \/ pc'[u] \in {"idle", "rpcConnect"} /\ fate' = fate \cup {"entry"}

\* The server does nothing of what it is asked to connect or disconnect.
LeftAlone(u) ==
    /\ pc[u] \in Connecting \cup Disconnecting
    /\ UNCHANGED <<server, pipes, live, tid>>
    /\ pc'[u] \in {"idle", "rpcConnect"}
    /\ fate' = IF pc[u] \in Disconnecting THEN fate \cup {"tree"} ELSE fate

\* It goes on with the tree it has.
WentOn(u) ==
    /\ pc[u] \in Dealing \ (Storing \cup Disconnecting)
    /\ pc'[u] \in Dealing \ (Storing \cup {"disconnect"})
    /\ UNCHANGED <<server, live, tid, fate>>
    /\ \/ pipes' = pipes \cup {tid[u]} /\ pc'[u] \in WithPipe /\ tid[u] \in server
       \/ pipes' \in {pipes, pipes \ {tid[u]}} /\ (pc[u] \in WithPipe => pc'[u] \in WithPipe)

\* It logs off, or tries to.
LoggedOff(u) ==
    /\ pc[u] = "logoff" /\ pc'[u] = "close"
    /\ UNCHANGED <<tid, fate>>
    /\ \/ live' = FALSE /\ server' = {} /\ pipes' = {}
       \/ UNCHANGED <<server, pipes, live>>

\* Where a goroutine goes on, when its request was answered and when it was not.
LEMMA StepFacts ==
  /\ DOMAIN Steps = Requesting
  /\ \A l \in Requesting : Steps[l].ok \in Labels /\ Steps[l].fail \in Labels
  /\ \A l \in Connecting : /\ Steps[l].ok \in Storing /\ (Steps[l].ok = "store" => l = "connect")
                           /\ Steps[l].fail \in {"idle", "rpcConnect"}
  /\ \A l \in Disconnecting : Steps[l].ok \in Deleting /\ Steps[l].fail \in {"idle", "rpcConnect"}
  /\ \A l \in Dealing \ (Storing \cup Disconnecting) :
        /\ Steps[l].ok \in Dealing \ (Storing \cup {"disconnect"})
        /\ Steps[l].fail \in Dealing \ (Storing \cup {"disconnect"})
        /\ l \in WithPipe \cup {"openPipe"} => Steps[l].ok \in WithPipe /\ Steps[l].fail \in WithPipe
  /\ Steps["logoff"].ok = "close" /\ Steps["logoff"].fail = "close"
<1> USE DEF Steps, StepsToClose, Requesting, Connecting, Disconnecting, Storing, Deleting, Dealing,
            WithPipe, Labels
<1>1. DOMAIN Steps = Requesting OBVIOUS
<1>2. \A l \in Requesting : Steps[l].ok \in Labels /\ Steps[l].fail \in Labels OBVIOUS
<1>3. \A l \in Connecting : /\ Steps[l].ok \in Storing /\ (Steps[l].ok = "store" => l = "connect")
                            /\ Steps[l].fail \in {"idle", "rpcConnect"}
  OBVIOUS
<1>4. \A l \in Disconnecting : Steps[l].ok \in Deleting /\ Steps[l].fail \in {"idle", "rpcConnect"}
  OBVIOUS
<1>5. \A l \in Dealing \ (Storing \cup Disconnecting) :
         /\ Steps[l].ok \in Dealing \ (Storing \cup {"disconnect"})
         /\ Steps[l].fail \in Dealing \ (Storing \cup {"disconnect"})
         /\ l \in WithPipe \cup {"openPipe"} => Steps[l].ok \in WithPipe /\ Steps[l].fail \in WithPipe
  OBVIOUS
<1>6. Steps["logoff"].ok = "close" /\ Steps["logoff"].fail = "close" OBVIOUS
<1>7. QED BY <1>1, <1>2, <1>3, <1>4, <1>5, <1>6

\* The kinds of labels, and that no label is of two.
LEMMA LabelFacts ==
  /\ Requesting = Connecting \cup Disconnecting \cup (Dealing \ (Storing \cup Disconnecting)) \cup {"logoff"}
  /\ Disconnecting \subseteq Dealing /\ Storing \subseteq Dealing /\ WithPipe \subseteq Dealing
  /\ Connecting \cap Dealing = {} /\ Deleting \cap Dealing = {} /\ Connecting \cap Deleting = {}
  /\ Storing \cap Disconnecting = {} /\ Storing \cap WithPipe = {} /\ Connecting \subseteq Requesting
  /\ Labels = {"idle", "close", "logoff"} \cup Connecting \cup Deleting \cup Dealing
  /\ {"idle", "close", "logoff"} \cap (Connecting \cup Deleting \cup Dealing) = {}
  /\ "connect" \in Connecting /\ "rapConnect" \in Connecting /\ "rpcConnect" \in Connecting
  /\ "disconnect" \in Disconnecting /\ "disconnect" \notin WithPipe
  /\ "store" \in Storing /\ "openPipe" \in Dealing \ (Storing \cup Disconnecting \cup WithPipe)
  /\ "rapSend" \in Dealing \ (Storing \cup Disconnecting \cup WithPipe)
  /\ "closePipe" \in Dealing \ (Storing \cup Disconnecting)
BY DEF Requesting, Connecting, Disconnecting, Storing, Deleting, Dealing, WithPipe, Labels

\* A request that is answered, refused or answered too late is one of the above.
LEMMA RequestCases ==
  ASSUME SessionTypeOK, NEW u \in Users, Reply(u) \/ Refused(u) \/ ReplyLost(u)
  PROVE  /\ Connected(u) \/ Disconnected(u) \/ LeftAlone(u) \/ WentOn(u) \/ LoggedOff(u)
         /\ pc[u] \in Requesting /\ pc' = [pc EXCEPT ![u] = pc'[u]] /\ pc'[u] \in Labels
         /\ UNCHANGED <<conn, dial, trees, mount>>
<1>0. pc[u] \in Requesting BY StepFacts DEF Reply, Refused, ReplyLost
<1>1. /\ pc'[u] \in {Steps[pc[u]].ok, Steps[pc[u]].fail} /\ pc' = [pc EXCEPT ![u] = pc'[u]]
      /\ UNCHANGED <<conn, dial, trees, mount>>
  BY DEF Reply, Refused, ReplyLost, SessionTypeOK, treeVars
<1>2. pc'[u] \in Labels BY <1>0, <1>1, StepFacts
<1>3. CASE pc[u] \in Connecting
  <2>0. pc[u] \notin Disconnecting BY <1>3, LabelFacts
  <2>1. CASE Refused(u)
    <3>1. UNCHANGED <<server, pipes, live, tid, fate>> /\ pc'[u] = Steps[pc[u]].fail
      BY <2>0, <2>1 DEF Refused, treeVars, SessionTypeOK
    <3>2. QED BY <1>0, <1>1, <1>2, <1>3, <2>0, <3>1, StepFacts DEF LeftAlone
  <2>2. CASE Reply(u) \/ ReplyLost(u)
    <3>1. \E t \in TIDs \ server : server' = server \cup {t} /\ tid' = [tid EXCEPT ![u] = t]
                                 /\ UNCHANGED <<live, pipes>>
      BY <1>3, <2>2 DEF Reply, ReplyLost, CarriedOut, Connecting, Disconnecting
    <3>2. \/ pc'[u] = Steps[pc[u]].ok /\ fate' = fate
          \/ pc'[u] = Steps[pc[u]].fail /\ fate' = fate \cup {"tree"}
      BY <1>3, <2>2 DEF Reply, ReplyLost, SessionTypeOK, Connecting, Disconnecting
    <3>3. live BY <2>2 DEF Reply, ReplyLost, Valid
    <3>4. QED BY <1>0, <1>1, <1>2, <1>3, <3>1, <3>2, <3>3, StepFacts DEF Connected
  <2>3. QED BY <2>1, <2>2
<1>4. CASE pc[u] \in Disconnecting
  <2>0. pc[u] \notin Connecting BY <1>4, LabelFacts
  <2>1. CASE Refused(u)
    <3>1. UNCHANGED <<server, pipes, live, tid>> /\ fate' = fate \cup {"tree"} /\ pc'[u] = Steps[pc[u]].fail
      BY <1>4, <2>1 DEF Refused, treeVars, SessionTypeOK
    <3>2. QED BY <1>0, <1>1, <1>2, <1>4, <3>1, StepFacts DEF LeftAlone
  <2>2. CASE Reply(u) \/ ReplyLost(u)
    <3>1. server' = server \ {tid[u]} /\ pipes' = pipes \ {tid[u]} /\ UNCHANGED <<live, tid>>
      BY <1>4, <2>0, <2>2 DEF Reply, ReplyLost, CarriedOut, Connecting, Disconnecting
    <3>2. \/ pc'[u] = Steps[pc[u]].ok /\ fate' = fate
          \/ pc'[u] = Steps[pc[u]].fail /\ fate' = fate \cup {"entry"}
      BY <1>4, <2>0, <2>2 DEF Reply, ReplyLost, SessionTypeOK
    <3>3. QED BY <1>0, <1>1, <1>2, <1>4, <3>1, <3>2, StepFacts DEF Disconnected
  <2>3. QED BY <2>1, <2>2
<1>5. CASE pc[u] \in Dealing \ (Storing \cup Disconnecting)
  <2>0. pc[u] \notin Connecting \cup Disconnecting /\ pc[u] # "logoff" BY <1>5, LabelFacts
  <2>1. pc'[u] \in Dealing \ (Storing \cup {"disconnect"}) BY <1>1, <1>5, StepFacts
  <2>2. pc[u] \in WithPipe \cup {"openPipe"} => pc'[u] \in WithPipe BY <1>1, <1>5, StepFacts
  <2>3. UNCHANGED <<server, live, tid, fate>>
    BY <2>0 DEF Reply, Refused, ReplyLost, CarriedOut, treeVars
  <2>4. CASE Refused(u)
    <3>1. pipes' = pipes BY <2>4 DEF Refused, treeVars
    <3>2. QED BY <1>0, <1>1, <1>2, <1>5, <2>1, <2>2, <2>3, <3>1 DEF WentOn
  <2>5. CASE Reply(u) \/ ReplyLost(u)
    <3>1. tid[u] \in server BY <2>0, <2>5 DEF Reply, ReplyLost, Valid
    <3>2. CASE pc[u] = "openPipe"
      <4>1. pipes' = pipes \cup {tid[u]} BY <2>0, <2>5, <3>2 DEF Reply, ReplyLost, CarriedOut
      <4>2. QED BY <1>0, <1>1, <1>2, <1>5, <2>1, <2>2, <2>3, <3>1, <3>2, <4>1 DEF WentOn
    <3>3. CASE pc[u] # "openPipe"
      <4>1. pipes' \in {pipes, pipes \ {tid[u]}}
        BY <2>0, <2>5, <3>3 DEF Reply, ReplyLost, CarriedOut
      <4>2. QED BY <1>0, <1>1, <1>2, <1>5, <2>1, <2>2, <2>3, <4>1 DEF WentOn
    <3>4. QED BY <3>2, <3>3
  <2>6. QED BY <2>4, <2>5
<1>6. CASE pc[u] = "logoff"
  <2>0. pc[u] \notin Connecting \cup Disconnecting BY <1>6, LabelFacts
  <2>1. pc'[u] = "close" BY <1>1, <1>6, StepFacts
  <2>2. UNCHANGED <<tid, fate>>
    BY <1>6, <2>0 DEF Reply, Refused, ReplyLost, CarriedOut, treeVars
  <2>3. \/ live' = FALSE /\ server' = {} /\ pipes' = {}
        \/ UNCHANGED <<server, pipes, live>>
    BY <1>6, <2>0 DEF Reply, Refused, ReplyLost, CarriedOut, treeVars
  <2>4. QED BY <1>0, <1>1, <1>2, <1>6, <2>1, <2>2, <2>3 DEF LoggedOff
<1>7. QED BY <1>0, <1>3, <1>4, <1>5, <1>6, LabelFacts

-----------------------------------------------------------------------------
(* Who answers for which tree.                                             *)

\* What the proofs below say of the trees, all in one.
TreeParts == CallParts /\ Covered /\ OwnedLive /\ OwnedOnce /\ MapCurrent

\* A step of u leaves the others as they are.
OnlyMoves(u) == \A v \in Users : v # u => pc'[v] = pc[v] /\ tid'[v] = tid[v] /\ mount'[v] = mount[v]

\* So they answer for what they answered for.
LEMMA OthersOwn ==
  ASSUME NEW u, OnlyMoves(u), NEW v \in Users, v # u, NEW t
  PROVE  /\ Owns(v, t)' <=> Owns(v, t)
         /\ DealsWith(v, t)' <=> DealsWith(v, t)
         /\ Mounted(v, t)' <=> Mounted(v, t)
BY DEF OnlyMoves, Owns, DealsWith, Mounted

\* A step after which u answers for what it answered for before, and the
\* server, the pipes and the map are as they were.
LEMMA SameOwner ==
  ASSUME SessionTypeOK, TreeParts, NEW u \in Users, OnlyMoves(u),
         UNCHANGED <<conn, dial, server, pipes, live>>,
         "tree" \in fate => "tree" \in fate', "entry" \in fate => "entry" \in fate',
         \A t : Owns(u, t)' => Owns(u, t),
         "tree" \in fate' \/ \A t \in TIDs : Owns(u, t) => Owns(u, t)',
         conn' \notin {"closed", "broken"} /\ live' /\ "entry" \notin fate' =>
            \A t \in TIDs : DealsWith(u, t)' /\ Mounted(u, t)' => pc'[u] = "disconnect",
         pc[u] \notin WithPipe \/ "tree" \in fate',
         \A t \in trees' : t \in trees \/ (pc[u] \in Dealing /\ t = tid[u]),
         pc[u] \in Deleting => tid[u] \notin trees',
         pc'[u] \in {"connect", "store"} => mount'[u] = NoTID,
         pc'[u] \in Dealing => tid'[u] \in TIDs,
         pc'[u] = "disconnect" => mount'[u] = tid'[u]
  PROVE  TreeParts'
<1>1. CallParts' BY DEF TreeParts, CallParts, OnlyMoves
<1>2. Covered'
  <2> SUFFICES ASSUME conn' \notin {"closed", "broken"}, "tree" \notin fate'
               PROVE  /\ \A t \in server' : \E v \in Users : Owns(v, t)'
                      /\ \A t \in pipes' : \E v \in Users : tid'[v] = t /\ pc'[v] \in WithPipe
    BY DEF Covered
  <2>1. /\ \A t \in server : \E v \in Users : Owns(v, t)
        /\ \A t \in pipes : \E v \in Users : tid[v] = t /\ pc[v] \in WithPipe
    BY DEF TreeParts, Covered
  <2>2. \A t \in server' : \E v \in Users : Owns(v, t)'
    BY <2>1, OthersOwn DEF SessionTypeOK
  <2>3. \A t \in pipes' : \E v \in Users : tid'[v] = t /\ pc'[v] \in WithPipe
    BY <2>1 DEF OnlyMoves
  <2>4. QED BY <2>2, <2>3
<1>3. ASSUME conn' \notin {"closed", "broken"}, live', "entry" \notin fate'
      PROVE  /\ \A v \in Users, t \in TIDs : Owns(v, t)' => Owns(v, t) /\ t \in server'
             /\ \A v, w \in Users, t \in TIDs : Owns(v, t)' /\ Owns(w, t)' => v = w
             /\ \A v \in Users, t \in TIDs : DealsWith(v, t)' /\ Mounted(v, t)' => pc'[v] = "disconnect"
             /\ \A t \in trees' : t \in server' \/ \E v \in Users : tid'[v] = t /\ pc'[v] \in Deleting
  <2>0. conn \notin {"closed", "broken"} /\ live /\ "entry" \notin fate BY <1>3
  <2>1. \A v \in Users, t \in TIDs : Owns(v, t)' => Owns(v, t) /\ t \in server'
    BY <2>0, OthersOwn DEF TreeParts, OwnedLive
  <2>2. \A v, w \in Users, t \in TIDs : Owns(v, t)' /\ Owns(w, t)' => v = w
    BY <2>0, <2>1 DEF TreeParts, OwnedOnce
  <2>3. \A v \in Users, t \in TIDs : DealsWith(v, t)' /\ Mounted(v, t)' => pc'[v] = "disconnect"
    BY ZenonT(30), <1>3, <2>0, OthersOwn DEF TreeParts, OwnedOnce, OnlyMoves
  <2>4. ASSUME NEW t \in trees'
        PROVE  t \in server' \/ \E v \in Users : tid'[v] = t /\ pc'[v] \in Deleting
    <3>1. CASE pc[u] \in Dealing /\ t = tid[u]
      <4>1. t \in TIDs /\ Owns(u, t) BY <3>1 DEF TreeParts, CallParts, Owns, DealsWith
      <4>2. QED BY <2>0, <4>1 DEF TreeParts, OwnedLive
    <3>2. CASE t \in trees
      <4>1. t \in server \/ \E v \in Users : tid[v] = t /\ pc[v] \in Deleting
        BY <2>0, <3>2 DEF TreeParts, MapCurrent
      <4>2. QED BY <4>1 DEF OnlyMoves
    <3>3. QED BY <3>1, <3>2
  <2>5. QED BY <2>1, <2>2, <2>3, <2>4
<1>4. OwnedLive' BY <1>3 DEF OwnedLive
<1>5. OwnedOnce' BY <1>3 DEF OwnedOnce
<1>6. MapCurrent' BY <1>3 DEF MapCurrent
<1>7. QED BY <1>1, <1>2, <1>4, <1>5, <1>6 DEF TreeParts

\* The tree a connect was answered with, or would have been, had no owner.
LEMMA ConnectedKeeps ==
  ASSUME SessionTypeOK, TreeParts, NEW u \in Users, OnlyMoves(u), Connected(u),
         UNCHANGED <<conn, dial, trees, mount>>
  PROVE  TreeParts'
<1>1. PICK t0 \in TIDs \ server : server' = server \cup {t0} /\ tid' = [tid EXCEPT ![u] = t0]
  BY DEF Connected
<1>2. /\ pc[u] \notin Dealing /\ pc[u] \notin Deleting /\ pc[u] \notin WithPipe
      /\ pc'[u] \notin Deleting /\ pc'[u] # "disconnect" /\ pc'[u] # "connect"
      /\ pc'[u] \in Dealing => pc'[u] \in Storing
  BY LabelFacts DEF Connected
<1>3. tid'[u] = t0 /\ mount'[u] = mount[u] /\ live' /\ pipes' = pipes /\ live
  BY <1>1 DEF SessionTypeOK, Connected
<1>4. \A t : (Mounted(u, t)' <=> Mounted(u, t)) /\ ~ DealsWith(u, t)
  BY <1>2, <1>3 DEF Mounted, DealsWith
<1>5. \A t : DealsWith(u, t)' <=> pc'[u] \in Storing /\ t = t0
  BY <1>2, <1>3, LabelFacts DEF DealsWith
<1>6. CallParts'
  <2>1. pc'[u] = "store" => mount'[u] = NoTID
    BY <1>3, LabelFacts DEF TreeParts, CallParts, Connected
  <2>2. pc'[u] \in {"connect", "store"} => mount'[u] = NoTID BY <1>2, <2>1
  <2>3. QED BY <1>1, <1>2, <1>3, <2>2 DEF TreeParts, CallParts, OnlyMoves
<1>7. Covered'
  <2> SUFFICES ASSUME conn' \notin {"closed", "broken"}, "tree" \notin fate'
               PROVE  /\ \A t \in server' : \E v \in Users : Owns(v, t)'
                      /\ \A t \in pipes' : \E v \in Users : tid'[v] = t /\ pc'[v] \in WithPipe
    BY DEF Covered
  <2>1. "tree" \notin fate /\ pc'[u] \in Storing BY DEF Connected
  <2>2. /\ \A t \in server : \E v \in Users : Owns(v, t)
        /\ \A t \in pipes : \E v \in Users : tid[v] = t /\ pc[v] \in WithPipe
    BY <2>1 DEF TreeParts, Covered
  <2>3. Owns(u, t0)' BY <1>5, <2>1 DEF Owns
  <2>4. ASSUME NEW t \in server PROVE \E v \in Users : Owns(v, t)'
    <3>1. PICK v \in Users : Owns(v, t) BY <2>2
    <3>2. CASE v = u BY <1>4, <3>1, <3>2 DEF Owns
    <3>3. CASE v # u BY <3>1, <3>3, OthersOwn
    <3>4. QED BY <3>2, <3>3
  <2>5. \A t \in pipes' : \E v \in Users : tid'[v] = t /\ pc'[v] \in WithPipe
    BY <1>2, <1>3, <2>2 DEF OnlyMoves
  <2>6. QED BY <1>1, <2>3, <2>4, <2>5
<1>8. ASSUME conn' \notin {"closed", "broken"}, live', "entry" \notin fate'
      PROVE  /\ \A v \in Users, t \in TIDs : Owns(v, t)' => t \in server'
             /\ \A v, w \in Users, t \in TIDs : Owns(v, t)' /\ Owns(w, t)' => v = w
             /\ \A v \in Users, t \in TIDs : DealsWith(v, t)' /\ Mounted(v, t)' => pc'[v] = "disconnect"
             /\ \A t \in trees' : t \in server' \/ \E v \in Users : tid'[v] = t /\ pc'[v] \in Deleting
  <2>0. conn \notin {"closed", "broken"} /\ live /\ "entry" \notin fate BY <1>3, <1>8 DEF Connected
  <2>1. \A v \in Users, t \in TIDs : Owns(v, t) => t \in server
    BY <2>0 DEF TreeParts, OwnedLive
  <2>2. \A v \in Users, t \in TIDs : Owns(v, t)' => Owns(v, t) \/ (v = u /\ t = t0)
    BY <1>4, <1>5, OthersOwn DEF Owns
  <2>3. \A v \in Users, t \in TIDs : Owns(v, t)' => t \in server' BY <1>1, <2>1, <2>2
  <2>4. \A v, w \in Users, t \in TIDs : Owns(v, t)' /\ Owns(w, t)' => v = w
    BY <1>1, <2>0, <2>1, <2>2 DEF TreeParts, OwnedOnce
  <2>5. ASSUME NEW v \in Users, NEW t \in TIDs, DealsWith(v, t)', Mounted(v, t)'
        PROVE  pc'[v] = "disconnect"
    <3>1. CASE v = u
      <4>1. t = t0 /\ Owns(u, t) BY <1>4, <1>5, <2>5, <3>1 DEF Owns
      <4>2. QED BY <1>1, <2>1, <4>1
    <3>2. CASE v # u BY <2>0, <2>5, <3>2, OthersOwn DEF TreeParts, OwnedOnce, OnlyMoves
    <3>3. QED BY <3>1, <3>2
  <2>6. \A t \in trees' : t \in server' \/ \E v \in Users : tid'[v] = t /\ pc'[v] \in Deleting
    BY <1>1, <1>2, <2>0 DEF TreeParts, MapCurrent, OnlyMoves
  <2>7. QED BY <2>3, <2>4, <2>5, <2>6
<1>9. OwnedLive' BY <1>8 DEF OwnedLive
<1>10. OwnedOnce' BY <1>8 DEF OwnedOnce
<1>11. MapCurrent' BY <1>8 DEF MapCurrent
<1>12. QED BY <1>6, <1>7, <1>9, <1>10, <1>11 DEF TreeParts

\* A disconnect takes from the server the tree its caller answers for.
LEMMA DisconnectedKeeps ==
  ASSUME SessionTypeOK, TreeParts, NEW u \in Users, OnlyMoves(u), Disconnected(u),
         UNCHANGED <<conn, dial, trees, mount>>
  PROVE  TreeParts'
<1>1. /\ server' = server \ {tid[u]} /\ pipes' = pipes \ {tid[u]} /\ live' = live
      /\ tid'[u] = tid[u] /\ mount'[u] = mount[u]
  BY DEF Disconnected
<1>2. /\ pc[u] \in Dealing /\ pc[u] \notin Deleting
      /\ pc'[u] \notin Dealing /\ pc'[u] # "disconnect" /\ pc'[u] \notin {"connect", "store"}
  <2>1. pc[u] \in Dealing /\ pc[u] \notin Deleting BY LabelFacts DEF Disconnected
  <2>2. pc'[u] \notin Dealing BY LabelFacts DEF Disconnected
  <2>3. pc'[u] # "connect" BY LabelFacts DEF Disconnected
  <2>4. QED BY <2>1, <2>2, <2>3, LabelFacts
<1>3. DealsWith(u, tid[u]) /\ tid[u] \in TIDs BY <1>2 DEF DealsWith, TreeParts, CallParts
<1>4. \A t : /\ ~ DealsWith(u, t)'
             /\ DealsWith(u, t) => t = tid[u]
             /\ Mounted(u, t)' => Mounted(u, t)
             /\ Mounted(u, t) /\ t # tid[u] => Mounted(u, t)'
             /\ Mounted(u, t)' /\ pc'[u] \in Deleting => t # tid[u]
  BY <1>1, <1>2 DEF DealsWith, Mounted
<1>5. CallParts' BY <1>1, <1>2 DEF TreeParts, CallParts, OnlyMoves
<1>6. Covered'
  <2> SUFFICES ASSUME conn' \notin {"closed", "broken"}, "tree" \notin fate'
               PROVE  /\ \A t \in server' : \E v \in Users : Owns(v, t)'
                      /\ \A t \in pipes' : \E v \in Users : tid'[v] = t /\ pc'[v] \in WithPipe
    BY DEF Covered
  <2>1. "tree" \notin fate BY DEF Disconnected
  <2>2. /\ \A t \in server : \E v \in Users : Owns(v, t)
        /\ \A t \in pipes : \E v \in Users : tid[v] = t /\ pc[v] \in WithPipe
    BY <2>1 DEF TreeParts, Covered
  <2>3. ASSUME NEW t \in server' PROVE \E v \in Users : Owns(v, t)'
    <3>1. PICK v \in Users : Owns(v, t) BY <1>1, <2>2
    <3>2. CASE v = u BY <1>1, <1>4, <3>1, <3>2 DEF Owns
    <3>3. CASE v # u BY <3>1, <3>3, OthersOwn
    <3>4. QED BY <3>2, <3>3
  <2>4. ASSUME NEW t \in pipes' PROVE \E v \in Users : tid'[v] = t /\ pc'[v] \in WithPipe
    <3>1. PICK v \in Users : tid[v] = t /\ pc[v] \in WithPipe BY <1>1, <2>2
    <3>2. v # u BY <1>1, <3>1
    <3>3. QED BY <3>1, <3>2 DEF OnlyMoves
  <2>5. QED BY <2>3, <2>4
<1>7. ASSUME conn' \notin {"closed", "broken"}, live', "entry" \notin fate'
      PROVE  /\ \A v \in Users, t \in TIDs : Owns(v, t)' => t \in server'
             /\ \A v, w \in Users, t \in TIDs : Owns(v, t)' /\ Owns(w, t)' => v = w
             /\ \A v \in Users, t \in TIDs : DealsWith(v, t)' /\ Mounted(v, t)' => pc'[v] = "disconnect"
             /\ \A t \in trees' : t \in server' \/ \E v \in Users : tid'[v] = t /\ pc'[v] \in Deleting
  <2>0. conn \notin {"closed", "broken"} /\ live /\ "entry" \notin fate /\ pc'[u] \in Deleting
    BY <1>1, <1>7 DEF Disconnected
  <2>1. /\ \A v \in Users, t \in TIDs : Owns(v, t) => t \in server
        /\ \A v, w \in Users, t \in TIDs : Owns(v, t) /\ Owns(w, t) => v = w
        /\ \A v \in Users, t \in TIDs : DealsWith(v, t) /\ Mounted(v, t) => pc[v] = "disconnect"
    BY <2>0 DEF TreeParts, OwnedLive, OwnedOnce
  <2>2. \A v \in Users, t \in TIDs : Owns(v, t)' => Owns(v, t)
    BY <1>4, OthersOwn DEF Owns
  <2>3. ASSUME NEW v \in Users, NEW t \in TIDs, Owns(v, t)' PROVE t \in server' /\ t # tid[u]
    <3>1. t # tid[u]
      <4>1. CASE v = u BY <1>4, <2>0, <2>3, <4>1 DEF Owns
      <4>2. CASE v # u
        <5>1. Owns(u, tid[u]) /\ Owns(v, t) BY <1>3, <2>2, <2>3 DEF Owns
        <5>2. QED BY <1>3, <2>1, <4>2, <5>1
      <4>3. QED BY <4>1, <4>2
    <3>2. QED BY <1>1, <2>1, <2>2, <2>3, <3>1
  <2>4. \A v, w \in Users, t \in TIDs : Owns(v, t)' /\ Owns(w, t)' => v = w BY <2>1, <2>2
  <2>5. \A v \in Users, t \in TIDs : DealsWith(v, t)' /\ Mounted(v, t)' => pc'[v] = "disconnect"
    BY <1>4, <2>1, OthersOwn DEF OnlyMoves
  <2>6. \A t \in trees' : t \in server' \/ \E v \in Users : tid'[v] = t /\ pc'[v] \in Deleting
    <3> SUFFICES ASSUME NEW t \in trees, t \notin server'
                 PROVE  \E v \in Users : tid'[v] = t /\ pc'[v] \in Deleting
      OBVIOUS
    <3>1. CASE t = tid[u] BY <1>1, <2>0, <3>1
    <3>2. CASE t # tid[u]
      <4>1. PICK v \in Users : tid[v] = t /\ pc[v] \in Deleting
        BY <1>1, <2>0, <3>2 DEF TreeParts, MapCurrent
      <4>2. QED BY <1>2, <4>1 DEF OnlyMoves
    <3>3. QED BY <3>1, <3>2
  <2>7. QED BY <2>3, <2>4, <2>5, <2>6
<1>8. OwnedLive' BY <1>7 DEF OwnedLive
<1>9. OwnedOnce' BY <1>7 DEF OwnedOnce
<1>10. MapCurrent' BY <1>7 DEF MapCurrent
<1>11. QED BY <1>5, <1>6, <1>8, <1>9, <1>10 DEF TreeParts
\* A goroutine that goes on with its tree answers for it as before.
LEMMA WentOnKeeps ==
  ASSUME SessionTypeOK, TreeParts, NEW u \in Users, OnlyMoves(u), WentOn(u),
         UNCHANGED <<conn, dial, trees, mount>>
  PROVE  TreeParts'
<1>1. /\ pc[u] \in Dealing /\ pc[u] \notin Deleting /\ pc[u] # "disconnect"
      /\ pc'[u] \in Dealing /\ pc'[u] \notin Deleting /\ pc'[u] \notin {"connect", "store", "disconnect"}
  <2>1. pc[u] \in Dealing /\ pc[u] \notin Deleting /\ pc[u] # "disconnect" BY LabelFacts DEF WentOn
  <2>2. pc'[u] \in Dealing /\ pc'[u] \notin Deleting /\ pc'[u] # "disconnect" BY LabelFacts DEF WentOn
  <2>3. pc'[u] # "connect" /\ pc'[u] # "store" BY LabelFacts DEF WentOn
  <2>4. QED BY <2>1, <2>2, <2>3
<1>2. server' = server /\ live' = live /\ fate' = fate /\ tid'[u] = tid[u] /\ mount'[u] = mount[u]
  BY DEF WentOn
<1>3. \A t : (DealsWith(u, t)' <=> DealsWith(u, t)) /\ (Mounted(u, t)' <=> Mounted(u, t))
  BY <1>1, <1>2 DEF DealsWith, Mounted
<1>4. \A v \in Users, t \in TIDs : /\ Owns(v, t)' <=> Owns(v, t)
                                   /\ DealsWith(v, t)' <=> DealsWith(v, t)
                                   /\ Mounted(v, t)' <=> Mounted(v, t)
  BY <1>3, OthersOwn DEF Owns
<1>5. CallParts' BY <1>1, <1>2 DEF TreeParts, CallParts, OnlyMoves
<1>6. Covered'
  <2> SUFFICES ASSUME conn' \notin {"closed", "broken"}, "tree" \notin fate'
               PROVE  /\ \A t \in server' : \E v \in Users : Owns(v, t)'
                      /\ \A t \in pipes' : \E v \in Users : tid'[v] = t /\ pc'[v] \in WithPipe
    BY DEF Covered
  <2>1. /\ \A t \in server : \E v \in Users : Owns(v, t)
        /\ \A t \in pipes : \E v \in Users : tid[v] = t /\ pc[v] \in WithPipe
    BY <1>2 DEF TreeParts, Covered
  <2>2. \A t \in server' : \E v \in Users : Owns(v, t)' BY <1>2, <1>4, <2>1 DEF SessionTypeOK
  <2>3. ASSUME NEW t \in pipes' PROVE \E v \in Users : tid'[v] = t /\ pc'[v] \in WithPipe
    <3>1. CASE t = tid[u] /\ pc'[u] \in WithPipe BY <1>2, <3>1
    <3>2. CASE ~ (t = tid[u] /\ pc'[u] \in WithPipe)
      <4>1. t \in pipes BY <3>2 DEF WentOn
      <4>2. PICK v \in Users : tid[v] = t /\ pc[v] \in WithPipe BY <2>1, <4>1
      <4>3. v # u
        <5>1. SUFFICES ASSUME v = u PROVE FALSE OBVIOUS
        <5>2. t = tid[u] /\ pc[u] \in WithPipe BY <4>2, <5>1
        <5>3. QED BY <3>2, <5>2 DEF WentOn
      <4>4. QED BY <4>2, <4>3 DEF OnlyMoves
    <3>3. QED BY <3>1, <3>2
  <2>4. QED BY <2>2, <2>3
<1>7. OwnedLive' BY <1>2, <1>4 DEF TreeParts, OwnedLive
<1>8. OwnedOnce'
  <2> SUFFICES ASSUME conn' \notin {"closed", "broken"}, live', "entry" \notin fate'
               PROVE  /\ \A v, w \in Users, t \in TIDs : Owns(v, t)' /\ Owns(w, t)' => v = w
                      /\ \A v \in Users, t \in TIDs : DealsWith(v, t)' /\ Mounted(v, t)' => pc'[v] = "disconnect"
    BY DEF OwnedOnce
  <2>1. /\ \A v, w \in Users, t \in TIDs : Owns(v, t) /\ Owns(w, t) => v = w
        /\ \A v \in Users, t \in TIDs : DealsWith(v, t) /\ Mounted(v, t) => pc[v] = "disconnect"
    BY <1>2 DEF TreeParts, OwnedOnce
  <2>2. \A v, w \in Users, t \in TIDs : Owns(v, t)' /\ Owns(w, t)' => v = w BY <1>4, <2>1
  <2>3. \A v \in Users, t \in TIDs : DealsWith(v, t)' /\ Mounted(v, t)' => pc'[v] = "disconnect"
    BY <1>1, <1>4, <2>1 DEF OnlyMoves
  <2>4. QED BY <2>2, <2>3
<1>9. MapCurrent' BY <1>1, <1>2 DEF TreeParts, MapCurrent, OnlyMoves
<1>10. QED BY <1>5, <1>6, <1>7, <1>8, <1>9 DEF TreeParts

\* The server did nothing, and the goroutine gave up on the tree.
LEMMA LeftAloneKeeps ==
  ASSUME SessionTypeOK, TreeParts, NEW u \in Users, OnlyMoves(u), LeftAlone(u),
         UNCHANGED <<conn, dial, trees, mount>>
  PROVE  TreeParts'
<1>1. /\ pc[u] \notin Deleting /\ pc'[u] \notin Dealing /\ pc'[u] \notin Deleting
      /\ pc'[u] \notin {"connect", "store", "disconnect"}
  <2>1. pc[u] \notin Deleting BY LabelFacts DEF LeftAlone
  <2>2. pc'[u] \notin Dealing /\ pc'[u] \notin Deleting BY LabelFacts DEF LeftAlone
  <2>3. pc'[u] # "connect" BY DEF LeftAlone
  <2>4. QED BY <2>1, <2>2, <2>3, LabelFacts
<1>2. /\ server' = server /\ pipes' = pipes /\ live' = live /\ tid'[u] = tid[u] /\ mount'[u] = mount[u]
      /\ "tree" \in fate => "tree" \in fate'
      /\ "entry" \in fate => "entry" \in fate'
      /\ pc[u] \in Dealing => "tree" \in fate'
  BY LabelFacts DEF LeftAlone
<1>3. \A t : ~ DealsWith(u, t)' /\ (Mounted(u, t)' <=> Mounted(u, t))
  BY <1>1, <1>2 DEF DealsWith, Mounted
<1>4. \A t : Owns(u, t)' => Owns(u, t) BY <1>3 DEF Owns
<1>5. "tree" \in fate' \/ \A t \in TIDs : Owns(u, t) => Owns(u, t)'
  BY <1>2, <1>3 DEF Owns, DealsWith
<1>6. pc[u] \notin WithPipe \/ "tree" \in fate' BY <1>2, LabelFacts
<1>7. QED BY <1>1, <1>2, <1>3, <1>4, <1>5, <1>6, SameOwner

\* The server forgets every tree of a session it logs off.
LEMMA LoggedOffKeeps ==
  ASSUME SessionTypeOK, TreeParts, NEW u \in Users, OnlyMoves(u), LoggedOff(u),
         UNCHANGED <<conn, dial, trees, mount>>
  PROVE  TreeParts'
<1>1. /\ pc[u] \notin Deleting /\ pc[u] \notin Dealing /\ pc[u] \notin WithPipe
      /\ pc'[u] \notin Dealing /\ pc'[u] \notin Deleting /\ pc'[u] \notin {"connect", "store", "disconnect"}
  BY LabelFacts DEF LoggedOff
<1>2. tid'[u] = tid[u] /\ mount'[u] = mount[u] /\ fate' = fate BY DEF LoggedOff
<1>3. CASE live' = FALSE /\ server' = {} /\ pipes' = {}
  <2>1. CallParts' BY <1>1, <1>2, <1>3 DEF TreeParts, CallParts, OnlyMoves
  <2>2. Covered' BY <1>3 DEF Covered
  <2>3. OwnedLive' /\ OwnedOnce' /\ MapCurrent' BY <1>3 DEF OwnedLive, OwnedOnce, MapCurrent
  <2>4. QED BY <2>1, <2>2, <2>3 DEF TreeParts
<1>4. CASE UNCHANGED <<server, pipes, live>>
  <2>1. \A t : ~ DealsWith(u, t)' /\ ~ DealsWith(u, t) /\ (Mounted(u, t)' <=> Mounted(u, t))
    BY <1>1, <1>2 DEF DealsWith, Mounted
  <2>2. \A t : Owns(u, t)' <=> Owns(u, t) BY <2>1 DEF Owns
  <2>3. QED BY <1>1, <1>2, <1>4, <2>1, <2>2, SameOwner
<1>5. QED BY <1>3, <1>4 DEF LoggedOff

\* So a request keeps the ownership of the trees, however it ends.
LEMMA RequestKeeps ==
  ASSUME SessionTypeOK, TreeParts, NEW u \in Users, Reply(u) \/ Refused(u) \/ ReplyLost(u)
  PROVE  TreeParts'
<1>1. /\ Connected(u) \/ Disconnected(u) \/ LeftAlone(u) \/ WentOn(u) \/ LoggedOff(u)
      /\ pc' = [pc EXCEPT ![u] = pc'[u]]
      /\ UNCHANGED <<conn, dial, trees, mount>>
  BY RequestCases
<1>2. \A v \in Users : v # u => tid'[v] = tid[v]
  BY <1>1 DEF SessionTypeOK, Connected, Disconnected, LeftAlone, WentOn, LoggedOff
<1>3. OnlyMoves(u) BY <1>1, <1>2 DEF OnlyMoves, SessionTypeOK
<1>4. QED BY <1>1, <1>3, ConnectedKeeps, DisconnectedKeeps, LeftAloneKeeps, WentOnKeeps, LoggedOffKeeps

\* A call that begins: only an Umount takes up a tree, and that one it has.
LEMMA BeginKeeps ==
  ASSUME SessionTypeOK, TreeParts, NEW u \in Users,
         Mount(u) \/ Umount(u) \/ ListSharenames(u) \/ Logoff(u)
  PROVE  TreeParts'
<1>1. /\ pc[u] = "idle" /\ pc' = [pc EXCEPT ![u] = pc'[u]]
      /\ UNCHANGED <<dial, conn, mount, trees, server, live, pipes, fate>>
  BY DEF Mount, Umount, ListSharenames, Logoff, Begin, treeVars, SessionTypeOK
<1>2. \A v \in Users : v # u => tid'[v] = tid[v]
  BY DEF Mount, Umount, ListSharenames, Logoff, SessionTypeOK
<1>3. OnlyMoves(u) BY <1>1, <1>2 DEF OnlyMoves, SessionTypeOK
<1>4. pc[u] \notin Deleting /\ pc[u] \notin Dealing /\ pc[u] \notin WithPipe
  BY <1>1, LabelFacts
<1>5. CASE Umount(u)
  <2>1. pc'[u] = "disconnect" /\ tid'[u] = mount[u] /\ mount[u] # NoTID /\ mount[u] \in TIDs
    BY <1>5 DEF Umount, Begin, SessionTypeOK
  <2>2. pc'[u] \in Dealing /\ pc'[u] \notin Deleting BY <2>1, LabelFacts
  <2>3. \A t : /\ ~ DealsWith(u, t) /\ (Mounted(u, t)' <=> Mounted(u, t))
               /\ DealsWith(u, t)' => Mounted(u, t)
    BY <1>1, <1>4, <2>1, <2>2 DEF DealsWith, Mounted
  <2>4. \A t : Owns(u, t)' <=> Owns(u, t) BY <2>3 DEF Owns
  <2>5. QED BY <1>1, <1>3, <1>4, <2>1, <2>4, SameOwner
<1>6. CASE Mount(u) \/ ListSharenames(u) \/ Logoff(u)
  <2>1. /\ pc'[u] \in {"connect", "rapConnect", "logoff"} /\ tid' = tid
        /\ pc'[u] = "connect" => mount[u] = NoTID
    BY <1>6 DEF Mount, ListSharenames, Logoff, Begin, SessionTypeOK
  <2>2. pc'[u] \notin Dealing /\ pc'[u] \notin Deleting /\ pc'[u] # "disconnect" /\ pc'[u] # "store"
    BY <2>1, LabelFacts
  <2>3. \A t : ~ DealsWith(u, t) /\ ~ DealsWith(u, t)' /\ (Mounted(u, t)' <=> Mounted(u, t))
    BY <1>1, <1>4, <2>1, <2>2 DEF DealsWith, Mounted
  <2>4. \A t : Owns(u, t)' <=> Owns(u, t) BY <2>3 DEF Owns
  <2>5. QED BY <1>1, <1>3, <1>4, <2>1, <2>2, <2>3, <2>4, SameOwner
<1>7. QED BY <1>5, <1>6

\* TreeConnect stores the tree its caller answers for.
LEMMA StoreKeeps ==
  ASSUME SessionTypeOK, TreeParts, NEW u \in Users, Store(u)
  PROVE  TreeParts'
<1>1. /\ pc[u] \in Storing /\ pc[u] \in Dealing /\ tid[u] \in TIDs
      /\ pc[u] \notin Deleting /\ pc[u] \notin WithPipe /\ pc[u] # "disconnect"
  BY LabelFacts DEF Store, Storing, TreeParts, CallParts
<1>2. /\ trees' = trees \cup {tid[u]} /\ pc' = [pc EXCEPT ![u] = pc'[u]]
      /\ UNCHANGED <<dial, conn, tid, server, live, pipes, fate>>
  BY DEF Store, SessionTypeOK
<1>3. OnlyMoves(u) BY <1>2 DEF OnlyMoves, SessionTypeOK, Store
<1>4. CASE pc[u] = "store"
  <2>1. pc'[u] = "idle" /\ mount'[u] = tid[u] /\ mount[u] = NoTID
    BY <1>4 DEF Store, SessionTypeOK, TreeParts, CallParts
  <2>2. pc'[u] \notin Dealing /\ pc'[u] \notin Deleting BY <2>1, LabelFacts
  <2>3. \A t : ~ DealsWith(u, t)' /\ ~ Mounted(u, t)
    BY <2>1, <2>2 DEF DealsWith, Mounted
  <2>4. \A t : Mounted(u, t)' <=> DealsWith(u, t)
    BY <1>1, <2>1, <2>2 DEF DealsWith, Mounted
  <2>5. \A t : Owns(u, t)' <=> Owns(u, t) BY <2>3, <2>4 DEF Owns
  <2>6. QED BY <1>1, <1>2, <1>3, <2>1, <2>2, <2>3, <2>5, SameOwner
<1>5. CASE pc[u] # "store"
  <2>1. pc'[u] \in {"rapSend", "openPipe"} /\ mount' = mount
    BY <1>5 DEF Store, SessionTypeOK
  <2>2. pc'[u] \in Dealing /\ pc'[u] \notin Deleting /\ pc'[u] \notin {"connect", "store", "disconnect"}
    BY <2>1, LabelFacts
  <2>3. \A t : (DealsWith(u, t)' <=> DealsWith(u, t)) /\ (Mounted(u, t)' <=> Mounted(u, t))
    BY <1>1, <1>2, <2>1, <2>2 DEF DealsWith, Mounted
  <2>4. \A t : Owns(u, t)' <=> Owns(u, t) BY <2>3 DEF Owns
  <2>5. conn' \notin {"closed", "broken"} /\ live' /\ "entry" \notin fate' =>
           \A t \in TIDs : DealsWith(u, t)' /\ Mounted(u, t)' => pc'[u] = "disconnect"
    BY <1>1, <1>2, <2>3 DEF TreeParts, OwnedOnce
  <2>6. QED BY <1>1, <1>2, <1>3, <2>2, <2>4, <2>5, SameOwner
<1>6. QED BY <1>4, <1>5

\* TreeDisconnect forgets a tree for which nobody answers.
LEMMA DeleteKeeps ==
  ASSUME SessionTypeOK, TreeParts, NEW u \in Users, Delete(u)
  PROVE  TreeParts'
<1>1. /\ pc[u] \in Deleting /\ pc[u] \notin Dealing /\ pc[u] \notin WithPipe
  BY LabelFacts DEF Delete, Deleting
<1>2. /\ trees' = trees \ {tid[u]} /\ pc' = [pc EXCEPT ![u] = pc'[u]]
      /\ pc'[u] \in {"idle", "rpcConnect"}
      /\ UNCHANGED <<dial, conn, tid, server, live, pipes, fate>>
  BY DEF Delete, DeleteTree, SessionTypeOK
<1>3. OnlyMoves(u) BY <1>2 DEF OnlyMoves, SessionTypeOK, Delete
<1>4. pc'[u] \notin Dealing /\ pc'[u] \notin Deleting /\ pc'[u] \notin {"connect", "store", "disconnect"}
  BY <1>2, LabelFacts
<1>5. mount'[u] = IF mount[u] = tid[u] THEN NoTID ELSE mount[u]
  BY DEF Delete, SessionTypeOK
<1>6. \A t : ~ DealsWith(u, t) /\ ~ DealsWith(u, t)' /\ (Mounted(u, t)' <=> Mounted(u, t))
  BY <1>1, <1>4, <1>5 DEF DealsWith, Mounted
<1>7. \A t : Owns(u, t)' <=> Owns(u, t) BY <1>6 DEF Owns
<1>8. QED BY <1>1, <1>2, <1>3, <1>4, <1>6, <1>7, SameOwner

\* Of a connection that is closed or broken the parts say nothing.
LEMMA CloseKeeps ==
  ASSUME SessionTypeOK, TreeParts, NEW u \in Users, CloseConn(u)
  PROVE  TreeParts'
<1>1. /\ conn' \in {"closed", "broken"} /\ dial' = "off" /\ pc' = [pc EXCEPT ![u] = "idle"]
      /\ server' \subseteq server /\ UNCHANGED <<tid, mount, live>>
  BY DEF CloseConn, Closed
<1>2. "idle" \notin Dealing BY LabelFacts
<1>3. CallParts' BY <1>1, <1>2 DEF TreeParts, CallParts, SessionTypeOK
<1>4. Covered' /\ OwnedLive' /\ OwnedOnce' /\ MapCurrent'
  BY <1>1 DEF Covered, OwnedLive, OwnedOnce, MapCurrent
<1>5. QED BY <1>3, <1>4 DEF TreeParts

\* Nor does a failed read or write touch what the goroutines know.
LEMMA BreaksKeeps ==
  ASSUME SessionTypeOK, TreeParts, Breaks
  PROVE  TreeParts'
<1>1. conn = "open" /\ conn' = "broken" /\ UNCHANGED <<dial, pc, tid, mount, live, server>>
  BY DEF Breaks, userVars, treeVars
<1>2. CallParts' BY <1>1 DEF TreeParts, CallParts
<1>3. Covered' /\ OwnedLive' /\ OwnedOnce' /\ MapCurrent'
  BY <1>1 DEF Covered, OwnedLive, OwnedOnce, MapCurrent
<1>4. QED BY <1>2, <1>3 DEF TreeParts

\* Dialling touches no tree, and opens the connection once.
LEMMA DialKeeps ==
  ASSUME SessionTypeOK, TreeParts, Dial \/ Negotiate \/ SetupNegotiate \/ SetupAuthenticate
  PROVE  TreeParts'
<1>1. UNCHANGED <<pc, tid, mount, trees, server, live, pipes, fate>>
  BY DEF Dial, Negotiate, SetupNegotiate, SetupAuthenticate, userVars, treeVars
<1>2. dial' # "new" /\ (conn' \notin {"closed", "broken"} => conn \notin {"closed", "broken"})
  BY DEF Dial, Negotiate, SetupNegotiate, SetupAuthenticate, DialFails, Closed, TreeParts, CallParts
<1>3. \A u \in Users, t \in TIDs : /\ Owns(u, t)' <=> Owns(u, t)
                                   /\ DealsWith(u, t)' <=> DealsWith(u, t)
                                   /\ Mounted(u, t)' <=> Mounted(u, t)
  BY <1>1 DEF Owns, DealsWith, Mounted
<1>4. CallParts' BY <1>1, <1>2 DEF TreeParts, CallParts
<1>5. Covered' BY <1>1, <1>2, <1>3 DEF TreeParts, Covered, SessionTypeOK
<1>6. OwnedLive' BY <1>1, <1>2, <1>3 DEF TreeParts, OwnedLive
<1>7. OwnedOnce' BY <1>1, <1>2, <1>3 DEF TreeParts, OwnedOnce
<1>8. MapCurrent' BY <1>1, <1>2 DEF TreeParts, MapCurrent
<1>9. QED BY <1>4, <1>5, <1>6, <1>7, <1>8 DEF TreeParts

\* A step that changes nothing of what the parts speak of keeps them.
LEMMA StutterKeeps ==
  ASSUME SessionIInv, UNCHANGED vars
  PROVE  SessionIInv'
<1>1. SessionTypeOK' BY DEF SessionIInv, SessionTypeOK, vars, userVars, treeVars
<1>2. CallParts' BY DEF SessionIInv, CallParts, vars, userVars, treeVars
<1>3. \A u \in Users, t \in TIDs : /\ Owns(u, t)' <=> Owns(u, t)
                                   /\ DealsWith(u, t)' <=> DealsWith(u, t)
                                   /\ Mounted(u, t)' <=> Mounted(u, t)
  BY DEF Owns, DealsWith, Mounted, vars, userVars
<1>4. Covered' BY <1>3 DEF SessionIInv, Covered, SessionTypeOK, vars, userVars, treeVars
<1>5. OwnedLive' BY <1>3 DEF SessionIInv, OwnedLive, vars, treeVars
<1>6. OwnedOnce' BY <1>3 DEF SessionIInv, OwnedOnce, vars, userVars, treeVars
<1>7. MapCurrent' BY DEF SessionIInv, MapCurrent, vars, userVars, treeVars
<1>8. Answered' BY DEF SessionIInv, Answered, vars, authVars
<1>9. CredKept' BY DEF SessionIInv, CredKept, vars, authVars
<1>10. QED BY <1>1, <1>2, <1>4, <1>5, <1>6, <1>7, <1>8, <1>9 DEF SessionIInv

-----------------------------------------------------------------------------
(* Types, and the exchange that authenticates.                             *)

\* Every step keeps the types.
LEMMA TypeStep ==
  ASSUME SessionTypeOK, CallParts, Next
  PROVE  SessionTypeOK'
<1>1. CASE Dial \/ Negotiate \/ SetupNegotiate \/ SetupAuthenticate
  BY <1>1 DEF Dial, Negotiate, SetupNegotiate, SetupAuthenticate, userVars, treeVars, SessionTypeOK
<1>2. ASSUME NEW u \in Users, Reply(u) \/ Refused(u) \/ ReplyLost(u)
      PROVE  SessionTypeOK'
  <2>1. /\ Connected(u) \/ Disconnected(u) \/ LeftAlone(u) \/ WentOn(u) \/ LoggedOff(u)
        /\ pc' = [pc EXCEPT ![u] = pc'[u]] /\ pc'[u] \in Labels
        /\ UNCHANGED <<trees, mount>>
    BY <1>2, RequestCases
  <2>2. pc' \in [Users -> Labels] BY <2>1 DEF SessionTypeOK
  <2>3. tid' \in [Users -> TIDs \cup {NoTID}]
    BY <2>1 DEF SessionTypeOK, Connected, Disconnected, LeftAlone, WentOn, LoggedOff
  <2>4. server' \subseteq TIDs /\ pipes' \subseteq server'
    BY <2>1 DEF SessionTypeOK, Connected, Disconnected, LeftAlone, WentOn, LoggedOff
  <2>5. QED BY <2>1, <2>2, <2>3, <2>4 DEF SessionTypeOK
<1>3. ASSUME NEW u \in Users, Mount(u) \/ Umount(u) \/ ListSharenames(u) \/ Logoff(u)
      PROVE  SessionTypeOK'
  <2>1. \E l \in {"connect", "disconnect", "rapConnect", "logoff"} : pc' = [pc EXCEPT ![u] = l]
    BY <1>3 DEF Mount, Umount, ListSharenames, Logoff, Begin
  <2>2. pc' \in [Users -> Labels] BY <2>1 DEF SessionTypeOK, Labels, Requesting
  <2>3. tid' \in [Users -> TIDs \cup {NoTID}]
    BY <1>3 DEF Mount, Umount, ListSharenames, Logoff, SessionTypeOK
  <2>4. UNCHANGED <<mount, trees, server, pipes>>
    BY <1>3 DEF Mount, Umount, ListSharenames, Logoff, Begin, treeVars
  <2>5. QED BY <2>2, <2>3, <2>4 DEF SessionTypeOK
<1>4. ASSUME NEW u \in Users, Store(u) PROVE SessionTypeOK'
  <2>1. \E l \in {"idle", "rapSend", "openPipe"} : pc' = [pc EXCEPT ![u] = l]
    BY <1>4 DEF Store, SessionTypeOK
  <2>2. pc' \in [Users -> Labels] BY <2>1 DEF SessionTypeOK, Labels, Requesting
  <2>3. tid[u] \in TIDs
    <3>1. pc[u] \in Dealing BY <1>4, LabelFacts DEF Store, Storing
    <3>2. QED BY <3>1 DEF CallParts
  <2>4. mount' \in [Users -> TIDs \cup {NoTID}] /\ trees' \subseteq TIDs /\ UNCHANGED <<tid, server, pipes>>
    BY <1>4, <2>3 DEF Store, SessionTypeOK
  <2>5. QED BY <2>2, <2>4 DEF SessionTypeOK
<1>5. ASSUME NEW u \in Users, Delete(u) PROVE SessionTypeOK'
  <2>1. \E l \in {"idle", "rpcConnect"} : pc' = [pc EXCEPT ![u] = l]
    BY <1>5 DEF Delete, SessionTypeOK
  <2>2. pc' \in [Users -> Labels] BY <2>1 DEF SessionTypeOK, Labels, Requesting
  <2>3. mount' \in [Users -> TIDs \cup {NoTID}] /\ trees' \subseteq TIDs /\ UNCHANGED <<tid, server, pipes>>
    BY <1>5 DEF Delete, DeleteTree, SessionTypeOK
  <2>4. QED BY <2>2, <2>3 DEF SessionTypeOK
<1>6. ASSUME NEW u \in Users, CloseConn(u) PROVE SessionTypeOK'
  BY <1>6 DEF CloseConn, SessionTypeOK, Labels
<1>7. CASE Breaks BY <1>7 DEF Breaks, SessionTypeOK, userVars, treeVars
<1>8. QED BY <1>1, <1>2, <1>3, <1>4, <1>5, <1>6, <1>7 DEF Next, Step

\* After dialling nothing touches what dialling found out.
LEMMA AuthStep ==
  ASSUME SessionTypeOK, Answered, CredKept, Next
  PROVE  Answered' /\ CredKept'
<1>1. CASE Dial \/ Negotiate
  <2>1. dial' # "authenticate" /\ UNCHANGED cred /\ dial \in {"new", "negotiate"}
    BY <1>1 DEF Dial, Negotiate, DialFails, authVars
  <2>2. QED BY <2>1 DEF Answered, CredKept
<1>2. CASE SetupNegotiate
  <2>1. dial = "setup" /\ cred \in Credentials BY <1>2 DEF SetupNegotiate, CredKept
  <2>2. CASE DialFails BY <2>2 DEF DialFails, Answered, CredKept
  <2>3. CASE dial' = "up" BY <2>3 DEF Answered, CredKept
  <2>4. ASSUME NEW c \in Challenges, ~ Refuses(c), cmsg' = c, dial' = "authenticate",
               amsg' = AuthenticateMessage(cred, c), cred' = cred
        PROVE  Answered' /\ CredKept'
    BY <2>1, <2>4 DEF Answered, CredKept
  <2>5. QED BY <1>2, <2>2, <2>3, <2>4 DEF SetupNegotiate
<1>3. CASE SetupAuthenticate
  <2>1. dial' \in {"failed", "up"} BY <1>3 DEF SetupAuthenticate, DialFails
  <2>2. QED BY <2>1 DEF Answered, CredKept
<1>4. ASSUME NEW u \in Users,
             Mount(u) \/ Umount(u) \/ ListSharenames(u) \/ Logoff(u) \/ Reply(u) \/ Refused(u)
                \/ ReplyLost(u) \/ Store(u) \/ Delete(u)
      PROVE  Answered' /\ CredKept'
  <2>1. UNCHANGED <<dial, authVars>>
    BY <1>4 DEF Mount, Umount, ListSharenames, Logoff, Begin, Reply, Refused, ReplyLost, Store, Delete
  <2>2. QED BY <2>1 DEF Answered, CredKept, authVars
<1>5. ASSUME NEW u \in Users, CloseConn(u) PROVE Answered' /\ CredKept'
  BY <1>5 DEF CloseConn, Answered, CredKept
<1>6. CASE Breaks BY <1>6 DEF Breaks, Answered, CredKept, authVars
<1>7. QED BY <1>1, <1>2, <1>3, <1>4, <1>5, <1>6 DEF Next, Step

\* The invariant holds before the dial.
LEMMA SessionInit == Init => SessionIInv
<1> SUFFICES ASSUME Init PROVE SessionIInv OBVIOUS
<1>1. "idle" \notin Dealing /\ "idle" \in Labels BY LabelFacts
<1>2. SessionTypeOK BY <1>1 DEF Init, SessionTypeOK
<1>3. CallParts BY <1>1 DEF Init, CallParts
<1>4. \A u \in Users, t \in TIDs : ~ DealsWith(u, t) /\ ~ Mounted(u, t)
  BY <1>1 DEF Init, DealsWith, Mounted
<1>5. Covered /\ MapCurrent BY DEF Init, Covered, MapCurrent
<1>6. OwnedLive /\ OwnedOnce BY <1>4 DEF OwnedLive, OwnedOnce, Owns
<1>7. Answered /\ CredKept BY DEF Init, Answered, CredKept
<1>8. QED BY <1>2, <1>3, <1>5, <1>6, <1>7 DEF SessionIInv

\* And every step keeps it.
LEMMA SessionNext == SessionIInv /\ [Next]_vars => SessionIInv'
<1> SUFFICES ASSUME SessionIInv, [Next]_vars PROVE SessionIInv' OBVIOUS
<1>1. CASE UNCHANGED vars BY <1>1, StutterKeeps
<1>2. CASE Next
  <2>1. SessionTypeOK /\ TreeParts BY DEF SessionIInv, TreeParts
  <2>2. SessionTypeOK' BY <1>2, TypeStep DEF SessionIInv
  <2>3. Answered' /\ CredKept' BY <1>2, AuthStep DEF SessionIInv
  <2>4. TreeParts'
    BY <1>2, <2>1, DialKeeps, BeginKeeps, RequestKeeps, StoreKeeps, DeleteKeeps, CloseKeeps,
       BreaksKeeps DEF Next, Step
  <2>5. QED BY <2>2, <2>3, <2>4 DEF SessionIInv, TreeParts
<1>3. QED BY <1>1, <1>2

\* Whatever is answered, refused or lost, and however the calls of the
\* goroutines interleave, the trees on the server and in the session's map have
\* the owners SessionIInv gives them (TreeConnect, TreeDisconnect, ListSharenames).
THEOREM SessionInvariant == Spec => []SessionIInv
<1>1. QED BY SessionInit, SessionNext, PTL DEF Spec

\* The state of a session has its type at every step (TypeOK).
THEOREM SessionTypeCorrect == Spec => []TypeOK
<1> DEFINE Phases ==
      /\ dial \in {"new", "negotiate", "setup", "authenticate", "up", "failed", "off"}
      /\ conn \in {"none", "open", "broken", "closed"}
      /\ granted \in {"none", "user", "guest"}
<1>1. Init => Phases BY DEF Init
<1>2. Phases /\ [Next]_vars => Phases'
  <2> SUFFICES ASSUME Phases, [Next]_vars PROVE Phases' OBVIOUS
  <2>1. CASE UNCHANGED vars BY <2>1 DEF vars, authVars
  <2>2. CASE Dial \/ Negotiate \/ Breaks BY <2>2 DEF Dial, Negotiate, DialFails, Closed, Breaks, authVars
  <2>3. CASE SetupNegotiate BY <2>3 DEF SetupNegotiate, DialFails, Closed, authVars
  <2>4. CASE SetupAuthenticate BY <2>4 DEF SetupAuthenticate, DialFails, Closed
  <2>5. ASSUME NEW u \in Users, Mount(u) \/ Umount(u) \/ ListSharenames(u) \/ Logoff(u) PROVE Phases'
    BY <2>5 DEF Mount, Umount, ListSharenames, Logoff, Begin, authVars
  <2>6. ASSUME NEW u \in Users, Step(u) PROVE Phases'
    BY <2>6 DEF Step, Reply, Refused, ReplyLost, Store, Delete, CloseConn, Closed, authVars
  <2>7. QED BY <2>1, <2>2, <2>3, <2>4, <2>5, <2>6 DEF Next
<1>3. Phases /\ SessionIInv => TypeOK BY DEF SessionIInv, SessionTypeOK, TypeOK
<1>4. QED BY <1>1, <1>2, <1>3, SessionInvariant, PTL DEF Spec

\* Session.trees has no tree the server has not, but for one that TreeDisconnect
\* is about to take out, unless the reply to a disconnect was lost.
THEOREM MapStaysCurrent == Spec => []MapIsCurrent
<1>1. SessionIInv => MapIsCurrent BY DEF SessionIInv, MapCurrent, MapIsCurrent, Deleting
<1>2. QED BY <1>1, SessionInvariant, PTL

\* When nobody is at work, every tree the server has is a mounted share, and no
\* pipe is open, unless a disconnect was refused or the reply to a connect was
\* lost: no path through ListSharenames keeps IPC$ or its \srvsvc pipe.
THEOREM NothingIsLeft == Spec => []NothingLeft
<1>1. SessionIInv => NothingLeft
  <2> SUFFICES ASSUME SessionIInv, conn = "open", AllIdle, "tree" \notin fate
               PROVE  server \subseteq Range(mount) /\ pipes = {}
    BY DEF NothingLeft
  <2>1. \A u \in Users : pc[u] = "idle" BY DEF AllIdle
  <2>2. "idle" \notin Dealing /\ "idle" \notin WithPipe BY LabelFacts
  <2>3. /\ \A t \in server : \E u \in Users : Owns(u, t)
        /\ \A t \in pipes : \E u \in Users : tid[u] = t /\ pc[u] \in WithPipe
    BY DEF SessionIInv, Covered
  <2>4. pipes = {} BY <2>1, <2>2, <2>3
  <2>5. \A t \in server : \E u \in Users : mount[u] = t
    BY <2>1, <2>2, <2>3 DEF Owns, DealsWith, Mounted
  <2>6. DOMAIN mount = Users BY DEF SessionIInv, SessionTypeOK
  <2>7. server \subseteq Range(mount) BY <2>5, <2>6 DEF Range
  <2>8. QED BY <2>4, <2>7
<1>2. QED BY <1>1, SessionInvariant, PTL
-----------------------------------------------------------------------------
(* The exchange itself.                                                    *)

\* Of the challenges the client answers, one without an unset MsvAvFlags is
\* left as it was by the encoding of the AV pairs.
LEMMA EncodingKeeps ==
  ASSUME NEW c \in Challenges, c.av # "unset"
  PROVE  AfterEncoding(c) = c
<1>1. /\ c.av \in {"none", "unset", "mic"}
      /\ c = [flags |-> c.flags, target |-> c.target, challenge |-> c.challenge, av |-> c.av, whole |-> c.whole]
  BY SMT DEF Challenges, ChallengeMessage
<1>2. QED BY <1>1 DEF AfterEncoding

\* A key made from another secret is another key.
LEMMA SecretsDiffer ==
  ASSUME NEW user, NEW domain, NEW what
  PROVE  Hmac(Ntowfv2(user, "wrong", domain), what) # Hmac(Ntowfv2(user, "right", domain), what)
<1>1. <<"md4", "wrong">> # <<"md4", "right">> OBVIOUS
<1>2. Ntowfv2(user, "wrong", domain) # Ntowfv2(user, "right", domain) BY <1>1 DEF Ntowfv2, Hmac
<1>3. QED BY <1>2 DEF Hmac

\* The fields of the answer.
LEMMA AnswerFields ==
  ASSUME NEW c, NEW k, NEW a, a = AuthenticateMessage(k, c)
  PROVE  /\ a.msg = Unsigned(k, c)
         /\ a.msg.user = k.user /\ a.msg.domain = Domain(k, c)
         /\ a.msg.proof = Hmac(ResponseKey(k, c), <<c.challenge, a.msg.blob>>)
         /\ a.msg.sessionKey = IF "keyExch" \in a.msg.flags
                               THEN Cipher(Hmac(ResponseKey(k, c), a.msg.proof), <<"random">>) ELSE <<"nil">>
         /\ a.mic = Hmac(ClientKey(k, c), <<NegotiateMessage, AfterEncoding(c), a.msg>>)
         /\ a.mechListMIC = Sum(ClientSession(k, c), "mechTypes")
BY DEF AuthenticateMessage, Unsigned

\* The server finds the key the client has.
LEMMA SameKey ==
  ASSUME NEW c, NEW k, k.secret = "right"
  PROVE  ServerKey("right", AuthenticateMessage(k, c)) = ClientKey(k, c)
<1>0. PICK a : a = AuthenticateMessage(k, c) OBVIOUS
<1>1. /\ a.msg = Unsigned(k, c)
      /\ a.msg.user = k.user /\ a.msg.domain = Domain(k, c)
      /\ a.msg.sessionKey = IF "keyExch" \in a.msg.flags
                            THEN Cipher(Hmac(ResponseKey(k, c), a.msg.proof), <<"random">>) ELSE <<"nil">>
  BY <1>0 DEF AuthenticateMessage, Unsigned
<1>2. ServerBase("right", a) = Hmac(ResponseKey(k, c), a.msg.proof)
  BY <1>1 DEF ServerBase, ResponseKey
<1>3. \A base : Decipher(base, Cipher(base, <<"random">>)) = <<"random">> BY DEF Decipher, Cipher
<1>4. ServerKey("right", a) = ClientKey(k, c)
  BY <1>1, <1>2, <1>3 DEF ServerKey, ClientKey
<1>5. QED BY <1>0, <1>4

\* The right secret is accepted and a wrong one is not, and after the right one
\* both ends have the same keys and the mechListMIC verifies, for every challenge
\* the client answers but one without the version flag, where the server looks
\* for the MIC in the wrong place, and one with an MsvAvFlags that lacks the MIC
\* bit (Client.Authenticate, Server.Authenticate, NTLMInitiator).
THEOREM KeysAlwaysAgree == Spec => []KeysAgree
<1>1. SessionIInv => KeysAgree
  <2> SUFFICES ASSUME SessionIInv, dial = "authenticate"
               PROVE  IF cred.secret = "wrong" THEN ~ Accepts("right", cmsg, amsg)
                      ELSE cmsg.av # "unset" /\ "version" \in cmsg.flags =>
                              /\ Accepts("right", cmsg, amsg)
                              /\ ClientSession(cred, cmsg) = ServerSession("right", amsg)
                              /\ CheckSum(ServerSession("right", amsg), amsg.mechListMIC, "mechTypes")
    BY DEF KeysAgree
  <2>1. cred \in Credentials /\ cmsg \in Challenges /\ amsg = AuthenticateMessage(cred, cmsg)
    BY DEF SessionIInv, Answered
  <2>2. /\ amsg.msg = Unsigned(cred, cmsg)
        /\ amsg.msg.user = cred.user /\ amsg.msg.domain = Domain(cred, cmsg)
        /\ amsg.msg.proof = Hmac(ResponseKey(cred, cmsg), <<cmsg.challenge, amsg.msg.blob>>)
        /\ amsg.mic = Hmac(ClientKey(cred, cmsg), <<NegotiateMessage, AfterEncoding(cmsg), amsg.msg>>)
        /\ amsg.mechListMIC = Sum(ClientSession(cred, cmsg), "mechTypes")
    BY <2>1, AnswerFields
  <2>3. CASE cred.secret = "wrong"
    <3>1. amsg.msg.proof # Hmac(Ntowfv2(amsg.msg.user, "right", amsg.msg.domain), <<cmsg.challenge, amsg.msg.blob>>)
      BY <2>2, <2>3, SecretsDiffer DEF ResponseKey
    <3>2. QED BY <2>3, <3>1 DEF Accepts
  <2>4. CASE cred.secret = "right" /\ cmsg.av # "unset" /\ "version" \in cmsg.flags
    <3>1. ServerKey("right", amsg) = ClientKey(cred, cmsg) BY <2>1, <2>4, SameKey
    <3>2. amsg.msg.proof = Hmac(Ntowfv2(amsg.msg.user, "right", amsg.msg.domain), <<cmsg.challenge, amsg.msg.blob>>)
      BY <2>2, <2>4 DEF ResponseKey
    <3>3. amsg.mic = Hmac(ServerKey("right", amsg), <<NegotiateMessage, cmsg, amsg.msg>>)
      <4>1. AfterEncoding(cmsg) = cmsg BY <2>1, <2>4, EncodingKeeps
      <4>2. QED BY <2>2, <3>1, <4>1
    <3>4. Accepts("right", cmsg, amsg)
      <4>1. "version" \in amsg.msg.flags
        BY <2>2, <2>4 DEF Unsigned, NegotiateMessage, DefaultFlags
      <4>2. ReadMIC(amsg) = amsg.mic BY <4>1 DEF ReadMIC
      <4>3. QED BY <3>2, <3>3, <4>2 DEF Accepts
    <3>5. ClientSession(cred, cmsg) = ServerSession("right", amsg)
      BY <2>2, <3>1 DEF ClientSession, ServerSession
    <3>6. CheckSum(ServerSession("right", amsg), amsg.mechListMIC, "mechTypes")
      BY <2>2, <3>5 DEF CheckSum
    <3>7. QED BY <2>4, <3>4, <3>5, <3>6
  <2>5. cred.secret \in {"right", "wrong"} BY <2>1 DEF Credentials
  <2>6. CASE cred.secret = "right" /\ ~ (cmsg.av # "unset" /\ "version" \in cmsg.flags) BY <2>6
  <2>7. QED BY <2>3, <2>4, <2>5, <2>6
<1>2. QED BY <1>1, SessionInvariant, PTL
=============================================================================
