----------------------------- MODULE ServerTree -----------------------------
(***************************************************************************)
(* The files and directories of a share as the client of session.go sees   *)
(* them: the server's tree, the handles and searches open on it, and the   *)
(* other clients that use the share at the same time.  The server is       *)
(* outside the repository; what it answers is what the client's code and   *)
(* comments rely on.                                                       *)
(*                                                                         *)
(* A path is the sequence of its names, which are numbers, the root the    *)
(* empty sequence.  Nothing is ever at a path outside Paths.               *)
(***************************************************************************)
EXTENDS Naturals, Sequences, FiniteSets, SequencesExt, FiniteSetsExt

CONSTANTS
    Paths,      \* the paths that can exist: a bound
    FileLen,    \* the longest file: a bound
    MaxTrouble  \* how often another client or the server interferes: a bound

ASSUME TreeAssumption ==
    /\ Paths \subseteq Seq(Nat)
    /\ \A p \in Paths : p # <<>> /\ (Len(p) > 1 => Front(p) \in Paths)
    /\ FileLen \in Nat
    /\ MaxTrouble \in Nat

Root == <<>>

VARIABLES
    tree,      \* what is at each path: "none", "file" or "dir"
    size,      \* the length of each file
    held,      \* the paths another client holds open without sharing deletion
    handles,   \* the paths this client has open
    searches,  \* the directories this client has a search open on
    trouble,   \* how often somebody has interfered
    lasting,   \* the paths nobody else has touched since the call began, and
               \* that have been there all the time
    present,   \* the paths that have been there at some time since then
    absent,    \* the paths that have been missing at some time since then
    dirs       \* the paths that have been a directory at some time since then

treeVars == <<tree, size, held, handles, searches, trouble, lasting, present, absent, dirs>>
history  == <<lasting, present, absent, dirs>>

TreeTypeOK ==
    /\ tree \in [Paths -> {"none", "file", "dir"}]
    /\ \A p \in Paths : Len(p) > 1 /\ tree[p] # "none" => tree[Front(p)] = "dir"
    /\ size \in [Paths -> 0 .. FileLen]
    /\ held \subseteq Paths /\ handles \subseteq Paths /\ searches \subseteq Paths \cup {Root}
    /\ trouble \in 0 .. MaxTrouble

Kind(p) == IF p = Root THEN "dir" ELSE IF p \in Paths THEN tree[p] ELSE "none"
Children(p) == {q \in Paths : Len(q) = Len(p) + 1 /\ IsPrefix(p, q) /\ tree[q] # "none"}
HasParent(p) == Kind(Front(p)) = "dir"
Below(p) == {q \in Paths : IsPrefix(p, q)}

TreeInit ==
    /\ tree \in [Paths -> {"none", "file", "dir"}]
    /\ \A p \in Paths : tree[p] # "none" => HasParent(p)
    /\ size = [p \in Paths |-> IF tree[p] = "file" THEN FileLen ELSE 0]
    /\ held = {} /\ handles = {} /\ searches = {}
    /\ trouble = 0
    /\ lasting = {} /\ present = {} /\ absent = {} /\ dirs = {}

\* What a call is told from its beginning.
StartHistory ==
    /\ lasting' = {p \in Paths : tree[p] # "none"}
    /\ present' = {p \in Paths : tree[p] # "none"}
    /\ absent'  = {p \in Paths : tree[p] = "none"}
    /\ dirs'    = {p \in Paths : tree[p] = "dir"}

\* p becomes kind k, of length len.
Put(p, k, len) ==
    /\ tree' = [tree EXCEPT ![p] = k]
    /\ size' = [size EXCEPT ![p] = len]
    /\ lasting' = lasting \ {p}
    /\ IF k = "none" THEN absent' = absent \cup {p} /\ UNCHANGED present
                     ELSE present' = present \cup {p} /\ UNCHANGED absent
    /\ dirs' = IF k = "dir" THEN dirs \cup {p} ELSE dirs

\* What is at p moves to q.
Move(p, q) ==
    /\ tree' = [tree EXCEPT ![p] = "none", ![q] = tree[p]]
    /\ size' = [size EXCEPT ![p] = 0, ![q] = size[p]]
    /\ lasting' = lasting \ {p}
    /\ present' = present \cup {q}
    /\ absent' = absent \cup {p}
    /\ dirs' = IF tree[p] = "dir" THEN dirs \cup {q} ELSE dirs

Interfere == trouble < MaxTrouble /\ trouble' = trouble + 1

\* Another client creates, removes, replaces, holds or lets go of something.
OtherCreates(p) ==
    /\ Interfere
    /\ tree[p] = "none" /\ HasParent(p)
    /\ \E k \in {"file", "dir"} : Put(p, k, 0)
    /\ UNCHANGED <<held, handles, searches>>

OtherRemoves(p) ==
    /\ Interfere
    /\ tree[p] # "none" /\ Children(p) = {}
    /\ p \notin held \cup handles \cup searches
    /\ \E k \in {"none", "file", "dir"} \ {tree[p]} : Put(p, k, 0)
    /\ UNCHANGED <<held, handles, searches>>

OtherHolds(p) ==
    /\ Interfere
    /\ tree[p] # "none" /\ p \notin held \cup handles
    /\ held' = held \cup {p}
    /\ UNCHANGED <<tree, size, handles, searches, history>>

OtherReleases(p) ==
    /\ p \in held
    /\ held' = held \ {p}
    /\ UNCHANGED <<tree, size, handles, searches, trouble, history>>

Others == \E p \in Paths : OtherCreates(p) \/ OtherRemoves(p) \/ OtherHolds(p) \/ OtherReleases(p)

-----------------------------------------------------------------------------
(* What the server answers to the client's requests.                       *)

\* SMB_COM_DELETE_DIRECTORY.
DeleteDirectoryStatus(p) ==
    CASE Kind(p) # "dir" -> "notFound"
      [] p \in held \cup searches -> "sharing"
      [] Children(p) # {} -> "notEmpty"
      [] OTHER -> "none"

\* NT_CREATE_ANDX for a new directory, for deletion, for reading, for writing.
CreateDirectoryStatus(p) ==
    IF ~ HasParent(p) THEN "notFound" ELSE IF Kind(p) # "none" THEN "exist" ELSE "none"

OpenStatus(p) ==
    CASE Kind(p) = "none" -> "notFound" [] Kind(p) = "dir" -> "isDirectory" [] OTHER -> "none"

OpenForDeleteStatus(p) == IF OpenStatus(p) = "none" /\ p \in held \cup handles THEN "sharing" ELSE OpenStatus(p)

OverwriteStatus(p) ==
    CASE ~ HasParent(p) -> "notFound" [] Kind(p) = "dir" -> "isDirectory" [] OTHER -> "none"

RenameStatus(p, q) ==
    CASE Kind(p) = "none" \/ ~ HasParent(q) -> "notFound"
      [] Kind(q) # "none" -> "exist"
      [] p \in held \cup handles -> "sharing"
      [] OTHER -> "none"

ListStatus(p) == IF Kind(p) = "dir" THEN "none" ELSE "notFound"
=============================================================================
