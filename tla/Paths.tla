------------------------------- MODULE Paths -------------------------------
(***************************************************************************)
(* What session.go, dirfs.go and fsinfo.go do with a path before it is     *)
(* sent: normalizePath, validateFilePath, validateMountPath, the root and  *)
(* the names of a DirFS.  A path is a sequence of characters of PathChars, *)
(* of which "0" stands for the NUL character and "a" for every other one.  *)
(* A name that ends in a description of what is wrong is a plausible bug   *)
(* in the operator below it.                                               *)
(***************************************************************************)
EXTENDS Integers, Sequences, SequencesExt

PathChars == {"a", ".", "\\", "/", " ", ":", "0"}

Has(path, c) == \E i \in DOMAIN path : path[i] = c

\* strings.Split: always at least one component.
Split(path, sep) ==
  FoldLeft(LAMBDA parts, c : IF c = sep THEN Append(parts, << >>)
                             ELSE [parts EXCEPT ![Len(parts)] = Append(@, c)],
           << << >> >>, path)

Replaced(path) == [i \in DOMAIN path |-> IF path[i] = "/" THEN "\\" ELSE path[i]]

\* strings.TrimSpace.
Trimmed(path) ==
  LET inked == {i \in DOMAIN path : path[i] # " "}
  IN  IF inked = {} THEN << >>
      ELSE SubSeq(path, CHOOSE i \in inked : \A j \in inked : i <= j,
                        CHOOSE i \in inked : \A j \in inked : i >= j)

\* NORMALIZE_PATH has its default, true.
normalizePath(path) == Replaced(Trimmed(path))

StaysBelowAtEnd(components) ==
  FoldLeft(LAMBDA d, c : CASE c \in {<< >>, <<".">>} -> d
                           [] c = <<".", ".">> -> d - 1
                           [] OTHER -> d + 1, 0, components) >= 0

\* The loop of validateFilePath: the depth, and whether it was ever negative.
StaysBelow(components) ==
  FoldLeft(LAMBDA at, c : CASE c \in {<< >>, <<".">>} -> at
                            [] c = <<".", ".">> -> [depth |-> at.depth - 1,
                                                    ok |-> at.ok /\ at.depth > 0]
                            [] OTHER -> [at EXCEPT !.depth = @ + 1],
           [depth |-> 0, ok |-> TRUE], components).ok

validateFilePath(path) ==
  /\ path # << >>
  /\ path[1] # "\\"
  /\ ~Has(path, "0") /\ ~Has(path, "/")
  /\ StaysBelow(Split(path, "\\"))

validateMountPath(path) ==
  LET parts == Split(SubSeq(path, 3, Len(path)), "\\")   \* SplitN(path, `\`, 2), rest not split
  IN  /\ IsPrefix(<<"\\", "\\">>, path)
      /\ Len(parts) >= 2
      /\ parts[1] # << >>
      /\ Len(parts) = 2 /\ parts[2] # << >>

\* Statfs takes the empty path for the root of the share.
StatfsPathOK(path) == path = << >> \/ validateFilePath(path)

LeadingDots(path) ==
  LET dotted == {k \in 0..Len(path) \div 2 :
                   \A i \in 1..k : path[2 * i - 1] = "." /\ path[2 * i] = "\\"}
  IN  2 * (CHOOSE k \in dotted : \A j \in dotted : j <= k)

dirFSRoot(dirname) ==
  LET p == normalizePath(dirname)
      rest == SubSeq(p, LeadingDots(p) + 1, Len(p))
  IN  IF rest = <<".">> THEN << >> ELSE rest

\* fs.ValidPath, of io/fs.
ValidPath(name) ==
  name = <<".">> \/ \A i \in DOMAIN Split(name, "/") :
                      Split(name, "/")[i] \notin {<< >>, <<".">>, <<".", ".">>}

smbPathOK(name) == ValidPath(name) /\ ~Has(name, "\\") /\ ~Has(name, ":")

smbPathUnrooted(root, name) == Replaced(name)

smbPath(root, name) ==
  IF name = <<".">> THEN root
  ELSE IF root = << >> THEN Replaced(name) ELSE root \o <<"\\">> \o Replaced(name)

(***************************************************************************)
(* What the checks are for.                                                *)
(***************************************************************************)

\* Where a path leads: the names below the root of the share that following
\* its components reaches, or Above when some prefix of them leaves the share.
\* What follows a ":" in a component names a stream of the file.
Above == << <<"..">> >>

RECURSIVE Follow(_, _)
Follow(at, components) ==
  IF components = << >> THEN at
  ELSE LET c == Head(components)
       IN  CASE c \in {<< >>, <<".">>} -> Follow(at, Tail(components))
             [] c = <<".", ".">> -> IF at = << >> THEN Above ELSE Follow(Front(at), Tail(components))
             [] OTHER -> Follow(Append(at, Split(c, ":")[1]), Tail(components))

Leads(path) == Follow(<< >>, Split(path, "\\"))

\* A path the operations send is relative, has no separator but the SMB one,
\* no NUL, and stays in the share whatever prefix of it the server resolves;
\* and normalizing it again changes nothing.  Every path that is so is taken.
FilePathsAgree(path) ==
  LET p == normalizePath(path)
  IN  /\ normalizePath(p) = p
      /\ validateFilePath(p) <=> /\ p # << >> /\ p[1] # "\\" /\ ~Has(p, "0")
                                 /\ Leads(p) # Above
      /\ validateFilePath(path) => ~Has(path, "/")

\* The UNC paths Mount accepts are those of the form \\server\share.
MountPathsAgree(path) ==
  validateMountPath(path) <=>
    \E i \in DOMAIN path :
      /\ IsPrefix(<<"\\", "\\">>, path) /\ path[i] = "\\" /\ 3 < i /\ i < Len(path)
      /\ \A j \in 3..Len(path) : path[j] = "\\" => j = i

\* What Share makes of a name of a DirFS: the path it sends, and whether it
\* sends it at all.
Opens(dirname, name) == normalizePath(smbPath(dirFSRoot(dirname), name))
Takes(dirname, name) ==
  /\ StatfsPathOK(dirFSRoot(dirname)) /\ smbPathOK(name)
  /\ name = <<".">> \/ validateFilePath(Opens(dirname, name))

\* A name a DirFS passes on leads to what the name says, below its root.
OpensWhatIsNamed(dirname, name) ==
  LET elements == IF name = <<".">> THEN << >> ELSE Split(name, "/")
  IN  Takes(dirname, name) => Leads(Opens(dirname, name)) = Leads(dirFSRoot(dirname)) \o elements

\* The file a DirFS opens is the one its name says, below the root of the
\* DirFS, for the names without white space at either end, all of which Share
\* takes when there is no NUL in them.  The others are those normalizePath
\* trims after smbPath has judged them, so that what Share opens is another path:
\* any below the root, the root, or the directory the root is in, if what is left
\* of the last element is two dots; no name leads further up.
DirFSPathsAgree(dirname, name) ==
  LET root == Leads(dirFSRoot(dirname))
  IN  /\ Takes(dirname, name) =>
           IsPrefix(IF root = << >> THEN root ELSE Front(root), Leads(Opens(dirname, name)))
      /\ Trimmed(name) = name =>
           /\ OpensWhatIsNamed(dirname, name)
           /\ StatfsPathOK(dirFSRoot(dirname)) /\ smbPathOK(name) /\ ~Has(name, "0") =>
                Takes(dirname, name)
=============================================================================
