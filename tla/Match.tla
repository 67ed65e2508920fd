------------------------------- MODULE Match -------------------------------
(***************************************************************************)
(* The pattern language of match.go: Match with its chunks, its greedy '*' *)
(* and its character classes.  Names and patterns are sequences of         *)
(* one-character strings; Ascii lists the characters used, in code order,  *)
(* because a class compares code points.  Besides the code there is a      *)
(* reference: the meaning of a pattern, by full backtracking over its      *)
(* terms.                                                                  *)
(***************************************************************************)
EXTENDS Naturals, FiniteSets, Sequences

Ascii == << "*", "-", ".", "/", "?", "[", "\\", "]", "^", "a", "b" >>

Code(c) == CHOOSE i \in DOMAIN Ascii : Ascii[i] = c

PathSeparator == "\\"

From(s, i) == SubSeq(s, i, Len(s))

Starts(s, c) == s # << >> /\ Head(s) = c

Slashes(s) == [i \in DOMAIN s |-> IF s[i] = "/" THEN PathSeparator ELSE s[i]]

(***************************************************************************)
(* The code.  A name that ends in a description of what is wrong is a      *)
(* plausible bug in the operator below it.                                 *)
(***************************************************************************)

RECURSIVE DropDots(_)
DropDots(p) ==
  IF Starts(p, ".") /\ Starts(Tail(p), PathSeparator) THEN DropDots(From(p, 3)) ELSE p

\* NORMALIZE_PATH has its default, true.
normPattern(p) == DropDots(Slashes(p))

\* The index of the first '*' of p at or after i outside a class; Len(p) + 1
\* when there is none.  ']' ends a class wherever it stands.
RECURSIVE ChunkEnd(_, _, _)
ChunkEnd(p, i, inClass) ==
  IF i > Len(p) \/ (p[i] = "*" /\ ~inClass) THEN i
  ELSE ChunkEnd(p, i + 1, (inClass \/ p[i] = "[") /\ p[i] # "]")

RECURSIVE DropStars(_)
DropStars(p) == IF Starts(p, "*") THEN DropStars(Tail(p)) ELSE p

splitChunk(p) ==
  LET fixed == DropStars(p)
      end == ChunkEnd(fixed, 1, FALSE)
  IN  [star |-> Starts(p, "*"), chunk |-> SubSeq(fixed, 1, end - 1), rest |-> From(fixed, end)]

BadClassRune(chunk) == chunk = << >> \/ Head(chunk) \in {"-", "]"} \/ Len(chunk) = 1

Bad == [bad |-> TRUE, members |-> {}, rest |-> << >>]

Between(lo, hi) == {c \in {Ascii[i] : i \in DOMAIN Ascii} : Code(lo) <= Code(c) /\ Code(c) <= Code(hi)}

\* The ranges of a class up to its ']', which counts only after one range.
RECURSIVE Ranges(_, _, _)
Ranges(chunk, members, n) ==
  IF Starts(chunk, "]") /\ n > 0
  THEN [bad |-> FALSE, members |-> members, rest |-> Tail(chunk)]
  ELSE IF BadClassRune(chunk) THEN Bad
  ELSE IF chunk[2] # "-"
  THEN Ranges(Tail(chunk), members \cup Between(Head(chunk), Head(chunk)), n + 1)
  ELSE IF BadClassRune(From(chunk, 3)) THEN Bad
  ELSE Ranges(From(chunk, 4), members \cup Between(Head(chunk), chunk[3]), n + 1)

\* After a mismatch the chunk is still parsed, so that a malformed one is
\* reported.
RECURSIVE ScanChunk(_, _, _)
ScanChunk(chunk, s, hasFailed) ==
  IF chunk = << >> THEN [bad |-> FALSE, ok |-> ~hasFailed, rest |-> s]
  ELSE LET failed == hasFailed \/ s = << >>
           left == IF failed THEN s ELSE Tail(s)
       IN  CASE Head(chunk) = "[" ->
                  LET negated == Starts(Tail(chunk), "^")
                      class == Ranges(From(chunk, IF negated THEN 3 ELSE 2), {}, 0)
                  IN  IF class.bad THEN [bad |-> TRUE, ok |-> FALSE, rest |-> << >>]
                      ELSE ScanChunk(class.rest, left,
                                     failed \/ ((Head(s) \in class.members) = negated))
             [] Head(chunk) = "?" ->
                  ScanChunk(Tail(chunk), left, failed \/ Head(s) = PathSeparator)
             [] OTHER ->
                  ScanChunk(Tail(chunk), left, failed \/ Head(s) # Head(chunk))

matchChunkUnparsed(chunk, s) ==
  IF s = << >> /\ chunk # << >> THEN [bad |-> FALSE, ok |-> FALSE, rest |-> s]
  ELSE ScanChunk(chunk, s, FALSE)

matchChunk(chunk, s) == ScanChunk(chunk, s, FALSE)

UsableAnywhere(found, pattern) == found.ok

\* A matched chunk counts only if it is not the last or leaves nothing over.
Usable(found, pattern) == found.ok /\ (found.rest = << >> \/ pattern # << >>)

StarPositionsAcross(name) == DOMAIN name

\* The positions '*' may move the chunk to: past each character of the
\* current path element.
StarPositions(name) ==
  {i \in DOMAIN name : \A j \in 1..i : name[j] # PathSeparator}

No == [matched |-> FALSE, bad |-> FALSE]
BadPattern == [matched |-> FALSE, bad |-> TRUE]

RECURSIVE MatchChunks(_, _)
MatchChunks(pattern, name) ==
  IF pattern = << >> THEN [matched |-> name = << >>, bad |-> FALSE]
  ELSE LET split == splitChunk(pattern)
           found == matchChunk(split.chunk, name)
           At(i) == matchChunk(split.chunk, From(name, i + 1))
           tries == {i \in StarPositions(name) : At(i).bad \/ Usable(At(i), split.rest)}
           first == CHOOSE i \in tries : \A j \in tries : i <= j
       IN  IF split.star /\ split.chunk = << >>
           THEN [matched |-> \A i \in DOMAIN name : name[i] # PathSeparator, bad |-> FALSE]
           ELSE IF Usable(found, split.rest) THEN MatchChunks(split.rest, found.rest)
           ELSE IF found.bad THEN BadPattern
           ELSE IF ~split.star \/ tries = {} THEN No
           ELSE IF At(first).bad THEN BadPattern
           ELSE MatchChunks(split.rest, At(first).rest)

MatchPattern(pattern, name) == MatchChunks(normPattern(pattern), name)

(***************************************************************************)
(* The reference.  A term is its text, the characters it can stand for,    *)
(* and whether it is the '*' or a malformed class.                         *)
(***************************************************************************)

NameChars == {"a", "b", PathSeparator}

Term(text, stands) == [text |-> text, stands |-> stands, star |-> FALSE, bad |-> FALSE]

Terms ==
  { Term(<<"a">>, {"a"}), Term(<<".">>, {"."}), Term(<<PathSeparator>>, {PathSeparator}),
    Term(<<"/">>, {PathSeparator}), Term(<<"?">>, NameChars \ {PathSeparator}),
    Term(<<"[", "^", "a", "]">>, NameChars \ {"a"}),
    Term(<<"[", "*", "a", "-", "b", "]">>, {"a", "b"}),
    [Term(<<"*">>, NameChars \ {PathSeparator}) EXCEPT !.star = TRUE] }

BadTerms ==
  {[Term(text, {}) EXCEPT !.bad = TRUE] :
     text \in {<<"[">>, <<"[", "]">>, <<"[", "a", "-", "]">>, <<"[", "-", "a", "]">>}}

RECURSIVE Text(_)
Text(terms) == IF terms = << >> THEN << >> ELSE Head(terms).text \o Text(Tail(terms))

Malformed(terms) == \E i \in DOMAIN terms : terms[i].bad

RECURSIVE WithoutDots(_)
WithoutDots(terms) ==
  IF Len(terms) >= 2 /\ terms[1].stands = {"."} /\ terms[2].stands = {PathSeparator} /\ ~terms[2].star
  THEN WithoutDots(From(terms, 3)) ELSE terms

RECURSIVE Means(_, _)
Means(terms, name) ==
  IF terms = << >> THEN name = << >>
  ELSE IF Head(terms).star
  THEN \E k \in 0..Len(name) :
         /\ \A i \in 1..k : name[i] \in Head(terms).stands
         /\ Means(Tail(terms), From(name, k + 1))
  ELSE name # << >> /\ Head(name) \in Head(terms).stands /\ Means(Tail(terms), Tail(name))

\* A '*' takes the shortest run that lets its chunk match, so after a class
\* that matched inside the element no later match beyond a separator is
\* tried: "*[^x]*b" means "a\b" and the code says no.
PassedOver(terms, name) ==
  /\ \E i \in DOMAIN name : name[i] = PathSeparator
  /\ \E i, j, k \in DOMAIN terms :
       /\ i < j /\ j < k /\ terms[i].star /\ terms[k].star
       /\ PathSeparator \in terms[j].stands /\ Cardinality(terms[j].stands) > 1

\* The code agrees with the meaning of a well-formed pattern; a malformed one
\* never matches, and is reported when its first chunk is the malformed one.
Agrees(terms, name) ==
  LET result == MatchPattern(Text(terms), name)
      starAfterFirst == \E i \in DOMAIN terms : i > 1 /\ terms[i].star
  IN  IF Malformed(terms)
      THEN ~result.matched /\ (result.bad \/ starAfterFirst)
      ELSE ~result.bad /\ (PassedOver(terms, name)
                             \/ result.matched = Means(WithoutDots(terms), name))
=============================================================================
