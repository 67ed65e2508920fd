------------------------------ MODULE MCShare ------------------------------
(* Share on a small tree: a directory that can hold two entries, and a    *)
(* second path beside it.                                                  *)
EXTENDS Share

MCPaths == {<<1>>, <<1, 1>>, <<1, 2>>, <<2>>}

\* A literal, a pattern in the root, in a literal directory, in any directory.
MCPatterns == {<<{1}, {2}>>, <<{1, 2}>>, <<{1}, {1, 2}>>, <<{1, 2}, {1, 2}>>}
=============================================================================
