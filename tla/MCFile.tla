------------------------------- MODULE MCFile -------------------------------
(***************************************************************************)
(* Instances of File for TLC: one caller that streams, another that does   *)
(* everything.  Callers are interchangeable, so the pairs of calls that    *)
(* are left out are those of two calls that leave the position alone.      *)
(***************************************************************************)
EXTENDS File

CONSTANTS streamer, other

MCCallers == {streamer, other}
Roles ==
    [c \in MCCallers |->
        IF c = streamer THEN {"read", "write"}
        ELSE {"read", "readAt", "write", "writeAt", "seek", "truncate", "close"}]

\* A negative number cannot be written in a configuration.
Backwards == {-1}
=============================================================================
