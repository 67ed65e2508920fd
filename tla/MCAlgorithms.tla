---------------------------- MODULE MCAlgorithms ----------------------------
(***************************************************************************)
(* The instance of Algorithms for TLC: block sizes on both sides of the    *)
(* 16-bit fields, of the limits of a packet and of the chunk sizes, and    *)
(* buffers around the clamps.                                              *)
(***************************************************************************)
EXTENDS Algorithms

MCSizes == {0, 1, 2, 510, 65468, 65519, 65520, 65534, 65535, 65536, 65537, 130047, 130048, 130049}

MCBufferSizes == {0, 1024, 1025, 2111, 2112, 4356, 16644, 65535, 66544, 66545, 66623, 66624, 131072}
=============================================================================
