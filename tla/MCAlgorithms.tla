---------------------------- MODULE MCAlgorithms ----------------------------
(***************************************************************************)
(* Algorithms for TLC: the inputs tried, and the tables of the source.     *)
(***************************************************************************)
EXTENDS Algorithms

Bits(n) == {i \in 0 .. 15 : (n \div 2 ^ i) % 2 = 1}

\* Nothing but zeros, nothing but ones, a single bit at the front, and a mix.
Patterns == {
  [i \in 1 .. 135 |-> {}],
  [i \in 1 .. 135 |-> 0 .. 7],
  [i \in 1 .. 135 |-> IF i = 1 THEN {7} ELSE {}],
  [i \in 1 .. 135 |-> Bits((i * i * 37 + 11) % 256)]}

\* Up to two large blocks, two small ones, units, and seven bytes at either end.
MCBuffers ==
  [align : {0, 1, 7},
   data  : {SubSeq(p, 1, n) : p \in Patterns, n \in {0, 1, 7, 9, 24, 57, 83, 135}}]

\* Up to four pieces of up to two bytes, in work requests of up to three.
SeqUpTo(S, n) == UNION {[1 .. k -> S] : k \in 0 .. n}
Pieces(sizes) == [i \in DOMAIN sizes |-> [j \in 1 .. sizes[i] |-> <<i, j>>]]
MCVectors == [kind : {"vector"}, list : {Pieces(s) : s \in SeqUpTo(0 .. 2, 4) \ {<<>>}},
              dest : {2}, sgePerWr : 1 .. 3]
MCOctet   == (0 .. 4) \X (0 .. 2)
MCRemote  == [a \in 1 .. 11 |-> <<0, 0>>]

\* Up to three fields and extra data, up to and past what fits.
Fields     == [kind : {"value"}, v : {101}, size : {1, 5}]
                \cup [kind : {"string", "bytes"}, v : {102}, size : {0, 1, 4}]
MCMessages == [kind : {"message"}, fields : SeqUpTo(Fields, 3),
               extra : {Nothing} \cup [kind : {"string"}, v : {103}, size : {0, 1, 7}]]

-----------------------------------------------------------------------------
(***************************************************************************)
(* At the sizes of the code the tables hold the words of CRC32.h: the      *)
(* second entry of each of its rows.  A word is given by its two halves.   *)
(***************************************************************************)
Halves(w)  == <<w \cap 16 .. 31, w \cap 0 .. 15>>
Literal(l) == <<{i + 16 : i \in Bits(l[1])}, Bits(l[2])>>
Holds(table, literals) ==
  \A k \in DOMAIN table : Halves(table[k][{0}]) = Literal(literals[k + 1])

ASSUME TablesAsInSource ==
  /\ Holds(crc32c_table,
       <<<<\ha016, \hd052>>, <<\hb0be, \hbcf4>>, <<\h3444, \h46d6>>, <<\hf546, \h4205>>,
         <<\h3504, \h525e>>, <<\hfd68, \h61a6>>, <<\h8417, \h3a2f>>, <<\h7e2a, \ha5c0>>>>)
  /\ Holds(ZerosTable(8192),
       <<<<\he040, \he0ac>>, <<\h7e7c, \h2df3>>, <<\hd29f, \h092f>>, <<\h4904, \hf221>>>>)
  /\ Holds(ZerosTable(256),
       <<<<\hdcb1, \h7aa4>>, <<\h547d, \hf88f>>, <<\h4a7f, \hf165>>, <<\h25bb, \hf5db>>>>)
=============================================================================
