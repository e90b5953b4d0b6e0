------------------------------- MODULE MCServing -------------------------------
(* A subtree and two blocks, one of which names an all-zero root, over a shard that *)
(* holds the subtree and one of the blocks.  Hashes have two bytes, none of them a  *)
(* palindrome.                                                                      *)
EXTENDS Serving, TLC

MCPlaceholder == <<255, 255>>
S1 == <<1, 2>>
B1 == <<3, 4>>
B2 == <<5, 6>>
MCKey == {S1, B1, B2}
MCNodes == S1 :> <<MCPlaceholder, <<7, 8>>, <<9, 0>>, <<2, 7>>>>

\* Counts at the boundaries of CompactSize: 0, 0xfc, 0xfd, 0xffff, 0x10000, 2^32 - 1
\* and 2^32.
Counts == {Zeros(8), Zeros(7) \o <<252>>, Zeros(7) \o <<253>>, Zeros(6) \o <<255, 255>>,
           Zeros(5) \o <<1, 0, 0>>, Zeros(4) \o <<255, 255, 255, 255>>,
           Zeros(3) \o <<1, 0, 0, 0, 0>>}
Body(count, height, roots, bump) ==
  [header |-> <<1, 1>>, txCount |-> count, size |-> height, roots |-> roots,
   coinbase |-> <<9, 1, 2, 3, 4, 5, 6, 7, 8, 9>>, height |-> height, bump |-> bump]
MCBodies == {Body(c, h, roots, bump) : c \in Counts, h \in Counts,
               roots \in {<<>>, <<S1>>, <<S1, B1>>}, bump \in {<<>>, <<253, 1, 2>>}}
MCBlockOf == (B1 :> Body(U64(300), U64(7), <<S1>>, <<253, 1, 2>>))
          @@ (B2 :> Body(U64(1), U64(8), <<<<0, 0>>>>, <<>>))
MCSize == [k \in MCKey |-> Len(FrameOf(k))]
================================================================================
