---------------------------- MODULE MCVirtioBlk ----------------------------
(* Up to four bytes in sectors of one or two: the expected image, the same   *)
(* with a byte flipped, with bytes exchanged, cut short and grown.  Policies  *)
(* of both kinds, with fewer digests than sectors, as many, and more.         *)
EXTENDS VirtioBlk

MCData == {<<>>, <<0, 1>>, <<0, 1, 1>>, <<0, 1, 1, 0>>, <<0, 1, 1, 1>>, <<1, 0, 0, 1>>}
MCBackends == [data : MCData, size : 1 .. 2]

PerSector(s) == [kind |-> "per_sector", sectors |-> s]
Image(i) == [kind |-> "image", image |-> i]
MCPolicies == {PerSector(<<<<0, 1>>>>), PerSector(<<<<0, 1>>, <<1, 0>>>>),
               PerSector(<<<<0>>, <<1>>, <<1>>>>),
               Image(<<0, 1>>), Image(<<0, 1, 1, 0>>)}
=============================================================================
