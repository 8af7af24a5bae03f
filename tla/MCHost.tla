---- MODULE MCHost ----
(* Small values for Host: three miners, two of them after the suffix sort's *)
(* file; two nodes; two NVIDIA cards and one of AMD; limbs of two bytes and *)
(* bytes of one bit, and every one of the 256 hashes against               *)
(* difficulties from a negative one to past 2^8, where the target is 0, and *)
(* through every carry from limb to limb.                                   *)
EXTENDS Host
CONSTANTS amd, sa
MCCandidates == [p \in 1 .. 3 |-> IF p = 1 THEN <<amd, sa>> ELSE <<sa>>]
MCEndpoints  == <<"configured", "local">>
MCGPULists   == {<<0, 1, 2>>, <<2>>, <<2, 0>>, <<1, 7, 1>>, <<0, 3>>}

MCDifficulty ==
  -1 .. 5 \cup {7, 8, 13, 15, 16, 17, 31, 32, 33, 63, 64, 65, 85, 127, 128, 129, 255, 256, 257, 300}
====
