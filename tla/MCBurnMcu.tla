----------------------------- MODULE MCBurnMcu -----------------------------
(* Instances of BurnMcu for TLC.                                           *)
EXTENDS BurnMcu

File(size, magic, part) == [size |-> size, magic |-> magic, part |-> part]

(* Images for either partition, of one and a third and of two and a third  *)
(* particles, one without a header, and files shorter than a header, as    *)
(* long as the numbers of the partitions.                                  *)
Images ==
  {File(4, TRUE, AppA), File(7, TRUE, AppB), File(4, FALSE, AppA),
   File(1, FALSE, AppA), File(2, FALSE, AppA)}

NoLeftovers == {<<>>}
SomeLeftovers == {<<>>, <<0>>}

(* All accesses but the write whose result the code does not look at.      *)
CheckedSites == AllSites \ {"finish"}
=============================================================================
