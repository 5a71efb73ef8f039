--------------------------- MODULE MCStreamCache ---------------------------
(* Two requests, one raw copy, a file of two blocks and one of a short one.  *)
EXTENDS StreamCache

CONSTANTS first, second
FinalOfFiles == [f \in Files |-> IF f = first THEN 1 ELSE 0]
SizeOfBlocks == [k \in Keys |-> IF k = <<first, 0>> THEN 2 ELSE 1]
=============================================================================
