------------------------ MODULE MCBucketPublication -------------------------
(* Finite instances of BucketPublication. *)
EXTENDS BucketPublication, TLC

CONSTANTS source, video, bytes1, bytes2, bytes3

(* Two encodings of the same source file. *)
MCTwo == {(source :> bytes1) @@ (video :> v) : v \in {bytes2, bytes3}}

(* Nothing tells one generation, or one publisher, from another. *)
MCSymmetry == Permutations(Generations) \cup Permutations(Publishers)
=============================================================================
