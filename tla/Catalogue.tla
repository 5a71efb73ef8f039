----------------------------- MODULE Catalogue ------------------------------
(***************************************************************************)
(* What a console that indexes the bucket may ever see of one session: no  *)
(* publication, or one whose objects are all there with the digests its    *)
(* publication.json names.  A publication is withdrawn before another one  *)
(* takes its place.                                                        *)
(***************************************************************************)
CONSTANTS Publications, None

VARIABLE shown

Init == shown = None

Publish(c) == shown = None /\ shown' = c

Withdraw == shown # None /\ shown' = None

Next == Withdraw \/ \E c \in Publications : Publish(c)

Spec == Init /\ [][Next]_shown
=============================================================================
