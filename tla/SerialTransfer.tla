--------------------------- MODULE SerialTransfer ---------------------------
(***************************************************************************)
(* What the caller of transfer gets: the files of a recording appear in the *)
(* source directory whole and in the order of the inventory, each entered   *)
(* in the receipt as it is found right, and success means all of them.      *)
(***************************************************************************)
EXTENDS Naturals, Sequences

CONSTANTS Files, List   \* the files, and their order in the inventory

VARIABLES
    data,       \* each file in the source directory: "absent", "whole", "bad"
    received,   \* how many files the receipt has: the first ones
    answer      \* "none" while it runs, then "ok" or an error

vars == <<data, received, answer>>

Init ==
    /\ data \in [Files -> {"absent", "whole", "bad"}]
    /\ received = 0 /\ answer = "none"

(* The next file is put there, or is there from an earlier run and right. *)
Deliver ==
    /\ answer = "none" /\ received < Len(List)
    /\ LET f == List[received + 1] IN
         \/ data[f] = "absent" /\ data' = [data EXCEPT ![f] = "whole"]
         \/ data[f] = "whole" /\ UNCHANGED data
    /\ received' = received + 1
    /\ UNCHANGED answer

Succeed ==
    /\ answer = "none" /\ received = Len(List)
    /\ answer' = "ok" /\ UNCHANGED <<data, received>>

Fail ==
    /\ answer = "none"
    /\ answer' \in {"canceled", "io", "target"}
    /\ UNCHANGED <<data, received>>

(* Another run, of the same process or of the next one. *)
Again == answer' = "none" /\ received' = 0 /\ UNCHANGED data

Next == Deliver \/ Succeed \/ Fail \/ Again

Spec == Init /\ [][Next]_vars
=============================================================================
