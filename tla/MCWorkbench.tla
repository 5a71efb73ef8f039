----------------------------- MODULE MCWorkbench -----------------------------
(* Three recordings on two sources, and a directory with older exports. *)
EXTENDS Workbench, TLC

CONSTANTS l1, l2, c1, d1, d2

MCRows == (Lan :> {l1, l2}) @@ (Card :> {c1})
MCExports == (d1 :> {}) @@ (d2 :> {l1, c1})
=============================================================================
