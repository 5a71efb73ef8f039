---------------------------- MODULE Destination -----------------------------
(***************************************************************************)
(* What exporting promises about one destination path, whoever exports and *)
(* whatever is interrupted: a reader sees nothing, a finished export, the  *)
(* old source tree of version 0.3, or a directory that is none of our      *)
(* business.  A finished export is replaced only by being put aside first. *)
(***************************************************************************)
CONSTANTS Options, OldOptions

VARIABLES
    visible,    \* what is at the destination
    archive     \* options of the finished exports put aside

Nothing == <<"nothing">>
Legacy == <<"legacy">>
Foreign == <<"foreign">>
Export(o) == <<"export", o>>

Init ==
    /\ visible \in {Nothing, Legacy, Foreign}
                       \cup {Export(o) : o \in Options \cup OldOptions}
    /\ archive = {}

(* A finished export appears in one step where nothing was. *)
Appear(o) ==
    /\ visible = Nothing
    /\ visible' = Export(o)
    /\ UNCHANGED archive

(* The export at the destination is put aside for its replacement ... *)
PutAside(o) ==
    /\ visible = Export(o)
    /\ visible' = Nothing
    /\ archive' = archive \cup {o}

(* ... or brought back when the replacement could not be installed. *)
BringBack(o) ==
    /\ visible = Nothing
    /\ o \in archive
    /\ visible' = Export(o)
    /\ archive' \in {archive, archive \ {o}}

(* The old layout becomes a finished export in one step. *)
Convert(o) ==
    /\ visible = Legacy
    /\ visible' = Export(o)
    /\ UNCHANGED archive

Next ==
    \/ \E o \in Options : Appear(o) \/ Convert(o)
    \/ \E o \in Options \cup OldOptions : PutAside(o) \/ BringBack(o)

Spec == Init /\ [][Next]_<<visible, archive>>
=============================================================================
