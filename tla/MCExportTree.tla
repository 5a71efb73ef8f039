---------------------------- MODULE MCExportTree ----------------------------
(* Finite instances of ExportTree: what is found at the destination, and one *)
(* exporter that works alone where that is a 0.3 tree (README, 4).           *)
EXTENDS ExportTree

VARIABLE alone      \* the only exporter, in a set, or {}

(* A directory with one file of the 0.3 layout missing or corrupt. *)
MCBroken == [LegacyTree EXCEPT !.top = {Manifest}]

MCAny == {None, LegacyTree, MCBroken} \cup {Finished(o) : o \in AnyOptions}
MCLegacy == {LegacyTree}

MCInit ==
    /\ Init
    /\ alone = IF final = LegacyTree THEN {CHOOSE e \in Exporters : TRUE} ELSE {}

(* Two faults in a row where one exporter works alone, else one. *)
MayFail == alone # {} \/ faults = 0

MayRun(e) == alone \in {{}, {e}} /\ UNCHANGED alone
MCRun(e) == Run(e) /\ MayRun(e)
MCNext == \E e \in Exporters :
    \/ MCRun(e)
    \/ Interrupt(e) /\ MayFail /\ MayRun(e)
    \/ Kill(e) /\ MayFail /\ MayRun(e)

MCSpec == MCInit /\ [][MCNext]_<<vars, alone>>
MCFairSpec == MCSpec /\ \A e \in Exporters : WF_<<vars, alone>>(MCRun(e))

(* Between the two renames of a rebuild nothing is at the destination, and  *)
(* an exporter killed there leaves it so.  Whatever race or fault there was, *)
(* exporting again brings a finished export back: nobody gets stuck on the   *)
(* wreckage.                                                                 *)
ExportReturns == (final = None \/ IsExport(final)) => []<>IsExport(final)
=============================================================================
