----------------------------- MODULE ExportTree -----------------------------
(***************************************************************************)
(* Exporting one session to one destination: export_session_tree,          *)
(* _rebuild_previous_export and _upgrade_legacy_export run by any number   *)
(* of exporter processes that share the destination, each of which may be  *)
(* interrupted (an exception, Ctrl-C) or killed between any two file       *)
(* system operations and run again.                                        *)
(*                                                                         *)
(* A step is one file system operation that another process can observe,   *)
(* or one private stage of building the hidden staging directory.          *)
(***************************************************************************)
EXTENDS ExportLayout, Naturals

CONSTANTS
    Initial,        \* what may be at the destination before the first export
    MaxFaults       \* bound on interrupts and kills in a behaviour

ASSUME InitialAssumption ==
    /\ Initial \subseteq Directory \cup {None}
    /\ MaxFaults \in Nat

VARIABLES
    final,          \* the directory at <output>/<device>/<session>, or None
    previous,       \* contents of the hidden .<session>.previous-* backups
    pc,             \* the next operation of each exporter
    want,           \* the options each exporter was asked for
    work,           \* each exporter's private staging directory, or None
    todo,           \* files the exporter still has to fetch or link
    rebuild,        \* whether the exporter is inside _rebuild_previous_export
    moved,          \* the directory the exporter has moved aside, or None
    faults,         \* interrupts and kills so far
    reported        \* history: options of the export found at the start and
                    \* of every export that returned normally

vars == <<final, previous, pc, want, work, todo, rebuild, moved, faults,
          reported>>
own == <<want, work, todo, rebuild, moved>>

Inspecting == {"exists", "matches", "matchesOld", "matchesLegacy", "reuse"}
Staging == {"stage", "fetch", "render", "clean", "media", "publish"}
Upgrading == {"upCheck", "upEncode", "upRendered", "upMkdir", "upLink",
              "upClean", "upMedia", "upPublish", "upDone"}
Phases == {"idle", "discard", "backup", "install", "restore", "upAbort",
           "upUnrender", "upUnlink"} \cup Inspecting \cup Staging \cup Upgrading

Goto(e, from, to) == pc[e] = from /\ pc' = [pc EXCEPT ![e] = to]

Init ==
    /\ final \in Initial
    /\ previous = {}
    /\ pc = [e \in Exporters |-> "idle"]
    /\ want \in [Exporters -> Options]
    /\ work = [e \in Exporters |-> None]
    /\ todo = [e \in Exporters |-> {}]
    /\ rebuild = [e \in Exporters |-> FALSE]
    /\ moved = [e \in Exporters |-> None]
    /\ faults = 0
    /\ reported = {o \in AnyOptions : Matches(final, o)}

-----------------------------------------------------------------------------
(* export_session_tree: what is at the destination?                        *)

Begin(e) ==
    /\ Goto(e, "idle", "exists")
    /\ \E o \in Options : want' = [want EXCEPT ![e] = o]
    /\ UNCHANGED <<final, previous, work, todo, rebuild, moved, faults, reported>>

(* Wrong variant: a backup left behind counts as a conflict. *)
ExistsBackup(e) ==
    /\ Goto(e, "exists", IF final # None THEN "matches"
                         ELSE IF previous = {} THEN "stage" ELSE "idle")
    /\ UNCHANGED <<final, previous, own, faults, reported>>

Exists(e) ==
    /\ Goto(e, "exists", IF final = None THEN "stage" ELSE "matches")
    /\ UNCHANGED <<final, previous, own, faults, reported>>

MatchExact(e) ==
    /\ Goto(e, "matches",
            IF Matches(final, want[e]) THEN "reuse" ELSE "matchesOld")
    /\ UNCHANGED <<final, previous, own, faults, reported>>

(* Wrong variant: any directory is taken for an older export. *)
MatchAny(e) ==
    /\ Goto(e, "matchesOld", "stage")
    /\ rebuild' = [rebuild EXCEPT ![e] = TRUE]
    /\ UNCHANGED <<final, previous, want, work, todo, moved, faults, reported>>

MatchOld(e) ==
    /\ Goto(e, "matchesOld",
            IF IsExport(final) THEN "stage" ELSE "matchesLegacy")
    /\ rebuild' = [rebuild EXCEPT ![e] = IsExport(final)]
    /\ UNCHANGED <<final, previous, want, work, todo, moved, faults, reported>>

(* No match at all: "destination already exists but does not match". *)
MatchLegacy(e) ==
    /\ Goto(e, "matchesLegacy",
            IF LegacyMatches(final) THEN "upCheck" ELSE "idle")
    /\ UNCHANGED <<final, previous, own, faults, reported>>

(* _remove_legacy_source_tree: best effort, some files may stay. *)
RemoveLegacyTree ==
    \/ final = None /\ UNCHANGED final
    \/ /\ final # None
       /\ \E left \in SUBSET final.top : final' = [final EXCEPT !.top = left]

Reuse(e) ==
    /\ Goto(e, "reuse", "idle")
    /\ RemoveLegacyTree
    /\ reported' = reported \cup {want[e]}
    /\ UNCHANGED <<previous, own, faults>>

-----------------------------------------------------------------------------
(* Building the hidden staging directory.                                  *)

Stage(e) ==
    /\ Goto(e, "stage", "fetch")
    /\ work' = [work EXCEPT ![e] =
           [EmptyDirectory EXCEPT
               !.internal = [EmptyInternal EXCEPT !.src = {Manifest}]]]
    /\ todo' = [todo EXCEPT ![e] = Artifacts]
    /\ UNCHANGED <<final, previous, want, rebuild, moved, faults, reported>>

(* artifact_writer and _verify_artifact_file; several may be in flight, so  *)
(* they finish in any order.                                               *)
Fetch(e, f) ==
    /\ pc[e] = "fetch"
    /\ f \in todo[e]
    /\ work' = [work EXCEPT ![e].internal.src = @ \cup {f}]
    /\ todo' = [todo EXCEPT ![e] = @ \ {f}]
    /\ UNCHANGED <<final, previous, pc, want, rebuild, moved, faults, reported>>

WriteReceipt(e) ==
    /\ Goto(e, "fetch", "render")
    /\ todo[e] = {}
    /\ work' = [work EXCEPT ![e].internal.receipt = "written"]
    /\ UNCHANGED <<final, previous, want, todo, rebuild, moved, faults, reported>>

Render(e) ==
    /\ Goto(e, "render", "clean")
    /\ work' = [work EXCEPT ![e].video = want[e]]
    /\ UNCHANGED <<final, previous, want, todo, rebuild, moved, faults, reported>>

CleanMedia(e) ==
    /\ Goto(e, "clean", "media")
    /\ work' = [work EXCEPT ![e].internal.src = @ \ Removable(want[e])]
    /\ UNCHANGED <<final, previous, want, todo, rebuild, moved, faults, reported>>

MediaReceiptOf(o) == [options |-> o, removed |-> Removable(o)]

WriteMedia(e) ==
    /\ Goto(e, "media", "publish")
    /\ work' = [work EXCEPT ![e].internal.media = MediaReceiptOf(want[e])]
    /\ UNCHANGED <<final, previous, want, todo, rebuild, moved, faults, reported>>

(* staging.rename(final_directory): refused while a directory is there. *)
Publish(e) ==
    /\ pc[e] = "publish"
    /\ ~rebuild[e]
    /\ IF final = None
       THEN /\ Goto(e, "publish", "idle")
            /\ final' = work[e]
            /\ work' = [work EXCEPT ![e] = None]
            /\ reported' = reported \cup {want[e]}
       ELSE /\ Goto(e, "publish", "discard")
            /\ UNCHANGED <<final, work, reported>>
    /\ UNCHANGED <<previous, want, todo, rebuild, moved, faults>>

(* The same rename when rebuilding: into the private temporary root. *)
PublishPrivately(e) ==
    /\ rebuild[e]
    /\ Goto(e, "publish", "backup")
    /\ UNCHANGED <<final, previous, own, faults, reported>>

(* The exception handler: shutil.rmtree(staging), then re-raise. *)
Discard(e) ==
    /\ Goto(e, "discard", "idle")
    /\ work' = [work EXCEPT ![e] = None]
    /\ rebuild' = [rebuild EXCEPT ![e] = FALSE]
    /\ UNCHANGED <<final, previous, want, todo, moved, faults, reported>>

-----------------------------------------------------------------------------
(* _rebuild_previous_export: swap the rebuilt directory in.                 *)

(* final_directory.rename(backup) *)
Backup(e) ==
    /\ pc[e] = "backup"
    /\ IF final = None
       THEN Goto(e, "backup", "discard") /\ UNCHANGED <<final, moved>>
       ELSE /\ Goto(e, "backup", "install")
            /\ moved' = [moved EXCEPT ![e] = final]
            /\ final' = None
    /\ UNCHANGED <<previous, want, work, todo, rebuild, faults, reported>>

(* Wrong variant: the backup is deleted once the new export is there. *)
InstallDropsBackup(e) ==
    /\ Goto(e, "install", IF final = None THEN "idle" ELSE "restore")
    /\ final = None =>
          /\ final' = work[e]
          /\ work' = [work EXCEPT ![e] = None]
          /\ rebuild' = [rebuild EXCEPT ![e] = FALSE]
          /\ moved' = [moved EXCEPT ![e] = None]
          /\ reported' = reported \cup {want[e]}
    /\ final # None => UNCHANGED <<final, work, rebuild, moved, reported>>
    /\ UNCHANGED <<previous, want, todo, faults>>

(* rebuilt.path.rename(final_directory); the backup stays hidden. *)
Install(e) ==
    /\ pc[e] = "install"
    /\ IF final = None
       THEN /\ Goto(e, "install", "idle")
            /\ final' = work[e]
            /\ work' = [work EXCEPT ![e] = None]
            /\ rebuild' = [rebuild EXCEPT ![e] = FALSE]
            /\ previous' = previous \cup {moved[e]}
            /\ moved' = [moved EXCEPT ![e] = None]
            /\ reported' = reported \cup {want[e]}
       ELSE /\ Goto(e, "install", "restore")
            /\ UNCHANGED <<final, previous, work, rebuild, moved, reported>>
    /\ UNCHANGED <<want, todo, faults>>

(* Wrong variant: the backup replaces whatever is at the destination. *)
RestoreOver(e) ==
    /\ Goto(e, "restore", "discard")
    /\ final' = moved[e]
    /\ moved' = [moved EXCEPT ![e] = None]
    /\ UNCHANGED <<previous, want, work, todo, rebuild, faults, reported>>

(* except: backup.rename(final_directory), which fails in its turn when     *)
(* another exporter has filled the destination.                            *)
Restore(e) ==
    /\ Goto(e, "restore", "discard")
    /\ IF final = None
       THEN final' = moved[e] /\ UNCHANGED previous
       ELSE previous' = previous \cup {moved[e]} /\ UNCHANGED final
    /\ moved' = [moved EXCEPT ![e] = None]
    /\ UNCHANGED <<want, work, todo, rebuild, faults, reported>>

-----------------------------------------------------------------------------
(* _upgrade_legacy_export: works in place, inside the destination.         *)

UpgradeCheck(e) ==
    /\ pc[e] = "upCheck"
    /\ IF /\ final # None
          /\ final.part = None /\ final.internal = None /\ final.video = None
       THEN Goto(e, "upCheck", "upEncode")
       ELSE Goto(e, "upCheck", "idle")   \* "cannot safely upgrade"
    /\ UNCHANGED <<final, previous, own, faults, reported>>

(* render_session_video opens its work directory next to the target, which  *)
(* must still not exist, and reads every source file.                      *)
UpgradeEncode(e) ==
    /\ pc[e] = "upEncode"
    /\ IF LegacyMatches(final) /\ final.video = None
       THEN /\ Goto(e, "upEncode", "upRendered")
            /\ final' = [final EXCEPT !.encoding = @ \cup {e}]
       ELSE Goto(e, "upEncode", "upAbort") /\ UNCHANGED final
    /\ UNCHANGED <<previous, own, faults, reported>>

(* os.replace(staged_output, output): overwrites whatever is there by now. *)
UpgradeRendered(e) ==
    /\ pc[e] = "upRendered"
    /\ IF final # None /\ e \in final.encoding
       THEN /\ Goto(e, "upRendered", "upMkdir")
            /\ final' = [final EXCEPT !.encoding = @ \ {e}, !.video = want[e]]
       ELSE Goto(e, "upRendered", "upAbort") /\ UNCHANGED final
    /\ UNCHANGED <<previous, own, faults, reported>>

(* source_tree.mkdir refuses an existing tree. *)
UpgradeMkdir(e) ==
    /\ pc[e] = "upMkdir"
    /\ IF final # None /\ final.part = None
       THEN /\ Goto(e, "upMkdir", "upLink")
            /\ final' = [final EXCEPT !.part = EmptyInternal]
            /\ todo' = [todo EXCEPT ![e] = Files]
       ELSE Goto(e, "upMkdir", "upUnrender") /\ UNCHANGED <<final, todo>>
    /\ UNCHANGED <<previous, want, work, rebuild, moved, faults, reported>>

(* _link_or_copy: the manifest first, into the tree made above; for each    *)
(* artifact the parents are created again if they are gone.                *)
UpgradeLink(e, f) ==
    /\ pc[e] = "upLink"
    /\ f \in todo[e]
    /\ Manifest \in todo[e] => f = Manifest
    /\ IF /\ final # None
          /\ f \in final.top
          /\ f = Manifest => final.part # None
       THEN LET tree == IF final.part = None THEN EmptyInternal ELSE final.part
            IN  /\ final' = [final EXCEPT !.part =
                                [tree EXCEPT !.src = @ \cup {f}]]
                /\ todo' = [todo EXCEPT ![e] = @ \ {f}]
                /\ UNCHANGED pc
       ELSE Goto(e, "upLink", "upUnrender") /\ UNCHANGED <<final, todo>>
    /\ UNCHANGED <<previous, want, work, rebuild, moved, faults, reported>>

(* The stages that fill .openaria.upgrade.part fail when it is not there. *)
InPart(e, from, to, ok, tree) ==
    /\ pc[e] = from
    /\ IF final # None /\ final.part # None /\ ok
       THEN Goto(e, from, to) /\ final' = [final EXCEPT !.part = tree]
       ELSE Goto(e, from, "upUnrender") /\ UNCHANGED final
    /\ UNCHANGED <<previous, own, faults, reported>>

UpgradeReceipt(e) ==
    /\ todo[e] = {}
    /\ InPart(e, "upLink", "upClean", TRUE,
              [final.part EXCEPT !.receipt = "written"])

(* _remove_media_inputs raises when an input has disappeared. *)
UpgradeClean(e) ==
    InPart(e, "upClean", "upMedia", Removable(want[e]) \subseteq final.part.src,
           [final.part EXCEPT !.src = @ \ Removable(want[e])])

UpgradeMedia(e) ==
    InPart(e, "upMedia", "upPublish", TRUE,
           [final.part EXCEPT !.media = MediaReceiptOf(want[e])])

(* temporary_internal.rename(final_internal) *)
UpgradePublish(e) ==
    /\ pc[e] = "upPublish"
    /\ IF final # None /\ final.part # None /\ final.internal = None
       THEN /\ Goto(e, "upPublish", "upDone")
            /\ final' = [final EXCEPT !.internal = final.part, !.part = None]
       ELSE Goto(e, "upPublish", "upUnrender") /\ UNCHANGED final
    /\ UNCHANGED <<previous, own, faults, reported>>

UpgradeDone(e) ==
    /\ Goto(e, "upDone", "idle")
    /\ RemoveLegacyTree
    /\ reported' = reported \cup {want[e]}
    /\ UNCHANGED <<previous, own, faults>>

(* except: shutil.rmtree(temporary_internal) ... *)
UpgradeAbort(e) ==
    /\ \/ Goto(e, "upAbort", "idle")
       \/ Goto(e, "upUnrender", "upUnlink")
    /\ final' = IF final = None THEN None ELSE [final EXCEPT !.part = None]
    /\ UNCHANGED <<previous, own, faults, reported>>

(* Wrong variant: removes the video of an upgrade already published. *)
UpgradeUnlinkAlways(e) ==
    /\ Goto(e, "upUnlink", "idle")
    /\ final' = IF final # None THEN [final EXCEPT !.video = None] ELSE final
    /\ UNCHANGED <<previous, own, faults, reported>>

(* ... and output.unlink, unless some .openaria was published meanwhile. *)
UpgradeUnlink(e) ==
    /\ Goto(e, "upUnlink", "idle")
    /\ final' = IF final # None /\ final.internal = None
                THEN [final EXCEPT !.video = None]
                ELSE final
    /\ UNCHANGED <<previous, own, faults, reported>>

-----------------------------------------------------------------------------
(* Faults.                                                                 *)

(* Where an exception raised at each phase is handled.  An interrupt that   *)
(* arrives between os.replace of the video and the assignment of rendered  *)
(* finds rendered still None; one that arrives after the rename of the     *)
(* upgraded tree may find published still False.                           *)
Handler(phase) ==
    CASE phase \in Inspecting \cup {"upCheck"} -> {"idle"}
      [] phase \in Staging \cup {"backup"} -> {"discard"}
      [] phase = "install" -> {"restore"}
      [] phase \in {"upEncode", "upRendered"} -> {"upAbort"}
      [] phase \in {"upMkdir", "upDone"} -> {"upAbort", "upUnrender"}
      [] phase \in {"upLink", "upClean", "upMedia", "upPublish"} -> {"upUnrender"}
      [] OTHER -> {}

Interrupt(e) ==
    /\ faults < MaxFaults
    /\ \E to \in Handler(pc[e]) : Goto(e, pc[e], to)
    /\ final' = IF pc[e] = "upRendered" /\ final # None
                THEN [final EXCEPT !.encoding = @ \ {e}]
                ELSE final
    /\ faults' = faults + 1
    /\ UNCHANGED <<previous, own, reported>>

(* The process is killed: what it had moved aside stays hidden for good. *)
Kill(e) ==
    /\ faults < MaxFaults
    /\ pc[e] # "idle"
    /\ pc' = [pc EXCEPT ![e] = "idle"]
    /\ previous' = previous \cup ({moved[e]} \ {None})
    /\ work' = [work EXCEPT ![e] = None]
    /\ todo' = [todo EXCEPT ![e] = {}]
    /\ rebuild' = [rebuild EXCEPT ![e] = FALSE]
    /\ moved' = [moved EXCEPT ![e] = None]
    /\ faults' = faults + 1
    /\ UNCHANGED <<final, want, reported>>

-----------------------------------------------------------------------------
Inspect(e) ==
    Exists(e) \/ MatchExact(e) \/ MatchOld(e) \/ MatchLegacy(e) \/ Reuse(e)

Build(e) ==
    \/ Stage(e) \/ WriteReceipt(e) \/ Render(e) \/ CleanMedia(e)
    \/ WriteMedia(e) \/ Publish(e) \/ PublishPrivately(e) \/ Discard(e)
    \/ \E f \in Artifacts : Fetch(e, f)

Swap(e) == Backup(e) \/ Install(e) \/ Restore(e)

Upgrade(e) ==
    \/ UpgradeCheck(e) \/ UpgradeEncode(e) \/ UpgradeRendered(e)
    \/ UpgradeMkdir(e) \/ UpgradeReceipt(e) \/ UpgradeClean(e)
    \/ UpgradeMedia(e) \/ UpgradePublish(e) \/ UpgradeDone(e)
    \/ UpgradeAbort(e) \/ UpgradeUnlink(e)
    \/ \E f \in Files : UpgradeLink(e, f)

Run(e) == Begin(e) \/ Inspect(e) \/ Build(e) \/ Swap(e) \/ Upgrade(e)

Next == \E e \in Exporters : Run(e) \/ Interrupt(e) \/ Kill(e)

Spec == Init /\ [][Next]_vars

(* A started export goes on until it returns or raises, and the user runs   *)
(* the export again.                                                       *)
FairSpec == Spec /\ \A e \in Exporters : WF_vars(Run(e))

-----------------------------------------------------------------------------
TypeOK ==
    /\ final \in Directory \cup {None}
    /\ previous \subseteq Directory
    /\ pc \in [Exporters -> Phases]
    /\ want \in [Exporters -> Options]
    /\ work \in [Exporters -> Directory \cup {None}]
    /\ todo \in [Exporters -> SUBSET Files]
    /\ rebuild \in [Exporters -> BOOLEAN]
    /\ moved \in [Exporters -> Directory \cup {None}]
    /\ faults \in 0..MaxFaults
    /\ reported \subseteq AnyOptions

(* Every directory an export has left behind, visible or hidden. *)
Hidden == previous \cup {moved[e] : e \in Exporters}
Kept == {final} \cup Hidden

(* export_session_tree never shows a half-built session: whatever is at the *)
(* destination is a finished export, a complete 0.3 source tree, or the    *)
(* unrelated directory that was there before (README "do not appear        *)
(* complete").                                                             *)
FinalWhole ==
    \/ final = None
    \/ IsExport(final)
    \/ LegacyMatches(final) /\ final.internal = None
    \/ final \in Initial

(* An export that was reported to the caller is never destroyed by another  *)
(* export, an interrupt or a kill: it is at the destination or in a hidden *)
(* backup (the rebuild's backup, the restore in its except clause).        *)
ReportedKept == \A o \in reported : \E d \in Kept : Matches(d, o)

(* A directory the export does not recognise is never touched: the code     *)
(* raises instead of overwriting it.                                       *)
Unrecognised(d) == d # None /\ ~IsExport(d) /\ ~LegacyMatches(d)

ForeignUntouched == [][Unrecognised(final) => final' = final]_vars

(* README: "The source manifest and non-media metadata remain under         *)
(* .openaria/source for traceability."  Two upgraders of one tree do not    *)
(* keep this (README, 4).                                                  *)
EvidenceRemains ==
    final # None /\ final.internal # None =>
        {Manifest} \cup Sidecars \subseteq final.internal.src

(* README: a changed option "rebuilds the export atomically".  Between its   *)
(* two renames the code does not keep this (README, 4).                    *)
NeverMissing == [][IsExport(final) => final' # None]_vars

(* README: "Verified source-tree exports made by version 0.3 are upgraded   *)
(* to the finished layout the next time that session is exported."         *)
LegacyBecomesExport == LegacyMatches(final) ~> IsExport(final)

-----------------------------------------------------------------------------
(* What a reader of the destination sees, and what is kept aside.           *)
View ==
    IF final = None THEN <<"nothing">>
    ELSE IF IsExport(final) THEN <<"export", final.internal.media.options>>
    ELSE IF LegacyMatches(final) THEN <<"legacy">>
    ELSE <<"foreign">>

Archive == {d.internal.media.options : d \in {k \in Hidden : IsExport(k)}}

Promise == INSTANCE Destination WITH visible <- View, archive <- Archive

(* The export commit protocol implements the destination it promises.       *)
KeepsPromise == Promise!Spec
=============================================================================
