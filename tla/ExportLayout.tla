---------------------------- MODULE ExportLayout ----------------------------
(***************************************************************************)
(* What one exported session looks like on the destination file system,   *)
(* and the three questions export_session_tree asks about a directory it   *)
(* finds there (openaria/bridge/sdk/_export.py).                           *)
(*                                                                         *)
(* File contents are abstracted to "verified or not there": every byte the *)
(* code accepts is checked against a SHA-256, so a file that is present in *)
(* a directory below is one whose digest matched.  The rendered video is   *)
(* identified by the render options that produced it.                      *)
(***************************************************************************)
CONSTANTS
    Exporters,      \* processes exporting this session to this destination
    Options,        \* the ExportOptions a caller can ask for today
    OldOptions,     \* options or renderer versions only older releases wrote
    RetainSources,  \* the options with retain_sources = True
    Manifest,       \* the manifest file
    Media,          \* video and audio artifacts of the manifest
    Sidecars,       \* the other artifacts (IMU, frame indexes, ...)
    KeptAudio,      \* audio.wav when its clock continuity is "unknown"
    None            \* no directory, no file, no receipt

Artifacts == Media \cup Sidecars
Files == {Manifest} \cup Artifacts
AnyOptions == Options \cup OldOptions

ASSUME LayoutAssumption ==
    /\ Options \cap OldOptions = {}
    /\ Media \cap Sidecars = {}
    /\ Manifest \notin Artifacts
    /\ RetainSources \subseteq AnyOptions
    /\ KeptAudio \subseteq Media
    /\ None \notin AnyOptions

(* .openaria/media.json: the options recorded and the removed paths. *)
MediaReceipt == [options: AnyOptions, removed: SUBSET Media]

(* .openaria (or .openaria.upgrade.part): source files and two receipts. *)
Internal ==
    [src: SUBSET Files, receipt: {"absent", "written"},
     media: MediaReceipt \cup {None}]

(* A session directory.  top holds files of the 0.3 source-tree layout;    *)
(* encoding is the set of exporters with a .openaria-media- work directory *)
(* inside it.                                                              *)
Directory ==
    [top: SUBSET Files, internal: Internal \cup {None},
     part: Internal \cup {None}, video: AnyOptions \cup {None},
     encoding: SUBSET Exporters]

ASSUME NoneAssumption ==
    None \notin Directory /\ None \notin Internal /\ None \notin MediaReceipt

EmptyInternal == [src |-> {}, receipt |-> "absent", media |-> None]
EmptyDirectory ==
    [top |-> {}, internal |-> None, part |-> None, video |-> None,
     encoding |-> {}]

(* The media inputs _remove_media_inputs deletes under these options. *)
Removable(o) == IF o \in RetainSources THEN {} ELSE Media \ KeptAudio

(* _existing_export_matches with allow_legacy_renderer: evidence, both      *)
(* receipts, the recorded cleanup and the video all agree.                 *)
IsExport(d) ==
    /\ d # None
    /\ d.internal # None
    /\ {Manifest} \cup Sidecars \subseteq d.internal.src
    /\ d.internal.receipt = "written"
    /\ d.internal.media # None
    /\ d.internal.media.removed = Removable(d.internal.media.options)
    /\ d.internal.media.removed \cap d.internal.src = {}
    /\ Media \ d.internal.media.removed \subseteq d.internal.src
    /\ d.video = d.internal.media.options

(* _existing_export_matches for the requested options. *)
Matches(d, o) == IsExport(d) /\ d.internal.media.options = o

(* _legacy_export_matches: a complete, verified version 0.3 source tree. *)
LegacyMatches(d) == d # None /\ Files \subseteq d.top

(* A finished export rendered with options o. *)
Finished(o) ==
    [EmptyDirectory EXCEPT
        !.video = o,
        !.internal = [src |-> Files \ Removable(o), receipt |-> "written",
                      media |-> [options |-> o, removed |-> Removable(o)]]]

(* The version 0.3 layout: all files at the top, nothing else. *)
LegacyTree == [EmptyDirectory EXCEPT !.top = Files]
=============================================================================
