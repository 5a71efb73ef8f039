-------------------------- MODULE ExportTreeProofs --------------------------
(* ExportTree for any number of exporters and any file sets: types first,   *)
(* then what is at the destination, and what becomes of reported exports.  *)
EXTENDS ExportTree, TLAPS

-----------------------------------------------------------------------------
(* Facts about directories.                                                *)

LEMMA RemovableType ==
    ASSUME NEW o \in AnyOptions
    PROVE  Removable(o) \subseteq Media
  BY LayoutAssumption DEF Removable

(* The media receipt written for options o is a media receipt. *)
LEMMA ReceiptType ==
    ASSUME NEW o \in AnyOptions
    PROVE  MediaReceiptOf(o) \in MediaReceipt
  BY RemovableType DEF MediaReceiptOf, MediaReceipt

LEMMA EmptyTypes == EmptyInternal \in Internal /\ EmptyDirectory \in Directory
  BY DEF EmptyInternal, EmptyDirectory, Internal, Directory

(* Assigning one field of an internal tree gives an internal tree. *)
LEMMA InternalUpdate ==
    ASSUME NEW i \in Internal
    PROVE  /\ \A s \in SUBSET Files : [i EXCEPT !.src = s] \in Internal
           /\ [i EXCEPT !.receipt = "written"] \in Internal
           /\ \A m \in MediaReceipt : [i EXCEPT !.media = m] \in Internal
  BY DEF Internal

LEMMA InternalSrc == \A i \in Internal : i.src \subseteq Files
  BY DEF Internal

LEMMA OptionsAny == Options \subseteq AnyOptions
  BY DEF AnyOptions

-----------------------------------------------------------------------------
(* Type correctness.                                                       *)

(* A staging directory as the stages of the export fill it. *)
Staged(src, receipt, media, video) ==
    [top |-> {},
     internal |-> [src |-> src, receipt |-> receipt, media |-> media],
     part |-> None, video |-> video, encoding |-> {}]

(* What each phase may rely on about the exporter's private directory, and  *)
(* about the directory it has moved aside.                                 *)
WorkOK(e) ==
    /\ pc[e] = "fetch" =>
          /\ todo[e] \subseteq Artifacts
          /\ work[e] = Staged(Files \ todo[e], "absent", None, None)
    /\ pc[e] = "render" => work[e] = Staged(Files, "written", None, None)
    /\ pc[e] = "clean" => work[e] = Staged(Files, "written", None, want[e])
    /\ pc[e] = "media" =>
          work[e] = Staged(Files \ Removable(want[e]), "written", None, want[e])
    /\ pc[e] \in {"publish", "backup", "install"} =>
          work[e] = Staged(Files \ Removable(want[e]), "written",
                           MediaReceiptOf(want[e]), want[e])

MovedOK(e) ==
    IF pc[e] \in {"install", "restore"} THEN moved[e] \in Directory
                                        ELSE moved[e] = None

TypeInv == TypeOK /\ \A e \in Exporters : WorkOK(e) /\ MovedOK(e)

LEMMA InitType == Init => TypeInv
  <1> SUFFICES ASSUME Init PROVE TypeInv
    OBVIOUS
  <1>1. final \in Directory \cup {None}
    BY InitialAssumption DEF Init
  <1>2. pc \in [Exporters -> Phases]
    BY DEF Init, Phases
  <1>3. faults \in 0..MaxFaults
    BY InitialAssumption DEF Init
  <1>4. \A e \in Exporters : WorkOK(e) /\ MovedOK(e)
    BY DEF Init, WorkOK, MovedOK
  <1> QED
    BY <1>1, <1>2, <1>3, <1>4 DEF Init, TypeOK, TypeInv

LEMMA StagedUpdate ==
    ASSUME NEW s, NEW r, NEW m, NEW v, NEW s2, NEW m2, NEW v2
    PROVE  /\ [Staged(s, r, m, v) EXCEPT !.internal.src = s2]
                 = Staged(s2, r, m, v)
           /\ [Staged(s, r, m, v) EXCEPT !.internal.receipt = "written"]
                 = Staged(s, "written", m, v)
           /\ [Staged(s, r, m, v) EXCEPT !.internal.media = m2]
                 = Staged(s, r, m2, v)
           /\ [Staged(s, r, m, v) EXCEPT !.video = v2] = Staged(s, r, m, v2)
           /\ Staged(s, r, m, v).internal.src = s
  <1>1. [Staged(s, r, m, v) EXCEPT !.internal.src = s2] = Staged(s2, r, m, v)
    BY DEF Staged
  <1>2. [Staged(s, r, m, v) EXCEPT !.internal.receipt = "written"]
                 = Staged(s, "written", m, v)
    BY DEF Staged
  <1>3. [Staged(s, r, m, v) EXCEPT !.internal.media = m2]
                 = Staged(s, r, m2, v)
    BY DEF Staged
  <1>4. [Staged(s, r, m, v) EXCEPT !.video = v2] = Staged(s, r, m, v2)
    BY DEF Staged
  <1>5. Staged(s, r, m, v).internal.src = s
    BY DEF Staged
  <1> QED BY <1>1, <1>2, <1>3, <1>4, <1>5

LEMMA StagedType ==
    ASSUME NEW s \in SUBSET Files, NEW r \in {"absent", "written"},
           NEW m \in MediaReceipt \cup {None}, NEW v \in AnyOptions \cup {None}
    PROVE  Staged(s, r, m, v) \in Directory
  BY DEF Staged, Directory, Internal

(* A step of exporter e leaves the private state of every other exporter. *)
LEMMA OthersStand ==
    ASSUME NEW e \in Exporters, NEW f \in Exporters, e # f,
           pc[f] = pc'[f], work[f] = work'[f], todo[f] = todo'[f],
           want[f] = want'[f], moved[f] = moved'[f], WorkOK(f), MovedOK(f)
    PROVE  WorkOK(f)' /\ MovedOK(f)'
  BY DEF WorkOK, MovedOK

(* Between them these two facts reduce a step of e to its own state. *)
LEMMA StepType ==
    ASSUME TypeInv, NEW e \in Exporters, TypeOK', WorkOK(e)', MovedOK(e)',
           \A f \in Exporters \ {e} :
              /\ pc[f] = pc'[f] /\ work[f] = work'[f] /\ todo[f] = todo'[f]
              /\ want[f] = want'[f] /\ moved[f] = moved'[f]
    PROVE  TypeInv'
  <1>1. \A f \in Exporters \ {e} : WorkOK(f)' /\ MovedOK(f)'
    BY OthersStand DEF TypeInv
  <1> QED BY <1>1 DEF TypeInv

LEMMA InspectType ==
    ASSUME TypeInv, NEW e \in Exporters, Begin(e) \/ Inspect(e)
    PROVE  TypeInv'
  <1> USE DEF Goto, own, WorkOK, MovedOK
  <1>0. TypeOK
    BY DEF TypeInv
  <1>1. CASE Begin(e)
    <2>1. TypeOK'
      BY <1>0, <1>1 DEF Begin, TypeOK, Phases, Inspecting
    <2> QED BY <2>1, <1>0, <1>1, StepType DEF Begin, TypeOK, TypeInv
  <1>2. CASE Exists(e) \/ MatchExact(e) \/ MatchLegacy(e)
    <2>1. TypeOK'
      BY <1>0, <1>2 DEF Exists, MatchExact, MatchLegacy, TypeOK,
                        Phases, Inspecting, Staging, Upgrading
    <2>2. PICK to \in {"stage", "matches", "reuse", "matchesOld", "upCheck", "idle"} :
             pc' = [pc EXCEPT ![e] = to]
      BY <1>2 DEF Exists, MatchExact, MatchLegacy
    <2>3. UNCHANGED own /\ pc[e] \in {"exists", "matches", "matchesLegacy"}
      BY <1>2 DEF Exists, MatchExact, MatchLegacy
    <2> QED BY <2>1, <2>2, <2>3, <1>0, StepType DEF TypeOK, TypeInv
  <1>4. CASE MatchOld(e)
    <2>1. IsExport(final) \in BOOLEAN
      BY DEF IsExport
    <2>2. TypeOK'
      BY <1>0, <1>4, <2>1 DEF MatchOld, TypeOK, Phases, Inspecting, Staging
    <2> QED BY <2>2, <1>0, <1>4, StepType DEF MatchOld, TypeOK, TypeInv
  <1>3. CASE Reuse(e)
    <2>1. final' \in Directory \cup {None}
      BY <1>0, <1>3 DEF Reuse, RemoveLegacyTree, TypeOK, Directory
    <2>2. TypeOK'
      BY <1>0, <1>3, <2>1, OptionsAny DEF Reuse, TypeOK, Phases
    <2> QED BY <2>2, <1>0, <1>3, StepType DEF Reuse, TypeOK, TypeInv
  <1> QED BY <1>1, <1>2, <1>3, <1>4 DEF Inspect

LEMMA BuildType ==
    ASSUME TypeInv, NEW e \in Exporters, Build(e)
    PROVE  TypeInv'
  <1> USE DEF Goto, own
  <1>0. TypeOK /\ WorkOK(e) /\ MovedOK(e)
    BY DEF TypeInv
  <1>a. want[e] \in AnyOptions /\ Removable(want[e]) \subseteq Media
    BY <1>0, RemovableType, OptionsAny DEF TypeOK
  <1>b. MediaReceiptOf(want[e]) \in MediaReceipt
    BY <1>a, ReceiptType
  <1>1. CASE Stage(e)
    <2>1. work'[e] = Staged({Manifest}, "absent", None, None)
      BY <1>0, <1>1 DEF Stage, EmptyDirectory, EmptyInternal, Staged, TypeOK
    <2>2. {Manifest} = Files \ todo'[e] /\ todo'[e] = Artifacts
      BY <1>0, <1>1, LayoutAssumption DEF Stage, Files, TypeOK
    <2>3. work'[e] \in Directory
      BY <2>1, StagedType DEF Files
    <2>4. TypeOK'
      BY <1>0, <1>1, <2>3 DEF Stage, Phases, Staging, Files, TypeOK
    <2>5. WorkOK(e)' /\ MovedOK(e)'
      BY <1>0, <1>1, <2>1, <2>2 DEF Stage, WorkOK, MovedOK, TypeOK
    <2> QED BY <1>1, <2>4, <2>5, StepType DEF Stage, TypeOK, TypeInv
  <1>2. ASSUME NEW f \in Artifacts, Fetch(e, f) PROVE TypeInv'
    <2>1. work[e] = Staged(Files \ todo[e], "absent", None, None)
      BY <1>0, <1>2 DEF Fetch, WorkOK
    <2>a. work'[e] = [work[e] EXCEPT !.internal.src = work[e].internal.src \cup {f}]
      BY <1>0, <1>2 DEF Fetch, TypeOK
    <2>2. work'[e] = Staged((Files \ todo[e]) \cup {f}, "absent", None, None)
      BY <2>1, <2>a DEF Staged
    <2>3. (Files \ todo[e]) \cup {f} = Files \ todo'[e]
      BY <1>0, <1>2 DEF Fetch, Files, TypeOK
    <2>b. Staged(Files \ todo'[e], "absent", None, None) \in Directory
      BY StagedType
    <2>4. work'[e] \in Directory
      BY <2>2, <2>3, <2>b
    <2>5. TypeOK'
      BY <1>0, <1>2, <2>4 DEF Fetch, TypeOK
    <2>6. WorkOK(e)' /\ MovedOK(e)'
      BY <1>0, <1>2, <2>2, <2>3 DEF Fetch, WorkOK, MovedOK, TypeOK
    <2> QED BY <1>2, <2>5, <2>6, StepType DEF Fetch, TypeOK, TypeInv
  <1>3. CASE WriteReceipt(e)
    <2>1. work[e] = Staged(Files, "absent", None, None)
      BY <1>0, <1>3 DEF WriteReceipt, WorkOK
    <2>2. work'[e] = Staged(Files, "written", None, None)
      BY <1>0, <1>3, <2>1, StagedUpdate DEF WriteReceipt, TypeOK
    <2>a. Staged(Files, "written", None, None) \in Directory
      BY StagedType
    <2>3. TypeOK'
      BY <1>0, <1>3, <2>2, <2>a
         DEF WriteReceipt, TypeOK, Phases, Staging
    <2>4. WorkOK(e)' /\ MovedOK(e)'
      BY <1>0, <1>3, <2>2 DEF WriteReceipt, WorkOK, MovedOK, TypeOK
    <2> QED BY <1>3, <2>3, <2>4, StepType DEF WriteReceipt, TypeOK, TypeInv
  <1>4. CASE Render(e)
    <2>1. work[e] = Staged(Files, "written", None, None)
      BY <1>0, <1>4 DEF Render, WorkOK
    <2>2. work'[e] = Staged(Files, "written", None, want[e])
      BY <1>0, <1>4, <2>1, StagedUpdate DEF Render, TypeOK
    <2>a. Staged(Files, "written", None, want[e]) \in Directory
      BY <1>a, StagedType
    <2>3. TypeOK'
      BY <1>0, <1>4, <2>2, <2>a DEF Render, TypeOK, Phases, Staging
    <2>4. WorkOK(e)' /\ MovedOK(e)'
      BY <1>0, <1>4, <2>2 DEF Render, WorkOK, MovedOK, TypeOK
    <2> QED BY <1>4, <2>3, <2>4, StepType DEF Render, TypeOK, TypeInv
  <1>5. CASE CleanMedia(e)
    <2>1. work[e] = Staged(Files, "written", None, want[e])
      BY <1>0, <1>5 DEF CleanMedia, WorkOK
    <2>a. work'[e] = [work[e] EXCEPT !.internal.src =
                         work[e].internal.src \ Removable(want[e])]
      BY <1>0, <1>5 DEF CleanMedia, TypeOK
    <2>2. work'[e] =
            Staged(Files \ Removable(want[e]), "written", None, want[e])
      <3>1. work[e].internal.src = Files
        BY <2>1 DEF Staged
      <3>2. work'[e] = [work[e] EXCEPT !.internal.src = Files \ Removable(want[e])]
        BY <2>a, <3>1
      <3>3. [Staged(Files, "written", None, want[e])
               EXCEPT !.internal.src = Files \ Removable(want[e])]
              = Staged(Files \ Removable(want[e]), "written", None, want[e])
        BY DEF Staged
      <3> QED BY <2>1, <3>2, <3>3
    <2>b. Staged(Files \ Removable(want[e]), "written", None, want[e]) \in Directory
      BY <1>a, StagedType
    <2>3. TypeOK'
      BY <1>0, <1>5, <2>2, <2>b
         DEF CleanMedia, TypeOK, Phases, Staging
    <2>4. WorkOK(e)' /\ MovedOK(e)'
      BY <1>0, <1>5, <2>2 DEF CleanMedia, WorkOK, MovedOK, TypeOK
    <2> QED BY <1>5, <2>3, <2>4, StepType DEF CleanMedia, TypeOK, TypeInv
  <1>6. CASE WriteMedia(e)
    <2>1. work[e] = Staged(Files \ Removable(want[e]), "written", None, want[e])
      BY <1>0, <1>6 DEF WriteMedia, WorkOK
    <2>a. work'[e] = [work[e] EXCEPT !.internal.media = MediaReceiptOf(want[e])]
      BY <1>0, <1>6 DEF WriteMedia, TypeOK
    <2>2. work'[e] = Staged(Files \ Removable(want[e]), "written",
                            MediaReceiptOf(want[e]), want[e])
      <3>1. [Staged(Files \ Removable(want[e]), "written", None, want[e])
               EXCEPT !.internal.media = MediaReceiptOf(want[e])]
              = Staged(Files \ Removable(want[e]), "written",
                       MediaReceiptOf(want[e]), want[e])
        BY DEF Staged
      <3> QED BY <2>1, <2>a, <3>1
    <2>b. Staged(Files \ Removable(want[e]), "written",
                 MediaReceiptOf(want[e]), want[e]) \in Directory
      BY <1>a, <1>b, StagedType
    <2>3. TypeOK'
      BY <1>0, <1>6, <2>2, <2>b
         DEF WriteMedia, TypeOK, Phases, Staging
    <2>4. WorkOK(e)' /\ MovedOK(e)'
      BY <1>0, <1>6, <2>2 DEF WriteMedia, WorkOK, MovedOK, TypeOK
    <2> QED BY <1>6, <2>3, <2>4, StepType DEF WriteMedia, TypeOK, TypeInv
  <1>7. CASE Publish(e)
    <2>1. CASE final = None
      <3>1. final' \in Directory \cup {None}
        BY <1>0, <1>7, <2>1 DEF Publish, TypeOK
      <3>2. TypeOK'
        BY <1>0, <1>7, <2>1, <3>1, OptionsAny DEF Publish, TypeOK, Phases
      <3>3. WorkOK(e)' /\ MovedOK(e)'
        BY <1>0, <1>7, <2>1 DEF Publish, WorkOK, MovedOK, TypeOK
      <3> QED BY <1>7, <2>1, <3>2, <3>3, StepType DEF Publish, TypeOK, TypeInv
    <2>2. CASE final # None
      <3>1. TypeOK'
        BY <1>0, <1>7, <2>2 DEF Publish, TypeOK, Phases
      <3>2. WorkOK(e)' /\ MovedOK(e)'
        BY <1>0, <1>7, <2>2 DEF Publish, WorkOK, MovedOK, TypeOK
      <3> QED BY <1>7, <2>2, <3>1, <3>2, StepType DEF Publish, TypeOK, TypeInv
    <2> QED BY <2>1, <2>2
  <1>8. CASE PublishPrivately(e) \/ Discard(e)
    <2>1. TypeOK'
      BY <1>0, <1>8 DEF PublishPrivately, Discard, TypeOK, Phases
    <2>2. WorkOK(e)' /\ MovedOK(e)'
      BY <1>0, <1>8 DEF PublishPrivately, Discard, WorkOK, MovedOK, TypeOK
    <2> QED BY <1>8, <2>1, <2>2, StepType
            DEF PublishPrivately, Discard, TypeOK, TypeInv
  <1> QED
    BY <1>1, <1>2, <1>3, <1>4, <1>5, <1>6, <1>7, <1>8 DEF Build

LEMMA SwapType ==
    ASSUME TypeInv, NEW e \in Exporters, Swap(e)
    PROVE  TypeInv'
  <1> USE DEF Goto
  <1>0. TypeOK /\ WorkOK(e) /\ MovedOK(e)
    BY DEF TypeInv
  <1>1. CASE Backup(e)
    <2>1. TypeOK'
      BY <1>0, <1>1 DEF Backup, TypeOK, Phases
    <2>2. WorkOK(e)' /\ MovedOK(e)'
      BY <1>0, <1>1 DEF Backup, TypeOK, WorkOK, MovedOK
    <2> QED BY <1>1, <2>1, <2>2, StepType DEF Backup, TypeOK, TypeInv
  <1>2. CASE Install(e)
    <2>1. moved[e] \in Directory /\ moved[e] # None
      BY <1>0, <1>2, NoneAssumption DEF Install, MovedOK
    <2>2. TypeOK'
      <3>1. CASE final = None
        <4>1. previous' \subseteq Directory /\ reported' \subseteq AnyOptions
          BY <1>0, <1>2, <2>1, <3>1, OptionsAny DEF Install, TypeOK
        <4>2. final' \in Directory \cup {None}
          BY <1>0, <1>2, <3>1 DEF Install, TypeOK
        <4> QED BY <1>0, <1>2, <3>1, <4>1, <4>2 DEF Install, TypeOK, Phases
      <3>2. CASE final # None
        BY <1>0, <1>2, <3>2 DEF Install, TypeOK, Phases
      <3> QED BY <3>1, <3>2
    <2>3. WorkOK(e)' /\ MovedOK(e)'
      BY <1>0, <1>2, <2>1 DEF Install, TypeOK, WorkOK, MovedOK
    <2> QED BY <1>2, <2>2, <2>3, StepType DEF Install, TypeOK, TypeInv
  <1>3. CASE Restore(e)
    <2>1. moved[e] \in Directory
      BY <1>0, <1>3 DEF Restore, MovedOK
    <2>2. TypeOK'
      BY <1>0, <1>3, <2>1 DEF Restore, TypeOK, Phases
    <2>3. WorkOK(e)' /\ MovedOK(e)'
      BY <1>0, <1>3, <2>1 DEF Restore, TypeOK, WorkOK, MovedOK
    <2> QED BY <1>3, <2>2, <2>3, StepType DEF Restore, TypeOK, TypeInv
  <1> QED BY <1>1, <1>2, <1>3 DEF Swap

LEMMA FaultType ==
    ASSUME TypeInv, NEW e \in Exporters, Interrupt(e) \/ Kill(e)
    PROVE  TypeInv'
  <1> USE DEF Goto
  <1>0. TypeOK /\ WorkOK(e) /\ MovedOK(e) /\ faults' \in 0..MaxFaults
    BY InitialAssumption DEF TypeInv, TypeOK, Interrupt, Kill
  <1>1. CASE Interrupt(e)
    <2>1. final' \in Directory \cup {None}
      BY <1>0, <1>1 DEF Interrupt, TypeOK, Directory
    <2>2. PICK to \in Handler(pc[e]) : pc' = [pc EXCEPT ![e] = to]
      BY <1>1 DEF Interrupt
    <2>3. to \in {"idle", "discard", "restore", "upAbort", "upUnrender"}
      BY <2>2 DEF Handler
    <2>4. pc[e] = "install" <=> to = "restore"
      BY <2>2 DEF Handler, Inspecting, Staging
    <2>5. TypeOK'
      BY <1>0, <1>1, <2>1, <2>2, <2>3 DEF Interrupt, own, TypeOK, Phases
    <2>6. pc[e] # "restore"
      BY <2>2 DEF Handler, Inspecting, Staging
    <2>7. WorkOK(e)' /\ MovedOK(e)'
      BY <1>0, <1>1, <2>2, <2>3, <2>4, <2>6
         DEF Interrupt, own, TypeOK, WorkOK, MovedOK
    <2> QED BY <1>1, <2>2, <2>5, <2>7, StepType
            DEF Interrupt, own, TypeOK, TypeInv
  <1>2. CASE Kill(e)
    <2>1. previous' \subseteq Directory
      BY <1>0, <1>2 DEF Kill, TypeOK
    <2>2. TypeOK'
      BY <1>0, <1>2, <2>1 DEF Kill, TypeOK, Phases
    <2>3. WorkOK(e)' /\ MovedOK(e)'
      BY <1>0, <1>2 DEF Kill, TypeOK, WorkOK, MovedOK
    <2> QED BY <1>2, <2>2, <2>3, StepType DEF Kill, TypeOK, TypeInv
  <1> QED BY <1>1, <1>2

(* In the in-place upgrade only pc, todo and the destination change. *)
LEMMA UpgradeType ==
    ASSUME TypeInv, NEW e \in Exporters, Upgrade(e)
    PROVE  TypeInv'
  <1> USE DEF Goto, own
  <1>0. TypeOK /\ WorkOK(e) /\ MovedOK(e)
    BY DEF TypeInv
  <1>a. want[e] \in AnyOptions /\ MediaReceiptOf(want[e]) \in MediaReceipt
    BY <1>0, ReceiptType, OptionsAny DEF TypeOK
  <1>b. final # None /\ final.part # None =>
           final \in Directory /\ final.part \in Internal
    BY <1>0 DEF TypeOK, Directory
  <1>1. ASSUME final' \in Directory \cup {None},
               todo' \in [Exporters -> SUBSET Files],
               \A f \in Exporters \ {e} : todo'[f] = todo[f],
               NEW to \in Upgrading \cup {"idle", "upAbort", "upUnrender", "upUnlink"},
               pc' = [pc EXCEPT ![e] = to],
               pc[e] \notin {"install", "restore"},
               reported' \subseteq AnyOptions,
               UNCHANGED <<previous, want, work, rebuild, moved, faults>>
        PROVE  TypeInv'
    <2>1. TypeOK'
      BY <1>0, <1>1 DEF TypeOK, Phases
    <2>2. WorkOK(e)' /\ MovedOK(e)'
      BY <1>0, <1>1 DEF TypeOK, WorkOK, MovedOK, Upgrading
    <2> QED BY <1>1, <2>1, <2>2, StepType DEF TypeOK, TypeInv
  <1>2. CASE UpgradeCheck(e)
    BY <1>0, <1>1, <1>2 DEF UpgradeCheck, TypeOK, Upgrading
  <1>3. CASE UpgradeEncode(e)
    <2>1. final' \in Directory \cup {None}
      BY <1>0, <1>3 DEF UpgradeEncode, TypeOK, Directory, LegacyMatches
    <2> QED BY <1>0, <1>1, <1>3, <2>1 DEF UpgradeEncode, TypeOK, Upgrading
  <1>4. CASE UpgradeRendered(e)
    <2>1. final' \in Directory \cup {None}
      <3>1. CASE final # None /\ e \in final.encoding
        <4>1. final' = [final EXCEPT !.encoding = final.encoding \ {e},
                                     !.video = want[e]]
          BY <1>4, <3>1 DEF UpgradeRendered
        <4> QED BY <1>0, <1>a, <3>1, <4>1 DEF TypeOK, Directory
      <3>2. CASE ~(final # None /\ e \in final.encoding)
        BY <1>0, <1>4, <3>2 DEF UpgradeRendered, TypeOK
      <3> QED BY <3>1, <3>2
    <2> QED BY <1>0, <1>1, <1>4, <2>1 DEF UpgradeRendered, TypeOK, Upgrading
  <1>5. CASE UpgradeMkdir(e)
    <2>1. final' \in Directory \cup {None}
      BY <1>0, <1>5, EmptyTypes DEF UpgradeMkdir, TypeOK, Directory
    <2> QED BY <1>0, <1>1, <1>5, <2>1 DEF UpgradeMkdir, TypeOK, Upgrading
  <1>6. ASSUME NEW f \in Files, UpgradeLink(e, f) PROVE TypeInv'
    <2> DEFINE tree == IF final.part = None THEN EmptyInternal ELSE final.part
    <2>1. final # None => [tree EXCEPT !.src = @ \cup {f}] \in Internal
      <3>1. final # None => tree \in Internal
        BY <1>b, EmptyTypes
      <3> QED BY <3>1, InternalUpdate, InternalSrc
    <2>2. final' \in Directory \cup {None}
      BY <1>0, <1>6, <2>1 DEF UpgradeLink, TypeOK, Directory
    <2> QED BY <1>0, <1>1, <1>6, <2>2 DEF UpgradeLink, TypeOK, Upgrading
  <1>7. CASE UpgradeReceipt(e) \/ UpgradeClean(e) \/ UpgradeMedia(e)
    <2>1. final # None /\ final.part # None =>
             /\ [final.part EXCEPT !.receipt = "written"] \in Internal
             /\ [final.part EXCEPT !.src = @ \ Removable(want[e])] \in Internal
             /\ [final.part EXCEPT !.media = MediaReceiptOf(want[e])] \in Internal
      BY <1>a, <1>b, InternalUpdate, InternalSrc
    <2>2. final' \in Directory \cup {None}
      BY <1>0, <1>7, <2>1, ZenonT(60)
         DEF UpgradeReceipt, UpgradeClean, UpgradeMedia, InPart, TypeOK, Directory
    <2> QED
      BY <1>0, <1>1, <1>7, <2>2
         DEF UpgradeReceipt, UpgradeClean, UpgradeMedia, InPart, TypeOK, Upgrading
  <1>8. CASE UpgradePublish(e)
    <2>1. final' \in Directory \cup {None}
      BY <1>0, <1>b, <1>8 DEF UpgradePublish, TypeOK, Directory
    <2> QED BY <1>0, <1>1, <1>8, <2>1 DEF UpgradePublish, TypeOK, Upgrading
  <1>9. CASE UpgradeDone(e)
    <2>1. final' \in Directory \cup {None}
      BY <1>0, <1>9
         DEF UpgradeDone, RemoveLegacyTree, TypeOK, Directory
    <2> QED BY <1>0, <1>1, <1>9, <2>1, OptionsAny DEF UpgradeDone, TypeOK
  <1>10. CASE UpgradeAbort(e) \/ UpgradeUnlink(e)
    <2>1. final' \in Directory \cup {None}
      BY <1>0, <1>10 DEF UpgradeAbort, UpgradeUnlink, TypeOK, Directory
    <2> QED BY <1>0, <1>1, <1>10, <2>1 DEF UpgradeAbort, UpgradeUnlink, TypeOK
  <1> QED BY <1>2, <1>3, <1>4, <1>5, <1>6, <1>7, <1>8, <1>9, <1>10 DEF Upgrade

LEMMA NextType == TypeInv /\ [Next]_vars => TypeInv'
  <1> SUFFICES ASSUME TypeInv, [Next]_vars PROVE TypeInv'
    OBVIOUS
  <1>1. ASSUME NEW e \in Exporters, Run(e) PROVE TypeInv'
    BY <1>1, InspectType, BuildType, SwapType, UpgradeType DEF Run
  <1>2. ASSUME NEW e \in Exporters, Interrupt(e) \/ Kill(e) PROVE TypeInv'
    BY <1>2, FaultType
  <1>3. CASE UNCHANGED vars
    BY <1>3 DEF vars, TypeInv, TypeOK, WorkOK, MovedOK
  <1> QED BY <1>1, <1>2, <1>3 DEF Next

(* Every variable of the export protocol keeps its type, for any number of  *)
(* exporters and any faults: the private directories really are the        *)
(* partial exports the stages of export_session_tree expect.               *)
THEOREM TypeCorrect == Spec => []TypeOK
  <1>1. Spec => []TypeInv
    BY InitType, NextType, PTL DEF Spec
  <1>2. TypeInv => TypeOK
    BY DEF TypeInv
  <1> QED BY <1>1, <1>2, PTL

-----------------------------------------------------------------------------
(* Safety.  The in-place upgrade of a version 0.3 tree is only safe when    *)
(* nobody else exports the same session meanwhile; everything else is safe *)
(* for any number of exporters.                                            *)
Alone == \A e, f \in Exporters : e = f

UpgradeAlone == \A d \in Initial : LegacyMatches(d) => Alone

Good == final = None \/ IsExport(final)

UpgradePhases == Upgrading \cup {"upAbort", "upUnrender", "upUnlink"}

(* The destination at each phase of the upgrade. *)
Untouched == LegacyMatches(final) /\ final.internal = None
Part(src, receipt, media) ==
    final.part = [src |-> src, receipt |-> receipt, media |-> media]

UpgradeOK(e) ==
    /\ pc[e] = "upCheck" => LegacyMatches(final) /\ ~IsExport(final)
    /\ pc[e] \in {"upEncode", "upRendered"} =>
          Untouched /\ final.part = None /\ final.video = None
    /\ pc[e] = "upMkdir" =>
          Untouched /\ final.part = None /\ final.video = want[e]
    /\ pc[e] = "upLink" =>
          Untouched /\ final.video = want[e] /\ Part(Files \ todo[e], "absent", None)
    /\ pc[e] = "upClean" =>
          Untouched /\ final.video = want[e] /\ Part(Files, "written", None)
    /\ pc[e] = "upMedia" =>
          /\ Untouched /\ final.video = want[e]
          /\ Part(Files \ Removable(want[e]), "written", None)
    /\ pc[e] = "upPublish" =>
          /\ Untouched /\ final.video = want[e]
          /\ Part(Files \ Removable(want[e]), "written", MediaReceiptOf(want[e]))
    /\ pc[e] = "upDone" => Matches(final, want[e])
    /\ pc[e] \in {"upAbort", "upUnrender", "upUnlink"} =>
          Untouched \/ IsExport(final)

(* An export made with options o is somewhere. *)
KeptWith(o) == \E d \in Kept : Matches(d, o)

(* What exporter e relies on. *)
Claim(e) ==
    /\ pc[e] = "reuse" => KeptWith(want[e])
    /\ rebuild[e] \/ pc[e] = "reuse" => Good
    /\ pc[e] \in {"backup", "install", "restore"} => rebuild[e]
    /\ moved[e] # None => IsExport(moved[e])
    /\ pc[e] = "matchesLegacy" => ~rebuild[e] /\ (Alone => ~IsExport(final))
    /\ pc[e] \in UpgradePhases => Alone /\ ~rebuild[e] /\ UpgradeOK(e)

LegacyAlone == \A d \in Kept : LegacyMatches(d) => Alone

SafeInv ==
    /\ TypeInv
    /\ LegacyAlone
    /\ FinalWhole
    /\ ReportedKept
    /\ \A e \in Exporters : Claim(e)

-----------------------------------------------------------------------------
(* Facts about directories.                                                *)

(* Whether a directory is an export depends on its .openaria and its video. *)
LEMMA SameExport ==
    ASSUME NEW d, NEW k, d # None, k # None,
           k.internal = d.internal, k.video = d.video
    PROVE  /\ IsExport(k) <=> IsExport(d)
           /\ \A o : Matches(k, o) <=> Matches(d, o)
  BY DEF IsExport, Matches

(* What a completed export holds is recognised as an export, and as one     *)
(* made with the options it was asked for.                                 *)
LEMMA CompleteMatches ==
    ASSUME NEW o \in AnyOptions, NEW d, d # None, d.video = o,
           d.internal = [src |-> Files \ Removable(o), receipt |-> "written",
                         media |-> MediaReceiptOf(o)]
    PROVE  Matches(d, o)
  <1>1. MediaReceiptOf(o) \in MediaReceipt /\ Removable(o) \subseteq Media
    BY ReceiptType, RemovableType
  <1>2. d.internal \in Internal
    BY <1>1 DEF Internal
  <1>3. d.internal # None /\ MediaReceiptOf(o) # None
    BY <1>1, <1>2, NoneAssumption
  <1>4. /\ MediaReceiptOf(o).options = o
        /\ MediaReceiptOf(o).removed = Removable(o)
    BY DEF MediaReceiptOf
  <1>5. /\ {Manifest} \cup Sidecars \subseteq d.internal.src
        /\ Media \ Removable(o) \subseteq d.internal.src
        /\ Removable(o) \cap d.internal.src = {}
    BY <1>1, LayoutAssumption DEF Files, Artifacts
  <1> QED BY <1>3, <1>4, <1>5 DEF Matches, IsExport

(* A staging directory never looks like a version 0.3 source tree. *)
LEMMA StagedNotLegacy ==
    ASSUME NEW s, NEW r, NEW m, NEW v
    PROVE  ~LegacyMatches(Staged(s, r, m, v))
  BY DEF Staged, LegacyMatches, Files

LEMMA CompleteStaged ==
    ASSUME TypeInv, NEW e \in Exporters,
           pc[e] \in {"publish", "backup", "install"}
    PROVE  /\ Matches(work[e], want[e]) /\ IsExport(work[e])
           /\ ~LegacyMatches(work[e])
           /\ work[e] # None /\ want[e] \in AnyOptions
  <1>1. /\ want[e] \in AnyOptions
        /\ work[e] = Staged(Files \ Removable(want[e]), "written",
                            MediaReceiptOf(want[e]), want[e])
    BY OptionsAny DEF TypeInv, TypeOK, WorkOK
  <1>2. /\ MediaReceiptOf(want[e]) \in MediaReceipt
        /\ Removable(want[e]) \subseteq Media
    BY <1>1, ReceiptType, RemovableType
  <1>3. work[e] \in Directory
    BY <1>1, <1>2, StagedType
  <1>4. work[e] # None
    BY <1>3, NoneAssumption
  <1>5. /\ work[e].video = want[e]
        /\ work[e].internal = [src |-> Files \ Removable(want[e]),
                               receipt |-> "written",
                               media |-> MediaReceiptOf(want[e])]
    BY <1>1 DEF Staged
  <1>6. Matches(work[e], want[e])
    BY <1>1, <1>4, <1>5, CompleteMatches
  <1>7. ~LegacyMatches(work[e])
    BY <1>1, StagedNotLegacy
  <1> QED BY <1>1, <1>4, <1>6, <1>7 DEF Matches

-----------------------------------------------------------------------------
(* Reducing a step of one exporter to what it does to the destination.      *)

(* The shape of Kept after a step. *)
LEMMA KeptStep ==
    ASSUME ReportedKept,
           \A o : KeptWith(o) => KeptWith(o)',
           \A o \in reported' : o \in reported \/ KeptWith(o)'
    PROVE  ReportedKept'
  BY DEF ReportedKept, KeptWith

(* A step of e leaves the other exporters' claims alone, because whoever is *)
(* inside an upgrade is alone.                                             *)
LEMMA ClaimStep ==
    ASSUME \A f \in Exporters : Claim(f), NEW e \in Exporters, Claim(e)',
           Good => Good', \A o : KeptWith(o) => KeptWith(o)',
           \A f \in Exporters \ {e} :
              /\ pc[f] = pc'[f] /\ rebuild[f] = rebuild'[f]
              /\ moved[f] = moved'[f] /\ want[f] = want'[f]
    PROVE  \A f \in Exporters : Claim(f)'
  <1> SUFFICES ASSUME NEW f \in Exporters, f # e PROVE Claim(f)'
    OBVIOUS
  <1>1. ~Alone
    BY DEF Alone
  <1>2. pc[f] \notin UpgradePhases
    BY <1>1 DEF Claim
  <1> QED BY <1>1, <1>2 DEF Claim

(* The exporter only moves on: nothing at the destination or aside changes. *)
LEMMA QuietStep ==
    ASSUME SafeInv, TypeInv', NEW e \in Exporters, Claim(e)',
           UNCHANGED <<final, previous, moved, reported>>,
           \A f \in Exporters \ {e} :
              pc[f] = pc'[f] /\ rebuild[f] = rebuild'[f] /\ want[f] = want'[f]
    PROVE  SafeInv'
  <1>1. Kept' = Kept
    BY DEF Kept, Hidden
  <1>2. LegacyAlone' /\ ReportedKept' /\ FinalWhole'
    BY <1>1 DEF SafeInv, LegacyAlone, ReportedKept, FinalWhole, Alone
  <1>3. \A f \in Exporters : Claim(f)'
    BY <1>1, ClaimStep DEF SafeInv, Good, KeptWith
  <1> QED BY <1>2, <1>3 DEF SafeInv

(* The exporter changes the directory at the destination in place. *)
LEMMA InPlaceStep ==
    ASSUME SafeInv, TypeInv', NEW e \in Exporters, Claim(e)',
           UNCHANGED <<previous, moved>>,
           final # None, final' # None,
           LegacyMatches(final') => LegacyMatches(final),
           \A o : Matches(final, o) => Matches(final', o),
           FinalWhole',
           \A o \in reported' : o \in reported \/ Matches(final', o),
           \A f \in Exporters \ {e} :
              pc[f] = pc'[f] /\ rebuild[f] = rebuild'[f] /\ want[f] = want'[f]
    PROVE  SafeInv'
  <1>1. Hidden' = Hidden
    BY DEF Hidden
  <1>2. Kept = {final} \cup Hidden /\ Kept' = {final'} \cup Hidden
    BY <1>1 DEF Kept
  <1>3. LegacyAlone'
    BY <1>2 DEF SafeInv, LegacyAlone, Alone
  <1>a. \A o : KeptWith(o) => KeptWith(o)'
    BY <1>2 DEF KeptWith
  <1>4. ReportedKept'
    BY <1>2, <1>a, KeptStep DEF SafeInv, KeptWith
  <1>5. Good => Good'
    BY DEF Good, Matches
  <1>6. \A f \in Exporters : Claim(f)'
    BY <1>5, <1>a, ClaimStep DEF SafeInv
  <1> QED BY <1>3, <1>4, <1>6 DEF SafeInv

-----------------------------------------------------------------------------
(* The safety invariant holds at the start and after every step.            *)

LEMMA InitSafe == ASSUME UpgradeAlone, Init PROVE SafeInv
  <1>1. TypeInv
    BY InitType
  <1>2. Kept \subseteq {final, None} /\ final \in Kept
    BY DEF Init, Kept, Hidden
  <1>3. LegacyAlone
    BY <1>2 DEF Init, LegacyAlone, UpgradeAlone, LegacyMatches
  <1>4. FinalWhole /\ ReportedKept
    BY <1>2 DEF Init, FinalWhole, ReportedKept
  <1>5. \A e \in Exporters : Claim(e)
    BY DEF Init, Claim, UpgradePhases, Upgrading
  <1> QED BY <1>1, <1>3, <1>4, <1>5 DEF SafeInv

(* Taking some files of the 0.3 layout out of an export. *)
LEMMA TrimSafe ==
    ASSUME SafeInv, TypeInv', NEW e \in Exporters, RemoveLegacyTree, Good,
           UNCHANGED own, UNCHANGED previous,
           reported' = reported \cup {want[e]}, KeptWith(want[e]),
           pc' = [pc EXCEPT ![e] = "idle"]
    PROVE  SafeInv'
  <1>1. TypeOK /\ TypeOK' /\ Claim(e) /\ pc'[e] = "idle"
    BY DEF SafeInv, TypeInv, TypeOK
  <1>2. \A f \in Exporters \ {e} :
            pc[f] = pc'[f] /\ rebuild[f] = rebuild'[f] /\ want[f] = want'[f]
    BY <1>1 DEF own, TypeOK
  <1>3. CASE final = None
    <2>1. final' = final /\ moved' = moved
      BY <1>3 DEF RemoveLegacyTree, own
    <2>2. Kept' = Kept
      BY <2>1 DEF Kept, Hidden
    <2>3. Claim(e)'
      BY <1>1, <1>3, <2>1 DEF Claim, Good, UpgradePhases, Upgrading, own
    <2>4. LegacyAlone' /\ FinalWhole'
      BY <2>1, <2>2 DEF SafeInv, LegacyAlone, FinalWhole, Alone
    <2>5. ReportedKept'
      BY <2>2 DEF SafeInv, ReportedKept, KeptWith
    <2>6. \A f \in Exporters : Claim(f)'
      BY <1>2, <2>1, <2>2, <2>3, ClaimStep DEF SafeInv, Good, KeptWith
    <2> QED BY <2>4, <2>5, <2>6 DEF SafeInv
  <1>4. CASE final # None
    <2>1. PICK left \in SUBSET final.top : final' = [final EXCEPT !.top = left]
      BY <1>4 DEF RemoveLegacyTree
    <2>2. /\ final' \in Directory /\ final' # None
          /\ final'.internal = final.internal /\ final'.video = final.video
          /\ final'.top \subseteq final.top
      BY <1>1, <1>4, <2>1, NoneAssumption DEF TypeOK, Directory
    <2>3. IsExport(final) /\ IsExport(final')
      BY <1>4, <2>2, SameExport DEF Good
    <2>4. \A o : Matches(final, o) => Matches(final', o)
      BY <1>4, <2>2, SameExport
    <2>5. LegacyMatches(final') => LegacyMatches(final)
      BY <1>4, <2>2 DEF LegacyMatches
    <2>6. Claim(e)'
      BY <1>1, <2>3 DEF Claim, Good, UpgradePhases, Upgrading, own
    <2>7. FinalWhole'
      BY <2>3 DEF FinalWhole
    <2>8. Hidden' = Hidden
      BY DEF Hidden, own
    <2>9. LegacyAlone'
      BY <2>5, <2>8 DEF SafeInv, LegacyAlone, Kept, Alone
    <2>10. \A o : KeptWith(o) => KeptWith(o)'
      BY <2>4, <2>8 DEF KeptWith, Kept
    <2>11. KeptWith(want[e])'
      BY <1>1, <2>10 DEF own
    <2>12. ReportedKept'
      <3>1. \A o \in reported' : o \in reported \/ KeptWith(o)'
        BY <2>10
      <3> QED BY <2>10, <3>1, KeptStep DEF SafeInv
    <2>13. \A f \in Exporters : Claim(f)'
      BY <1>2, <2>3, <2>6, <2>10, ClaimStep DEF SafeInv, Good, own
    <2> QED BY <2>7, <2>9, <2>12, <2>13 DEF SafeInv
  <1> QED BY <1>3, <1>4

LEMMA ReuseSafe ==
    ASSUME SafeInv, TypeInv', NEW e \in Exporters, Reuse(e)
    PROVE  SafeInv'
  <1>1. Good /\ KeptWith(want[e])
    BY DEF SafeInv, Claim, Reuse, Goto
  <1> QED BY <1>1, TrimSafe DEF Reuse, Goto

LEMMA InspectSafe ==
    ASSUME SafeInv, TypeInv', NEW e \in Exporters, Begin(e) \/ Inspect(e),
           ~Reuse(e)
    PROVE  SafeInv'
  <1> USE DEF Goto, own
  <1>0. TypeOK /\ Claim(e) /\ LegacyAlone /\ final \in Kept
    BY DEF SafeInv, TypeInv, Kept
  <1>1. UNCHANGED <<final, previous, moved, reported>>
    BY DEF Inspect, Begin, Exists, MatchExact, MatchOld, MatchLegacy
  <1>2. \A f \in Exporters \ {e} :
            pc[f] = pc'[f] /\ rebuild[f] = rebuild'[f] /\ want[f] = want'[f]
    BY <1>0 DEF Inspect, Begin, Exists, MatchExact, MatchOld, MatchLegacy, TypeOK
  <1>3. CASE Begin(e) \/ Exists(e)
    <2>1. pc'[e] \in {"exists", "stage", "matches"} /\ UNCHANGED rebuild
      BY <1>0, <1>3 DEF Begin, Exists, TypeOK
    <2>2. pc[e] \in {"idle", "exists"}
      BY <1>3 DEF Begin, Exists
    <2>3. Claim(e)'
      BY <1>0, <1>1, <2>1, <2>2 DEF Claim, UpgradePhases, Upgrading, Good
    <2> QED BY <1>1, <1>2, <2>3, QuietStep
  <1>4. CASE MatchExact(e)
    <2>1. /\ pc'[e] \in {"reuse", "matchesOld"} /\ UNCHANGED rebuild
          /\ pc'[e] = "reuse" => Good /\ KeptWith(want[e])
      BY <1>0, <1>4 DEF MatchExact, TypeOK, Good, Matches, KeptWith
    <2>a. Kept' = Kept /\ want' = want
      BY <1>1, <1>4 DEF Kept, Hidden, MatchExact
    <2>2. Claim(e)'
      BY <1>0, <1>1, <2>1, <2>a DEF KeptWith, Claim, UpgradePhases, Upgrading, Good
    <2> QED BY <1>1, <1>2, <2>2, QuietStep
  <1>5. CASE MatchOld(e)
    <2>1. CASE IsExport(final)
      <3>1. pc'[e] = "stage"
        BY <1>0, <1>5, <2>1 DEF MatchOld, TypeOK
      <3>2. Claim(e)'
        BY <1>0, <1>1, <2>1, <3>1 DEF Claim, UpgradePhases, Upgrading, Good
      <3> QED BY <1>1, <1>2, <3>2, QuietStep
    <2>2. CASE ~IsExport(final)
      <3>1. pc'[e] = "matchesLegacy" /\ rebuild'[e] = FALSE
        BY <1>0, <1>5, <2>2 DEF MatchOld, TypeOK, IsExport
      <3>2. Claim(e)'
        BY <1>0, <1>1, <2>2, <3>1 DEF Claim, UpgradePhases, Upgrading, Good
      <3> QED BY <1>1, <1>2, <3>2, QuietStep
    <2> QED BY <2>1, <2>2
  <1>6. CASE MatchLegacy(e)
    <2>1. pc[e] = "matchesLegacy" /\ ~rebuild[e] /\ UNCHANGED rebuild
      BY <1>0, <1>6 DEF MatchLegacy, Claim
    <2>2. CASE LegacyMatches(final)
      <3>1. Alone /\ ~IsExport(final) /\ pc'[e] = "upCheck"
        BY <1>0, <1>6, <2>1, <2>2 DEF MatchLegacy, LegacyAlone, Claim, TypeOK
      <3>2. Claim(e)'
        BY <1>0, <1>1, <2>1, <2>2, <3>1
           DEF Claim, UpgradePhases, Upgrading, UpgradeOK, Alone
      <3> QED BY <1>1, <1>2, <3>2, QuietStep
    <2>3. CASE ~LegacyMatches(final)
      <3>1. pc'[e] = "idle"
        BY <1>0, <1>6, <2>3 DEF MatchLegacy, TypeOK
      <3>2. Claim(e)'
        BY <1>0, <1>1, <2>1, <3>1 DEF Claim, UpgradePhases, Upgrading
      <3> QED BY <1>1, <1>2, <3>2, QuietStep
    <2> QED BY <2>2, <2>3
  <1> QED BY <1>3, <1>4, <1>5, <1>6 DEF Inspect

(* The exporter moves whole directories, and loses none. *)
LEMMA MoveStep ==
    ASSUME SafeInv, TypeInv', NEW e \in Exporters, Claim(e)', Good',
           \A d \in Kept : d # None => d \in Kept',
           \A d \in Kept' : d \in Kept \/ ~LegacyMatches(d),
           \A o \in reported' : o \in reported \/ KeptWith(o)',
           \A f \in Exporters \ {e} :
              /\ pc[f] = pc'[f] /\ rebuild[f] = rebuild'[f]
              /\ moved[f] = moved'[f] /\ want[f] = want'[f]
    PROVE  SafeInv'
  <1>1. LegacyAlone'
    BY DEF SafeInv, LegacyAlone, Alone
  <1>2. FinalWhole'
    BY DEF Good, FinalWhole
  <1>3. \A o : KeptWith(o) => KeptWith(o)'
    BY DEF KeptWith, Matches, IsExport
  <1>4. ReportedKept'
    BY <1>3, KeptStep DEF SafeInv
  <1>5. \A f \in Exporters : Claim(f)'
    BY <1>3, ClaimStep DEF SafeInv
  <1> QED BY <1>1, <1>2, <1>4, <1>5 DEF SafeInv

LEMMA BuildSafe ==
    ASSUME SafeInv, TypeInv', NEW e \in Exporters, Build(e)
    PROVE  SafeInv'
  <1> USE DEF Goto, own
  <1>0. TypeInv /\ TypeOK /\ Claim(e) /\ MovedOK(e) /\ final \in Kept
    BY DEF SafeInv, TypeInv, Kept
  <1>1. CASE Stage(e) \/ WriteReceipt(e) \/ Render(e) \/ CleanMedia(e)
                \/ WriteMedia(e) \/ \E f \in Artifacts : Fetch(e, f)
    <2>1. UNCHANGED <<final, previous, moved, reported, want, rebuild>>
      BY <1>1 DEF Stage, WriteReceipt, Render, CleanMedia, WriteMedia, Fetch
    <2>2. PICK to \in {"fetch", "render", "clean", "media", "publish"} :
             pc'[e] = to /\ \A f \in Exporters \ {e} : pc'[f] = pc[f]
      BY <1>0, <1>1
         DEF Stage, WriteReceipt, Render, CleanMedia, WriteMedia, Fetch, TypeOK
    <2>3. Claim(e)'
      BY <1>0, <2>1, <2>2 DEF Claim, UpgradePhases, Upgrading, Good
    <2> QED BY <2>1, <2>2, <2>3, QuietStep
  <1>2. CASE PublishPrivately(e) \/ Discard(e)
    <2>1. UNCHANGED <<final, previous, moved, reported, want>>
      BY <1>2 DEF PublishPrivately, Discard
    <2>2. pc'[e] \in {"backup", "idle"} /\ (pc'[e] = "backup" => rebuild'[e])
      BY <1>0, <1>2 DEF PublishPrivately, Discard, TypeOK
    <2>3. /\ rebuild'[e] => rebuild[e]
          /\ \A f \in Exporters \ {e} : pc'[f] = pc[f] /\ rebuild'[f] = rebuild[f]
      BY <1>0, <1>2 DEF PublishPrivately, Discard, TypeOK
    <2>4. Claim(e)'
      BY <1>0, <2>1, <2>2, <2>3 DEF Claim, UpgradePhases, Upgrading, Good
    <2> QED BY <2>1, <2>3, <2>4, QuietStep
  <1>3. CASE Publish(e) /\ final # None
    <2>1. UNCHANGED <<final, previous, moved, reported, want, rebuild>>
      BY <1>3 DEF Publish
    <2>2. pc'[e] = "discard" /\ \A f \in Exporters \ {e} : pc'[f] = pc[f]
      BY <1>0, <1>3 DEF Publish, TypeOK
    <2>3. Claim(e)'
      BY <1>0, <2>1, <2>2 DEF Claim, UpgradePhases, Upgrading, Good
    <2> QED BY <2>1, <2>2, <2>3, QuietStep
  <1>4. CASE Publish(e) /\ final = None
    <2>1. /\ UNCHANGED <<previous, moved, want, rebuild>>
          /\ final' = work[e] /\ reported' = reported \cup {want[e]}
      BY <1>4 DEF Publish
    <2>2. /\ Matches(work[e], want[e]) /\ IsExport(work[e])
          /\ ~LegacyMatches(work[e])
      BY <1>0, <1>4, CompleteStaged DEF Publish
    <2>3. pc'[e] = "idle" /\ \A f \in Exporters \ {e} : pc'[f] = pc[f]
      BY <1>0, <1>4 DEF Publish, TypeOK
    <2>4. Good'
      BY <2>1, <2>2 DEF Good
    <2>5. Claim(e)'
      BY <1>0, <2>1, <2>3, <2>4 DEF Claim, UpgradePhases, Upgrading
    <2>6. Hidden' = Hidden /\ Kept' = {work[e]} \cup Hidden
      BY <2>1 DEF Hidden, Kept
    <2>7. /\ \A d \in Kept : d # None => d \in Kept'
          /\ \A d \in Kept' : d \in Kept \/ ~LegacyMatches(d)
      BY <1>4, <2>2, <2>6 DEF Kept
    <2>8. \A o \in reported' : o \in reported \/ KeptWith(o)'
      BY <2>1, <2>2, <2>6 DEF KeptWith
    <2> QED BY <2>1, <2>3, <2>4, <2>5, <2>7, <2>8, MoveStep
  <1> QED BY <1>1, <1>2, <1>3, <1>4 DEF Build

LEMMA SwapSafe ==
    ASSUME SafeInv, TypeInv', NEW e \in Exporters, Swap(e)
    PROVE  SafeInv'
  <1> USE DEF Goto
  <1>0. /\ TypeInv /\ TypeOK /\ TypeOK' /\ Claim(e) /\ MovedOK(e)
        /\ \A f \in Exporters \ {e} :
              /\ pc[f] = pc'[f] /\ rebuild[f] = rebuild'[f]
              /\ moved[f] = moved'[f] /\ want[f] = want'[f]
    <2>1. TypeInv /\ TypeOK /\ TypeOK' /\ Claim(e) /\ MovedOK(e)
      BY DEF SafeInv, TypeInv
    <2> QED BY <2>1 DEF Swap, Backup, Install, Restore, TypeOK
  <1>1. CASE Backup(e) /\ final = None
    <2>1. UNCHANGED <<final, previous, moved, reported, want, rebuild>>
      BY <1>1 DEF Backup
    <2>2. pc'[e] = "discard"
      BY <1>0, <1>1 DEF Backup, TypeOK
    <2>3. Claim(e)'
      BY <1>0, <2>1, <2>2 DEF Claim, UpgradePhases, Upgrading, Good
    <2> QED BY <1>0, <2>1, <2>3, QuietStep
  <1>2. CASE Backup(e) /\ final # None
    <2>1. /\ pc'[e] = "install" /\ moved[e] = None /\ moved'[e] = final
          /\ final' = None /\ UNCHANGED <<previous, reported, want, rebuild>>
      BY <1>0, <1>2 DEF Backup, MovedOK, TypeOK
    <2>2. Good /\ IsExport(final) /\ rebuild[e]
      BY <1>0, <1>2 DEF Backup, Claim, Good
    <2>3. Good' /\ Claim(e)'
      BY <2>1, <2>2 DEF Claim, UpgradePhases, Upgrading, Good
    <2>4. /\ \A d \in Kept : d # None => d \in Kept'
          /\ \A d \in Kept' : d \in Kept \/ d = None
      BY <1>0, <2>1 DEF Kept, Hidden
    <2>5. \A d \in Kept' : d \in Kept \/ ~LegacyMatches(d)
      BY <2>4 DEF LegacyMatches
    <2> QED BY <1>0, <2>1, <2>3, <2>4, <2>5, MoveStep
  <1>3. CASE Install(e) /\ final # None
    <2>1. UNCHANGED <<final, previous, moved, reported, want, rebuild>>
      BY <1>3 DEF Install
    <2>2. pc'[e] = "restore" /\ pc[e] = "install"
      BY <1>0, <1>3 DEF Install, TypeOK
    <2>3. Claim(e)'
      BY <1>0, <2>1, <2>2 DEF Claim, UpgradePhases, Upgrading, Good
    <2> QED BY <1>0, <2>1, <2>3, QuietStep
  <1>4. CASE Install(e) /\ final = None
    <2>1. /\ pc[e] = "install" /\ pc'[e] = "idle" /\ moved'[e] = None
          /\ rebuild'[e] = FALSE /\ final' = work[e] /\ UNCHANGED want
          /\ previous' = previous \cup {moved[e]}
          /\ reported' = reported \cup {want[e]}
      BY <1>0, <1>4 DEF Install, TypeOK
    <2>2. /\ Matches(work[e], want[e]) /\ IsExport(work[e])
          /\ ~LegacyMatches(work[e])
      BY <1>0, <2>1, CompleteStaged
    <2>3. Good' /\ Claim(e)'
      BY <2>1, <2>2 DEF Claim, UpgradePhases, Upgrading, Good
    <2>4. /\ \A d \in Kept : d # None => d \in Kept'
          /\ \A d \in Kept' : d \in Kept \/ d = None \/ d = work[e]
          /\ work[e] \in Kept'
      BY <1>0, <1>4, <2>1 DEF Kept, Hidden
    <2>5. \A d \in Kept' : d \in Kept \/ ~LegacyMatches(d)
      BY <2>2, <2>4 DEF LegacyMatches
    <2>6. \A o \in reported' : o \in reported \/ KeptWith(o)'
      BY <2>1, <2>2, <2>4 DEF KeptWith
    <2> QED BY <1>0, <2>3, <2>4, <2>5, <2>6, MoveStep
  <1>5. CASE Restore(e)
    <2>1. /\ pc[e] = "restore" /\ pc'[e] = "discard" /\ moved'[e] = None
          /\ moved[e] \in Directory /\ moved[e] # None
          /\ UNCHANGED <<want, rebuild, reported>>
      BY <1>0, <1>5, NoneAssumption DEF Restore, MovedOK, TypeOK
    <2>2. IsExport(moved[e]) /\ Good
      BY <1>0, <2>1 DEF Claim
    <2>3. /\ \/ final = None /\ final' = moved[e] /\ previous' = previous
             \/ final # None /\ final' = final /\ previous' = previous \cup {moved[e]}
      BY <1>5 DEF Restore
    <2>4. Good'
      BY <2>2, <2>3 DEF Good
    <2>5. Claim(e)'
      BY <1>0, <2>1, <2>4 DEF Claim, UpgradePhases, Upgrading
    <2>6. /\ \A d \in Kept : d # None => d \in Kept'
          /\ \A d \in Kept' : d \in Kept \/ d = None
      BY <1>0, <2>1, <2>3 DEF Kept, Hidden
    <2>7. \A d \in Kept' : d \in Kept \/ ~LegacyMatches(d)
      BY <2>6 DEF LegacyMatches
    <2> QED BY <1>0, <2>1, <2>4, <2>5, <2>6, <2>7, MoveStep
  <1> QED BY <1>1, <1>2, <1>3, <1>4, <1>5 DEF Swap

LEMMA KillSafe ==
    ASSUME SafeInv, TypeInv', NEW e \in Exporters, Kill(e)
    PROVE  SafeInv'
  <1>0. TypeOK /\ Claim(e)
    BY DEF SafeInv, TypeInv
  <1>1. /\ pc'[e] = "idle" /\ rebuild'[e] = FALSE /\ moved'[e] = None
        /\ previous' = previous \cup ({moved[e]} \ {None})
        /\ UNCHANGED <<final, want, reported>>
        /\ \A f \in Exporters \ {e} :
              /\ pc[f] = pc'[f] /\ rebuild[f] = rebuild'[f]
              /\ moved[f] = moved'[f] /\ want[f] = want'[f]
    BY <1>0 DEF Kill, TypeOK
  <1>2. Claim(e)'
    BY <1>1 DEF Claim, UpgradePhases, Upgrading
  <1>3. /\ \A d \in Kept : d # None => d \in Kept'
        /\ \A d \in Kept' : d \in Kept \/ d = None
    BY <1>1 DEF Kept, Hidden
  <1>4. LegacyAlone'
    BY <1>3 DEF SafeInv, LegacyAlone, LegacyMatches, Alone
  <1>5. \A o : KeptWith(o) => KeptWith(o)'
    BY <1>3 DEF KeptWith, Matches, IsExport
  <1>6. ReportedKept' /\ FinalWhole'
    BY <1>1, <1>5, KeptStep DEF SafeInv, FinalWhole
  <1>7. \A f \in Exporters : Claim(f)'
    BY <1>1, <1>2, <1>5, ClaimStep DEF SafeInv, Good
  <1> QED BY <1>4, <1>6, <1>7 DEF SafeInv

-----------------------------------------------------------------------------
(* The in-place upgrade.                                                   *)

(* An upgrade stage that leaves the 0.3 files and .openaria as they are. *)
LEMMA UpgradeStep ==
    ASSUME SafeInv, TypeInv', NEW e \in Exporters, Untouched, Untouched',
           pc[e] \in UpgradePhases,
           UNCHANGED <<previous, moved, reported, rebuild, want>>,
           NEW to \in UpgradePhases \cup {"idle"},
           pc' = [pc EXCEPT ![e] = to], UpgradeOK(e)'
    PROVE  SafeInv'
  <1>1. Claim(e) /\ ~rebuild[e] /\ Alone /\ TypeOK
    BY DEF SafeInv, TypeInv, Claim
  <1>2. pc'[e] = to /\ \A f \in Exporters \ {e} : pc'[f] = pc[f]
    BY <1>1 DEF TypeOK
  <1>3. Claim(e)'
    BY <1>1, <1>2 DEF Claim, UpgradePhases, Upgrading, Alone
  <1>4. /\ final # None /\ final' # None /\ FinalWhole'
        /\ LegacyMatches(final') => LegacyMatches(final)
    BY DEF Untouched, LegacyMatches, FinalWhole
  <1>5. \A o : Matches(final, o) => Matches(final', o)
    BY DEF Untouched, Matches, IsExport
  <1> QED BY <1>2, <1>3, <1>4, <1>5, InPlaceStep

LEMMA UpgradeStartSafe ==
    ASSUME SafeInv, TypeInv', NEW e \in Exporters,
           UpgradeCheck(e) \/ UpgradeEncode(e) \/ UpgradeRendered(e)
             \/ UpgradeMkdir(e)
    PROVE  SafeInv'
  <1> USE DEF Goto, own
  <1>0. /\ TypeOK /\ Claim(e) /\ pc[e] \in UpgradePhases /\ ~rebuild[e]
        /\ Alone /\ UpgradeOK(e)
    BY DEF SafeInv, TypeInv, Claim, UpgradeCheck, UpgradeEncode,
           UpgradeRendered, UpgradeMkdir, UpgradePhases, Upgrading
  <1>a. final # None => final \in Directory
    BY <1>0 DEF TypeOK
  <1>1. CASE UpgradeCheck(e)
    <2>1. /\ UNCHANGED <<final, previous, moved, reported, rebuild, want>>
          /\ \A f \in Exporters \ {e} : pc'[f] = pc[f]
      BY <1>0, <1>1 DEF UpgradeCheck, TypeOK
    <2>2. CASE pc'[e] = "idle"
      <3>1. Claim(e)'
        BY <1>0, <2>1, <2>2 DEF Claim, UpgradePhases, Upgrading
      <3> QED BY <2>1, <3>1, QuietStep
    <2>3. CASE pc'[e] # "idle"
      <3>1. /\ pc'[e] = "upEncode" /\ final # None
            /\ final.part = None /\ final.internal = None /\ final.video = None
        BY <1>0, <1>1, <2>3 DEF UpgradeCheck, TypeOK
      <3>2. LegacyMatches(final)
        BY <1>0, <1>1 DEF UpgradeCheck, UpgradeOK
      <3>3. Claim(e)'
        BY <1>0, <2>1, <3>1, <3>2
           DEF Claim, UpgradePhases, Upgrading, UpgradeOK, Untouched, Alone
      <3> QED BY <2>1, <3>3, QuietStep
    <2> QED BY <2>2, <2>3
  <1>2. CASE UpgradeEncode(e)
    <2>1. Untouched /\ final.part = None /\ final.video = None /\ final # None
      BY <1>0, <1>2 DEF UpgradeEncode, UpgradeOK, Untouched, LegacyMatches
    <2>2. /\ pc' = [pc EXCEPT ![e] = "upRendered"] /\ pc'[e] = "upRendered"
          /\ final' = [final EXCEPT !.encoding = final.encoding \cup {e}]
          /\ UNCHANGED <<previous, moved, reported, rebuild, want>>
      BY <1>0, <1>2, <2>1 DEF UpgradeEncode, Untouched, TypeOK
    <2>3. /\ final'.top = final.top /\ final'.internal = final.internal
          /\ final'.part = None /\ final'.video = None
          /\ final' \in Directory /\ final' # None
      BY <1>a, <2>1, <2>2, NoneAssumption DEF Directory
    <2>4. Untouched'
      BY <2>1, <2>3 DEF Untouched, LegacyMatches
    <2>5. UpgradeOK(e)'
      BY <2>2, <2>3, <2>4 DEF UpgradeOK
    <2> QED BY <1>0, <2>1, <2>2, <2>4, <2>5, UpgradeStep
            DEF UpgradePhases, Upgrading
  <1>3. CASE UpgradeRendered(e)
    <2>1. Untouched /\ final.part = None /\ final # None
      BY <1>0, <1>3 DEF UpgradeRendered, UpgradeOK, Untouched, LegacyMatches
    <2>2. UNCHANGED <<previous, moved, reported, rebuild, want>>
      BY <1>3 DEF UpgradeRendered
    <2>3. CASE e \in final.encoding
      <3>1. /\ pc' = [pc EXCEPT ![e] = "upMkdir"] /\ pc'[e] = "upMkdir"
            /\ final' = [final EXCEPT !.encoding = final.encoding \ {e},
                                      !.video = want[e]]
        BY <1>0, <1>3, <2>1, <2>3 DEF UpgradeRendered, TypeOK
      <3>2. /\ final'.top = final.top /\ final'.internal = final.internal
            /\ final'.part = None /\ final'.video = want[e]
            /\ final' # None
        <4>1. final' \in Directory
          BY <1>0, <1>a, <2>1, <3>1, OptionsAny DEF Directory, TypeOK
        <4> QED BY <1>a, <2>1, <3>1, <4>1, NoneAssumption DEF Directory
      <3>3. Untouched'
        BY <2>1, <3>2 DEF Untouched, LegacyMatches
      <3>4. UpgradeOK(e)'
        BY <2>2, <3>1, <3>2, <3>3 DEF UpgradeOK
      <3> QED BY <1>0, <2>1, <2>2, <3>1, <3>3, <3>4, UpgradeStep
              DEF UpgradePhases, Upgrading
    <2>4. CASE e \notin final.encoding
      <3>1. /\ pc' = [pc EXCEPT ![e] = "upAbort"] /\ pc'[e] = "upAbort"
            /\ final' = final
        BY <1>0, <1>3, <2>4 DEF UpgradeRendered, TypeOK
      <3>2. Untouched' /\ UpgradeOK(e)'
        BY <2>1, <3>1 DEF Untouched, UpgradeOK
      <3> QED BY <1>0, <2>1, <2>2, <3>1, <3>2, UpgradeStep
              DEF UpgradePhases, Upgrading
    <2> QED BY <2>3, <2>4
  <1>4. CASE UpgradeMkdir(e)
    <2>1. /\ Untouched /\ final.part = None /\ final # None
          /\ final.video = want[e]
      BY <1>0, <1>4 DEF UpgradeMkdir, UpgradeOK, Untouched, LegacyMatches
    <2>2. /\ pc' = [pc EXCEPT ![e] = "upLink"] /\ pc'[e] = "upLink"
          /\ final' = [final EXCEPT !.part = EmptyInternal]
          /\ todo'[e] = Files
          /\ UNCHANGED <<previous, moved, reported, rebuild, want>>
      BY <1>0, <1>4, <2>1 DEF UpgradeMkdir, TypeOK
    <2>3. /\ final'.top = final.top /\ final'.internal = final.internal
          /\ final'.part = EmptyInternal /\ final'.video = want[e]
          /\ final' \in Directory /\ final' # None
      BY <1>a, <2>1, <2>2, NoneAssumption, EmptyTypes DEF Directory
    <2>4. Untouched'
      BY <2>1, <2>3 DEF Untouched, LegacyMatches
    <2>5. UpgradeOK(e)'
      BY <2>2, <2>3, <2>4 DEF UpgradeOK, Part, EmptyInternal
    <2> QED BY <1>0, <2>1, <2>2, <2>4, <2>5, UpgradeStep
            DEF UpgradePhases, Upgrading
  <1> QED BY <1>1, <1>2, <1>3, <1>4

(* Replacing .openaria.upgrade.part alone. *)
LEMMA PartUpdate ==
    ASSUME Untouched, final \in Directory, NEW p \in Internal,
           final' = [final EXCEPT !.part = p]
    PROVE  /\ Untouched' /\ final'.part = p /\ final'.video = final.video
           /\ final' # None
  <1>1. /\ final' \in Directory /\ final'.top = final.top
        /\ final'.internal = final.internal
        /\ final'.part = p /\ final'.video = final.video
    BY DEF Directory
  <1>2. final' # None
    BY <1>1, NoneAssumption
  <1> QED BY <1>1, <1>2 DEF Untouched, LegacyMatches

LEMMA UpgradeFillSafe ==
    ASSUME SafeInv, TypeInv', NEW e \in Exporters,
           \/ \E f \in Files : UpgradeLink(e, f)
           \/ UpgradeReceipt(e) \/ UpgradeClean(e) \/ UpgradeMedia(e)
    PROVE  SafeInv'
  <1> USE DEF Goto, own
  <1>0. /\ TypeOK /\ Claim(e) /\ pc[e] \in UpgradePhases /\ ~rebuild[e]
        /\ Alone /\ UpgradeOK(e)
        /\ pc[e] \in {"upLink", "upClean", "upMedia"}
    BY DEF SafeInv, TypeInv, Claim, UpgradeLink, UpgradeReceipt,
           UpgradeClean, UpgradeMedia, InPart, UpgradePhases, Upgrading
  <1>a. Untouched /\ final # None /\ final \in Directory /\ final.video = want[e]
    BY <1>0 DEF UpgradeOK, Untouched, LegacyMatches, TypeOK
  <1>b. /\ want[e] \in AnyOptions /\ MediaReceiptOf(want[e]) \in MediaReceipt
        /\ Removable(want[e]) \subseteq Files
    BY <1>0, ReceiptType, RemovableType, OptionsAny DEF TypeOK, Files, Artifacts
  <1>c. UNCHANGED <<previous, moved, reported, rebuild, want>>
    BY DEF UpgradeLink, UpgradeReceipt, UpgradeClean, UpgradeMedia, InPart
  <1>1. ASSUME NEW f \in Files, UpgradeLink(e, f) PROVE SafeInv'
    <2>1. final.part = [src |-> Files \ todo[e], receipt |-> "absent", media |-> None]
      BY <1>0, <1>1 DEF UpgradeLink, UpgradeOK, Part
    <2>2. final.part \in Internal /\ final.part # None
      BY <2>1, NoneAssumption DEF Internal
    <2>3. f \in final.top
      BY <1>a DEF Untouched, LegacyMatches
    <2>4. /\ final' = [final EXCEPT !.part =
                          [final.part EXCEPT !.src = final.part.src \cup {f}]]
          /\ todo' = [todo EXCEPT ![e] = todo[e] \ {f}] /\ UNCHANGED pc
          /\ f \in todo[e]
      BY <1>1, <1>a, <2>2, <2>3 DEF UpgradeLink
    <2>5. todo'[e] = todo[e] \ {f} /\ todo[e] \subseteq Files
      BY <1>0, <2>4 DEF TypeOK
    <2> DEFINE p == [src |-> Files \ todo'[e], receipt |-> "absent", media |-> None]
    <2>6. p \in Internal
      BY DEF Internal
    <2>7. [final.part EXCEPT !.src = final.part.src \cup {f}]
             = [src |-> (Files \ todo[e]) \cup {f}, receipt |-> "absent",
                media |-> None]
      BY <2>1
    <2>8. (Files \ todo[e]) \cup {f} = Files \ todo'[e]
      BY <1>1, <2>4, <2>5
    <2>9. final' = [final EXCEPT !.part = p]
      BY <2>4, <2>7, <2>8
    <2>10. /\ Untouched' /\ final'.part = p /\ final'.video = final.video
           /\ final' # None
      BY <1>a, <2>6, <2>9, PartUpdate
    <2>11. pc[e] = "upLink" /\ pc' = [pc EXCEPT ![e] = "upLink"] /\ pc'[e] = "upLink"
      BY <1>0, <1>1, <2>4 DEF UpgradeLink, TypeOK
    <2>12. UpgradeOK(e)'
      BY <1>a, <1>c, <2>10, <2>11 DEF UpgradeOK, Part
    <2> QED BY <1>0, <1>a, <1>c, <2>10, <2>11, <2>12, UpgradeStep
            DEF UpgradePhases, Upgrading
  <1>2. CASE UpgradeReceipt(e)
    <2>1. final.part = [src |-> Files, receipt |-> "absent", media |-> None]
      BY <1>0, <1>2 DEF UpgradeReceipt, InPart, UpgradeOK, Part
    <2>2. final.part \in Internal /\ final.part # None
      BY <2>1, NoneAssumption DEF Internal
    <2> DEFINE p == [src |-> Files, receipt |-> "written", media |-> None]
    <2>3. p \in Internal /\ [final.part EXCEPT !.receipt = "written"] = p
      BY <2>1 DEF Internal
    <2>4. /\ final' = [final EXCEPT !.part = p]
          /\ pc' = [pc EXCEPT ![e] = "upClean"] /\ pc'[e] = "upClean"
      BY <1>0, <1>2, <1>a, <2>2, <2>3 DEF UpgradeReceipt, InPart, TypeOK
    <2>5. /\ Untouched' /\ final'.part = p /\ final'.video = final.video
          /\ final' # None
      BY <1>a, <2>3, <2>4, PartUpdate
    <2>6. UpgradeOK(e)'
      BY <1>a, <1>c, <2>4, <2>5 DEF UpgradeOK, Part
    <2> QED BY <1>0, <1>a, <1>c, <2>4, <2>5, <2>6, UpgradeStep
            DEF UpgradePhases, Upgrading
  <1>3. CASE UpgradeClean(e)
    <2>1. final.part = [src |-> Files, receipt |-> "written", media |-> None]
      BY <1>0, <1>3 DEF UpgradeClean, InPart, UpgradeOK, Part
    <2>2. final.part \in Internal /\ final.part # None /\ final.part.src = Files
      BY <2>1, NoneAssumption DEF Internal
    <2> DEFINE p == [src |-> Files \ Removable(want[e]), receipt |-> "written",
                     media |-> None]
    <2>3. /\ p \in Internal
          /\ [final.part EXCEPT !.src = final.part.src \ Removable(want[e])] = p
      BY <2>1 DEF Internal
    <2>4. /\ final' = [final EXCEPT !.part = p]
          /\ pc' = [pc EXCEPT ![e] = "upMedia"] /\ pc'[e] = "upMedia"
      BY <1>0, <1>3, <1>a, <1>b, <2>2, <2>3 DEF UpgradeClean, InPart, TypeOK
    <2>5. /\ Untouched' /\ final'.part = p /\ final'.video = final.video
          /\ final' # None
      BY <1>a, <2>3, <2>4, PartUpdate
    <2>6. UpgradeOK(e)'
      BY <1>a, <1>c, <2>4, <2>5 DEF UpgradeOK, Part
    <2> QED BY <1>0, <1>a, <1>c, <2>4, <2>5, <2>6, UpgradeStep
            DEF UpgradePhases, Upgrading
  <1>4. CASE UpgradeMedia(e)
    <2>1. final.part = [src |-> Files \ Removable(want[e]), receipt |-> "written",
                        media |-> None]
      BY <1>0, <1>4 DEF UpgradeMedia, InPart, UpgradeOK, Part
    <2>2. final.part \in Internal /\ final.part # None
      BY <2>1, NoneAssumption DEF Internal
    <2> DEFINE p == [src |-> Files \ Removable(want[e]), receipt |-> "written",
                     media |-> MediaReceiptOf(want[e])]
    <2>3. /\ p \in Internal
          /\ [final.part EXCEPT !.media = MediaReceiptOf(want[e])] = p
      BY <1>b, <2>1 DEF Internal
    <2>4. /\ final' = [final EXCEPT !.part = p]
          /\ pc' = [pc EXCEPT ![e] = "upPublish"] /\ pc'[e] = "upPublish"
      BY <1>0, <1>4, <1>a, <2>2, <2>3 DEF UpgradeMedia, InPart, TypeOK
    <2>5. /\ Untouched' /\ final'.part = p /\ final'.video = final.video
          /\ final' # None
      BY <1>a, <2>3, <2>4, PartUpdate
    <2>6. UpgradeOK(e)'
      BY <1>a, <1>c, <2>4, <2>5 DEF UpgradeOK, Part
    <2> QED BY <1>0, <1>a, <1>c, <2>4, <2>5, <2>6, UpgradeStep
            DEF UpgradePhases, Upgrading
  <1> QED BY <1>1, <1>2, <1>3, <1>4

LEMMA UpgradeEndSafe ==
    ASSUME SafeInv, TypeInv', NEW e \in Exporters,
           UpgradePublish(e) \/ UpgradeDone(e) \/ UpgradeAbort(e)
              \/ UpgradeUnlink(e)
    PROVE  SafeInv'
  <1> USE DEF Goto, own
  <1>0. /\ TypeOK /\ TypeOK' /\ Claim(e) /\ pc[e] \in UpgradePhases
        /\ ~rebuild[e] /\ Alone /\ UpgradeOK(e)
    BY DEF SafeInv, TypeInv, Claim, UpgradePublish, UpgradeDone,
           UpgradeAbort, UpgradeUnlink, UpgradePhases, Upgrading
  <1>a. final # None => final \in Directory
    BY <1>0 DEF TypeOK
  <1>b. want[e] \in AnyOptions /\ MediaReceiptOf(want[e]) \in MediaReceipt
    BY <1>0, ReceiptType, OptionsAny DEF TypeOK
  <1>1. CASE UpgradePublish(e)
    <2>1. /\ Untouched /\ final.video = want[e] /\ final # None
          /\ final.internal = None
          /\ final.part = [src |-> Files \ Removable(want[e]),
                           receipt |-> "written",
                           media |-> MediaReceiptOf(want[e])]
      BY <1>0, <1>1 DEF UpgradePublish, UpgradeOK, Part, Untouched, LegacyMatches
    <2>2. final.part \in Internal /\ final.part # None
      BY <1>b, <2>1, NoneAssumption DEF Internal
    <2>3. /\ pc'[e] = "upDone" /\ \A f \in Exporters \ {e} : pc'[f] = pc[f]
          /\ final' = [final EXCEPT !.internal = final.part, !.part = None]
          /\ UNCHANGED <<previous, moved, reported, rebuild, want>>
      BY <1>0, <1>1, <2>1, <2>2 DEF UpgradePublish, TypeOK
    <2>4. /\ final' \in Directory /\ final'.internal = final.part
          /\ final'.video = want[e] /\ final'.top = final.top
      BY <1>a, <2>1, <2>2, <2>3 DEF Directory
    <2>5. final' # None
      BY <2>4, NoneAssumption
    <2>6. Matches(final', want[e])
      BY <1>b, <2>1, <2>4, <2>5, CompleteMatches
    <2>7. \A o : ~Matches(final, o)
      BY <2>1 DEF Matches, IsExport
    <2>8. LegacyMatches(final') => LegacyMatches(final)
      BY <2>1, <2>4 DEF LegacyMatches
    <2>9. FinalWhole'
      BY <2>6 DEF FinalWhole, Matches
    <2>10. Claim(e)'
      BY <1>0, <2>3, <2>6 DEF Claim, UpgradePhases, Upgrading, UpgradeOK, Alone
    <2> QED BY <2>1, <2>3, <2>5, <2>7, <2>8, <2>9, <2>10, InPlaceStep
  <1>2. CASE UpgradeDone(e)
    <2>1. Matches(final, want[e])
      BY <1>0, <1>2 DEF UpgradeDone, UpgradeOK
    <2>2. Good /\ KeptWith(want[e])
      BY <2>1 DEF Good, Matches, KeptWith, Kept
    <2> QED BY <1>2, <2>2, TrimSafe DEF UpgradeDone
  <1>3. CASE UpgradeAbort(e) \/ UpgradeUnlink(e)
    <2>1. Untouched \/ IsExport(final)
      BY <1>0, <1>3 DEF UpgradeAbort, UpgradeUnlink, UpgradeOK
    <2>2. final # None /\ final \in Directory
      BY <1>a, <2>1 DEF Untouched, LegacyMatches, IsExport
    <2>3. /\ UNCHANGED <<previous, moved, reported, rebuild, want>>
          /\ pc'[e] \in {"idle", "upUnlink"}
          /\ \A f \in Exporters \ {e} : pc'[f] = pc[f]
      BY <1>0, <1>3 DEF UpgradeAbort, UpgradeUnlink, TypeOK
    <2>4. /\ final' \in Directory /\ final'.internal = final.internal
          /\ final'.top = final.top
          /\ final'.internal # None => final'.video = final.video
      <3>1. CASE UpgradeAbort(e)
        BY <2>2, <3>1 DEF UpgradeAbort, Directory
      <3>2. CASE UpgradeUnlink(e)
        BY <2>2, <3>2 DEF UpgradeUnlink, Directory
      <3> QED BY <1>3, <3>1, <3>2
    <2>5. final' # None
      BY <2>4, NoneAssumption
    <2>6. \A o : Matches(final, o) => Matches(final', o)
      BY <2>2, <2>4, <2>5 DEF Matches, IsExport
    <2>7. IsExport(final) => IsExport(final')
      BY <2>2, <2>4, <2>5 DEF IsExport
    <2>8. LegacyMatches(final') <=> LegacyMatches(final)
      BY <2>2, <2>4, <2>5 DEF LegacyMatches
    <2>9. Untouched' \/ IsExport(final')
      BY <2>1, <2>4, <2>7, <2>8 DEF Untouched
    <2>10. FinalWhole'
      BY <2>9 DEF FinalWhole, Untouched
    <2>11. Claim(e)'
      BY <1>0, <2>3, <2>9 DEF Claim, UpgradePhases, Upgrading, UpgradeOK, Alone
    <2> QED BY <2>2, <2>3, <2>5, <2>6, <2>8, <2>10, <2>11, InPlaceStep
  <1> QED BY <1>1, <1>2, <1>3

LEMMA InterruptSafe ==
    ASSUME SafeInv, TypeInv', NEW e \in Exporters, Interrupt(e)
    PROVE  SafeInv'
  <1> USE DEF Goto, own
  <1>0. TypeOK /\ TypeOK' /\ Claim(e)
    BY DEF SafeInv, TypeInv
  <1>1. /\ UNCHANGED <<previous, moved, reported, rebuild, want>>
        /\ pc'[e] \in Handler(pc[e])
        /\ \A f \in Exporters \ {e} : pc'[f] = pc[f]
    BY <1>0 DEF Interrupt, TypeOK
  <1>2. CASE pc[e] = "upRendered"
    <2>1. /\ Untouched /\ final # None /\ final \in Directory
          /\ Alone /\ ~rebuild[e]
      BY <1>0, <1>2
         DEF Claim, UpgradeOK, UpgradePhases, Upgrading, Untouched,
             LegacyMatches, TypeOK
    <2>2. pc' = [pc EXCEPT ![e] = "upAbort"] /\ pc'[e] = "upAbort"
      BY <1>0, <1>2 DEF Interrupt, Handler, Inspecting, Staging, TypeOK
    <2>3. final' = [final EXCEPT !.encoding = final.encoding \ {e}]
      BY <1>2, <2>1 DEF Interrupt
    <2>4. /\ final' \in Directory /\ final'.top = final.top
          /\ final'.internal = final.internal
      BY <2>1, <2>3 DEF Directory
    <2>5. final' # None
      BY <2>4, NoneAssumption
    <2>6. Untouched'
      BY <2>1, <2>4, <2>5 DEF Untouched, LegacyMatches
    <2>7. UpgradeOK(e)'
      BY <2>2, <2>6 DEF UpgradeOK
    <2>8. pc[e] \in UpgradePhases /\ "upAbort" \in UpgradePhases
      BY <1>2 DEF UpgradePhases, Upgrading
    <2> QED BY <1>1, <2>1, <2>2, <2>6, <2>7, <2>8, UpgradeStep
  <1>3. CASE pc[e] # "upRendered"
    <2>1. final' = final
      BY <1>3 DEF Interrupt
    <2>2. CASE pc[e] \in UpgradePhases
      <3>1. /\ Alone /\ ~rebuild[e] /\ UpgradeOK(e)
        BY <1>0, <2>2 DEF Claim
      <3>2. pc'[e] \in {"idle", "upAbort", "upUnrender"}
        BY <1>1, <2>2 DEF Handler, UpgradePhases, Upgrading, Inspecting, Staging
      <3>3. pc'[e] # "idle" => Untouched \/ IsExport(final)
        BY <1>1, <2>2, <3>1
           DEF Handler, UpgradePhases, Upgrading, Inspecting, Staging,
               UpgradeOK, Matches
      <3>4. Claim(e)'
        BY <1>0, <1>1, <2>1, <3>1, <3>2, <3>3
           DEF Claim, UpgradePhases, Upgrading, UpgradeOK, Untouched, Alone
      <3> QED BY <1>1, <2>1, <3>4, QuietStep
    <2>3. CASE pc[e] \notin UpgradePhases
      <3>1. /\ pc'[e] \in {"idle", "discard", "restore"}
            /\ pc'[e] = "restore" => pc[e] = "install"
        BY <1>1, <2>3 DEF Handler, UpgradePhases, Upgrading, Inspecting, Staging
      <3>2. Claim(e)'
        BY <1>0, <1>1, <2>1, <3>1 DEF Claim, UpgradePhases, Upgrading, Good
      <3> QED BY <1>1, <2>1, <3>2, QuietStep
    <2> QED BY <2>2, <2>3
  <1> QED BY <1>2, <1>3

LEMMA NextSafe == SafeInv /\ [Next]_vars => SafeInv'
  <1> SUFFICES ASSUME SafeInv, [Next]_vars PROVE SafeInv'
    OBVIOUS
  <1>1. TypeInv'
    BY NextType DEF SafeInv
  <1>2. ASSUME NEW e \in Exporters, Upgrade(e) PROVE SafeInv'
    BY <1>1, <1>2, UpgradeStartSafe, UpgradeFillSafe, UpgradeEndSafe DEF Upgrade
  <1>3. ASSUME NEW e \in Exporters, Begin(e) \/ Inspect(e) PROVE SafeInv'
    BY <1>1, <1>3, ReuseSafe, InspectSafe
  <1>4. ASSUME NEW e \in Exporters, Build(e) \/ Swap(e) PROVE SafeInv'
    BY <1>1, <1>4, BuildSafe, SwapSafe
  <1>5. ASSUME NEW e \in Exporters, Interrupt(e) \/ Kill(e) PROVE SafeInv'
    BY <1>1, <1>5, InterruptSafe, KillSafe
  <1>6. CASE UNCHANGED vars
    <2>1. Kept' = Kept
      BY <1>6 DEF vars, Kept, Hidden
    <2>2. \A e \in Exporters : Claim(e)'
      BY <1>6, <2>1
         DEF vars, SafeInv, Claim, KeptWith, Good, UpgradeOK, Untouched,
             Part, Alone
    <2> QED BY <1>1, <1>6, <2>1, <2>2
            DEF vars, SafeInv, LegacyAlone, FinalWhole, ReportedKept, Alone
  <1> QED BY <1>2, <1>3, <1>4, <1>5, <1>6 DEF Next, Run

(* Whatever is interrupted or killed, a directory at the destination is a   *)
(* finished export, a complete 0.3 source tree, or was there before.       *)
THEOREM DestinationWhole == ASSUME UpgradeAlone PROVE Spec => []FinalWhole
  <1>1. Init => SafeInv
    BY InitSafe
  <1>2. SafeInv => FinalWhole
    BY DEF SafeInv
  <1> QED BY <1>1, <1>2, NextSafe, PTL DEF Spec

(* An export once reported is never lost: it stays at the destination or in *)
(* a hidden backup, whatever other exporters do.                           *)
THEOREM ReportedNeverLost == ASSUME UpgradeAlone PROVE Spec => []ReportedKept
  <1>1. Init => SafeInv
    BY InitSafe
  <1>2. SafeInv => ReportedKept
    BY DEF SafeInv
  <1> QED BY <1>1, <1>2, NextSafe, PTL DEF Spec

LEMMA ForeignStep ==
    ASSUME SafeInv, [Next]_vars, Unrecognised(final)
    PROVE  final' = final
  <1> USE DEF Goto, own
  <1>0. ~Good /\ final # None /\ ~Untouched
    BY DEF Unrecognised, Good, Untouched
  <1>1. ASSUME NEW e \in Exporters, Run(e) \/ Interrupt(e) \/ Kill(e)
        PROVE  final' = final
    <2>1. /\ Claim(e) /\ ~rebuild[e] /\ pc[e] # "reuse"
          /\ pc[e] \notin {"backup", "install", "restore"}
          /\ pc[e] \notin UpgradePhases
      <3>1. Claim(e)
        BY DEF SafeInv
      <3>2. pc[e] \notin UpgradePhases
        BY <1>0, <3>1
           DEF Claim, UpgradeOK, UpgradePhases, Upgrading, Unrecognised, Matches
      <3> QED BY <1>0, <3>1, <3>2 DEF Claim
    <2>2. CASE Begin(e) \/ Inspect(e)
      BY <2>1, <2>2
         DEF Begin, Inspect, Exists, MatchExact, MatchOld, MatchLegacy, Reuse
    <2>3. CASE Build(e)
      BY <1>0, <2>3
         DEF Build, Stage, WriteReceipt, Render, CleanMedia, WriteMedia,
             Publish, PublishPrivately, Discard, Fetch
    <2>4. CASE Swap(e)
      BY <2>1, <2>4 DEF Swap, Backup, Install, Restore
    <2>5. CASE Upgrade(e)
      BY <2>1, <2>5
         DEF Upgrade, UpgradeCheck, UpgradeEncode, UpgradeRendered,
             UpgradeMkdir, UpgradeReceipt, UpgradeClean, UpgradeMedia,
             UpgradePublish, UpgradeDone, UpgradeAbort, UpgradeUnlink,
             UpgradeLink, InPart, UpgradePhases, Upgrading
    <2>6. CASE Interrupt(e) \/ Kill(e)
      BY <2>1, <2>6 DEF Interrupt, Kill, UpgradePhases, Upgrading
    <2> QED BY <1>1, <2>2, <2>3, <2>4, <2>5, <2>6 DEF Run
  <1>2. CASE UNCHANGED vars
    BY <1>2 DEF vars
  <1> QED BY <1>1, <1>2 DEF Next

(* A directory the export does not recognise is never changed. *)
THEOREM ForeignNeverTouched == ASSUME UpgradeAlone PROVE Spec => ForeignUntouched
  <1>1. Init => SafeInv
    BY InitSafe
  <1>2. SafeInv /\ [Next]_vars => [Unrecognised(final) => final' = final]_vars
    BY ForeignStep
  <1> QED BY <1>1, <1>2, NextSafe, PTL DEF Spec, ForeignUntouched

-----------------------------------------------------------------------------
(* The protocol implements the destination it promises (Destination).       *)

LEMMA ExportOptions ==
    ASSUME NEW d \in Directory, IsExport(d)
    PROVE  d.internal.media.options \in Options \cup OldOptions
  <1>1. d.internal \in Internal
    BY DEF IsExport, Directory
  <1>2. d.internal.media \in MediaReceipt
    BY <1>1 DEF IsExport, Internal
  <1> QED BY <1>2 DEF MediaReceipt, AnyOptions

LEMMA InitPromise == TypeInv /\ Init => Promise!Init
  <1> SUFFICES ASSUME TypeInv, Init PROVE Promise!Init
    OBVIOUS
  <1>1. Hidden \subseteq {None}
    BY DEF Init, Hidden
  <1>2. Archive = {}
    BY <1>1 DEF Archive, IsExport
  <1>3. final # None => final \in Directory
    BY DEF TypeInv, TypeOK
  <1>4. IsExport(final) => final.internal.media.options \in Options \cup OldOptions
    BY <1>3, ExportOptions DEF IsExport
  <1> QED
    BY <1>2, <1>4
       DEF Promise!Init, View, Promise!Nothing, Promise!Legacy,
           Promise!Foreign, Promise!Export

LEMMA ArchiveHidden == ASSUME Hidden' = Hidden PROVE Archive' = Archive
  BY DEF Archive

(* Steps a reader of the destination does not see. *)
LEMMA SameView ==
    ASSUME IsExport(final') <=> IsExport(final),
           final' = None <=> final = None,
           LegacyMatches(final') <=> LegacyMatches(final),
           IsExport(final) =>
              final'.internal.media.options = final.internal.media.options
    PROVE  View' = View
  BY DEF View

LEMMA ViewExport ==
    ASSUME NEW o, Matches(final, o)
    PROVE  View = <<"export", o>>
  BY DEF View, Matches, IsExport

LEMMA QuietPromise ==
    ASSUME UNCHANGED <<final, previous, moved>>
    PROVE  UNCHANGED <<View, Archive>>
  BY DEF View, Archive, Hidden

LEMMA TrimPromise ==
    ASSUME SafeInv, SafeInv', NEW e \in Exporters, Reuse(e) \/ UpgradeDone(e)
    PROVE  UNCHANGED <<View, Archive>>
  <1>1. Good
    BY DEF SafeInv, Claim, Reuse, UpgradeDone, Goto, UpgradeOK,
           UpgradePhases, Upgrading, Good, Matches
  <1>2. RemoveLegacyTree /\ UNCHANGED <<previous, moved>>
    BY DEF Reuse, UpgradeDone, own
  <1>3. Hidden' = Hidden
    BY <1>2 DEF Hidden
  <1>4. CASE final = None
    BY <1>2, <1>4, QuietPromise DEF RemoveLegacyTree
  <1>5. CASE final # None
    <2>1. PICK left \in SUBSET final.top : final' = [final EXCEPT !.top = left]
      BY <1>2, <1>5 DEF RemoveLegacyTree
    <2>2. final \in Directory
      BY <1>5 DEF SafeInv, TypeInv, TypeOK
    <2>3. /\ final' \in Directory
          /\ final'.internal = final.internal /\ final'.video = final.video
      BY <2>1, <2>2 DEF Directory
    <2>4. final' # None
      BY <2>3, NoneAssumption
    <2>5. IsExport(final) /\ IsExport(final')
      BY <1>1, <1>5, <2>3, <2>4, SameExport DEF Good
    <2> QED BY <1>3, <1>5, <2>3, <2>4, <2>5, ArchiveHidden DEF View
  <1> QED BY <1>4, <1>5

LEMMA AppearPromise ==
    ASSUME NEW o \in Options, final = None, Matches(final', o), Hidden' = Hidden
    PROVE  Promise!Appear(o)
  <1>1. View = <<"nothing">> /\ View' = <<"export", o>> /\ Archive' = Archive
    BY ArchiveHidden DEF View, Matches, IsExport
  <1> QED BY <1>1 DEF Promise!Appear, Promise!Nothing, Promise!Export

LEMMA SwapPromise ==
    ASSUME SafeInv, SafeInv', NEW e \in Exporters, Swap(e)
    PROVE  [Promise!Next]_<<View, Archive>>
  <1> USE DEF Goto
  <1>0. /\ TypeInv /\ TypeOK /\ Claim(e) /\ MovedOK(e) /\ want[e] \in Options
        /\ final # None => final \in Directory
    BY DEF SafeInv, TypeInv, TypeOK
  <1>1. CASE Backup(e) /\ final # None
    <2>1. /\ moved[e] = None /\ moved' = [moved EXCEPT ![e] = final]
          /\ final' = None /\ previous' = previous
      BY <1>0, <1>1 DEF Backup, MovedOK
    <2>2. IsExport(final)
      BY <1>0, <1>1 DEF Backup, Claim, Good
    <2> DEFINE o == final.internal.media.options
    <2>3. o \in Options \cup OldOptions
      BY <1>0, <1>1, <2>2, ExportOptions
    <2>4. /\ Hidden' \subseteq Hidden \cup {final}
          /\ Hidden \subseteq Hidden' \cup {None} /\ final \in Hidden'
      BY <1>0, <2>1 DEF Hidden, TypeOK
    <2>5. Archive' = Archive \cup {o}
      BY <2>2, <2>4 DEF Archive, IsExport
    <2>6. View = <<"export", o>> /\ View' = <<"nothing">>
      BY <1>1, <2>1, <2>2 DEF View
    <2>7. Promise!PutAside(o)
      BY <2>5, <2>6 DEF Promise!PutAside, Promise!Export, Promise!Nothing
    <2> QED BY <2>3, <2>7 DEF Promise!Next
  <1>2. CASE Install(e) /\ final = None
    <2>1. /\ pc[e] = "install" /\ moved[e] \in Directory /\ final' = work[e]
          /\ previous' = previous \cup {moved[e]}
          /\ moved' = [moved EXCEPT ![e] = None]
      BY <1>0, <1>2 DEF Install, MovedOK
    <2>2. Matches(final', want[e])
      BY <1>0, <2>1, CompleteStaged
    <2>3. /\ Hidden' \subseteq Hidden \cup {None}
          /\ Hidden \subseteq Hidden' \cup {None}
      BY <1>0, <2>1 DEF Hidden, TypeOK
    <2>4. Archive' = Archive
      BY <2>3 DEF Archive, IsExport
    <2>5. View = <<"nothing">> /\ View' = <<"export", want[e]>>
      BY <1>2, <2>2 DEF View, Matches, IsExport
    <2>6. Promise!Appear(want[e])
      BY <2>4, <2>5 DEF Promise!Appear, Promise!Nothing, Promise!Export
    <2> QED BY <1>0, <2>6 DEF Promise!Next
  <1>3. CASE Restore(e) /\ final = None
    <2>1. /\ moved[e] \in Directory /\ moved[e] # None /\ final' = moved[e]
          /\ previous' = previous /\ moved' = [moved EXCEPT ![e] = None]
      BY <1>0, <1>3, NoneAssumption DEF Restore, MovedOK
    <2>2. IsExport(moved[e])
      BY <1>0, <2>1 DEF Claim
    <2> DEFINE o == moved[e].internal.media.options
    <2>3. o \in Options \cup OldOptions
      BY <2>1, <2>2, ExportOptions
    <2>4. /\ Hidden' \subseteq Hidden \cup {None} /\ moved[e] \in Hidden
          /\ Hidden \subseteq Hidden' \cup {moved[e]}
      BY <1>0, <2>1, SMTT(40) DEF Hidden, TypeOK
    <2>5. o \in Archive /\ Archive' \subseteq Archive /\ Archive \subseteq Archive' \cup {o}
      BY <2>2, <2>4 DEF Archive, IsExport
    <2>6. Archive' \in {Archive, Archive \ {o}}
      BY <2>5
    <2>7. View = <<"nothing">> /\ View' = <<"export", o>>
      BY <1>3, <2>1, <2>2 DEF View
    <2>8. Promise!BringBack(o)
      BY <2>5, <2>6, <2>7 DEF Promise!BringBack, Promise!Nothing, Promise!Export
    <2> QED BY <2>3, <2>8 DEF Promise!Next
  <1>4. CASE Restore(e) /\ final # None
    <2>1. /\ final' = final /\ previous' = previous \cup {moved[e]}
          /\ moved' = [moved EXCEPT ![e] = None]
      BY <1>4 DEF Restore
    <2>2. /\ Hidden' \subseteq Hidden \cup {None}
          /\ Hidden \subseteq Hidden' \cup {None}
      BY <1>0, <2>1 DEF Hidden, TypeOK
    <2>3. Archive' = Archive /\ View' = View
      BY <2>1, <2>2 DEF Archive, IsExport, View
    <2> QED BY <2>3
  <1>5. CASE \/ Backup(e) /\ final = None
             \/ Install(e) /\ final # None
    <2>1. UNCHANGED <<final, previous, moved>>
      BY <1>5 DEF Backup, Install
    <2> QED BY <2>1, QuietPromise
  <1> QED BY <1>1, <1>2, <1>3, <1>4, <1>5 DEF Swap

(* The stages of an upgrade before its last rename do not show. *)
LEMMA UpgradePromise ==
    ASSUME SafeInv, SafeInv', NEW e \in Exporters, Upgrade(e),
           ~UpgradePublish(e), ~UpgradeDone(e)
    PROVE  UNCHANGED <<View, Archive>>
  <1> USE DEF Goto, own
  <1>0. /\ TypeOK /\ Claim(e) /\ pc[e] \in UpgradePhases /\ UpgradeOK(e)
    BY DEF SafeInv, TypeInv, Claim, Upgrade, UpgradeCheck, UpgradeEncode,
           UpgradeRendered, UpgradeMkdir, UpgradeLink, UpgradeReceipt,
           UpgradeClean, UpgradeMedia, InPart, UpgradeAbort, UpgradeUnlink,
           UpgradePhases, Upgrading
  <1>1. UNCHANGED <<previous, moved>> /\ Hidden' = Hidden
    BY DEF Upgrade, UpgradeCheck, UpgradeEncode, UpgradeRendered, UpgradeMkdir,
           UpgradeLink, UpgradeReceipt, UpgradeClean, UpgradeMedia, InPart,
           UpgradeAbort, UpgradeUnlink, Hidden
  <1>2. Archive' = Archive
    BY <1>1, ArchiveHidden
  <1>3. CASE UpgradeCheck(e)
    BY <1>1, <1>3, QuietPromise DEF UpgradeCheck
  <1>4. final # None /\ final \in Directory
    BY <1>0 DEF UpgradeOK, UpgradePhases, Upgrading, Untouched, LegacyMatches,
                IsExport, Matches, TypeOK
  <1>5. CASE UpgradeAbort(e) \/ UpgradeUnlink(e)
    <2>1. Untouched \/ IsExport(final)
      BY <1>0, <1>5 DEF UpgradeAbort, UpgradeUnlink, UpgradeOK
    <2>2. /\ final' \in Directory /\ final'.internal = final.internal
          /\ final'.top = final.top
          /\ final'.internal # None => final'.video = final.video
      <3>1. CASE UpgradeAbort(e)
        BY <1>4, <3>1 DEF UpgradeAbort, Directory
      <3>2. CASE UpgradeUnlink(e)
        BY <1>4, <3>2 DEF UpgradeUnlink, Directory
      <3> QED BY <1>5, <3>1, <3>2
    <2>3. final' # None
      BY <2>2, NoneAssumption
    <2>4. /\ IsExport(final') <=> IsExport(final)
          /\ LegacyMatches(final') <=> LegacyMatches(final)
      BY <1>4, <2>2, <2>3 DEF IsExport, LegacyMatches
    <2> QED BY <1>2, <1>4, <2>2, <2>3, <2>4, SameView
  <1>6. CASE ~UpgradeCheck(e) /\ ~UpgradeAbort(e) /\ ~UpgradeUnlink(e)
    <2>1. /\ pc[e] \in {"upEncode", "upRendered", "upMkdir", "upLink",
                        "upClean", "upMedia"}
          /\ Untouched
      BY <1>0, <1>6
         DEF Upgrade, UpgradeEncode, UpgradeRendered, UpgradeMkdir,
             UpgradeLink, UpgradeReceipt, UpgradeClean, UpgradeMedia, InPart,
             UpgradeOK
    <2>2. final'.internal = None /\ final'.top = final.top
      BY <1>4, <1>6, <2>1
         DEF Upgrade, UpgradeEncode, UpgradeRendered, UpgradeMkdir,
             UpgradeLink, UpgradeReceipt, UpgradeClean, UpgradeMedia, InPart,
             Directory, Untouched
    <2>3. final' # None
      <3>1. pc'[e] \in {"upRendered", "upMkdir", "upLink", "upClean",
                        "upMedia", "upPublish", "upAbort", "upUnrender"}
        BY <1>0, <1>6, <2>1
           DEF Upgrade, UpgradeEncode, UpgradeRendered, UpgradeMkdir,
               UpgradeLink, UpgradeReceipt, UpgradeClean, UpgradeMedia,
               InPart, TypeOK
      <3> QED BY <3>1 DEF SafeInv, Claim, UpgradeOK, UpgradePhases, Upgrading,
                          Untouched, LegacyMatches, IsExport
    <2>4. View = <<"legacy">> /\ View' = <<"legacy">>
      BY <1>4, <2>1, <2>2, <2>3
         DEF View, Untouched, LegacyMatches, IsExport
    <2> QED BY <1>2, <2>4
  <1> QED BY <1>3, <1>5, <1>6

LEMMA ConvertPromise ==
    ASSUME SafeInv, SafeInv', NEW e \in Exporters, UpgradePublish(e)
    PROVE  Promise!Convert(want[e])
  <1> USE DEF Goto, own
  <1>0. TypeOK /\ Claim(e) /\ UpgradeOK(e) /\ pc[e] = "upPublish"
    BY DEF SafeInv, TypeInv, Claim, UpgradePublish, UpgradePhases, Upgrading
  <1>1. Untouched /\ final # None /\ final.internal = None
    BY <1>0 DEF UpgradeOK, Untouched, LegacyMatches
  <1>2. Hidden' = Hidden /\ want' = want
    BY DEF UpgradePublish, Hidden
  <1>3. final.part # None
    <2>1. final.part = [src |-> Files \ Removable(want[e]), receipt |-> "written",
                        media |-> MediaReceiptOf(want[e])]
      BY <1>0 DEF UpgradeOK, Part
    <2>2. MediaReceiptOf(want[e]) \in MediaReceipt
      BY <1>0, OptionsAny, ReceiptType DEF TypeOK
    <2> QED BY <2>1, <2>2, NoneAssumption DEF Internal
  <1>4. pc'[e] = "upDone"
    BY <1>0, <1>1, <1>3 DEF UpgradePublish, TypeOK
  <1>5. Matches(final', want[e])
    BY <1>2, <1>4 DEF SafeInv, Claim, UpgradeOK, UpgradePhases, Upgrading
  <1>6. View = <<"legacy">> /\ View' = <<"export", want[e]>> /\ Archive' = Archive
    BY <1>1, <1>2, <1>5, ArchiveHidden
       DEF View, Untouched, IsExport, Matches
  <1> QED BY <1>6 DEF Promise!Convert, Promise!Legacy, Promise!Export

LEMMA NextPromise ==
    SafeInv /\ SafeInv' /\ [Next]_vars => [Promise!Next]_<<View, Archive>>
  <1> SUFFICES ASSUME SafeInv, SafeInv', [Next]_vars
               PROVE  [Promise!Next]_<<View, Archive>>
    OBVIOUS
  <1>0. TypeInv /\ TypeOK
    BY DEF SafeInv, TypeInv
  <1>1. ASSUME NEW e \in Exporters, Begin(e) \/ Inspect(e), ~Reuse(e)
        PROVE  UNCHANGED <<View, Archive>>
    BY <1>1, QuietPromise
       DEF Begin, Inspect, Exists, MatchExact, MatchOld, MatchLegacy, own
  <1>2. ASSUME NEW e \in Exporters, Reuse(e)
        PROVE  UNCHANGED <<View, Archive>>
    BY <1>2, TrimPromise
  <1>3. ASSUME NEW e \in Exporters, Build(e)
        PROVE  [Promise!Next]_<<View, Archive>>
    <2>1. CASE Publish(e) /\ final = None
      <3>1. /\ final' = work[e] /\ Hidden' = Hidden /\ want[e] \in Options
            /\ pc[e] = "publish"
        BY <1>0, <2>1 DEF Publish, Hidden, TypeOK
      <3>2. Matches(final', want[e])
        BY <1>0, <1>3, <3>1, CompleteStaged
      <3>3. Promise!Appear(want[e])
        BY <2>1, <3>1, <3>2, AppearPromise
      <3> QED BY <3>1, <3>3 DEF Promise!Next
    <2>2. CASE ~(Publish(e) /\ final = None)
      BY <1>3, <2>2, QuietPromise
         DEF Build, Stage, WriteReceipt, Render, CleanMedia, WriteMedia,
             Publish, PublishPrivately, Discard, Fetch, own
    <2> QED BY <2>1, <2>2
  <1>4. ASSUME NEW e \in Exporters, Upgrade(e)
        PROVE  [Promise!Next]_<<View, Archive>>
    <2>1. want[e] \in Options
      BY <1>0, <1>4 DEF TypeOK
    <2> QED BY <1>4, <2>1, UpgradePromise, ConvertPromise, TrimPromise
            DEF Promise!Next
  <1>5. ASSUME NEW e \in Exporters, Kill(e)
        PROVE  UNCHANGED <<View, Archive>>
    <2>1. /\ final' = final
          /\ Hidden' \subseteq Hidden \cup {None}
          /\ Hidden \subseteq Hidden' \cup {None}
      BY <1>0, <1>5 DEF Kill, Hidden, TypeOK
    <2> QED BY <2>1 DEF View, Archive, IsExport
  <1>6. ASSUME NEW e \in Exporters, Interrupt(e)
        PROVE  UNCHANGED <<View, Archive>>
    <2>1. UNCHANGED <<previous, moved>> /\ Hidden' = Hidden
      BY <1>6 DEF Interrupt, own, Hidden
    <2>2. CASE pc[e] = "upRendered" /\ final # None
      <3>1. final \in Directory
        BY <1>0, <2>2 DEF TypeOK
      <3>2. final' = [final EXCEPT !.encoding = final.encoding \ {e}]
        BY <1>6, <2>2 DEF Interrupt
      <3>3. /\ final' \in Directory /\ final'.top = final.top
            /\ final'.internal = final.internal /\ final'.video = final.video
        BY <3>1, <3>2 DEF Directory
      <3>4. final' # None
        BY <3>3, NoneAssumption
      <3>5. View' = View
        BY <2>2, <3>3, <3>4 DEF View, IsExport, LegacyMatches
      <3> QED BY <2>1, <3>5, ArchiveHidden
    <2>3. CASE ~(pc[e] = "upRendered" /\ final # None)
      BY <1>6, <2>1, <2>3, QuietPromise DEF Interrupt
    <2> QED BY <2>2, <2>3
  <1>7. CASE UNCHANGED vars
    BY <1>7, QuietPromise DEF vars
  <1> QED BY <1>1, <1>2, <1>3, <1>4, <1>5, <1>6, <1>7, SwapPromise DEF Next, Run

(* Every behaviour of the protocol is, to a reader of the destination, one  *)
(* that Destination allows: exports appear whole and leave only into the   *)
(* archive.                                                                *)
THEOREM PromiseKept == ASSUME UpgradeAlone PROVE Spec => KeepsPromise
  <1>1. Init => SafeInv /\ TypeInv
    BY InitSafe, InitType
  <1>2. Init => Promise!Init
    BY <1>1, InitPromise
  <1> QED
    BY <1>1, <1>2, NextSafe, NextPromise, PTL
       DEF Spec, KeepsPromise, Promise!Spec
=============================================================================
