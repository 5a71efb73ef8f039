--------------------------- MODULE WorkbenchProofs ---------------------------
(***************************************************************************)
(* What the workbench shows is of one source, and what it does is about what   *)
(* it shows (Workbench!OneSource, Workbench!Undisturbed), for any recordings,   *)
(* directories, number of catalog threads and length of use.  The argument:    *)
(* a load belongs to the source that is selected from its start to its end, a   *)
(* modal dialog keeps tasks from starting under it, and a task keeps the       *)
(* selection locked.                                                          *)
(***************************************************************************)
EXTENDS Workbench, TLAPS, FiniteSetTheorems

Bindings == [source : Sources, number : Nat, scan : Nat]
Dialogs == [kind : {"", "connect", "output", "delete"},
            binding : Bindings \cup {None}, ids : SUBSET AllRows]
Tasks == [kind : {"", "export", "record", "delete"},
          binding : Bindings \cup {None}, ids : SUBSET AllRows, root : Dirs]
Screens ==
    [sources : SUBSET Bindings, source : Bindings \cup {None},
     rows : SUBSET AllRows, marks : SUBSET AllRows, selected : SUBSET AllRows,
     loading : BOOLEAN, busy : SUBSET {"connecting", "exporting", "deleting"},
     root : Dirs, dialog : Dialogs, task : Tasks, open : BOOLEAN, found : Nat]
Loads == [thread : 1..MaxThreads, binding : Bindings, phase : {"list", "marks"},
          rows : SUBSET AllRows, root : Dirs]

ScreenType == ui \in Screens
WorkType ==
    /\ load # None => load \in Loads
    /\ DOMAIN threads \subseteq 1..MaxThreads
    /\ threads \in [DOMAIN threads -> [source : Sources, state : {"waits", "reads"}]]
DiskType ==
    /\ device \in [Sources -> SUBSET AllRows] /\ \A s \in Sources : device[s] \subseteq Rows[s]
    /\ moves \in 0..MaxMoves
ScanType ==
    /\ scan \in [now : SUBSET Sources, old : SUBSET Sources, number : Nat]
    /\ scan.old # {} => scan.number # 0

(* Each source is on the screen once. *)
OnePerSource == \A x, y \in ui.sources : x.source = y.source => x = y

(* A load is one of the source that is selected, in the thread that reads that  *)
(* source or with what was read of it.                                        *)
LoadShown == load # None =>
    /\ ui.loading /\ ui.source # None /\ load.binding = ui.source
    /\ load.phase = "list" =>
           /\ load.thread \in DOMAIN threads
           /\ threads[load.thread].source = load.binding.source
    /\ load.phase = "marks" => load.rows \subseteq Rows[load.binding.source]

(* What a dialog was opened over stays until it is answered. *)
Modal ==
    /\ ui.dialog.kind = "connect" => ui.busy = {}
    /\ ui.dialog.kind = "output" => ui.busy \cap {"exporting", "deleting"} = {}
    /\ ui.dialog.kind = "delete" =>
           /\ ui.busy = {} /\ ~ui.loading /\ ui.source # None
           /\ ui.source = ui.dialog.binding /\ ui.dialog.ids \subseteq ui.rows

OneBusy == \A x, y \in ui.busy : x = y
TaskLocked == ui.task.kind # "" =>
    ui.source # None /\ ui.busy \cap {"exporting", "deleting"} # {}

Types == ScreenType /\ WorkType /\ DiskType /\ ScanType
Screen == OneSource /\ OnePerSource /\ Modal /\ TaskShown /\ OneBusy /\ TaskLocked
IInv == Types /\ Screen /\ LoadShown /\ OneReader

(* Once the workbench is closed, it has no load and no dialog. *)
Closed == load # None \/ ui.dialog.kind # "" => ui.open

-----------------------------------------------------------------------------
LEMMA RowsType == Sources # {} /\ \A s \in Sources : Rows[s] \subseteq AllRows
BY WorkbenchAssumption DEF Sources

LEMMA InitIInv == Init => IInv /\ Closed
<1> SUFFICES ASSUME Init PROVE IInv /\ Closed
  OBVIOUS
<1>1. ScreenType
  BY WorkbenchAssumption DEF Init, ScreenType, Screens, NoDialog, NoTask, Dialog, Task,
     Dialogs, Tasks
<1>2. WorkType /\ ScanType
  BY DEF Init, WorkType, ScanType
<1>3. DiskType
  BY WorkbenchAssumption DEF Init, DiskType
<1>4. Screen
  BY DEF Init, Screen, OneSource, OnePerSource, Modal, TaskShown, OneBusy, TaskLocked,
     NoDialog, NoTask, Dialog, Task
<1>5. LoadShown /\ OneReader
  BY DEF Init, LoadShown, OneReader
<1>6. Closed
  BY DEF Init, Closed
<1> QED  BY <1>1, <1>2, <1>3, <1>4, <1>5, <1>6 DEF IInv, Types

-----------------------------------------------------------------------------
(* Handlers that other handlers call *)

LEMMA FreeThread ==
    ASSUME WorkType, CanLoad PROVE Free \in 1..MaxThreads /\ Free \notin DOMAIN threads
<1>1. IsFiniteSet(1..MaxThreads) /\ Cardinality(1..MaxThreads) = MaxThreads
  <2>1. MaxThreads \in Nat /\ 1 \in Int /\ MaxThreads \in Int
    BY WorkbenchAssumption
  <2> QED  BY <2>1, FS_Interval
<1>2. DOMAIN threads # 1..MaxThreads
  <2>1. MaxThreads \in Nat
    BY WorkbenchAssumption
  <2> QED  BY <1>1, <2>1 DEF CanLoad
<1>3. \E i \in 1..MaxThreads : i \notin DOMAIN threads
  BY <1>2 DEF WorkType
<1> QED  BY <1>3 DEF Free

(* A load starts in a thread of its own, which does not read yet. *)
LEMMA StartLoadStep ==
    ASSUME WorkType, OneReader, NEW b \in Bindings, StartLoad(b)
    PROVE  /\ WorkType' /\ OneReader'
           /\ load' \in Loads /\ load'.binding = b /\ load'.phase = "list"
           /\ load'.thread \in DOMAIN threads'
           /\ threads'[load'.thread].source = b.source
<1>1. Free \in 1..MaxThreads /\ Free \notin DOMAIN threads
  BY FreeThread DEF StartLoad
<1> DEFINE free == Free
<1>2. /\ load' = [thread |-> free, binding |-> b, phase |-> "list", rows |-> {},
                  root |-> FirstDir]
      /\ threads' = [i \in DOMAIN threads \cup {free} |->
             IF i = free THEN [source |-> b.source, state |-> "waits"] ELSE threads[i]]
  BY DEF StartLoad
<1> HIDE DEF free
<1>3. free \in 1..MaxThreads /\ free \notin DOMAIN threads /\ b.source \in Sources
  BY <1>1 DEF free, Bindings
<1>4. load' \in Loads /\ load'.binding = b /\ load'.phase = "list" /\ load'.thread = free
  BY <1>2, <1>3, WorkbenchAssumption DEF Loads
<1>5. /\ DOMAIN threads' = DOMAIN threads \cup {free}
      /\ threads'[free] = [source |-> b.source, state |-> "waits"]
      /\ \A i \in DOMAIN threads : threads'[i] = threads[i]
  BY <1>2, <1>3
<1>6. WorkType'
  BY <1>2, <1>3, <1>4, <1>5 DEF WorkType
<1>7. OneReader'
  BY <1>5 DEF OneReader
<1> QED  BY <1>3, <1>4, <1>5, <1>6, <1>7

(* A source that was found changes what is shown only where nothing was, or    *)
(* where the user connected to it.                                            *)
LEMMA AddSourceStep ==
    ASSUME IInv, NEW u \in Screens, NEW b \in Bindings, NEW select \in BOOLEAN,
           AddSource(u, b, select),
           u.sources = ui.sources, u.source = ui.source, u.rows = ui.rows,
           u.marks = ui.marks, u.selected = ui.selected, u.loading = ui.loading,
           u.dialog = ui.dialog, u.task = ui.task, u.busy \subseteq ui.busy,
           ui.task.kind # "" => u.busy = ui.busy,
           select => ui.task.kind = "" /\ ui.dialog.kind # "delete"
    PROVE  ScreenType' /\ WorkType' /\ Screen' /\ LoadShown' /\ OneReader'
<1> USE DEF IInv, Types, Screen
<1> DEFINE listed == IF Same(b) = {} THEN ui.sources \cup {b}
                     ELSE IF select THEN (ui.sources \ Same(b)) \cup {b}
                     ELSE ui.sources
           chosen == CHOOSE x \in listed : x.source = b.source
           shown == [u EXCEPT !.sources = listed]
<1>1. ui.sources \subseteq Bindings /\ None \notin Bindings
  BY WorkbenchAssumption DEF ScreenType, Screens, Bindings
<1>2. /\ listed \subseteq Bindings
      /\ \E x \in listed : x.source = b.source
      /\ \A x, y \in listed : x.source = y.source => x = y
      /\ select => \A x \in listed : x.source = b.source => x = b
      /\ \A x \in ui.sources : x.source # b.source \/ ~select => x \in listed
  BY <1>1 DEF Same, OnePerSource
<1>3. chosen \in listed /\ chosen.source = b.source /\ chosen \in Bindings
  BY <1>2
<1>4. IF (select \/ ui.source = None) /\ chosen # ui.source
      THEN ui' = Showing(shown, chosen) /\ StartLoad(chosen)
      ELSE ui' = shown /\ UNCHANGED work
  BY DEF AddSource
<1> HIDE DEF listed, chosen
<1>5. CASE (select \/ ui.source = None) /\ chosen # ui.source
  <2>1. /\ ui'.sources = listed /\ ui'.source = chosen /\ ui'.rows = {}
        /\ ui'.marks = {} /\ ui'.selected = {} /\ ui'.loading = TRUE
        /\ ui'.dialog = ui.dialog /\ ui'.task = ui.task /\ ui'.busy = u.busy
        /\ ui' \in Screens
    <3>1. /\ shown \in Screens /\ shown.sources = listed /\ shown.dialog = ui.dialog
          /\ shown.task = ui.task /\ shown.busy = u.busy
      BY <1>2 DEF Screens
    <3>2. ui' = Showing(shown, chosen)
      BY <1>4, <1>5
    <3> HIDE DEF shown
    <3> QED  BY <1>3, <3>1, <3>2 DEF Showing, Screens
  <2>2. ui'.task.kind = "" /\ ui'.dialog.kind # "delete"
    BY <1>5, <2>1 DEF TaskLocked, Modal
  <2>3. /\ WorkType' /\ OneReader' /\ load'.binding = chosen /\ load'.phase = "list"
        /\ load'.thread \in DOMAIN threads' /\ threads'[load'.thread].source = chosen.source
    BY <1>3, <1>4, <1>5, StartLoadStep
  <2>4. LoadShown'
    BY <1>1, <1>3, <2>1, <2>3 DEF LoadShown
  <2>5. OneSource' /\ OnePerSource'
    BY <1>2, <1>3, <2>1 DEF OneSource, OnePerSource
  <2>6. Modal' /\ TaskShown' /\ OneBusy' /\ TaskLocked'
    BY <2>1, <2>2 DEF Modal, TaskShown, OneBusy, TaskLocked
  <2> QED  BY <2>1, <2>3, <2>4, <2>5, <2>6 DEF ScreenType
<1>6. CASE ~((select \/ ui.source = None) /\ chosen # ui.source)
  <2>1. /\ ui'.sources = listed /\ ui'.source = ui.source /\ ui'.rows = ui.rows
        /\ ui'.marks = ui.marks /\ ui'.selected = ui.selected
        /\ ui'.loading = ui.loading /\ ui'.dialog = ui.dialog /\ ui'.task = ui.task
        /\ ui'.busy = u.busy /\ ui' \in Screens
    BY <1>2, <1>4, <1>6, ZenonT(60) DEF Screens
  <2>2. UNCHANGED <<load, threads>>
    BY <1>4, <1>6 DEF work
  <2>3. WorkType' /\ OneReader'
    BY <2>2 DEF WorkType, OneReader
  <2>4. ui.source # None => ui.source \in listed
    BY <1>2, <1>3, <1>6 DEF OneSource
  <2>5. OneSource' /\ OnePerSource'
    BY <1>2, <2>1, <2>4 DEF OneSource, OnePerSource
  <2>6. Modal' /\ TaskShown' /\ OneBusy' /\ TaskLocked'
    BY <2>1 DEF Modal, TaskShown, OneBusy, TaskLocked
  <2>7. LoadShown'
    BY <2>1, <2>2 DEF LoadShown
  <2> QED  BY <2>1, <2>3, <2>5, <2>6, <2>7 DEF ScreenType
<1> QED  BY <1>5, <1>6

(* Steps of the screen alone keep what loads. *)
LEMMA UiStep ==
    ASSUME IInv, ui' \in Screens, UNCHANGED <<load, threads>>,
           ui'.source = ui.source, ui'.loading = ui.loading
    PROVE  ScreenType' /\ WorkType' /\ LoadShown' /\ OneReader'
BY DEF IInv, Types, ScreenType, WorkType, LoadShown, OneReader

LEMMA NoDialogKind == NoDialog.kind = "" /\ NoDialog \in Dialogs
BY DEF NoDialog, Dialog, Dialogs

LEMMA DiskKept == ASSUME DiskType, UNCHANGED <<device, moves>> PROVE DiskType'
BY DEF DiskType

LEMMA MoveKept ==
    ASSUME DiskType, Move \/ UNCHANGED moves, UNCHANGED device PROVE DiskType'
BY WorkbenchAssumption DEF DiskType, Move

-----------------------------------------------------------------------------
(* The user *)

LEMMA RescanStep == ASSUME IInv, Rescan PROVE IInv'
<1> USE DEF IInv, Types, Screen
<1>1. /\ ui' \in Screens /\ ui'.sources = {} /\ ui'.source = None /\ ui'.rows = {}
      /\ ui'.marks = {} /\ ui'.selected = {} /\ ui'.loading = FALSE
      /\ ui'.dialog = ui.dialog /\ ui'.task = ui.task /\ ui'.busy = ui.busy
      /\ ui.dialog = NoDialog /\ ui.busy = {} /\ load' = None /\ threads' = threads
      /\ scan' = [now |-> Sources, old |-> scan.now, number |-> scan.number + 1]
  BY DEF Rescan, ScreenType, Screens, Idle, Unlocked
<1>2. ScanType'
  BY <1>1 DEF ScanType
<1>3. DiskType'
  BY MoveKept DEF Rescan, disk
<1>4. ScreenType' /\ WorkType' /\ LoadShown' /\ OneReader'
  BY <1>1 DEF ScreenType, WorkType, LoadShown, OneReader
<1>5. OneSource' /\ OnePerSource'
  BY <1>1 DEF OneSource, OnePerSource
<1>6. ui.task.kind = "" /\ ui'.dialog.kind = ""
  BY <1>1, NoDialogKind DEF TaskLocked
<1>7. Modal' /\ TaskShown' /\ OneBusy' /\ TaskLocked'
  BY <1>1, <1>6 DEF Modal, TaskShown, OneBusy, TaskLocked
<1> QED  BY <1>2, <1>3, <1>4, <1>5, <1>7

LEMMA QuitStep == ASSUME IInv, Quit PROVE IInv'
<1> USE DEF IInv, Types, Screen
<1>1. /\ ui' \in Screens /\ ui'.sources = ui.sources /\ ui'.source = ui.source
      /\ ui'.rows = ui.rows /\ ui'.marks = ui.marks /\ ui'.selected = ui.selected
      /\ ui'.loading = FALSE /\ ui'.dialog = NoDialog /\ ui'.task = ui.task
      /\ ui'.busy = {} /\ ui.busy \cap {"exporting", "deleting"} = {}
      /\ load' = None /\ UNCHANGED <<threads, scan>>
  BY DEF Quit, ScreenType, Screens, NoDialog, Dialog, Dialogs
<1>2. ScanType'
  BY <1>1 DEF ScanType
<1>3. DiskType'
  BY MoveKept DEF Quit, disk
<1>4. ScreenType' /\ WorkType' /\ LoadShown' /\ OneReader'
  BY <1>1 DEF ScreenType, WorkType, LoadShown, OneReader
<1>5. OneSource' /\ OnePerSource'
  BY <1>1 DEF OneSource, OnePerSource
<1>6. ui.task.kind = "" /\ ui'.dialog.kind = ""
  BY <1>1, NoDialogKind DEF TaskLocked
<1>7. Modal' /\ TaskShown' /\ OneBusy' /\ TaskLocked'
  BY <1>1, <1>6 DEF Modal, TaskShown, OneBusy, TaskLocked
<1> QED  BY <1>2, <1>3, <1>4, <1>5, <1>7

LEMMA SourceChangedStep ==
    ASSUME IInv, NEW b \in ui.sources, SourceChanged(b) PROVE IInv'
<1> USE DEF IInv, Types, Screen
<1>1. /\ ui' \in Screens /\ ui'.sources = ui.sources /\ ui'.source = b /\ ui'.rows = {}
      /\ ui'.marks = {} /\ ui'.selected = {} /\ ui'.loading = TRUE
      /\ ui'.dialog = ui.dialog /\ ui'.task = ui.task /\ ui'.busy = ui.busy
      /\ ui.dialog = NoDialog /\ ui.busy = {} /\ StartLoad(b) /\ UNCHANGED scan
      /\ b \in Bindings
  BY DEF SourceChanged, Showing, ScreenType, Screens, Idle, Unlocked
<1>2. b # None
  BY <1>1, WorkbenchAssumption DEF Bindings
<1>3. ScanType' /\ DiskType'
  BY <1>1, MoveKept DEF SourceChanged, disk, ScanType
<1>4. /\ WorkType' /\ OneReader' /\ load'.binding = b /\ load'.phase = "list"
      /\ load'.thread \in DOMAIN threads' /\ threads'[load'.thread].source = b.source
  BY <1>1, StartLoadStep
<1>5. ScreenType' /\ LoadShown'
  BY <1>1, <1>2, <1>4 DEF ScreenType, LoadShown
<1>6. OneSource' /\ OnePerSource'
  BY <1>1 DEF OneSource, OnePerSource
<1>7. ui.task.kind = "" /\ ui'.dialog.kind = ""
  BY <1>1, NoDialogKind DEF TaskLocked
<1>8. Modal' /\ TaskShown' /\ OneBusy' /\ TaskLocked'
  BY <1>1, <1>7 DEF Modal, TaskShown, OneBusy, TaskLocked
<1> QED  BY <1>3, <1>4, <1>5, <1>6, <1>8

LEMMA EnterOutputStep == ASSUME IInv, NEW d \in Dirs, EnterOutput(d) PROVE IInv'
<1> USE DEF IInv, Types, Screen
<1> DEFINE u == [ui EXCEPT !.dialog = NoDialog, !.root = d]
<1>1. /\ u \in Screens /\ u.sources = ui.sources /\ u.source = ui.source
      /\ u.rows = ui.rows /\ u.marks = ui.marks /\ u.selected = ui.selected
      /\ u.loading = ui.loading /\ u.dialog = NoDialog /\ u.task = ui.task
      /\ u.busy = ui.busy
  BY DEF ScreenType, Screens, NoDialog, Dialog, Dialogs
<1>2. ui.task.kind = "" /\ UNCHANGED <<scan, device, moves>>
  BY DEF EnterOutput, Modal, TaskLocked, disk
<1>3. ScanType' /\ DiskType'
  BY <1>2 DEF ScanType, DiskType
<1>4. CASE ui.source # None /\ ~ui.loading
  <2>1. ui' = [u EXCEPT !.loading = TRUE] /\ StartLoad(ui.source)
    BY <1>4 DEF EnterOutput
  <2> HIDE DEF u
  <2>2. /\ ui' \in Screens /\ ui'.sources = ui.sources /\ ui'.source = ui.source
        /\ ui'.rows = ui.rows /\ ui'.marks = ui.marks /\ ui'.selected = ui.selected
        /\ ui'.loading = TRUE /\ ui'.dialog = NoDialog /\ ui'.task = ui.task
        /\ ui'.busy = ui.busy
    BY <1>1, <2>1 DEF Screens
  <2>3. ui.source \in Bindings
    BY <1>4 DEF ScreenType, Screens
  <2>4. /\ WorkType' /\ OneReader' /\ load'.binding = ui.source /\ load'.phase = "list"
        /\ load'.thread \in DOMAIN threads'
        /\ threads'[load'.thread].source = ui.source.source
    BY <2>1, <2>3, StartLoadStep
  <2>5. ScreenType' /\ LoadShown'
    BY <1>4, <2>2, <2>4 DEF ScreenType, LoadShown
  <2>6. OneSource' /\ OnePerSource'
    BY <2>2 DEF OneSource, OnePerSource
  <2>7. Modal' /\ TaskShown' /\ OneBusy' /\ TaskLocked'
    BY <1>2, <2>2, NoDialogKind DEF Modal, TaskShown, OneBusy, TaskLocked
  <2> QED  BY <1>3, <2>4, <2>5, <2>6, <2>7
<1>5. CASE ~(ui.source # None /\ ~ui.loading)
  <2>1. ui' = u /\ UNCHANGED <<load, threads>>
    BY <1>5 DEF EnterOutput, work
  <2> HIDE DEF u
  <2>2. ScreenType' /\ WorkType' /\ LoadShown' /\ OneReader'
    BY <1>1, <2>1, UiStep
  <2>3. OneSource' /\ OnePerSource'
    BY <1>1, <2>1 DEF OneSource, OnePerSource
  <2>4. Modal' /\ TaskShown' /\ OneBusy' /\ TaskLocked'
    BY <1>1, <1>2, <2>1, NoDialogKind DEF Modal, TaskShown, OneBusy, TaskLocked
  <2> QED  BY <1>3, <2>2, <2>3, <2>4
<1> QED  BY <1>4, <1>5

(* Ticking rows, opening and dismissing dialogs, entering an address. *)
LEMMA DialogStep ==
    ASSUME IInv,
           \/ \E ids \in SUBSET ui.rows : SelectRows(ids)
           \/ \E k \in {"connect", "output"} : OpenDialog(k)
           \/ Dismiss \/ EnterAddress \/ AskDelete
    PROVE  IInv'
<1> USE DEF IInv, Types, Screen
<1>1. /\ UNCHANGED <<load, threads, scan, device>>
      /\ Move \/ UNCHANGED moves
  BY DEF SelectRows, OpenDialog, Dismiss, EnterAddress, AskDelete, work, disk
<1>2. ScanType' /\ DiskType'
  BY <1>1, MoveKept DEF ScanType
<1> DEFINE Kept ==
      /\ ui' \in Screens /\ ui'.sources = ui.sources /\ ui'.source = ui.source
      /\ ui'.rows = ui.rows /\ ui'.marks = ui.marks /\ ui'.loading = ui.loading
      /\ ui'.task = ui.task /\ ui'.selected \subseteq ui.rows
<1>0. ui \in Screens /\ ui.selected \subseteq ui.rows
  BY DEF ScreenType, OneSource
<1>3. Kept
  <2>1. ASSUME NEW ids \in SUBSET ui.rows, SelectRows(ids) PROVE Kept
    BY <1>0, <2>1 DEF SelectRows, Screens
  <2>2. ASSUME NEW k \in {"connect", "output"}, OpenDialog(k) PROVE Kept
    BY <1>0, <2>2 DEF OpenDialog, Screens, Dialogs, Dialog
  <2>3. CASE Dismiss
    BY <1>0, <2>3, NoDialogKind DEF Dismiss, Screens
  <2>4. CASE EnterAddress
    BY <1>0, <2>4, NoDialogKind DEF EnterAddress, Screens
  <2>5. CASE AskDelete
    <3>1. ui' = [ui EXCEPT !.dialog = Dialog("delete", ui.source, ui.selected)]
      BY <2>5 DEF AskDelete
    <3>2. Dialog("delete", ui.source, ui.selected) \in Dialogs
      BY <1>0 DEF Dialog, Dialogs, Screens
    <3> QED  BY <1>0, <3>1, <3>2 DEF Screens
  <2> QED  BY <2>1, <2>2, <2>3, <2>4, <2>5
<1>4. ScreenType' /\ WorkType' /\ LoadShown' /\ OneReader'
  BY <1>1, <1>3, UiStep
<1>5. OneSource' /\ OnePerSource' /\ TaskShown'
  BY <1>3 DEF OneSource, OnePerSource, TaskShown
<1>6. Modal' /\ OneBusy' /\ TaskLocked'
  <2>1. ASSUME NEW ids \in SUBSET ui.rows, SelectRows(ids)
        PROVE  Modal' /\ OneBusy' /\ TaskLocked'
    <3>1. ui'.dialog = NoDialog /\ ui'.busy = ui.busy
      BY <1>0, <2>1 DEF SelectRows, Idle, Screens
    <3> QED  BY <1>3, <3>1, NoDialogKind DEF Modal, OneBusy, TaskLocked
  <2>2. ASSUME NEW k \in {"connect", "output"}, OpenDialog(k)
        PROVE  Modal' /\ OneBusy' /\ TaskLocked'
    <3>1. /\ ui'.dialog.kind = k /\ ui'.busy = ui.busy
          /\ k = "connect" => ui.busy = {}
          /\ k = "output" => ui.busy \cap {"exporting", "deleting"} = {}
      BY <1>0, <2>2 DEF OpenDialog, Unlocked, Screens, Dialog
    <3> QED  BY <1>3, <3>1 DEF Modal, OneBusy, TaskLocked
  <2>3. CASE Dismiss
    <3>1. ui'.dialog = NoDialog /\ ui'.busy = ui.busy
      BY <1>0, <2>3 DEF Dismiss, Screens
    <3> QED  BY <1>3, <3>1, NoDialogKind DEF Modal, OneBusy, TaskLocked
  <2>4. CASE EnterAddress
    <3>1. /\ ui'.dialog.kind = "" /\ ui.busy = {} /\ ui'.busy = {"connecting"}
      BY <2>4 DEF EnterAddress, Modal, ScreenType, Screens, Dialog, NoDialog
    <3>2. ui.task.kind = ""
      BY <3>1 DEF TaskLocked
    <3> QED  BY <1>3, <3>1, <3>2 DEF Modal, OneBusy, TaskLocked
  <2>5. CASE AskDelete
    <3>1. /\ ui'.busy = ui.busy /\ ui.busy = {} /\ ~ui.loading /\ ui.source # None
          /\ ui'.dialog = Dialog("delete", ui.source, ui.selected)
      BY <2>5 DEF AskDelete, Ready, Unlocked, ScreenType, Screens
    <3>2. ui'.dialog.kind = "delete" /\ ui'.dialog.binding = ui.source
          /\ ui'.dialog.ids = ui.selected
      BY <3>1 DEF Dialog
    <3> QED  BY <1>3, <3>1, <3>2 DEF Modal, OneBusy, TaskLocked, OneSource
  <2> QED  BY <2>1, <2>2, <2>3, <2>4, <2>5
<1> QED  BY <1>2, <1>4, <1>5, <1>6

(* A task starts with what is selected, or what was confirmed, on the screen.  *)
LEMMA TaskBegins == ASSUME IInv, Export \/ Confirm PROVE IInv'
<1> USE DEF IInv, Types, Screen
<1>0. ui \in Screens
  BY DEF ScreenType
<1>1. /\ UNCHANGED <<load, threads, scan, device>>
      /\ Move \/ UNCHANGED moves
  BY DEF Export, Confirm, work, disk
<1>2. ScanType' /\ DiskType'
  BY <1>1, MoveKept DEF ScanType
<1>3. CASE Export
  <2>1. /\ ui.busy = {} /\ ~ui.loading /\ ui.source # None /\ ui.dialog = NoDialog
        /\ ui' = [ui EXCEPT !.busy = @ \cup {"exporting"},
                            !.task = Task("export", ui.source, ui.selected, ui.root)]
    BY <1>3 DEF Export, Ready, Idle, Unlocked
  <2> DEFINE task == Task("export", ui.source, ui.selected, ui.root)
  <2>2. /\ task \in Tasks /\ task.binding = ui.source /\ task.ids = ui.selected
    BY <1>0 DEF Task, Tasks, Screens
  <2> HIDE DEF task
  <2>3. /\ ui' \in Screens /\ ui'.sources = ui.sources /\ ui'.source = ui.source
        /\ ui'.rows = ui.rows /\ ui'.marks = ui.marks /\ ui'.selected = ui.selected
        /\ ui'.loading = ui.loading /\ ui'.dialog = ui.dialog
        /\ ui'.task = task /\ ui'.busy = {"exporting"}
    BY <1>0, <2>1, <2>2 DEF Screens, task
  <2>4. ScreenType' /\ WorkType' /\ LoadShown' /\ OneReader'
    BY <1>1, <2>3, UiStep
  <2>5. OneSource' /\ OnePerSource'
    BY <2>3 DEF OneSource, OnePerSource
  <2>6. Modal' /\ TaskShown' /\ OneBusy' /\ TaskLocked'
    BY <2>1, <2>2, <2>3, NoDialogKind DEF Modal, TaskShown, OneBusy, TaskLocked, OneSource
  <2> QED  BY <1>2, <2>4, <2>5, <2>6
<1>4. CASE Confirm
  <2>1. /\ ui.busy = {} /\ ~ui.loading /\ ui.source # None
        /\ ui.source = ui.dialog.binding /\ ui.dialog.ids \subseteq ui.rows
    BY <1>4 DEF Confirm, Modal
  <2> DEFINE task == Task("delete", ui.dialog.binding, ui.dialog.ids, ui.root)
             u == [ui EXCEPT !.dialog = NoDialog]
  <2>2. /\ task \in Tasks /\ task.binding = ui.source /\ task.ids \subseteq ui.rows
    BY <1>0, <2>1 DEF Task, Tasks, Screens, Dialogs
  <2>3. ui' = [u EXCEPT !.busy = @ \cup {"deleting"}, !.task = task]
    BY <1>4, <2>1 DEF Confirm
  <2> HIDE DEF task
  <2>4. /\ ui' \in Screens /\ ui'.sources = ui.sources /\ ui'.source = ui.source
        /\ ui'.rows = ui.rows /\ ui'.marks = ui.marks /\ ui'.selected = ui.selected
        /\ ui'.loading = ui.loading /\ ui'.dialog = NoDialog
        /\ ui'.task = task /\ ui'.busy = {"deleting"}
    BY <1>0, <2>1, <2>2, <2>3, NoDialogKind DEF Screens
  <2>5. ScreenType' /\ WorkType' /\ LoadShown' /\ OneReader'
    BY <1>1, <2>4, UiStep
  <2>6. OneSource' /\ OnePerSource'
    BY <2>4 DEF OneSource, OnePerSource
  <2>7. Modal' /\ TaskShown' /\ OneBusy' /\ TaskLocked'
    BY <2>1, <2>2, <2>4, NoDialogKind DEF Modal, TaskShown, OneBusy, TaskLocked
  <2> QED  BY <1>2, <2>5, <2>6, <2>7
<1> QED  BY <1>3, <1>4

(* A task that ends is applied to the rows it was about. *)
LEMMA TaskEnds ==
    ASSUME IInv, NEW done \in SUBSET ui.task.ids,
           \/ ExportEnds(done) \/ ExportRaises(done) \/ Record(done)
           \/ DeleteEnds(done) \/ DeleteRaises(done)
    PROVE  IInv'
<1> USE DEF IInv, Types, Screen
<1>0. ui \in Screens
  BY DEF ScreenType
<1>1. /\ UNCHANGED <<load, threads, scan, moves>>
      /\ ui.task.kind # "" /\ ui.task.ids \subseteq ui.rows /\ ~ui.loading
      /\ ui.source # None /\ ui.source = ui.task.binding
  BY DEF ExportEnds, ExportRaises, Record, DeleteEnds, DeleteRaises, Delete, work,
     TaskShown, TaskLocked, Exporting
<1>2. ScanType'
  BY <1>1 DEF ScanType
<1>3. DiskType'
  <2>1. UNCHANGED device \/ device' = [device EXCEPT ![ui.task.binding.source] = @ \ done]
    BY DEF ExportEnds, ExportRaises, Record, DeleteEnds, DeleteRaises, Delete
  <2> QED  BY <1>1, <2>1 DEF DiskType
<1>4. /\ NoTask \in Tasks /\ NoTask.kind = ""
  BY WorkbenchAssumption DEF NoTask, Task, Tasks
<1> DEFINE Kept ==
      /\ ui' \in Screens /\ ui'.sources = ui.sources /\ ui'.source = ui.source
      /\ ui'.loading = ui.loading /\ ui'.dialog = ui.dialog
      /\ ui'.busy \subseteq ui.busy
      /\ ui'.marks \cup ui'.selected \subseteq ui'.rows /\ ui'.rows \subseteq ui.rows
      /\ \/ ui'.task.kind = ""
         \/ /\ ui'.busy = ui.busy /\ ui'.task.binding = ui.task.binding
            /\ ui'.task.ids \subseteq ui'.rows
<1>5. ui.marks \cup ui.selected \subseteq ui.rows
  BY DEF OneSource
<1>6. Kept
  <2>1. CASE ExportEnds(done)
    <3>1. ui' = [ui EXCEPT !.marks = @ \cup done, !.selected = @ \ done,
                           !.task.kind = "record", !.task.ids = done]
      BY <2>1 DEF ExportEnds
    <3>2. done \subseteq ui.rows /\ done \subseteq AllRows
      BY <1>0, <1>1 DEF Screens
    <3>3. /\ ui'.sources = ui.sources /\ ui'.source = ui.source
          /\ ui'.loading = ui.loading /\ ui'.dialog = ui.dialog /\ ui'.busy = ui.busy
          /\ ui'.marks = ui.marks \cup done /\ ui'.selected = ui.selected \ done
          /\ ui'.rows = ui.rows /\ ui'.task.binding = ui.task.binding
          /\ ui'.task.ids = done
      BY <1>0, <3>1 DEF Screens, Tasks
    <3>4. ui' \in Screens
      BY <1>0, <3>1, <3>2 DEF Screens, Tasks
    <3> QED  BY <1>5, <3>2, <3>3, <3>4
  <2>2. CASE ExportRaises(done)
    BY <1>0, <1>4, <1>5, <2>2 DEF ExportRaises, Screens
  <2>3. CASE Record(done)
    BY <1>0, <1>4, <1>5, <2>3 DEF Record, Screens
  <2>4. CASE DeleteEnds(done)
    BY <1>0, <1>4, <1>5, <2>4 DEF DeleteEnds, Screens
  <2>5. CASE DeleteRaises(done)
    BY <1>0, <1>4, <1>5, <2>5 DEF DeleteRaises, Screens
  <2> QED  BY <2>1, <2>2, <2>3, <2>4, <2>5
<1>7. ScreenType' /\ WorkType' /\ LoadShown' /\ OneReader'
  BY <1>1, <1>6, UiStep
<1>8. OneSource' /\ OnePerSource'
  BY <1>6 DEF OneSource, OnePerSource
<1>9. ui.dialog.kind # "delete"
  BY <1>1 DEF Modal, TaskLocked
<1>10. Modal' /\ TaskShown' /\ OneBusy' /\ TaskLocked'
  BY <1>1, <1>6, <1>9 DEF Modal, TaskShown, OneBusy, TaskLocked
<1> QED  BY <1>2, <1>3, <1>7, <1>8, <1>10

-----------------------------------------------------------------------------
(* The system *)

LEMMA ScanStep ==
    ASSUME IInv, NEW s \in Sources,
           DiscoversNothing(s) \/ CancellationArrives \/ Discovers(s) \/ DeliversLate(s)
    PROVE  IInv'
<1> USE DEF IInv, Types
<1>0. ui \in Screens
  BY DEF ScreenType
<1>1. DiskType'
  BY DiskKept DEF DiscoversNothing, CancellationArrives, Discovers, DeliversLate, disk
<1>2. ScanType'
  BY DEF DiscoversNothing, CancellationArrives, Discovers, DeliversLate, ScanType
<1>3. CASE DiscoversNothing(s) \/ CancellationArrives
  <2>1. UNCHANGED <<ui, load, threads>>
    BY <1>3 DEF DiscoversNothing, CancellationArrives, work
  <2>2. ScreenType' /\ WorkType' /\ LoadShown' /\ OneReader'
    BY <1>0, <2>1, UiStep
  <2>3. Screen'
    BY <2>1 DEF Screen, OneSource, OnePerSource, Modal, TaskShown, OneBusy, TaskLocked
  <2> QED  BY <1>1, <1>2, <2>2, <2>3
<1>4. CASE Discovers(s)
  <2>1. AddSource(ui, Binding(s), FALSE)
    BY <1>4 DEF Discovers
  <2>2. Binding(s) \in Bindings
    BY <1>0 DEF Binding, Bindings, Screens, ScanType
  <2> QED  BY <1>0, <1>1, <1>2, <2>1, <2>2, AddSourceStep
<1>5. CASE DeliversLate(s)
  <2> DEFINE b == [Binding(s) EXCEPT !.scan = scan.number - 1]
  <2>1. AddSource(ui, b, FALSE)
    BY <1>5 DEF DeliversLate
  <2>2. b \in Bindings
    <3>1. scan.number - 1 \in Nat
      BY <1>5 DEF DeliversLate, ScanType
    <3> QED  BY <1>0, <3>1 DEF Binding, Bindings, Screens
  <2> HIDE DEF b
  <2> QED  BY <1>0, <1>1, <1>2, <2>1, <2>2, AddSourceStep
<1> QED  BY <1>3, <1>4, <1>5

LEMMA ConnectStep == ASSUME IInv, Connected \/ ConnectFails PROVE IInv'
<1> USE DEF IInv, Types
<1>0. ui \in Screens
  BY DEF ScreenType
<1>1. DiskType' /\ ScanType'
  BY DiskKept DEF Connected, ConnectFails, disk, ScanType
<1>2. "connecting" \in ui.busy
  BY DEF Connected, ConnectFails
<1>3. ui.task.kind = "" /\ ui.dialog.kind # "delete" /\ ui.busy = {"connecting"}
  BY <1>0, <1>2, ZenonT(60) DEF Screen, OneBusy, TaskLocked, Modal, Screens
<1>4. CASE Connected
  <2> DEFINE u == [ui EXCEPT !.found = @ + 1, !.busy = @ \ {"connecting"}]
             b == [Binding(Lan) EXCEPT !.number = @ + 1]
  <2>1. AddSource(u, b, TRUE)
    BY <1>4 DEF Connected
  <2>2. b \in Bindings
    BY <1>0 DEF Binding, Bindings, Screens, ScanType, Sources
  <2>3. /\ u \in Screens /\ u.sources = ui.sources /\ u.source = ui.source
        /\ u.rows = ui.rows /\ u.marks = ui.marks /\ u.selected = ui.selected
        /\ u.loading = ui.loading /\ u.dialog = ui.dialog /\ u.task = ui.task
        /\ u.busy \subseteq ui.busy
    <3>1. ui.found + 1 \in Nat /\ ui.busy \ {"connecting"} \in SUBSET {"connecting", "exporting", "deleting"}
      BY <1>0 DEF Screens
    <3>2. u \in Screens /\ u.busy = ui.busy \ {"connecting"}
      BY <1>0, <3>1 DEF Screens
    <3>3. /\ u.sources = ui.sources /\ u.source = ui.source
          /\ u.rows = ui.rows /\ u.marks = ui.marks /\ u.selected = ui.selected
          /\ u.loading = ui.loading /\ u.dialog = ui.dialog /\ u.task = ui.task
      BY <1>0 DEF Screens
    <3> QED  BY <3>2, <3>3
  <2> HIDE DEF u, b
  <2> QED  BY <1>1, <1>3, <2>1, <2>2, <2>3, AddSourceStep
<1>5. CASE ConnectFails
  <2>1. /\ ui' \in Screens /\ ui'.sources = ui.sources /\ ui'.source = ui.source
        /\ ui'.rows = ui.rows /\ ui'.marks = ui.marks /\ ui'.selected = ui.selected
        /\ ui'.loading = ui.loading /\ ui'.dialog = ui.dialog /\ ui'.task = ui.task
        /\ ui'.busy \subseteq ui.busy /\ UNCHANGED <<load, threads>>
    BY <1>0, <1>5 DEF ConnectFails, Screens, work
  <2>2. ScreenType' /\ WorkType' /\ LoadShown' /\ OneReader'
    BY <2>1, UiStep
  <2>3. OneSource' /\ OnePerSource'
    BY <2>1 DEF Screen, OneSource, OnePerSource
  <2>4. Modal' /\ TaskShown' /\ OneBusy' /\ TaskLocked'
    BY <1>3, <2>1 DEF Screen, Modal, TaskShown, OneBusy, TaskLocked
  <2> QED  BY <1>1, <2>2, <2>3, <2>4 DEF Screen
<1> QED  BY <1>4, <1>5

LEMMA ThreadStep ==
    ASSUME IInv, Closed, NEW i \in DOMAIN threads, TakeLock(i) \/ ListRead(i) \/ ListFails(i)
    PROVE  IInv'
<1> USE DEF IInv, Types
<1>0. ui \in Screens /\ threads[i].source \in Sources
  BY DEF ScreenType, WorkType
<1>1. DiskType' /\ ScanType'
  BY DiskKept DEF TakeLock, ListRead, ListFails, disk, ScanType
<1>2. CASE TakeLock(i)
  <2>1. /\ threads' = [threads EXCEPT ![i].state = "reads"] /\ MayRead(i)
        /\ UNCHANGED <<ui, load>>
    BY <1>2 DEF TakeLock
  <2>2. /\ DOMAIN threads' = DOMAIN threads
        /\ threads'[i].source = threads[i].source
        /\ threads'[i] \in [source : Sources, state : {"waits", "reads"}]
        /\ \A j \in DOMAIN threads \ {i} : threads'[j] = threads[j]
    BY <1>0, <2>1 DEF WorkType
  <2>3. WorkType'
    BY <2>1, <2>2 DEF WorkType
  <2>4. OneReader'
    BY <2>1, <2>2 DEF OneReader, MayRead
  <2>5. LoadShown'
    BY <2>1, <2>2 DEF LoadShown
  <2>6. ScreenType' /\ Screen'
    BY <2>1 DEF ScreenType, Screen, OneSource, OnePerSource, Modal, TaskShown, OneBusy,
       TaskLocked
  <2> QED  BY <1>1, <2>3, <2>4, <2>5, <2>6
<1>3. ASSUME threads' = Ended(i) PROVE
         /\ DOMAIN threads' = DOMAIN threads \ {i}
         /\ \A j \in DOMAIN threads \ {i} : threads'[j] = threads[j]
         /\ DOMAIN threads' \subseteq 1..MaxThreads
         /\ threads' \in [DOMAIN threads' -> [source : Sources, state : {"waits", "reads"}]]
         /\ OneReader'
  <2>1. /\ DOMAIN threads' = DOMAIN threads \ {i}
        /\ \A j \in DOMAIN threads \ {i} : threads'[j] = threads[j]
    BY <1>3 DEF Ended
  <2>2. /\ DOMAIN threads' \subseteq 1..MaxThreads
        /\ threads' \in [DOMAIN threads' -> [source : Sources, state : {"waits", "reads"}]]
    BY <1>3, <2>1 DEF WorkType, Ended
  <2>3. OneReader'
    BY <2>1 DEF OneReader
  <2> QED  BY <2>1, <2>2, <2>3
<1>4. CASE ListRead(i)
  <2>1. threads' = Ended(i) /\ UNCHANGED ui
    BY <1>4 DEF ListRead
  <2>2. ScreenType' /\ Screen'
    BY <2>1 DEF ScreenType, Screen, OneSource, OnePerSource, Modal, TaskShown, OneBusy,
       TaskLocked
  <2>3. CASE Live(i) /\ ui.open
    <3>1. /\ load # None /\ load \in Loads /\ load.thread = i /\ load.phase = "list"
          /\ load' = [load EXCEPT !.phase = "marks", !.root = ui.root,
                                  !.rows = device[threads[i].source]]
          /\ threads[i].source = load.binding.source
      BY <1>4, <2>3 DEF ListRead, Live, WorkType, LoadShown
    <3>2. device[threads[i].source] \in SUBSET AllRows
             /\ device[threads[i].source] \subseteq Rows[threads[i].source]
      BY <1>0 DEF DiskType
    <3>3. /\ load' \in Loads /\ load'.phase = "marks" /\ load'.binding = load.binding
          /\ load'.rows = device[threads[i].source]
      BY <1>0, <3>1, <3>2 DEF Loads, Screens
    <3>4. WorkType'
      BY <1>3, <2>1, <3>3 DEF WorkType
    <3>5. LoadShown'
      BY <2>1, <3>1, <3>2, <3>3 DEF LoadShown
    <3> QED  BY <1>1, <1>3, <2>1, <2>2, <3>4, <3>5
  <2>4. CASE ~(Live(i) /\ ui.open)
    <3>1. load' = load
      BY <1>4, <2>4 DEF ListRead
    <3>2. WorkType'
      BY <1>3, <2>1, <3>1 DEF WorkType
    <3>3. load # None => ~Live(i) \/ ~ui.open
      BY <2>4
    <3>4. load # None => ui.open
      BY DEF Closed
    <3>5. LoadShown'
      BY <1>3, <2>1, <3>1, <3>3, <3>4 DEF LoadShown, Live
    <3> QED  BY <1>1, <1>3, <2>1, <2>2, <3>2, <3>5
  <2> QED  BY <2>3, <2>4
<1>5. CASE ListFails(i)
  <2>1. threads' = Ended(i)
    BY <1>5 DEF ListFails
  <2>2. CASE Live(i) /\ ui.open
    <3>1. load' = None /\ ui' = [ui EXCEPT !.loading = FALSE]
      BY <1>5, <2>2 DEF ListFails
    <3>2. /\ ui' \in Screens /\ ui'.sources = ui.sources /\ ui'.source = ui.source
          /\ ui'.rows = ui.rows /\ ui'.marks = ui.marks /\ ui'.selected = ui.selected
          /\ ui'.loading = FALSE /\ ui'.dialog = ui.dialog /\ ui'.task = ui.task
          /\ ui'.busy = ui.busy
      BY <1>0, <3>1 DEF Screens
    <3>3. ScreenType' /\ WorkType' /\ LoadShown'
      BY <1>3, <2>1, <3>1, <3>2 DEF ScreenType, WorkType, LoadShown
    <3>4. Screen'
      BY <3>2 DEF Screen, OneSource, OnePerSource, Modal, TaskShown, OneBusy, TaskLocked
    <3> QED  BY <1>1, <1>3, <2>1, <3>3, <3>4
  <2>3. CASE ~(Live(i) /\ ui.open)
    <3>1. UNCHANGED <<load, ui>>
      BY <1>5, <2>3 DEF ListFails
    <3>2. WorkType' /\ ScreenType'
      BY <1>3, <2>1, <3>1 DEF WorkType, ScreenType
    <3>3. load # None => ui.open
      BY DEF Closed
    <3>4. LoadShown'
      BY <1>3, <2>1, <2>3, <3>1, <3>3 DEF LoadShown, Live
    <3>5. Screen'
      BY <3>1 DEF Screen, OneSource, OnePerSource, Modal, TaskShown, OneBusy, TaskLocked
    <3> QED  BY <1>1, <1>3, <2>1, <3>2, <3>4, <3>5
  <2> QED  BY <2>2, <2>3
<1> QED  BY <1>2, <1>4, <1>5

LEMMA MarksReadStep == ASSUME IInv, NEW marks, MarksRead(marks) PROVE IInv'
<1> USE DEF IInv, Types
<1>0. ui \in Screens
  BY DEF ScreenType
<1>1. DiskType' /\ ScanType'
  BY DiskKept DEF MarksRead, ScanType
<1>2. /\ load # None /\ load \in Loads /\ load.binding = ui.source /\ ui.loading
      /\ ui.source # None /\ load.rows \subseteq Rows[ui.source.source]
      /\ marks \subseteq load.rows
  BY DEF MarksRead, Marked, LoadShown, WorkType
<1>3. /\ ui' = [ui EXCEPT !.rows = load.rows, !.marks = marks, !.loading = FALSE,
                          !.selected = load.rows \ marks]
      /\ load' = None /\ UNCHANGED threads
  BY DEF MarksRead
<1>4. load.rows \subseteq AllRows
  BY <1>2 DEF Loads
<1>5. /\ ui' \in Screens /\ ui'.sources = ui.sources /\ ui'.source = ui.source
      /\ ui'.rows = load.rows /\ ui'.marks = marks /\ ui'.selected = load.rows \ marks
      /\ ui'.dialog = ui.dialog /\ ui'.task = ui.task /\ ui'.busy = ui.busy
  BY <1>0, <1>2, <1>3, <1>4 DEF Screens
<1>6. ScreenType' /\ WorkType' /\ LoadShown' /\ OneReader'
  BY <1>3, <1>5 DEF ScreenType, WorkType, LoadShown, OneReader
<1>7. OneSource' /\ OnePerSource'
  BY <1>2, <1>5 DEF Screen, OneSource, OnePerSource
<1>8. ui.task.kind = "" /\ ui.dialog.kind # "delete"
  BY <1>2 DEF Screen, TaskShown, Modal
<1>9. Modal' /\ TaskShown' /\ OneBusy' /\ TaskLocked'
  BY <1>5, <1>8 DEF Screen, Modal, TaskShown, OneBusy, TaskLocked
<1> QED  BY <1>1, <1>6, <1>7, <1>9 DEF Screen

(* What loads or asks starts while the workbench is open, and closing it ends both. *)
LEMMA ClosedStep == ASSUME ui \in Screens, Closed, [Next]_vars PROVE Closed'
<1> DEFINE Kept == /\ ui'.open = ui.open
                   /\ load' # None => load # None \/ ui.open
                   /\ ui'.dialog.kind # "" => ui.dialog.kind # "" \/ ui.open
<1>1. Kept => Closed'
  BY DEF Closed
<1>2. ASSUME NEW u \in Screens, NEW b, NEW select, AddSource(u, b, select),
             ui.open, u.open = ui.open
      PROVE  Kept
  BY <1>2 DEF AddSource, Showing, Screens, work
<1>3. CASE User
  <2>1. CASE Quit
    BY <2>1 DEF Quit, Closed, NoDialog, Dialog, Screens
  <2>2. CASE Rescan \/ Export \/ AskDelete \/ Dismiss \/ EnterAddress \/ Confirm
    <3>1. ui'.open = ui.open /\ (ui'.dialog.kind # "" => ui.dialog.kind # "" \/ ui.open)
      <4>1. CASE Rescan \/ Export \/ EnterAddress
        BY <4>1, NoDialogKind DEF Rescan, Export, EnterAddress, Screens
      <4>2. CASE AskDelete
        BY <4>2 DEF AskDelete, Ready, Idle, Screens
      <4>3. CASE Dismiss
        BY <4>3, NoDialogKind DEF Dismiss, Screens
      <4>4. CASE Confirm
        BY <4>4, NoDialogKind DEF Confirm, Screens
      <4> QED  BY <2>2, <4>1, <4>2, <4>3, <4>4
    <3>2. load' \in {load, None}
      BY <2>2 DEF Rescan, Export, AskDelete, Dismiss, EnterAddress, Confirm, work
    <3> QED  BY <1>1, <3>1, <3>2
  <2>3. CASE \E d \in Dirs : EnterOutput(d)
    <3>1. PICK d \in Dirs : EnterOutput(d)
      BY <2>3
    <3>2. /\ ui'.open = ui.open /\ ui'.dialog = NoDialog /\ ui.dialog.kind = "output"
      BY <3>1 DEF EnterOutput, Screens
    <3> QED  BY <3>2 DEF Closed
  <2>4. CASE \E b \in ui.sources : SourceChanged(b)
    BY <1>1, <2>4 DEF SourceChanged, Showing, Idle, Screens
  <2>5. CASE \E ids \in SUBSET ui.rows : SelectRows(ids)
    BY <1>1, <2>5 DEF SelectRows, Idle, Screens, work
  <2>6. CASE \E k \in {"connect", "output"} : OpenDialog(k)
    BY <1>1, <2>6 DEF OpenDialog, Idle, Screens, work
  <2> QED  BY <1>3, <2>1, <2>2, <2>3, <2>4, <2>5, <2>6 DEF User
<1>4. CASE System
  <2>1. CASE Connected
    <3> DEFINE u == [ui EXCEPT !.found = @ + 1, !.busy = @ \ {"connecting"}]
               b == [Binding(Lan) EXCEPT !.number = @ + 1]
    <3>1. AddSource(u, b, TRUE) /\ ui.open
      BY <2>1 DEF Connected
    <3>2. u \in Screens /\ u.open = ui.open
      <4>1. ui.found + 1 \in Nat
            /\ ui.busy \ {"connecting"} \in SUBSET {"connecting", "exporting", "deleting"}
        BY DEF Screens
      <4> QED  BY <4>1 DEF Screens
    <3> HIDE DEF u, b
    <3> QED  BY <1>1, <1>2, <3>1, <3>2
  <2>2. CASE ConnectFails \/ CancellationArrives
    BY <1>1, <2>2 DEF ConnectFails, CancellationArrives, Screens, work
  <2>3. CASE \E s \in Sources : Discovers(s) \/ DiscoversNothing(s) \/ DeliversLate(s)
    <3>1. PICK s \in Sources : Discovers(s) \/ DiscoversNothing(s) \/ DeliversLate(s)
      BY <2>3
    <3>2. CASE DiscoversNothing(s)
      BY <1>1, <3>2 DEF DiscoversNothing, work
    <3>3. CASE Discovers(s)
      BY <1>1, <1>2, <3>3 DEF Discovers
    <3>4. CASE DeliversLate(s)
      BY <1>1, <1>2, <3>4 DEF DeliversLate
    <3> QED  BY <3>1, <3>2, <3>3, <3>4
  <2>4. CASE \E i \in DOMAIN threads : TakeLock(i) \/ ListRead(i) \/ ListFails(i)
    BY <1>1, <2>4 DEF TakeLock, ListRead, ListFails, Live, Screens
  <2>5. CASE \E marks : MarksRead(marks)
    BY <1>1, <2>5 DEF MarksRead, Screens
  <2>6. CASE \E ids \in SUBSET ui.task.ids :
                 \/ ExportEnds(ids) \/ ExportRaises(ids) \/ Record(ids)
                 \/ DeleteEnds(ids) \/ DeleteRaises(ids)
    BY <1>1, <2>6 DEF ExportEnds, ExportRaises, Record, DeleteEnds, DeleteRaises, Screens, work
  <2> QED  BY <1>4, <2>1, <2>2, <2>3, <2>4, <2>5, <2>6 DEF System
<1>5. CASE UNCHANGED vars
  BY <1>1, <1>5 DEF vars
<1> QED  BY <1>3, <1>4, <1>5 DEF Next

LEMMA NextIInv == IInv /\ Closed /\ [Next]_vars => IInv' /\ Closed'
<1> SUFFICES ASSUME IInv, Closed, [Next]_vars PROVE IInv'
  BY ClosedStep DEF IInv, Types, ScreenType
<1>1. CASE User
  BY <1>1, RescanStep, TaskBegins, DialogStep, QuitStep, EnterOutputStep,
     SourceChangedStep DEF User
<1>2. CASE System
  <2>1. CASE Connected \/ ConnectFails
    BY <2>1, ConnectStep
  <2>2. CASE \E s \in Sources : DiscoversNothing(s) \/ Discovers(s) \/ DeliversLate(s)
    BY <2>2, ScanStep
  <2>3. CASE CancellationArrives
    BY <2>3, ScanStep, RowsType
  <2>4. CASE \E i \in DOMAIN threads : TakeLock(i) \/ ListRead(i) \/ ListFails(i)
    BY <2>4, ThreadStep
  <2>5. CASE \E marks : MarksRead(marks)
    BY <2>5, MarksReadStep
  <2>6. CASE \E ids \in SUBSET ui.task.ids :
                 \/ ExportEnds(ids) \/ ExportRaises(ids) \/ Record(ids)
                 \/ DeleteEnds(ids) \/ DeleteRaises(ids)
    BY <2>6, TaskEnds
  <2> QED  BY <1>2, <2>1, <2>2, <2>3, <2>4, <2>5, <2>6 DEF System
<1>3. CASE UNCHANGED vars
  <2>1. UNCHANGED <<ui, load, threads, scan, device, moves>>
    BY <1>3 DEF vars
  <2>2. Types'
    BY <2>1 DEF IInv, Types, ScreenType, WorkType, DiskType, ScanType
  <2>3. Screen'
    BY <2>1 DEF IInv, Screen, OneSource, OnePerSource, Modal, TaskShown, OneBusy, TaskLocked
  <2>4. LoadShown' /\ OneReader'
    BY <2>1 DEF IInv, LoadShown, OneReader
  <2> QED  BY <2>2, <2>3, <2>4 DEF IInv
<1> QED  BY <1>1, <1>2, <1>3 DEF Next

-----------------------------------------------------------------------------
LEMMA AtMostOne ==
    ASSUME NEW S, \A x, y \in S : x = y PROVE Cardinality(S) <= 1
<1>1. CASE S = {}
  BY <1>1, FS_EmptySet
<1>2. CASE S # {}
  <2>1. PICK x \in S : TRUE
    BY <1>2
  <2>2. S = {x}
    BY <2>1
  <2> QED  BY <2>2, FS_Singleton
<1> QED  BY <1>1, <1>2

(* The list, the marks and the selection on the screen are of the source that   *)
(* is selected, whatever lists and scans answer late, in which order, and      *)
(* however many threads of cancelled loads are left (tui.py:620-760).          *)
THEOREM ScreenOfOneSource == Spec => []OneSource
<1>1. IInv => OneSource
  BY DEF IInv, Screen
<1> QED
  BY InitIInv, NextIInv, <1>1, PTL DEF Spec

(* An export or deletion is of recordings that are on the screen until it has   *)
(* ended, one at a time and locked, and no two catalog reads of one device      *)
(* overlap, those of cancelled loads included.                                *)
THEOREM WorkUndisturbed == Spec => []Undisturbed
<1>1. IInv => Undisturbed
  <2> SUFFICES ASSUME IInv PROVE Undisturbed
    OBVIOUS
  <2>1. \A s \in Sources : Cardinality({b \in ui.sources : b.source = s}) <= 1
    <3> SUFFICES ASSUME NEW s \in Sources
                 PROVE  Cardinality({b \in ui.sources : b.source = s}) <= 1
      OBVIOUS
    <3> DEFINE S == {b \in ui.sources : b.source = s}
    <3>1. \A x, y \in S : x = y
      BY DEF IInv, Screen, OnePerSource
    <3> HIDE DEF S
    <3>2. Cardinality(S) <= 1
      BY <3>1, AtMostOne
    <3> QED  BY <3>2 DEF S
  <2>2. TypeOK
    BY <2>1 DEF IInv, Types, ScreenType, Screens, WorkType, DiskType, TypeOK
  <2>3. Cardinality(ui.busy) <= 1
    BY AtMostOne DEF IInv, Screen, OneBusy
  <2>4. OneTask
    BY <2>3 DEF IInv, Screen, TaskLocked, OneTask
  <2> QED  BY <2>2, <2>4 DEF IInv, Screen, Undisturbed
<1> QED
  BY InitIInv, NextIInv, <1>1, PTL DEF Spec
=============================================================================
