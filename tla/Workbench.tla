------------------------------ MODULE Workbench ------------------------------
(***************************************************************************)
(* The terminal workbench (tui.py) and its export history (_history.py): one  *)
(* event loop whose handlers run to their next await, worker threads that      *)
(* cannot be cancelled, and a user.  Textual cancels a worker's coroutine, the *)
(* thread it waits for goes on.  A dialog is modal.                            *)
(*                                                                           *)
(* A binding is a source together with the SDK object of the scan or the       *)
(* connection that found it, told apart by a number.                           *)
(***************************************************************************)
EXTENDS Naturals, FiniteSets

CONSTANTS
    Lan, Card,      \* the two sources
    Rows,           \* the recordings of each, no two alike
    Dirs, FirstDir, \* output directories
    OldExports,     \* the completed exports there are in each at the start
    HistoryFails,   \* whether exports.sqlite3 may be unreadable
    MaxMoves,       \* bound on what the user does
    MaxThreads,     \* bound on catalog threads at a time
    None

Sources == {Lan, Card}
AllRows == UNION {Rows[s] : s \in Sources}
ASSUME WorkbenchAssumption ==
    /\ Lan # Card /\ Rows[Lan] \cap Rows[Card] = {}
    /\ Rows \in [Sources -> SUBSET AllRows]
    /\ None \notin [source : Sources, number : Nat, scan : Nat]
    /\ FirstDir \in Dirs /\ OldExports \in [Dirs -> SUBSET AllRows]
    /\ HistoryFails \in BOOLEAN
    /\ MaxMoves \in Nat /\ MaxThreads \in Nat \ {0}

VARIABLES
    ui,         \* the attributes of OpenAriaTUI
    load,       \* the coroutine _load_sessions: None, or its thread and phase
    threads,    \* catalog threads, cancelled ones too: number -> source, state
    scan,       \* modes whose probe is awaited: now, and of a cancelled scan
    device,     \* external: the recordings that are on each source
    receipts,   \* external: completed exports in each output directory
    known,      \* external: exports.sqlite3
    moves

vars == <<ui, load, threads, scan, device, receipts, known, moves>>
disk == <<device, receipts, known>>
work == <<load, threads>>

Dialog(k, b, ids) == [kind |-> k, binding |-> b, ids |-> ids]
NoDialog == Dialog("", None, {})
Task(k, b, ids, d) == [kind |-> k, binding |-> b, ids |-> ids, root |-> d]
NoTask == Task("", None, {}, FirstDir)

Init ==
    /\ ui = [sources |-> {}, source |-> None, rows |-> {}, marks |-> {},
             selected |-> {}, loading |-> FALSE, busy |-> {}, root |-> FirstDir,
             dialog |-> NoDialog, task |-> NoTask, open |-> TRUE, found |-> 0]
    /\ load = None /\ threads = <<>>
    /\ scan = [now |-> Sources, old |-> {}, number |-> 0]
    /\ device = Rows /\ known = {}
    /\ receipts = OldExports
    /\ moves = 0

-----------------------------------------------------------------------------
(* Handlers that other handlers call. *)

Free == CHOOSE i \in 1..MaxThreads : i \notin DOMAIN threads
CanLoad == Cardinality(DOMAIN threads) < MaxThreads

(* _load_sessions(b): exclusive in its group, so the running one is cancelled. *)
StartLoad(b) ==
    /\ CanLoad
    /\ load' = [thread |-> Free, binding |-> b, phase |-> "list", rows |-> {},
                root |-> FirstDir]
    /\ threads' = [i \in DOMAIN threads \cup {Free} |->
                      IF i = Free THEN [source |-> b.source, state |-> "waits"]
                      ELSE threads[i]]

(* Wrong: the marks and the selection of the source before it stay. *)
ShowingKeeping(u, b) == [u EXCEPT !.source = b, !.rows = {}, !.loading = TRUE]

(* What _select_source shows until the list has come. *)
Showing(u, b) == [u EXCEPT !.source = b, !.rows = {}, !.marks = {},
                           !.selected = {}, !.loading = TRUE]

Same(b) == {x \in ui.sources : x.source = b.source}

(* _add_sources for one binding: u is the state it leaves. *)
AddSource(u, b, select) ==
    LET listed == IF Same(b) = {} THEN ui.sources \cup {b}
                  ELSE IF select THEN (ui.sources \ Same(b)) \cup {b}
                  ELSE ui.sources
        chosen == CHOOSE x \in listed : x.source = b.source
        shown == [u EXCEPT !.sources = listed] IN
    IF (select \/ ui.source = None) /\ chosen # ui.source
    THEN ui' = Showing(shown, chosen) /\ StartLoad(chosen)
    ELSE ui' = shown /\ UNCHANGED work

-----------------------------------------------------------------------------
(* The scan. *)

Idle == ui.open /\ ui.dialog = NoDialog
Unlocked == ui.busy = {}
Move == moves < MaxMoves /\ moves' = moves + 1

(* action_rescan: the cancelled load leaves its thread behind.  The probes of  *)
(* the scan before are cancelled through two nested task groups, so a result   *)
(* that is there may still be delivered before the cancellation is.            *)
Rescan ==
    /\ Idle /\ Unlocked /\ Move
    /\ ui' = [ui EXCEPT !.sources = {}, !.source = None, !.rows = {},
                        !.marks = {}, !.selected = {}, !.loading = FALSE]
    /\ load' = None
    /\ scan' = [now |-> Sources, old |-> scan.now, number |-> scan.number + 1]
    /\ UNCHANGED <<threads, disk>>

Binding(s) == [source |-> s, number |-> ui.found, scan |-> scan.number]

Discovers(s) ==
    /\ ui.open /\ s \in scan.now
    /\ AddSource(ui, Binding(s), FALSE)
    /\ scan' = [scan EXCEPT !.now = @ \ {s}]
    /\ UNCHANGED <<disk, moves>>

DiscoversNothing(s) ==
    /\ ui.open /\ s \in scan.now
    /\ scan' = [scan EXCEPT !.now = @ \ {s}]
    /\ UNCHANGED <<ui, work, disk, moves>>

DeliversLate(s) ==
    /\ ui.open /\ s \in scan.old
    /\ AddSource(ui, [Binding(s) EXCEPT !.scan = scan.number - 1], FALSE)
    /\ scan' = [scan EXCEPT !.old = @ \ {s}]
    /\ UNCHANGED <<disk, moves>>

CancellationArrives ==
    /\ scan.old # {}
    /\ scan' = [scan EXCEPT !.old = {}]
    /\ UNCHANGED <<ui, work, disk, moves>>

-----------------------------------------------------------------------------
(* Sources and their lists. *)

(* Wrong: the selector is not locked during a task. *)
SourceChangedAlways(b) ==
    /\ Idle /\ Move /\ b \in ui.sources /\ b # ui.source
    /\ ui' = Showing(ui, b) /\ StartLoad(b)
    /\ UNCHANGED <<scan, disk>>

SourceChanged(b) ==
    /\ Idle /\ Unlocked /\ Move /\ b \in ui.sources /\ b # ui.source
    /\ ui' = Showing(ui, b) /\ StartLoad(b)
    /\ UNCHANGED <<scan, disk>>

(* The lock of _list_sessions_serialized, one per device. *)
MayRead(i) == \A j \in DOMAIN threads \ {i} :
    threads[j].source = threads[i].source => threads[j].state # "reads"

TakeLock(i) ==
    /\ i \in DOMAIN threads /\ threads[i].state = "waits" /\ MayRead(i)
    /\ threads' = [threads EXCEPT ![i].state = "reads"]
    /\ UNCHANGED <<ui, load, scan, disk, moves>>

Live(i) == load # None /\ load.thread = i /\ load.phase = "list"
Ended(i) == [j \in DOMAIN threads \ {i} |-> threads[j]]

(* The list has been read; the markers are looked up in the directory of now.  *)
ListRead(i) ==
    /\ i \in DOMAIN threads /\ threads[i].state = "reads"
    /\ threads' = Ended(i)
    /\ load' = IF Live(i) /\ ui.open
               THEN [load EXCEPT !.phase = "marks", !.root = ui.root,
                                 !.rows = device[threads[i].source]]
               ELSE load
    /\ UNCHANGED <<ui, scan, disk, moves>>

(* Wrong: a failed read leaves the list in its loading state. *)
ListFailsSilently(i) ==
    /\ i \in DOMAIN threads /\ threads[i].state = "reads"
    /\ threads' = Ended(i)
    /\ load' = IF Live(i) /\ ui.open THEN None ELSE load
    /\ UNCHANGED <<ui, scan, disk, moves>>

(* What was shown before stays. *)
ListFails(i) ==
    /\ i \in DOMAIN threads /\ threads[i].state = "reads"
    /\ threads' = Ended(i)
    /\ IF Live(i) /\ ui.open
       THEN load' = None /\ ui' = [ui EXCEPT !.loading = FALSE]
       ELSE UNCHANGED <<load, ui>>
    /\ UNCHANGED <<scan, disk, moves>>

(* Both receipts agree with the recording and its film has the size they give. *)
HasReceipt(id) == id \in receipts[load.root]
Store(ids) == known' = known \cup ids

(* exported_ids: what the history knows and what has a receipt in the          *)
(* directory; the latter is stored.  The history may be unreadable.            *)
Marked == {id \in load.rows : id \in known \/ HasReceipt(id)}
MarksRead(marks) ==
    /\ ui.open /\ load # None /\ load.phase = "marks"
    /\ marks = Marked \/ (HistoryFails /\ marks = {})
    /\ Store(marks)
    /\ ui' = [ui EXCEPT !.rows = load.rows, !.marks = marks, !.loading = FALSE,
                        !.selected = load.rows \ marks]
    /\ load' = None
    /\ UNCHANGED <<threads, scan, device, receipts, moves>>

(* Ticking, 全选, 选已导出, with or without a filter. *)
SelectRows(ids) ==
    /\ Idle /\ Unlocked /\ Move /\ ids \subseteq ui.rows /\ ids # ui.selected
    /\ ui' = [ui EXCEPT !.selected = ids]
    /\ UNCHANGED <<work, scan, disk>>

-----------------------------------------------------------------------------
(* Connecting, and the output directory. *)

OpenDialog(k) ==
    /\ Idle /\ Move
    /\ k = "connect" => Unlocked
    /\ k = "output" => ui.busy \cap {"exporting", "deleting"} = {}
    /\ ui' = [ui EXCEPT !.dialog = Dialog(k, None, {})]
    /\ UNCHANGED <<work, scan, disk>>

Dismiss ==
    /\ ui.dialog # NoDialog
    /\ ui' = [ui EXCEPT !.dialog = NoDialog]
    /\ UNCHANGED <<work, scan, disk, moves>>

EnterAddress ==
    /\ ui.dialog.kind = "connect"
    /\ ui' = [ui EXCEPT !.dialog = NoDialog, !.busy = @ \cup {"connecting"}]
    /\ UNCHANGED <<work, scan, disk, moves>>

Connected ==
    /\ ui.open /\ "connecting" \in ui.busy
    /\ AddSource([ui EXCEPT !.found = @ + 1, !.busy = @ \ {"connecting"}],
                 [Binding(Lan) EXCEPT !.number = @ + 1], TRUE)
    /\ UNCHANGED <<scan, disk, moves>>

ConnectFails ==
    /\ ui.open /\ "connecting" \in ui.busy
    /\ ui' = [ui EXCEPT !.busy = @ \ {"connecting"}]
    /\ UNCHANGED <<work, scan, disk, moves>>

(* _output_entered: the list is read again, unless it is being read. *)
EnterOutput(d) ==
    /\ ui.dialog.kind = "output"
    /\ LET u == [ui EXCEPT !.dialog = NoDialog, !.root = d] IN
       IF ui.source # None /\ ~ui.loading
       THEN ui' = [u EXCEPT !.loading = TRUE] /\ StartLoad(ui.source)
       ELSE ui' = u /\ UNCHANGED work
    /\ UNCHANGED <<scan, disk, moves>>

-----------------------------------------------------------------------------
(* Exporting and deleting. *)

Ready == Idle /\ Unlocked /\ ~ui.loading /\ ui.source # None /\ ui.selected # {}

Export ==
    /\ Ready /\ Move
    /\ ui' = [ui EXCEPT !.busy = @ \cup {"exporting"},
                        !.task = Task("export", ui.source, ui.selected, ui.root)]
    /\ UNCHANGED <<work, scan, disk>>

Exporting == ui.task.kind = "export"
Exported(done) ==
    receipts' = [receipts EXCEPT ![ui.task.root] = @ \cup done]

(* Only what is still on the source can be exported. *)
Possible == ui.task.ids \cap device[ui.task.binding.source]

ExportEnds(done) ==
    /\ Exporting /\ done \subseteq Possible
    /\ Exported(done)
    /\ ui' = [ui EXCEPT !.marks = @ \cup done, !.selected = @ \ done,
                        !.task.kind = "record", !.task.ids = done]
    /\ UNCHANGED <<work, scan, device, known, moves>>

(* An error outside the single exports; those that were made stay. *)
ExportRaises(done) ==
    /\ Exporting /\ done \subseteq Possible
    /\ Exported(done)
    /\ ui' = [ui EXCEPT !.task = NoTask, !.busy = @ \ {"exporting"}]
    /\ UNCHANGED <<work, scan, device, known, moves>>

(* ExportHistory.record, which may fail. *)
Record(stored) ==
    /\ ui.task.kind = "record" /\ stored \in {{}, ui.task.ids}
    /\ Store(stored)
    /\ ui' = [ui EXCEPT !.task = NoTask, !.busy = @ \ {"exporting"}]
    /\ UNCHANGED <<work, scan, device, receipts, moves>>

AskDelete ==
    /\ Ready /\ Move
    /\ ui' = [ui EXCEPT !.dialog = Dialog("delete", ui.source, ui.selected)]
    /\ UNCHANGED <<work, scan, disk>>

Confirm ==
    /\ ui.dialog.kind = "delete"
    /\ LET u == [ui EXCEPT !.dialog = NoDialog] IN
       ui' = IF ui.source = ui.dialog.binding
             THEN [u EXCEPT !.busy = @ \cup {"deleting"},
                            !.task = Task("delete", ui.dialog.binding,
                                          ui.dialog.ids, ui.root)]
             ELSE u
    /\ UNCHANGED <<work, scan, disk, moves>>

Delete(gone) ==
    /\ ui.task.kind = "delete" /\ gone \subseteq ui.task.ids
    /\ device' = [device EXCEPT ![ui.task.binding.source] = @ \ gone]

DeleteEnds(gone) ==
    /\ Delete(gone)
    /\ ui' = [ui EXCEPT !.rows = @ \ gone, !.selected = @ \ gone,
                        !.marks = @ \ gone, !.task = NoTask,
                        !.busy = @ \ {"deleting"}]
    /\ UNCHANGED <<work, scan, receipts, known, moves>>

DeleteRaises(gone) ==
    /\ Delete(gone)
    /\ ui' = [ui EXCEPT !.task = NoTask, !.busy = @ \ {"deleting"}]
    /\ UNCHANGED <<work, scan, receipts, known, moves>>

Quit ==
    /\ ui.open /\ Move /\ ui.busy \cap {"exporting", "deleting"} = {}
    /\ ui' = [ui EXCEPT !.open = FALSE, !.dialog = NoDialog, !.loading = FALSE,
                        !.busy = {}]
    /\ load' = None
    /\ UNCHANGED <<threads, scan, disk>>

User ==
    \/ Rescan \/ Export \/ AskDelete \/ Quit
    \/ Dismiss \/ EnterAddress \/ Confirm \/ (\E d \in Dirs : EnterOutput(d))
    \/ \E b \in ui.sources : SourceChanged(b)
    \/ \E ids \in SUBSET ui.rows : SelectRows(ids)
    \/ \E k \in {"connect", "output"} : OpenDialog(k)

System ==
    \/ Connected \/ ConnectFails \/ CancellationArrives
    \/ \E s \in Sources : Discovers(s) \/ DiscoversNothing(s) \/ DeliversLate(s)
    \/ \E i \in DOMAIN threads : TakeLock(i) \/ ListRead(i) \/ ListFails(i)
    \/ load # None /\ \E marks \in {{}, Marked} : MarksRead(marks)
    \/ \E ids \in SUBSET ui.task.ids :
        \/ ExportEnds(ids) \/ ExportRaises(ids) \/ Record(ids)
        \/ DeleteEnds(ids) \/ DeleteRaises(ids)

Next == User \/ System
Spec == Init /\ [][Next]_vars

(* Every blocking call has a timeout and the event loop runs its callbacks.    *)
FairSpec == Spec /\ WF_vars(System)

-----------------------------------------------------------------------------
TypeOK ==
    /\ ui.busy \subseteq {"connecting", "exporting", "deleting"}
    /\ ui.root \in Dirs /\ moves \in 0..MaxMoves
    /\ DOMAIN threads \subseteq 1..MaxThreads
    /\ \A s \in Sources : device[s] \subseteq Rows[s]
    /\ \A s \in Sources : Cardinality({b \in ui.sources : b.source = s}) <= 1

(* What is on the screen is of the source that is selected: its recordings,    *)
(* and among them the marked and the selected ones, however late a list or a   *)
(* scan answers.                                                               *)
OneSource ==
    /\ ui.source # None => ui.source \in ui.sources
    /\ ui.rows \subseteq IF ui.source = None THEN {} ELSE Rows[ui.source.source]
    /\ ui.marks \cup ui.selected \subseteq ui.rows

(* While recordings are exported or deleted, the screen keeps showing them:    *)
(* the results are applied to the list they are about.                         *)
TaskShown == ui.task.kind # "" =>
    /\ ui.source = ui.task.binding /\ ui.task.ids \subseteq ui.rows
    /\ ~ui.loading

(* At most one task runs, and its lock is on until it ends. *)
OneTask ==
    /\ Cardinality(ui.busy) <= 1
    /\ ui.task.kind # "" => ui.busy \cap {"exporting", "deleting"} # {}

(* tui.py: catalog reads of one device never overlap, those of cancelled loads *)
(* included.                                                                   *)
OneReader == \A i, j \in DOMAIN threads :
    threads[i].source = threads[j].source
        /\ threads[i].state = "reads" /\ threads[j].state = "reads" => i = j

(* Tasks and reads do not disturb each other. *)
Undisturbed == TypeOK /\ TaskShown /\ OneTask /\ OneReader

(* Once the user stops, the workbench comes to rest: nothing loads, connects,   *)
(* exports or deletes for ever.                                                *)
Settles == <>[](~ui.loading /\ ui.busy = {})

(* docs/tui-rewrite.md: "Cancellation prevents its result from reaching the    *)
(* UI".  Every source on the screen was found by the last scan or connection:  *)
(* the code does not keep this (README, 4).                                   *)
LastScanOnly == \A b \in ui.sources : b.scan = scan.number

(* README.md: "Existing completed exports in the chosen destination are        *)
(* recognized from their receipts": the code does not keep this (README, 4).  *)
DestinationRead == ui.open /\ ~ui.loading /\ ui.dialog = NoDialog =>
    receipts[ui.root] \cap ui.rows \subseteq ui.marks
=============================================================================
