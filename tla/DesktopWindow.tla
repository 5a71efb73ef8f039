---------------------------- MODULE DesktopWindow ----------------------------
(***************************************************************************)
(* The window of the desktop application (main.go, cards.go, lifecycle.go    *)
(* and local_history.go in src/desktop/exporter): one card is selected, its  *)
(* source is held open while its recordings are listed.  All state of the    *)
(* window belongs to the UI thread; a detector and at most one task work in   *)
(* goroutines and post what they found.  Cards come and go meanwhile.         *)
(***************************************************************************)
EXTENDS Naturals

CONSTANTS
    Ports,      \* device paths in the order they are listed: 1..n
    Volumes,    \* cards, by their volume id
    MaxPlugs,   \* bound on cards inserted
    MaxFaults,  \* bound on errors that pass
    None

VARIABLES
    inserted,   \* per port, the card in it as it was inserted, or None
    plugs, faults,
    selected,   \* src and cardID: a port and a volume, or None
    held,       \* the source kept for the list and its export, or None
    scanned,    \* the port the list was read from, or None
    items,      \* the volume whose recordings are listed, or None
    picked,     \* are some of them picked?
    busy, refreshing, stopped,
    task,       \* the goroutine of run or manageLocal, and the dialog
    found,      \* the detector's answer so far
    open        \* sources that are open

ui == <<selected, held, scanned, items, picked, busy, refreshing, stopped>>
world == <<inserted, plugs, faults>>
vars == <<world, ui, task, found, open>>

Card(p, v) == [port |-> p, volume |-> v]
Cards == {Card(p, v) : p \in Ports, v \in Volumes}

(* A card in its port, told apart by when it was put there. *)
Medium == [volume : Volumes, at : 1..MaxPlugs]
Sources == [port : Ports, medium : Medium]

WindowConstants ==
    /\ Ports \cup {MaxPlugs, MaxFaults} \subseteq Nat
    /\ None \notin Ports /\ None \notin Volumes
    /\ None \notin Cards /\ None \notin Medium /\ None \notin Sources

Live(s) == inserted[s.port] = s.medium

(* kind: "scan", "export", "local" (marks or outputs) or "dialog"; step: what  *)
(* the goroutine is at; source: what it uses; it works for card.               *)
Idle == [kind |-> "none", step |-> "none", source |-> None, card |-> None,
         volume |-> None]

Quiet == [left |-> {}, cards |-> {}]

Init ==
    /\ inserted = [p \in Ports |-> None] /\ plugs = 0 /\ faults = 0
    /\ selected = None /\ held = None /\ scanned = None /\ items = None
    /\ picked = FALSE /\ busy = FALSE /\ refreshing = FALSE /\ stopped = FALSE
    /\ task = Idle /\ found = Quiet /\ open = {}

-----------------------------------------------------------------------------
(* The world *)

Insert(p, v) ==
    /\ inserted[p] = None /\ plugs < MaxPlugs /\ plugs' = plugs + 1
    /\ \A q \in Ports : inserted[q] # None => inserted[q].volume # v
    /\ inserted' = [inserted EXCEPT ![p] = [volume |-> v, at |-> plugs']]
    /\ UNCHANGED <<faults, ui, task, found, open>>

Pull(p) ==
    /\ inserted[p] # None /\ inserted' = [inserted EXCEPT ![p] = None]
    /\ UNCHANGED <<plugs, faults, ui, task, found, open>>

Fault == faults < MaxFaults /\ faults' = faults + 1

-----------------------------------------------------------------------------
(* Scans and exports *)

Closed == IF held = None THEN {} ELSE {held}

(* changeSource and what run(false) does next: nothing is selected, or a card *)
(* that is scanned.                                                           *)
Select(card) ==
    /\ open' = open \ Closed
    /\ held' = None /\ scanned' = None /\ items' = None /\ picked' = FALSE
    /\ selected' = card
    /\ IF card = None THEN busy' = FALSE /\ task' = task
       ELSE busy' = TRUE
            /\ task' = [Idle EXCEPT !.kind = "scan", !.step = "open", !.card = card]

Calm == ~busy /\ ~refreshing /\ ~stopped

(* The button that scans again. *)
Rescan ==
    /\ Calm /\ selected # None /\ Select(selected)
    /\ UNCHANGED <<world, refreshing, stopped, found>>

(* Another card is chosen from the list the detector left. *)
SelectCard(card) ==
    /\ Calm /\ card \in found.cards /\ card # selected /\ Select(card)
    /\ UNCHANGED <<world, refreshing, stopped, found>>

Pick ==
    /\ ~busy /\ ~stopped /\ items # None /\ picked' = ~picked
    /\ UNCHANGED <<world, selected, held, scanned, items, busy, refreshing, stopped,
                   task, found, open>>

Ready == Calm /\ held # None /\ scanned = selected.port /\ picked

Export ==
    /\ Ready /\ busy' = TRUE
    /\ task' = [kind |-> "export", step |-> "read", source |-> held,
                card |-> selected, volume |-> items]
    /\ UNCHANGED <<world, selected, held, scanned, items, picked, refreshing, stopped,
                   found, open>>

(* openSelectedCard: the port is listed, and the card in it is the selected    *)
(* one.                                                                        *)
Accepts(p, card) == inserted[p] # None /\ inserted[p].volume = card.volume

OpenCard ==
    /\ task.step = "open"
    /\ LET p == task.card.port IN
       IF Accepts(p, task.card)
       THEN LET s == [port |-> p, medium |-> inserted[p]] IN
            /\ open' = open \cup {s}
            /\ task' = [task EXCEPT !.step = "read", !.source = s]
       ELSE task' = [task EXCEPT !.step = "failed"] /\ UNCHANGED open
    /\ UNCHANGED <<world, ui, found>>

(* The recordings are read, or copied, from the card that was opened. *)
Read ==
    /\ task.step = "read"
    /\ task' = [task EXCEPT !.step = IF Live(task.source) THEN "done" ELSE "failed",
                            !.volume = task.source.medium.volume]
    /\ UNCHANGED <<world, ui, found, open>>

(* An error of a moment, or a cancellation. *)
TaskFails ==
    /\ task.step \in {"open", "read"} /\ Fault
    /\ task' = [task EXCEPT !.step = "failed"]
    /\ UNCHANGED <<inserted, plugs, ui, found, open>>

(* Wrong: a scan that fails leaves its source open. *)
LeftOpenForever(t) == open

(* The source a failed scan opened is its own to close. *)
LeftOpenBy(t) == IF t.kind = "scan" THEN open \ {t.source} ELSE open

(* The end of a task on the UI thread. *)
Finish ==
    /\ task.step \in {"done", "failed"} /\ busy' = FALSE /\ task' = Idle
    /\ IF task.step = "done" /\ task.kind = "scan"
       THEN /\ held' = task.source /\ scanned' = task.card.port
            /\ items' = task.volume /\ picked' = FALSE /\ UNCHANGED open
       ELSE /\ open' = (IF task.step = "failed" THEN LeftOpenBy(task) ELSE open)
            /\ UNCHANGED <<held, scanned, items, picked>>
    /\ UNCHANGED <<world, selected, refreshing, stopped, found>>

-----------------------------------------------------------------------------
(* Deletion of outputs and marks *)

(* The plan is made in a goroutine, then a dialog asks. *)
Manage ==
    /\ Calm /\ picked /\ busy' = TRUE
    /\ task' = [Idle EXCEPT !.kind = "local", !.step = "plan", !.volume = items]
    /\ UNCHANGED <<world, selected, held, scanned, items, picked, refreshing, stopped,
                   found, open>>

Planned ==
    /\ task.step = "plan"
    /\ task' \in {[task EXCEPT !.step = "dialog"], [task EXCEPT !.step = "failed"]}
    /\ UNCHANGED <<world, ui, found, open>>

Confirm ==
    /\ task.step = "dialog"
    /\ task' = [task EXCEPT !.step = "delete"]
    /\ UNCHANGED <<world, ui, found, open>>

Dismiss ==
    /\ task.step = "dialog" /\ task' = Idle /\ busy' = FALSE
    /\ UNCHANGED <<world, selected, held, scanned, items, picked, refreshing, stopped,
                   found, open>>

Deleted ==
    /\ task.step = "delete"
    /\ task' \in {[task EXCEPT !.step = "done"], [task EXCEPT !.step = "failed"]}
    /\ UNCHANGED <<world, ui, found, open>>

-----------------------------------------------------------------------------
(* The detector, every three seconds and at a button *)

Refresh ==
    /\ Calm /\ refreshing' = TRUE
    /\ found' = [Quiet EXCEPT !.left = {p \in Ports : inserted[p] # None}]
    /\ UNCHANGED <<world, selected, held, scanned, items, picked, busy, stopped, task,
                   open>>

(* One device after another is opened, identified and closed. *)
Probe(p) ==
    /\ refreshing /\ p \in found.left /\ \A q \in found.left : p <= q
    /\ found' = [found EXCEPT
           !.left = @ \ {p},
           !.cards = IF inserted[p] = None THEN @
                     ELSE @ \cup {Card(p, inserted[p].volume)}]
    /\ UNCHANGED <<world, ui, task, open>>

(* A device cannot be listed or read for a moment. *)
ProbeFails ==
    /\ refreshing /\ found.left # {} /\ Fault
    /\ \E p \in found.left : found' = [found EXCEPT !.left = @ \ {p}]
    /\ UNCHANGED <<inserted, plugs, ui, task, open>>

FirstOf(cards) == CHOOSE c \in cards : \A d \in cards : c.port <= d.port

(* Wrong: the selection is known by its port alone. *)
StillThereByPort(card, cards) == card # None /\ \E c \in cards : c.port = card.port

StillThere(card, cards) == card \in cards

(* applyCards: the selected card stays with all of its state; otherwise the    *)
(* first of the cards is selected and scanned.                                 *)
Apply ==
    /\ refreshing /\ found.left = {} /\ refreshing' = FALSE
    /\ IF stopped \/ busy \/ StillThere(selected, found.cards)
       THEN UNCHANGED <<selected, held, scanned, items, picked, busy, task, open>>
       ELSE Select(IF found.cards = {} THEN None ELSE FirstOf(found.cards))
    /\ UNCHANGED <<world, stopped, found>>

-----------------------------------------------------------------------------
(* protectExit: not while something is at work. *)
Exit ==
    /\ ~stopped /\ ~busy /\ stopped' = TRUE
    /\ open' = open \ Closed /\ held' = None
    /\ UNCHANGED <<world, selected, scanned, items, picked, busy, refreshing, task,
                   found>>

Environment ==
    \/ \E p \in Ports : Pull(p) \/ \E v \in Volumes : Insert(p, v)
    \/ TaskFails \/ ProbeFails
User ==
    \/ Rescan \/ Pick \/ Export \/ Manage \/ Confirm \/ Dismiss \/ Exit
    \/ \E c \in Cards : SelectCard(c)
Work == OpenCard \/ Read \/ Planned \/ Deleted \/ Finish
Detect == Refresh \/ Apply \/ \E p \in Ports : Probe(p)

Next == Environment \/ User \/ Work \/ Detect

Spec == Init /\ [][Next]_vars

(* The goroutines run, the UI thread takes what they post, the ticker ticks,  *)
(* and a dialog is not left open for ever.                                    *)
FairSpec == Spec /\ WF_vars(Work) /\ SF_vars(Refresh)
                 /\ WF_vars(Apply \/ \E p \in Ports : Probe(p))
                 /\ WF_vars(Confirm \/ Dismiss)

-----------------------------------------------------------------------------
(* The window is busy exactly while it has a task or a dialog, and a task and  *)
(* a card detection exclude each other (main.go:69, cards.go:162, 174), so     *)
(* that the check of busy when cards are applied (cards.go:192) never fails.   *)
TypeOK ==
    /\ inserted \in [Ports -> Medium \cup {None}] /\ plugs \in 0..MaxPlugs
    /\ faults \in 0..MaxFaults /\ selected \in Cards \cup {None}
    /\ held \in Sources \cup {None} /\ scanned \in Ports \cup {None}
    /\ items \in Volumes \cup {None}
    /\ {picked, busy, refreshing, stopped} \subseteq BOOLEAN
    /\ open \subseteq Sources /\ task.source \in Sources \cup {None}
    /\ found.left \subseteq Ports /\ found.cards \subseteq Cards
    /\ busy <=> task.kind # "none"
    /\ ~(busy /\ refreshing)

Holding == IF held = None THEN {} ELSE {held}
Using == IF task.source = None THEN {} ELSE {task.source}

(* "Never close a source while a worker still uses it; the worker completion  *)
(* owns cleanup after cancellation" (lifecycle.go:5): what is open is what is *)
(* held or used, no more, and no less.                                        *)
SourcesOpen == open = Holding \cup Using

(* The list, and so every export from it, is of the selected card, read       *)
(* through the source that is held, whatever has been swapped meanwhile.      *)
ListOfSelected ==
    items # None /\ ~stopped =>
        /\ held # None /\ selected = Card(held.port, items)
        /\ held.medium.volume = items /\ scanned = held.port

(* While recordings are exported or their outputs deleted, neither the        *)
(* detector nor a click takes the list, the selection or the source away      *)
(* (cards.go:174, 192, main.go:69).                                           *)
UndisturbedWork ==
    [][task.kind \in {"export", "local"} /\ task'.kind = task.kind =>
          UNCHANGED <<selected, held, items, picked, stopped>>]_vars

Gone(v) == \A p \in Ports : inserted[p] = None \/ inserted[p].volume # v

(* The recordings of a card that was pulled out do not stay on display        *)
(* (README.md:27, cards_test.go:94).                                          *)
PulledLeaves == \A v \in Volumes :
    items = v /\ Gone(v) ~> items # v \/ ~Gone(v) \/ stopped

(* "Insert the memory card to begin; ... recognised automatically and its     *)
(* recordings are read" (view.go:208): the code does not keep this when a card *)
(* comes back during its scan (README, 4).                                    *)
InsertedIsListed == \A p \in Ports :
    inserted[p] # None ~> inserted[p] = None \/ items # None \/ stopped
=============================================================================
