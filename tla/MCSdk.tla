-------------------------------- MODULE MCSdk --------------------------------
(***************************************************************************)
(* The SDK object (client.py): calls of discover and list_sessions on the LAN  *)
(* or with cards, a batch of exports, deletions on a card, or the rendering of *)
(* one recording (_media.py).  Init chooses which; the variables of the others *)
(* stay at their first values.                                                *)
(***************************************************************************)
EXTENDS Integers, Sequences, FiniteSets, TLC, TakeGraph

CONSTANTS
    d1, d2, label, Places, MaxEvents, MaxCalls,
    Count, Unknown, MaxWorkers, All,
    Lengths,
    Films, Sounds, Micro, Slack, Rate, Period, Buffer  \* of a rendering

VARIABLES
    use,
    there, has, sources, cache, cards, call, pending, probed, result, answered,
    current, events, calls,
    requested, exportable, continue, batch, remaining, active, running, ended,
    exported, failures,
    files, step, inventory, chosen, queue, deleted, failed,
    source, track, phase, hardware, staged, target

(* Two devices that cannot be told apart by their labels. *)
Devices == {d1, d2}

(* Calls on any devices, and the two of the run. *)
Calls(c) == INSTANCE SourceDiscovery WITH
    Devices <- c.devices, Label <- c.labels, Selector <- c.selector,
    CardMode <- c.cards, MaxEvents <- c.events, found <- probed
Lan == [devices |-> Devices, labels |-> (d1 :> label) @@ (d2 :> label),
        selector |-> None, cards |-> FALSE, events |-> MaxEvents]
Cards == [Lan EXCEPT !.selector = d1, !.cards = TRUE, !.events = 1]

Batch == INSTANCE BatchExport WITH pc <- batch, outcome <- ended
Card == INSTANCE CardDelete WITH pc <- step, state <- files, Glitches <- FALSE

(* Renderings of any recordings, with any audio or without. *)
Seg(i, from, to, l, r) ==
    [index |-> i, from |-> from, to |-> to, left |-> l, right |-> r]
One(l, r) == <<Seg(0, 0, 1, l, r)>>
Recording(s, n, t) == [segments |-> s, count |-> n, rows |-> t]
Plain == Recording(One(2, 2), 2, None)
Filmed == Films \cup {Plain}
Heard == Sounds \cup {None}
Render == INSTANCE MediaRender WITH pc <- phase, Sources <- Filmed, Tracks <- Heard

(* Those of the run: good and bad lists of one or two segments, and every   *)
(* frame index of up to three rows with times up to 5, half a microsecond each. *)
Two == {<<Seg(i, from, 2, l, r), Seg(j, 0, 1, 1, k)>> :
        i \in {0, 1}, j \in {0, 2}, from \in {0, 1},
        l \in {1, 2}, r \in {1, 2}, k \in {1, 2}}
Media ==
    {Recording(s, 3, t) : s \in {One(l, 2) : l \in 0..3} \cup Two,
                               t \in {None, <<1, 3, 4>>}}
    \cup {Recording(One(2, 2), 2, t) : t \in [1..1 -> 0..5] \cup [1..2 -> 0..5]}
    \cup {Recording(One(3, 3), 3, t) : t \in [1..3 -> 0..5]}

(* Their audio: clocks of two or three points that run evenly or not, with all  *)
(* roundings of the times the recorder has computed from them.                *)
Clock == INSTANCE MediaRender WITH pc <- phase, Sources <- {}, Tracks <- {}
Up(S, k) == {f \in [1..k -> S] : \A i \in 1..k - 1 : f[i] < f[i + 1]}
Points == UNION {{[i \in 1..k |-> <<n[i], t[i]>>] :
                  n \in Up(1..4, k), t \in Up({1, 2, 8, 13}, k)} : k \in {2, 3}}
Floor(p, n) == LET t == Clock!SampleTime(p, n) IN t[1] \div t[2]
Audio == {[points |-> p, count |-> n, begin |-> Floor(p, 0) + b,
           end |-> Floor(p, n) + e, sync |-> Floor(p, 0) + y] :
          p \in Points, n \in 1..4, b \in 0..1, e \in 0..1, y \in 0..1}

ASSUME MCSdkAssumption ==
    /\ Calls(Lan)!DiscoveryConstants /\ Calls(Cards)!DiscoveryConstants
    /\ Batch!BatchConstants /\ Card!CardConstants
    /\ Render!RenderConstants

sourceVars == <<there, has, sources, cache, cards, call, pending, probed, result,
                answered, current, events, calls>>
batchVars == <<requested, exportable, continue, batch, remaining, active,
               running, ended, exported, failures>>
cardVars == <<files, step, inventory, chosen, queue, deleted, failed>>
renderVars == <<source, track, phase, hardware, staged, target>>
sdkVars == <<use, sourceVars, batchVars, cardVars, renderVars>>

OnlySources == UNCHANGED <<use, batchVars, cardVars, renderVars>>
OnlyBatch == UNCHANGED <<use, sourceVars, cardVars, renderVars>>
OnlyCard == UNCHANGED <<use, sourceVars, batchVars, renderVars>>
OnlyRender == UNCHANGED <<use, sourceVars, batchVars, cardVars>>

SdkInit ==
    /\ use \in {"lan", "cards", "batch", "delete", "render"}
    /\ use \notin {"lan", "cards"} =>
           there = [p \in Places |-> None] /\ has = [d \in Devices |-> 0]
    /\ use # "batch" => requested = {} /\ exportable = {} /\ continue = FALSE
    /\ Calls(Lan)!Init /\ Batch!Init /\ Card!Init
    /\ IF use = "render"
       THEN Render!Init /\ (track = None \/ (source = Plain /\ ~hardware))
       ELSE /\ source = Plain /\ track = None /\ phase = "plan"
            /\ hardware = FALSE /\ staged = {} /\ target = {}
    /\ use \in {"lan", "cards"} => has[d1] = 1

Find == \/ use = "lan" /\ Calls(Lan)!Client /\ OnlySources
        \/ use = "cards" /\ Calls(Cards)!Client /\ OnlySources
Export == use = "batch" /\ Batch!Next /\ OnlyBatch

SdkNext ==
    \/ use = "lan" /\ Calls(Lan)!Next /\ OnlySources
    \/ use = "cards" /\ Calls(Cards)!Next /\ OnlySources
    \/ Export
    \/ use = "delete" /\ Card!Next /\ OnlyCard
    \/ use = "render" /\ Render!Next /\ OnlyRender

SdkSpec == SdkInit /\ [][SdkNext]_sdkVars
SdkFairSpec == SdkSpec /\ WF_sdkVars(Find) /\ WF_sdkVars(Export)

-----------------------------------------------------------------------------
(* Discoveries: every device that answered at one of its addresses is found,   *)
(* and a list is of the only source that fits: a device with several addresses *)
(* is one source.  What is cached was there since the last discovery and the    *)
(* last refresh, and the recordings of a source on the LAN are its device's.    *)
Discoveries ==
    /\ Calls(Lan)!TypeOK /\ Calls(Lan)!NoneHidden /\ Calls(Lan)!CacheCurrent
    /\ use = "lan" => Calls(Lan)!OnlyChoice /\ Calls(Lan)!RightDevice
    /\ use = "cards" => Calls(Cards)!OnlyChoice

(* Renderings: a video that is kept has every frame in order and at the         *)
(* microsecond of its capture, both eyes of one moment in each, and every       *)
(* sample where the clock points have it.                                     *)
Renderings ==
    /\ Render!TypeOK /\ Render!FramesTrue
    /\ Render!EyesPaired /\ Render!AudioPlaced

(* Batches: one that returns tells of every recording asked for once, truly    *)
(* and in the order of the list; no export is running once the call has ended; *)
(* where the first error stops it, none starts after one failed.              *)
Batches ==
    /\ [](Batch!TypeOK /\ Batch!EachOnce /\ Batch!Sorted /\ Batch!Quiet)
    /\ Batch!StopsAtFirst

(* Deletions: after any failure or kill, the recordings left on a card are      *)
(* whole takes; every chosen recording is reported once, and as it ended; and  *)
(* nothing else is ever touched.                                              *)
Deletions ==
    /\ [](Card!TypeOK /\ Card!StillChains /\ Card!Reported)
    /\ Card!Untouched

(* Calls that find sources or read lists end, and so do batches. *)
Busy == IF use = "batch" THEN batch \notin {"returned", "raised"} ELSE call.step # "idle"
CallsEnd == Busy ~> ~Busy
=============================================================================
