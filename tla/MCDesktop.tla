------------------------------ MODULE MCDesktop ------------------------------
(***************************************************************************)
(* The desktop application in parts: one recording's output with several      *)
(* processes or with one alone, a batch, the window.  Init chooses the part;   *)
(* the variables of the others stay at their first values.                    *)
(***************************************************************************)
EXTENDS Naturals, Sequences, FiniteSets

CONSTANTS
    Processes, MaxMoves, MaxFaults,     \* of an output
    Count, Workers,                     \* of a batch
    Ports, Volumes, MaxPlugs, MaxErrors,    \* of the window
    None

VARIABLES
    part,
    final, stage, lock, pc, mode, after, record, plan, moves, faults, broken,
    next, at, job, cancelled, byUser, unreadable, disk, why, first, results,
    completed, returned,
    inserted, plugs, errors, selected, held, scanned, items, picked, busy,
    refreshing, stopped, task, found, open

Output(P) == INSTANCE DesktopOutput WITH Processes <- P
Batch == INSTANCE DesktopBatch WITH pc <- at, broken <- unreadable
Window == INSTANCE DesktopWindow WITH MaxFaults <- MaxErrors, faults <- errors

ASSUME MCDesktopAssumption ==
    /\ Output(Processes)!OutputConstants /\ Processes # {}
    /\ Batch!BatchConstants /\ Window!WindowConstants

(* The one process of the part "alone". *)
Alone == {CHOOSE p \in Processes : TRUE}

outputVars == <<final, stage, lock, pc, mode, after, record, plan, moves, faults,
                broken>>
batchVars == <<next, at, job, cancelled, byUser, unreadable, disk, why, first,
               results, completed, returned>>
windowVars == <<inserted, plugs, errors, selected, held, scanned, items, picked,
                busy, refreshing, stopped, task, found, open>>
vars == <<part, outputVars, batchVars, windowVars>>

OnlyOutput == UNCHANGED <<part, batchVars, windowVars>>
OnlyBatch == UNCHANGED <<part, outputVars, windowVars>>
OnlyWindow == UNCHANGED <<part, outputVars, batchVars>>

Init ==
    /\ part \in {"output", "alone", "batch", "window"}
    /\ part \in {"batch", "window"} => stage = [m \in Output(Processes)!Modes |-> None]
    /\ part # "batch" => cancelled = FALSE
    /\ IF part = "alone" THEN Output(Alone)!Init ELSE Output(Processes)!Init
    /\ Batch!Init /\ Window!Init

Next ==
    \/ part = "output" /\ Output(Processes)!Next /\ OnlyOutput
    \/ part = "alone" /\ Output(Alone)!Next /\ OnlyOutput
    \/ part = "batch" /\ Batch!Next /\ OnlyBatch
    \/ part = "window" /\ Window!Next /\ OnlyWindow

Spec == Init /\ [][Next]_vars

(* DesktopBatch!FairSpec and DesktopWindow!FairSpec. *)
Encode(w) == part = "batch" /\ Batch!Run(w) /\ OnlyBatch
Return == part = "batch" /\ Batch!Return /\ OnlyBatch
Work == part = "window" /\ Window!Work /\ OnlyWindow
Refresh == part = "window" /\ Window!Refresh /\ OnlyWindow
Probe == /\ part = "window" /\ OnlyWindow
         /\ Window!Apply \/ \E p \in Ports : Window!Probe(p)
Answer == part = "window" /\ (Window!Confirm \/ Window!Dismiss) /\ OnlyWindow

FairSpec ==
    /\ Spec
    /\ WF_vars(Return) /\ \A w \in Workers : WF_vars(Encode(w))
    /\ WF_vars(Work) /\ SF_vars(Refresh) /\ WF_vars(Probe) /\ WF_vars(Answer)

-----------------------------------------------------------------------------
(* Outputs: what is published has the whole recording; hidden directories that *)
(* are not this recording's stay as they are; what errors and cancellations     *)
(* leave does not refuse the next export, but for a claim or a raw receipt cut  *)
(* short; an output without its receipt has nothing else in it.               *)
Outputs ==
    /\ [](/\ IF part = "alone" THEN Output(Alone)!TypeOK ELSE Output(Processes)!TypeOK
          /\ Output(Processes)!Remainder)
    /\ [][/\ Output(Processes)!PublishedWhole /\ Output(Processes)!LeftoversUntouched
          /\ IF part = "alone" THEN Output(Alone)!Retryable
                               ELSE Output(Processes)!Retryable]_vars

(* An output goes by the user's hand or by the deletion of the very output that *)
(* was confirmed, and one process alone never forgets an output that is there   *)
(* as it was recorded.                                                        *)
Deletions ==
    /\ [][IF part = "alone" THEN Output(Alone)!Confirmed
                             ELSE Output(Processes)!Confirmed]_vars
    /\ [][part = "alone" => Output(Alone)!Remembers]_vars

(* Batches: what was published is in the result, once; a batch without an error *)
(* has made every video; only an error that is no raw copy stops it; raw copies *)
(* stand for videos ffmpeg could not make, not for cards that cannot be read.   *)
Batches ==
    /\ Batch!TypeOK /\ Batch!PublishedIsReported /\ Batch!SuccessIsWhole
    /\ Batch!GoesOn /\ Batch!FallbackIsForProcessing

(* The window: sources are open exactly while they are held or used, the list   *)
(* is of the selected card, and an export or deletion keeps both.             *)
WindowTrue ==
    /\ [](Window!TypeOK /\ Window!SourcesOpen /\ Window!ListOfSelected)
    /\ Window!UndisturbedWork

(* A batch ends, and the recordings of a card that was pulled out leave the     *)
(* display.                                                                   *)
Ends == <>(part = "batch" => returned) /\ Window!PulledLeaves
=============================================================================
