---------------------------- MODULE DesktopBatch -----------------------------
(***************************************************************************)
(* A batch of recordings exported by the desktop application (ExportBatch in *)
(* src/desktop/exporter/internal/core/batch.go, with the error handling of   *)
(* Export and exportOnce).  One or two encoders take recordings in order; a  *)
(* video that cannot be made is replaced by a raw copy and the batch goes    *)
(* on, any other error cancels it.  They share one source: a failed read, be *)
(* it of another encoder or of the prefetcher, is kept (StreamCache!err).    *)
(* What an export does in its directory is the subject of DesktopOutput.     *)
(***************************************************************************)
EXTENDS Naturals, Sequences, FiniteSets

CONSTANTS
    Count,          \* the recordings, in the order of the list
    Workers, None

Recordings == 1..Count

BatchConstants == Count \in Nat \ {0} /\ Workers # {} /\ None \notin Workers

VARIABLES
    next,           \* the first recording not taken yet
    pc, job,        \* per encoder, what it is at and its recording
    cancelled,      \* is the context done?
    byUser,         \* was it the user?
    broken,         \* has a read of the source failed?
    disk,           \* per recording, "none", "video" or "raw"
    why,            \* history: what kept ffmpeg from making the video
    first,          \* the errors joined so far
    results,        \* which recordings have a path in the result
    completed,      \* calls of complete, in order
    returned

vars == <<next, pc, job, cancelled, byUser, broken, disk, why, first, results,
          completed, returned>>

Init ==
    /\ next = 1 /\ pc = [w \in Workers |-> "take"] /\ job = [w \in Workers |-> 0]
    /\ cancelled \in BOOLEAN /\ byUser = cancelled /\ broken = FALSE
    /\ disk = [i \in Recordings |-> "none"]
    /\ why = [i \in Recordings |-> "none"] /\ first = {}
    /\ results = {} /\ completed = <<>> /\ returned = FALSE

Goes(w, step) == pc' = [pc EXCEPT ![w] = step]
Because(w, reason) == why' = [why EXCEPT ![job[w]] = reason]
Gone == {w \in Workers : pc[w] = "gone"}

More == next <= Count /\ ~cancelled

(* Under the lock of the batch. *)
Take(w) ==
    /\ pc[w] = "take"
    /\ IF More
       THEN /\ job' = [job EXCEPT ![w] = next] /\ next' = next + 1
            /\ Goes(w, "render")
       ELSE Goes(w, "gone") /\ UNCHANGED <<job, next>>
    /\ UNCHANGED <<cancelled, byUser, broken, disk, why, first, results, completed,
                   returned>>

(* The export goes wrong for a reason of its own: a target that is there, no   *)
(* space, the disk, or the context that is done.                               *)
Breaks(w) ==
    /\ pc[w] \in {"render", "copy", "publish", "raw", "publishRaw"}
    /\ Goes(w, IF cancelled THEN "stopped" ELSE "failed")
    /\ UNCHANGED <<next, job, cancelled, byUser, broken, disk, why, first, results,
                   completed, returned>>

(* A read of the source fails: ffmpeg's, the copy's, or one read ahead.        *)
ReadFails(w) ==
    /\ pc[w] \in {"render", "copy", "raw"} /\ broken' = TRUE
    /\ IF pc[w] = "render" THEN Goes(w, "judge") /\ Because(w, "source")
                           ELSE Goes(w, "failed") /\ UNCHANGED why
    /\ UNCHANGED <<next, job, cancelled, byUser, disk, first, results, completed,
                   returned>>

PrefetchFails ==
    /\ ~returned /\ Gone # Workers
    /\ ~broken /\ broken' = TRUE
    /\ UNCHANGED <<next, pc, job, cancelled, byUser, disk, why, first, results,
                   completed, returned>>

(* ffmpeg cannot make the video. *)
EncoderFails(w) ==
    /\ pc[w] = "render" /\ Goes(w, "judge")
    /\ Because(w, IF cancelled THEN "cancelled" ELSE "encoder")
    /\ UNCHANGED <<next, job, cancelled, byUser, broken, disk, first, results,
                   completed, returned>>

(* Cancelled, the source, or else the processing, in this order. *)
Judge(w) ==
    /\ pc[w] = "judge"
    /\ Goes(w, IF cancelled THEN "stopped"
               ELSE IF broken THEN "failed" ELSE "unprocessed")
    /\ UNCHANGED <<next, job, cancelled, byUser, broken, disk, why, first, results,
                   completed, returned>>

FallBack(w) ==
    /\ pc[w] = "unprocessed" /\ Goes(w, IF cancelled THEN "stopped" ELSE "raw")
    /\ UNCHANGED <<next, job, cancelled, byUser, broken, disk, why, first, results,
                   completed, returned>>

(* The video is there, then the originals; the last look at the context comes *)
(* before the rename.                                                         *)
Advance(w) ==
    /\ \/ pc[w] = "render" /\ Goes(w, "copy")
       \/ pc[w] = "copy" /\ ~cancelled /\ Goes(w, "publish")
       \/ pc[w] = "raw" /\ ~cancelled /\ Goes(w, "publishRaw")
    /\ UNCHANGED <<next, job, cancelled, byUser, broken, disk, why, first, results,
                   completed, returned>>

Publish(w) ==
    /\ \/ pc[w] = "publish" /\ disk' = [disk EXCEPT ![job[w]] = "video"]
       \/ pc[w] = "publishRaw" /\ disk' = [disk EXCEPT ![job[w]] = "raw"]
    /\ Goes(w, "report")
    /\ UNCHANGED <<next, job, cancelled, byUser, broken, why, first, results,
                   completed, returned>>

Reported(w) == IF pc[w] = "report" THEN results \cup {job[w]} ELSE results

Fatal(w) == pc[w] \in {"failed", "stopped"}

(* Wrong: a video that is ready after the cancellation is not told. *)
CompletesUntilCancelled(w) ==
    pc[w] = "report" /\ disk[job[w]] = "video" /\ ~cancelled

Completes(w) == pc[w] = "report" /\ disk[job[w]] = "video"

(* Under the lock: the error joins the others, a raw copy is a result with an *)
(* error, a video is completed.                                               *)
Report(w) ==
    /\ pc[w] \in {"report", "failed", "stopped"} /\ Goes(w, "take")
    /\ results' = Reported(w)
    /\ first' = first \cup (IF Fatal(w) THEN {pc[w]}
                            ELSE IF disk[job[w]] = "raw" THEN {"raw"} ELSE {})
    /\ cancelled' = (cancelled \/ Fatal(w))
    /\ completed' = IF Completes(w) THEN Append(completed, job[w]) ELSE completed
    /\ UNCHANGED <<next, job, byUser, broken, disk, why, returned>>

(* The user's cancellation. *)
Cancel ==
    /\ ~cancelled /\ ~returned /\ cancelled' = TRUE /\ byUser' = TRUE
    /\ UNCHANGED <<next, pc, job, broken, disk, why, first, results, completed, returned>>

Return ==
    /\ ~returned /\ Gone = Workers /\ returned' = TRUE
    /\ first' = IF first = {} /\ cancelled THEN {"stopped"} ELSE first
    /\ UNCHANGED <<next, pc, job, cancelled, byUser, broken, disk, why, results, completed>>

Run(w) ==
    \/ Take(w) \/ Breaks(w) \/ ReadFails(w) \/ EncoderFails(w) \/ Judge(w)
    \/ FallBack(w) \/ Advance(w) \/ Publish(w) \/ Report(w)

Next == (\E w \in Workers : Run(w)) \/ PrefetchFails \/ Cancel \/ Return

Spec == Init /\ [][Next]_vars
FairSpec == Spec /\ WF_vars(Return) /\ \A w \in Workers : WF_vars(Run(w))

-----------------------------------------------------------------------------
TypeOK ==
    /\ next \in 1..(Count + 1) /\ job \in [Workers -> 0..Count]
    /\ pc \in [Workers -> {"take", "render", "judge", "unprocessed", "copy", "publish",
                           "raw", "publishRaw", "report", "failed", "stopped", "gone"}]
    /\ cancelled \in BOOLEAN /\ byUser \in BOOLEAN /\ broken \in BOOLEAN
    /\ disk \in [Recordings -> {"none", "video", "raw"}]
    /\ first \subseteq {"raw", "failed", "stopped"}
    /\ results \subseteq Recordings /\ completed \in Seq(Recordings)
    /\ why \in [Recordings -> {"none", "source", "encoder", "cancelled"}]
    /\ returned \in BOOLEAN

Videos == {i \in Recordings : disk[i] = "video"}
Ended(i) == i < next /\ \A w \in Workers : job[w] = i => pc[w] \in {"take", "gone"}

(* "completed items are kept" (README.md:29): what was published before or    *)
(* while the batch was cancelled is in the result, and a video is completed,  *)
(* once, so that it gets its mark (batch.go:86-89, history.go:112).           *)
PublishedIsReported ==
    \A i \in Recordings : Ended(i) =>
        /\ disk[i] # "none" <=> i \in results
        /\ Cardinality({k \in 1..Len(completed) : completed[k] = i})
              = IF disk[i] = "video" THEN 1 ELSE 0

(* A batch that ends without an error has made every video.                   *)
SuccessIsWhole == returned /\ first = {} => Videos = Recordings

(* "a batch goes on with the following items" (README.md:40): only an error   *)
(* that is no raw copy, or the user, keeps a recording from being tried.      *)
GoesOn ==
    returned /\ ~byUser /\ first \cap {"failed", "stopped"} = {} =>
        \A i \in Recordings : disk[i] # "none"

(* "Cancelling, failed reads of the source ... do not lead to a raw copy"      *)
(* (README.md:41): every raw copy stands for a video that ffmpeg could not    *)
(* make from a source that could be read, in a batch nobody had cancelled.    *)
FallbackIsForProcessing ==
    \A i \in Recordings : disk[i] = "raw" => why[i] = "encoder"

(* The batch ends: an encoder that waits is waited for, none waits for ever.  *)
Ends == <>returned
=============================================================================
