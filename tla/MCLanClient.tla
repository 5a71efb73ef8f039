----------------------------- MODULE MCLanClient -----------------------------
(***************************************************************************)
(* One call of the LAN client: a download from a device that keeps its word   *)
(* or from one that does not, a deletion on a device that keeps the contract   *)
(* or answers anything, or a listing.  Init chooses the call; the variables    *)
(* of the other calls stay at their first values.                             *)
(***************************************************************************)
EXTENDS Naturals, Sequences, FiniteSets

CONSTANTS
    MaxAttempts, MaxWait, Asks,
    Size, OtherSizes, MaxChanges,
    Recordings, MaxBatch, Gone, None,
    Catalogued, Pending, Noted, Started, PageSize

VARIABLES
    call,
    step, exists, mine, bytes, resp, failed, slept, notBefore, serving, changes,
    pc, catalog, shown, requested, cache, body, attempt, waited, answered,
    result, removed,
    at, device, good, tried, cursor, revision, sessions, unresolved, unusable,
    snapshots

Download == INSTANCE ArtifactDownload WITH
    Lies <- FALSE, Verify <- FALSE, pc <- step, attempt <- failed, waited <- slept
Deceived == INSTANCE ArtifactDownload WITH
    Lies <- TRUE, Verify <- TRUE, pc <- step, attempt <- failed, waited <- slept
Delete == INSTANCE RemoteDelete WITH Sessions <- Recordings, Faulty <- FALSE
Answered == INSTANCE RemoteDelete WITH Sessions <- Recordings, Faulty <- TRUE
List == INSTANCE CatalogPages WITH
    Sessions <- Catalogued, Paged <- TRUE, catalog <- device, pc <- at,
    attempt <- tried

ASSUME MCLanClientAssumption ==
    /\ Download!RetryConstants /\ Delete!RetryConstants
    /\ Download!DownloadConstants /\ Deceived!DownloadConstants
    /\ Delete!DeleteConstants /\ Answered!DeleteConstants
    /\ List!CatalogConstants

downloadVars == <<step, exists, mine, bytes, resp, failed, slept, notBefore,
                  serving, changes>>
deleteVars == <<pc, catalog, shown, requested, cache, body, attempt, waited,
                answered, result, removed>>
listVars == <<at, device, good, tried, cursor, revision, sessions,
              unresolved, unusable, snapshots>>
vars == <<call, downloadVars, deleteVars, listVars>>

Init ==
    /\ call \in {"download", "deceived", "delete", "answered", "list"}
    /\ call \notin {"download", "deceived"} => exists = FALSE
    /\ call \notin {"delete", "answered"} =>
           /\ catalog = [s \in Recordings |-> Gone] /\ cache = None
           /\ shown = [s \in Recordings |-> 0] /\ requested = {}
    /\ call # "list" => device = {} /\ good = {}
    /\ Download!Init /\ Delete!Init /\ List!Init

OnlyDownload == UNCHANGED <<call, deleteVars, listVars>>
OnlyDelete == UNCHANGED <<call, downloadVars, listVars>>
OnlyList == UNCHANGED <<call, downloadVars, deleteVars>>

Client ==
    \/ call = "download" /\ Download!Client /\ OnlyDownload
    \/ call = "deceived" /\ Deceived!Client /\ OnlyDownload
    \/ call = "list" /\ List!Client /\ OnlyList

Next ==
    \/ Client
    \/ call = "download" /\ Download!Change /\ OnlyDownload
    \/ call = "deceived" /\ Deceived!Change /\ OnlyDownload
    \/ call = "list" /\ OnlyList /\ \E c \in SUBSET Catalogued : List!Change(c)
    \/ call = "delete" /\ Delete!Next /\ OnlyDelete
    \/ call = "answered" /\ Answered!Next /\ OnlyDelete

Spec == Init /\ [][Next]_vars
FairSpec == Spec /\ WF_vars(Client)

(* For the run: the time of one recording cannot be read, the others agree. *)
OneUnreadable == [s \in Catalogued |-> IF s = 2 THEN 0 ELSE 1]

-----------------------------------------------------------------------------
(* Downloads: the bytes kept over a cut connection and those added by the     *)
(* next attempt are of the version the manifest names; a download that returns *)
(* leaves the whole artifact, one that fails leaves no file of its own, and   *)
(* neither touches one that was there before.  Where the device lies, this is  *)
(* so if the digest is verified.                                              *)
Downloads ==
    /\ Download!TypeOK
    /\ call = "download" => Download!OneVersion /\ Download!Settled
    /\ call = "deceived" => Deceived!Settled

(* No request is sent before the time the device has asked for, and all waits *)
(* of a call together stay within the budget.                                 *)
Patient == Download!NeverEarly /\ Download!InBudget

(* Deletions: what is reported is what was done, however often an answer was   *)
(* lost and the request repeated; a result accounts for every selected         *)
(* recording once, whatever the device answers; no recording that was removed  *)
(* is listed from the cache.  What the device removes was selected and has the *)
(* content that was on the screen when it was confirmed.                      *)
Deletions ==
    /\ [](/\ Delete!TypeOK /\ Delete!Accounted /\ Delete!CacheFresh
          /\ call = "delete" => Delete!ReportTrue)
    /\ Delete!OnlyConfirmed

(* Listings: what is returned is the whole catalog of the device at one moment *)
(* of the call, each recording once, in the device's order or, when the time of *)
(* one is in doubt, the latest first; one that the catalog did not verify is    *)
(* exportable only after its own manifest has been read and found right.        *)
Listings == List!TypeOK /\ List!Snapshot /\ List!Resolved

(* Downloads and listings end, whatever the device does. *)
Ends == <>(\/ call \in {"delete", "answered"}
           \/ call \in {"download", "deceived"} /\ step \in {"done", "failed"}
           \/ call = "list" /\ at \in {"done", "error"})
=============================================================================
