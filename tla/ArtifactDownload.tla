-------------------------- MODULE ArtifactDownload --------------------------
(***************************************************************************)
(* Downloading one artifact of a session from a device                      *)
(* (DeviceApiClient._download_artifact in _lan.py): up to MaxAttempts       *)
(* requests that append to one file, each going on where the last one was   *)
(* cut off.  The device is modelled by the answers the client can get: it   *)
(* may ignore Range, be busy, be cut off anywhere, change its data between   *)
(* two requests and, when Lies, send other bytes under the wanted digest.    *)
(* The bytes of a file are represented by the version they come from.        *)
(***************************************************************************)
EXTENDS RetryPolicy, Sequences

CONSTANTS
    Size,       \* size_bytes of the manifest
    OtherSizes, \* sizes of the versions that are not the manifest's
    Asks,       \* the Retry-After delays of the device
    Lies,       \* the device may send bytes that are not of the ETag it sends
    Verify,     \* the caller's verify argument
    MaxChanges  \* bound on changes of the device's data

DownloadConstants ==
    /\ Size \in Nat /\ OtherSizes \subseteq Nat /\ Asks \subseteq Nat
    /\ Lies \in BOOLEAN /\ Verify \in BOOLEAN /\ MaxChanges \in Nat

Versions == {"good", "other"}
NoResponse == [status |-> 0, from |-> 0, body |-> <<>>, etag |-> "good"]

VARIABLES
    pc,
    exists, mine,   \* the target: there, and created by this call
    bytes,          \* its content: the version of every byte
    resp,           \* the response being read
    attempt,        \* attempts that have failed
    waited,         \* slept so far
    notBefore,      \* when the device has asked to be asked again
    serving,        \* what the device has now: its bytes
    changes

file == <<exists, mine, bytes>>
retry == <<attempt, waited, notBefore>>
device == <<serving, changes>>
vars == <<pc, exists, mine, bytes, resp, attempt, waited, notBefore, serving,
          changes>>

Run(v, n) == [i \in 1..n |-> v]
Good == Run("good", Size)
VersionOf(body) == IF body = Good THEN "good" ELSE "other"

Init ==
    /\ pc = "create" /\ mine = FALSE /\ resp = NoResponse
    /\ exists \in BOOLEAN
    /\ bytes = IF exists THEN <<"other">> ELSE <<>>
    /\ attempt = 0 /\ waited = 0 /\ notBefore = 0
    /\ serving = Good /\ changes = 0

(* destination.open("xb") *)
Create ==
    /\ pc = "create"
    /\ IF exists THEN pc' = "failed" /\ UNCHANGED file
       ELSE pc' = "ask" /\ exists' = TRUE /\ mine' = TRUE /\ UNCHANGED bytes
    /\ UNCHANGED <<resp, retry, device>>

(* The file's unlink in the handler of every exception. *)
Give == pc' = "failed" /\ exists' = FALSE /\ UNCHANGED <<mine, bytes>>

(* Wrong: only single delays are compared with the budget. *)
RetryLong(asked) ==
    IF MayRetry(attempt, 0, asked)
    THEN /\ pc' = "ask"
         /\ attempt' = attempt + 1
         /\ waited' = waited + Delay(attempt, asked)
         /\ notBefore' = waited + asked
         /\ UNCHANGED file
    ELSE Give /\ UNCHANGED retry

(* _retry_request once an attempt has failed with a retryable error. *)
Retry(asked) ==
    IF MayRetry(attempt, waited, asked)
    THEN /\ pc' = "ask"
         /\ attempt' = attempt + 1
         /\ waited' = waited + Delay(attempt, asked)
         /\ notBefore' = waited + asked
         /\ UNCHANGED file
    ELSE Give /\ UNCHANGED retry

-----------------------------------------------------------------------------
(* The answers to a request from offset n.  A device that honours Range and *)
(* If-Range sends the rest only of the version the client wants.            *)
Whole(body) == [status |-> 200, from |-> 0, body |-> body,
                etag |-> VersionOf(body)]
Rest(n, body) == [status |-> 206, from |-> n,
                  body |-> SubSeq(body, n + 1, Len(body)),
                  etag |-> VersionOf(body)]
Deceptions(n) ==
    IF ~Lies THEN {}
    ELSE {[r EXCEPT !.etag = "good"] :
             r \in {Whole(serving), Rest(n, serving), Rest(0, serving)}}

Answers(n) ==
    {Whole(serving)} \cup Deceptions(n)
        \cup (IF n > 0 /\ serving = Good THEN {Rest(n, serving)} ELSE {})

(* The last attempt was cut off after the last byte. *)
AlreadyThere ==
    /\ pc = "ask" /\ Len(bytes) = Size /\ Size > 0
    /\ pc' = "got"
    /\ UNCHANGED <<file, resp, retry, device>>

Asking == pc = "ask" /\ (Len(bytes) # Size \/ Size = 0)

(* A retryable status with its delay, or no connection (asked = 0). *)
Refused(asked) ==
    /\ Asking
    /\ Retry(asked)
    /\ UNCHANGED <<resp, device>>

(* Any other status, or a header that is repeated or malformed. *)
Rejected ==
    /\ Asking
    /\ Give
    /\ UNCHANGED <<resp, retry, device>>

(* Wrong: the ETag of an answer that starts at the right place is not read. *)
AcceptAnyETag(r) ==
    LET n == IF r.status = 206 THEN Len(bytes) ELSE 0 IN
    IF (r.status = 206 => n > 0 /\ r.from = n) /\ n + Len(r.body) = Size
    THEN /\ pc' = "read" /\ resp' = r
         /\ bytes' = SubSeq(bytes, 1, n)
         /\ UNCHANGED <<exists, mine>>
    ELSE Give /\ UNCHANGED resp

(* The status and the range decide what is kept, and only then the length,  *)
(* the ETag and the media type are looked at.                               *)
Accept(r) ==
    LET n == IF r.status = 206 THEN Len(bytes) ELSE 0 IN
    IF /\ r.status = 206 => n > 0 /\ r.from = n
       /\ n + Len(r.body) = Size
       /\ r.etag = "good"
    THEN /\ pc' = "read" /\ resp' = r
         /\ bytes' = SubSeq(bytes, 1, n)
         /\ UNCHANGED <<exists, mine>>
    ELSE Give /\ UNCHANGED resp

Answered(r) ==
    /\ Asking
    /\ Accept(r)
    /\ UNCHANGED <<retry, device>>

(* One chunk of the body; the HTTP library never reads past Content-Length,  *)
(* so the artifact cannot grow beyond its size here.                         *)
Chunk ==
    /\ pc = "read" /\ resp.body # <<>>
    /\ bytes' = Append(bytes, Head(resp.body))
    /\ resp' = [resp EXCEPT !.body = Tail(@)]
    /\ UNCHANGED <<pc, exists, mine, retry, device>>

(* The connection fails, or ends early, at any point of the body: also after *)
(* its last byte, before the client has seen the end.                        *)
Cut ==
    /\ pc = "read"
    /\ Retry(0)
    /\ UNCHANGED <<resp, device>>

Finish ==
    /\ pc = "read" /\ resp.body = <<>> /\ Len(bytes) = Size
    /\ pc' = "got"
    /\ UNCHANGED <<file, resp, retry, device>>

(* The digest of the closed file, unless the caller checks it itself. *)
Close ==
    /\ pc = "got"
    /\ IF Verify => bytes = Good THEN pc' = "done" /\ UNCHANGED file ELSE Give
    /\ UNCHANGED <<resp, retry, device>>

(* The file cannot be written. *)
DiskFails ==
    /\ pc \in {"read", "got"}
    /\ Give
    /\ UNCHANGED <<resp, retry, device>>

(* The device's data changes between two requests. *)
Change ==
    /\ changes < MaxChanges
    /\ serving' \in {Good} \cup {Run("other", n) : n \in OtherSizes}
    /\ changes' = changes + 1
    /\ UNCHANGED <<pc, file, resp, retry>>

Client ==
    \/ Create \/ AlreadyThere \/ Rejected
    \/ \E asked \in Asks \cup {0} : Refused(asked)
    \/ \E r \in Answers(Len(bytes)) : Answered(r)
    \/ Chunk \/ Cut \/ Finish \/ Close \/ DiskFails

Next == Client \/ Change

Spec == Init /\ [][Next]_vars

(* Every socket operation has a timeout, so a request always ends. *)
FairSpec == Spec /\ WF_vars(Client)

-----------------------------------------------------------------------------
TypeOK ==
    /\ pc \in {"create", "ask", "read", "got", "done", "failed"}
    /\ exists \in BOOLEAN /\ mine \in BOOLEAN
    /\ bytes \in Seq(Versions) /\ attempt \in Attempts
    /\ waited \in Nat /\ notBefore \in Nat /\ changes \in 0..MaxChanges

(* The bytes kept over a cut connection and those added by the next attempt *)
(* are always of the version the manifest names, however the device's data  *)
(* changes in between: the file is a prefix of it, without any digest.      *)
OneVersion ==
    mine /\ exists => Len(bytes) <= Size /\ bytes = Run("good", Len(bytes))

(* A call that returns leaves the whole artifact; one that fails leaves no   *)
(* file of its own, and never touches a file that was there before it.       *)
Settled ==
    /\ pc = "done" => exists /\ bytes = Good
    /\ pc = "failed" => exists = ~mine
    /\ ~mine /\ pc # "create" => bytes = <<"other">>

(* No request is sent before the time the device has asked for. *)
NeverEarly == waited >= notBefore

(* All waits of a call together stay within the budget. *)
InBudget == waited <= MaxWait

(* Whatever the device does, the call ends. *)
Ends == <>(pc \in {"done", "failed"})

(* docs/workflow-stability.md: "A retry downloads the affected response from *)
(* the beginning; it does not resume unverified partial content."  The code    *)
(* does resume (README, 4).                                                   *)
FromTheBeginning ==
    [][pc = "ask" /\ pc' = "read" => resp'.from = 0]_vars
=============================================================================
