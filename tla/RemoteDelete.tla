---------------------------- MODULE RemoteDelete ----------------------------
(***************************************************************************)
(* Deleting recordings from a device over the network                       *)
(* (OpenAriaSDK.delete_sessions in client.py and                            *)
(* DeviceApiClient.delete_sessions in _lan.py).  A request may get lost, and *)
(* so may its answer after the device has deleted; the retry repeats the     *)
(* idempotency key, and the device (external) answers a key it knows with    *)
(* the answer it gave.  A manifest is a version, 0 when the catalog has no   *)
(* digest for the recording; Gone is a recording that is not there.          *)
(***************************************************************************)
EXTENDS RetryPolicy, FiniteSets, Sequences, SequencesExt

CONSTANTS
    Sessions,
    MaxBatch,   \* 200 in the code
    Asks,       \* the Retry-After delays of the device
    Faulty,     \* the device may answer with any lists of recordings
    Gone, None

Versions == 0..2
Manifests == Versions \cup {Gone}
Answers == [deleted : SeqOf(Sessions, Cardinality(Sessions)),
            failed : SeqOf(Sessions, Cardinality(Sessions))]

DeleteConstants ==
    /\ IsFiniteSet(Sessions) /\ MaxBatch \in Nat \ {0} /\ Asks \subseteq Nat
    /\ Faulty \in BOOLEAN /\ Gone \notin Versions
    /\ None \notin [Sessions -> Manifests] \cup Answers

VARIABLES
    catalog,    \* what the device has
    shown,      \* what the user confirmed: the manifests on the screen
    requested,
    cache,      \* the SDK's list of this source
    pc,
    body,       \* the manifests in the request
    attempt, waited,
    answered,   \* the device's answers by idempotency key
    result,
    removed     \* history: what the device has removed for this call

vars == <<catalog, shown, requested, cache, pc, body, attempt, waited,
          answered, result, removed>>
retry == <<attempt, waited>>
call == <<shown, requested>>

Listed(c) == {s \in Sessions : c[s] # Gone}

Init ==
    /\ catalog \in [Sessions -> Manifests]
    /\ shown \in [Sessions -> Versions]
    /\ requested \in SUBSET Sessions
    /\ cache \in {None} \cup [Sessions -> Manifests]
    /\ pc = "list" /\ body = None /\ attempt = 0 /\ waited = 0
    /\ answered = [k \in 1..MaxAttempts |-> None]
    /\ result = None /\ removed = {}

(* list_sessions without refresh. *)
List ==
    /\ pc = "list"
    /\ IF requested = {} THEN pc' = "refused" /\ UNCHANGED cache
       ELSE pc' = "check" /\ cache' = IF cache = None THEN catalog ELSE cache
    /\ UNCHANGED <<catalog, call, body, retry, answered, result, removed>>

(* Every recording is still listed with the manifest that was confirmed. *)
AsShown ==
    /\ requested \subseteq Listed(cache)
    /\ \A s \in requested : cache[s] = shown[s]

Deletable ==
    /\ Cardinality(requested) <= MaxBatch
    /\ \A s \in requested : cache[s] # 0

Check ==
    /\ pc = "check"
    /\ \/ ~AsShown /\ pc' = "refused" /\ UNCHANGED <<cache, body>>
       \/ AsShown /\ ~Deletable
          /\ pc' = "refused" /\ cache' = None /\ UNCHANGED body
       \/ AsShown /\ Deletable
          /\ pc' = "ask" /\ body' = cache /\ UNCHANGED cache
    /\ UNCHANGED <<catalog, call, retry, answered, result, removed>>

(* The idempotency key of the next request: one for the whole call. *)
KeyPerAttempt == attempt + 1
Key == 1

(* The device removes the recordings it can, unless it knows the key. *)
Removable == {s \in requested : catalog[s] = body[s]}
Handle(gone) ==
    LET fresh == [deleted |-> SetToSeq(gone),
                  failed |-> SetToSeq(requested \ gone)] IN
    /\ IF answered[Key] = None
       THEN /\ gone \subseteq Removable
            /\ answered' = [answered EXCEPT ![Key] = fresh]
            /\ removed' = removed \cup gone
            /\ catalog' = [s \in Sessions |->
                              IF s \in gone THEN Gone ELSE catalog[s]]
       ELSE gone = {} /\ UNCHANGED <<answered, removed, catalog>>

(* The end of the call, by return or by raise, drops the cached list. *)
End(outcome) == pc' = outcome /\ cache' = None

Again(asked) ==
    \/ /\ MayRetry(attempt, waited, asked)
       /\ attempt' = attempt + 1 /\ waited' = waited + Delay(attempt, asked)
       /\ UNCHANGED <<pc, cache>>
    \/ /\ ~MayRetry(attempt, waited, asked)
       /\ End("raised")
       /\ UNCHANGED retry

(* The request does not arrive, or is put off. *)
LoseRequest(asked) ==
    /\ pc = "ask"
    /\ Again(asked)
    /\ UNCHANGED <<catalog, call, body, answered, result, removed>>

(* The device has done it, its answer is lost. *)
LoseAnswer(gone) ==
    /\ pc = "ask"
    /\ Handle(gone)
    /\ Again(0)
    /\ UNCHANGED <<call, body, result>>

(* Any other status. *)
Reject ==
    /\ pc = "ask"
    /\ End("raised")
    /\ UNCHANGED <<catalog, call, body, retry, answered, result, removed>>

(* Every requested recording once, in one of the lists, and no other. *)
Sound(r) ==
    /\ IsInjective(r.deleted \o r.failed)
    /\ Range(r.deleted \o r.failed) = requested

Receive(r) ==
    /\ IF Sound(r) THEN End("done") /\ result' = r
       ELSE End("raised") /\ UNCHANGED result
    /\ UNCHANGED <<call, body, retry>>

Answer(gone) ==
    /\ pc = "ask"
    /\ Handle(gone)
    /\ Receive(answered'[Key])

(* A device that breaks the contract of the answer. *)
AnswerAnything(gone, r) ==
    /\ Faulty /\ pc = "ask"
    /\ Handle(gone)
    /\ Receive(r)

(* Somebody else deletes or changes a recording. *)
Elsewhere(s, m) ==
    /\ pc \in {"check", "ask"} /\ catalog[s] # m
    /\ catalog' = [catalog EXCEPT ![s] = m]
    /\ UNCHANGED <<call, cache, pc, body, retry, answered, result, removed>>

Next ==
    \/ List \/ Check \/ Reject
    \/ \E asked \in Asks \cup {0} : LoseRequest(asked)
    \/ \E gone \in SUBSET requested : LoseAnswer(gone) \/ Answer(gone)
    \/ \E gone \in SUBSET requested, r \in Answers : AnswerAnything(gone, r)
    \/ \E s \in Sessions, m \in {2, Gone} : Elsewhere(s, m)

Spec == Init /\ [][Next]_vars

-----------------------------------------------------------------------------
TypeOK ==
    /\ catalog \in [Sessions -> Manifests] /\ shown \in [Sessions -> Versions]
    /\ cache \in {None} \cup [Sessions -> Manifests]
    /\ pc \in {"list", "check", "ask", "refused", "done", "raised"}
    /\ attempt \in Attempts /\ waited \in 0..MaxWait
    /\ removed \subseteq Sessions

(* A recording that the device removes for this call was selected and has    *)
(* the content that was on the screen when the deletion was confirmed.       *)
OnlyConfirmed ==
    [][\A s \in removed' \ removed : s \in requested /\ catalog[s] = shown[s]]_vars

(* What a deletion reports is what it did, however often its answer was lost *)
(* and the request repeated.                                                 *)
ReportTrue ==
    pc = "done" => /\ Range(result.deleted) = removed
                   /\ Range(result.failed) = requested \ removed

(* A result accounts for every selected recording once, whatever the device  *)
(* answers.                                                                  *)
Accounted ==
    pc = "done" => /\ Range(result.deleted) \cup Range(result.failed) = requested
                   /\ Range(result.deleted) \cap Range(result.failed) = {}

(* However the call ends, no recording it removed is listed from the cache.  *)
CacheFresh == pc \in {"done", "raised", "refused"} /\ cache # None =>
    \A s \in removed : cache[s] = Gone
=============================================================================
