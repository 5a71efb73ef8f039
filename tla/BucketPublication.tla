------------------------- MODULE BucketPublication --------------------------
(***************************************************************************)
(* Publishing one session to an S3-compatible bucket (src/main.py, upload   *)
(* and _upload_versioned_bucket_publication): any number of publisher       *)
(* processes, a lease object with a staleness threshold, objects first and  *)
(* publication.json last.                                                   *)
(*                                                                         *)
(* Every step is one request to the store.  A request may fail, take effect *)
(* although its answer is lost, or be the last thing a process does.        *)
(*                                                                         *)
(* ContentKeys tells the two layouts apart: Device Session v1..v4 store an  *)
(* object under its digest; older sessions under an id of its path.         *)
(***************************************************************************)
EXTENDS Naturals

CONSTANTS
    Publishers,     \* processes that upload this session
    Items,          \* the objects of a publication (source files, videos, log)
    Contents,       \* what an object may hold, by digest
    Publications,   \* publications: which content each item has
    Generations,    \* lease generations: the ETag of one lease object
    ContentKeys,    \* are objects keyed by their digest?
    LongPauses,     \* may a publisher sleep past the stale threshold?
    MaxFaults,      \* bound on failed and lost requests and on crashes
    None

ASSUME BucketAssumption ==
    /\ Publications \subseteq [Items -> Contents]
    /\ ContentKeys \in BOOLEAN /\ LongPauses \in BOOLEAN
    /\ MaxFaults \in Nat
    /\ None \notin Contents \cup Publications \cup Generations

Keys == IF ContentKeys THEN Contents ELSE Items
Key(i, c) == IF ContentKeys THEN c ELSE i

VARIABLES
    lease,      \* generation of the object publication.lock, or None
    old,        \* generations older than the stale threshold
    store,      \* the content under each key, or None
    manifest,   \* the publication that publication.json describes, or None
    pc,         \* the next request of each publisher
    want,       \* the publication each publisher has staged
    held,       \* the lease generation it was answered, or None
    seen,       \* the generation head_object showed it, or None
    todo,       \* items it still has to compare
    wrong,      \* items that did not match and are not uploaded yet
    faults,
    reported    \* publishers whose last upload returned its keys

vars == <<lease, old, store, manifest, pc, want, held, seen, todo, wrong,
          faults, reported>>

Acquiring == {"probe", "lease", "head", "expired", "again"}
Holding == {"match", "hide", "upload", "commit", "release", "cleanup"}
Phases == {"idle"} \cup Acquiring \cup Holding

Holds(m, i) == store[Key(i, m[i])] = m[i]
Complete(m) == \A i \in Items : Holds(m, i)

Init ==
    /\ lease = None /\ old = {} /\ manifest = None
    /\ store = [k \in Keys |-> None]
    /\ pc = [p \in Publishers |-> "idle"]
    /\ want \in [Publishers -> Publications]
    /\ held = [p \in Publishers |-> None]
    /\ seen = [p \in Publishers |-> None]
    /\ todo = [p \in Publishers |-> {}]
    /\ wrong = [p \in Publishers |-> {}]
    /\ faults = 0 /\ reported = {}

(* An exception while the lease is held runs the finally clause. *)
OnError(phase) ==
    IF phase \in Holding \ {"release", "cleanup"} THEN "cleanup" ELSE "idle"

(* A request that took effect: its answer arrives, or is lost. *)
Answer(p, from, to) ==
    /\ pc[p] = from
    /\ \/ pc' = [pc EXCEPT ![p] = to] /\ UNCHANGED faults
       \/ /\ faults < MaxFaults /\ faults' = faults + 1
          /\ pc' = [pc EXCEPT ![p] = OnError(from)]

(* A step that changes nothing in the bucket. *)
Quietly == UNCHANGED <<lease, old, store, manifest>>

-----------------------------------------------------------------------------
(* upload: stage the session locally, before any remote lease.              *)

Begin(p) ==
    /\ pc[p] = "idle"
    /\ pc' = [pc EXCEPT ![p] = "probe"]
    /\ \E m \in Publications : want' = [want EXCEPT ![p] = m]
    /\ todo' = [todo EXCEPT ![p] = Items]
    /\ wrong' = [wrong EXCEPT ![p] = {}]
    /\ reported' = reported \ {p}
    /\ Quietly /\ UNCHANGED <<held, seen, faults>>

-----------------------------------------------------------------------------
(* _acquire_publication_lease                                              *)

(* The store proves that it honours IfNoneMatch and IfMatch, on an object   *)
(* with a random name that nobody else looks at.                           *)
Probe(p) ==
    /\ pc[p] = "probe"
    /\ pc' = [pc EXCEPT ![p] = "lease"]
    /\ Quietly /\ UNCHANGED <<want, held, seen, todo, wrong, faults, reported>>

(* The lease body holds a fresh uuid, so its ETag is one nobody knows. *)
Fresh == Generations \ ({lease} \cup {held[q] : q \in Publishers}
                                 \cup {seen[q] : q \in Publishers})

(* Wrong: the lease is put without IfNoneMatch. *)
CreateAnyway(p, from) ==
    /\ \E g \in Fresh :
         /\ lease' = g /\ old' = old \ {g}
         /\ Answer(p, from, "match")
         /\ held' = [held EXCEPT ![p] = IF pc'[p] = "match" THEN g ELSE None]
    /\ seen' = [seen EXCEPT ![p] = None]
    /\ UNCHANGED <<store, manifest, want, todo, wrong, reported>>

(* put_object with IfNoneMatch="*".  When the answer is lost the lease is   *)
(* there and nobody holds it.                                              *)
CreateLease(p, from) ==
    /\ lease = None
    /\ \E g \in Fresh :
         /\ lease' = g /\ old' = old \ {g}
         /\ Answer(p, from, "match")
         /\ held' = [held EXCEPT ![p] = IF pc'[p] = "match" THEN g ELSE None]
    /\ seen' = [seen EXCEPT ![p] = None]
    /\ UNCHANGED <<store, manifest, want, todo, wrong, reported>>

(* PreconditionFailed: look at the lease the first time, give up the second.*)
LeaseTaken(p, from, to) ==
    /\ pc[p] = from /\ lease # None
    /\ pc' = [pc EXCEPT ![p] = to]
    /\ seen' = [seen EXCEPT ![p] = None]
    /\ Quietly /\ UNCHANGED <<want, held, todo, wrong, faults, reported>>

Acquire(p) ==
    \/ CreateLease(p, "lease") \/ LeaseTaken(p, "lease", "head")
    \/ CreateLease(p, "again") \/ LeaseTaken(p, "again", "idle")

(* Wrong: a lease is never found to be expired. *)
HeadGivesUp(p) ==
    /\ pc[p] = "head"
    /\ pc' = [pc EXCEPT ![p] = "idle"]
    /\ Quietly /\ UNCHANGED <<want, held, seen, todo, wrong, faults, reported>>

(* _recover_stale_publication_lease: a lease that has gone or is young is   *)
(* an error.                                                               *)
Head(p) ==
    /\ pc[p] = "head"
    /\ IF lease # None /\ lease \in old
       THEN /\ pc' = [pc EXCEPT ![p] = "expired"]
            /\ seen' = [seen EXCEPT ![p] = lease]
       ELSE pc' = [pc EXCEPT ![p] = "idle"] /\ UNCHANGED seen
    /\ Quietly /\ UNCHANGED <<want, held, todo, wrong, faults, reported>>

(* Wrong: the delete has no IfMatch. *)
DeleteAny(p) ==
    /\ Answer(p, "expired", "again") /\ lease' = None
    /\ UNCHANGED <<old, store, manifest, want, held, seen, todo, wrong, reported>>

(* _conditional_delete(client, bucket, lease_key, etag) of what Head saw. *)
DeleteExpired(p) ==
    /\ IF lease = seen[p]
       THEN Answer(p, "expired", "again") /\ lease' = None
       ELSE /\ pc[p] = "expired" /\ pc' = [pc EXCEPT ![p] = "idle"]
            /\ UNCHANGED <<lease, faults>>
    /\ UNCHANGED <<old, store, manifest, want, held, seen, todo, wrong, reported>>

-----------------------------------------------------------------------------
(* Under the lease.                                                        *)

(* _remote_object_matches for one object. *)
Match(p, i) ==
    /\ pc[p] = "match" /\ i \in todo[p]
    /\ todo' = [todo EXCEPT ![p] = @ \ {i}]
    /\ wrong' = IF Holds(want[p], i) THEN wrong
                ELSE [wrong EXCEPT ![p] = @ \cup {i}]
    /\ Quietly /\ UNCHANGED <<pc, want, held, seen, faults, reported>>

(* Wrong: the session is always uploaded again. *)
DecideAgain(p) ==
    /\ pc[p] = "match" /\ todo[p] = {}
    /\ pc' = [pc EXCEPT ![p] = "hide"]
    /\ Quietly /\ UNCHANGED <<want, held, seen, todo, wrong, faults, reported>>

(* _remote_object_matches for the manifest.  Everything is there already:   *)
(* return the keys; else hide the record.                                  *)
Decide(p) ==
    /\ pc[p] = "match" /\ todo[p] = {}
    /\ pc' = [pc EXCEPT ![p] =
                 IF manifest = want[p] /\ wrong[p] = {} THEN "release" ELSE "hide"]
    /\ Quietly /\ UNCHANGED <<want, held, seen, todo, wrong, faults, reported>>

(* Wrong: the prior completion record stays while objects are repaired. *)
HideNothing(p) ==
    /\ Answer(p, "hide", "upload")
    /\ Quietly /\ UNCHANGED <<want, held, seen, todo, wrong, reported>>

(* client.delete_object(publication_key), unconditionally. *)
Hide(p) ==
    /\ Answer(p, "hide", "upload")
    /\ manifest' = None
    /\ UNCHANGED <<lease, old, store, want, held, seen, todo, wrong, reported>>

Upload(p, i) ==
    /\ i \in wrong[p]
    /\ Answer(p, "upload", "upload")
    /\ store' = [store EXCEPT ![Key(i, want[p][i])] = want[p][i]]
    /\ wrong' = [wrong EXCEPT ![p] = @ \ {i}]
    /\ UNCHANGED <<lease, old, manifest, want, held, seen, todo, reported>>

(* Wrong: the manifest does not wait for the last object. *)
UploadedEarly(p) ==
    /\ pc[p] = "upload"
    /\ pc' = [pc EXCEPT ![p] = "commit"]
    /\ Quietly /\ UNCHANGED <<want, held, seen, todo, wrong, faults, reported>>

Uploaded(p) ==
    /\ pc[p] = "upload" /\ wrong[p] = {}
    /\ pc' = [pc EXCEPT ![p] = "commit"]
    /\ Quietly /\ UNCHANGED <<want, held, seen, todo, wrong, faults, reported>>

(* put_object(publication.json), with IfNoneMatch="*" in the versioned      *)
(* layout only.                                                            *)
Commit(p) ==
    /\ IF ContentKeys /\ manifest # None
       THEN /\ pc[p] = "commit" /\ pc' = [pc EXCEPT ![p] = "cleanup"]
            /\ UNCHANGED <<manifest, faults>>
       ELSE Answer(p, "commit", "release") /\ manifest' = want[p]
    /\ UNCHANGED <<lease, old, store, want, held, seen, todo, wrong, reported>>

(* Wrong: return inside finally, which swallows the error. *)
ReleaseSwallows(p) ==
    /\ \E from \in {"release", "cleanup"} :
          IF lease = held[p]
          THEN /\ Answer(p, from, "idle") /\ lease' = None
               /\ reported' = reported \cup {p}
          ELSE /\ pc[p] = from /\ pc' = [pc EXCEPT ![p] = "idle"]
               /\ UNCHANGED <<lease, faults, reported>>
    /\ held' = [held EXCEPT ![p] = None]
    /\ UNCHANGED <<old, store, manifest, want, seen, todo, wrong>>

(* finally: _conditional_delete(lease).  The keys are returned only when    *)
(* nothing was raised before and the lease was still its own.              *)
Release(p) ==
    /\ \E from \in {"release", "cleanup"} :
          IF lease = held[p]
          THEN /\ Answer(p, from, "idle") /\ lease' = None
               /\ reported' = IF from = "release" /\ faults' = faults
                              THEN reported \cup {p} ELSE reported
          ELSE /\ pc[p] = from /\ pc' = [pc EXCEPT ![p] = "idle"]
               /\ UNCHANGED <<lease, faults, reported>>
    /\ held' = [held EXCEPT ![p] = None]
    /\ UNCHANGED <<old, store, manifest, want, seen, todo, wrong>>

-----------------------------------------------------------------------------
(* Faults and time.                                                        *)

(* A request fails without effect; when it is the one that deletes the      *)
(* lease, the lease is stranded.                                           *)
Fail(p) ==
    /\ pc[p] # "idle" /\ faults < MaxFaults /\ faults' = faults + 1
    /\ pc' = [pc EXCEPT ![p] = OnError(pc[p])]
    /\ held' = [held EXCEPT ![p] = IF pc'[p] = "idle" THEN None ELSE @]
    /\ Quietly /\ UNCHANGED <<want, seen, todo, wrong, reported>>

Crash(p) ==
    /\ pc[p] # "idle" /\ faults < MaxFaults /\ faults' = faults + 1
    /\ pc' = [pc EXCEPT ![p] = "idle"]
    /\ held' = [held EXCEPT ![p] = None]
    /\ Quietly /\ UNCHANGED <<want, seen, todo, wrong, reported>>

(* The lease passes the stale threshold (24 hours by default).  Its holder  *)
(* is gone by then, unless it can sleep that long and wake up.              *)
Age ==
    /\ lease # None /\ lease \notin old
    /\ LongPauses \/ \A p \in Publishers : held[p] # lease
    /\ old' = old \cup {lease}
    /\ UNCHANGED <<lease, store, manifest, pc, want, held, seen, todo, wrong,
                   faults, reported>>

-----------------------------------------------------------------------------
Run(p) ==
    \/ Begin(p) \/ Probe(p) \/ Acquire(p) \/ Head(p) \/ DeleteExpired(p)
    \/ Decide(p) \/ Hide(p) \/ Uploaded(p) \/ Commit(p) \/ Release(p)
    \/ \E i \in Items : Match(p, i) \/ Upload(p, i)

Next == Age \/ \E p \in Publishers : Run(p) \/ Fail(p) \/ Crash(p)

Spec == Init /\ [][Next]_vars

(* A running upload goes on; uploads are tried again; time passes. *)
FairSpec == Spec /\ WF_vars(Age) /\ \A p \in Publishers : WF_vars(Run(p))

-----------------------------------------------------------------------------
TypeOK ==
    /\ lease \in Generations \cup {None}
    /\ old \subseteq Generations
    /\ store \in [Keys -> Contents \cup {None}]
    /\ manifest \in Publications \cup {None}
    /\ pc \in [Publishers -> Phases]
    /\ want \in [Publishers -> Publications]
    /\ held \in [Publishers -> Generations \cup {None}]
    /\ seen \in [Publishers -> Generations \cup {None}]
    /\ todo \in [Publishers -> SUBSET Items]
    /\ wrong \in [Publishers -> SUBSET Items]
    /\ faults \in 0..MaxFaults
    /\ reported \subseteq Publishers

(* "The manifest goes last, so an interrupted upload never looks complete":*)
(* while publication.json is there, every object it names is there with     *)
(* the digest it names.                                                    *)
NoFalseCompletion == manifest # None => Complete(manifest)

(* Between its first comparison and the end of its writes a publisher is    *)
(* the only one working on the session.                                    *)
OneWriter ==
    \A p, q \in Publishers : {pc[p], pc[q]} \subseteq Holding => p = q

(* A lease goes away only by the hand of its holder, who gives it up with   *)
(* that, or after its threshold: neither a late owner nor a slow recovery   *)
(* removes somebody else's young lease.                                    *)
FreshLeaseKept ==
    [][lease # None /\ lease' # lease =>
          \/ lease \in old
          \/ \E p \in Publishers : held[p] = lease /\ held'[p] # lease]_vars

(* Keys are returned to the caller only while what it asked for is          *)
(* published and complete.                                                 *)
SuccessMeansPublished ==
    [][\A p \in reported' \ reported :
          manifest = want[p] /\ Complete(want[p])]_vars

(* Uploading again what is already published never takes the publication    *)
(* down, not even for a moment.                                            *)
CompleteKept ==
    [][manifest # None /\ manifest' = None =>
          \E p \in Publishers : pc[p] = "hide" /\ want[p] # manifest]_vars

(* A lease left by a dead publisher does not block the session for ever. *)
CompleteReturns == []<>(manifest # None /\ Complete(manifest))

-----------------------------------------------------------------------------
Shown == IF manifest = None THEN None
         ELSE [i \in Items |-> store[Key(i, manifest[i])]]

Console == INSTANCE Catalogue WITH shown <- Shown

(* The bucket implements the catalogue its console relies on. *)
KeepsCatalogue == Console!Spec
=============================================================================
