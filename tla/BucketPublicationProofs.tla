---------------------- MODULE BucketPublicationProofs -----------------------
(***************************************************************************)
(* What the publisher keeps, for any number of publishers, objects, faults  *)
(* and pauses: types and the lease first; then what the lease and the order *)
(* of the writes give, no false completion and the bucket as an             *)
(* implementation of Catalogue.  Either layout of the objects needs its own *)
(* reason: digests as keys, or publishers that never outlive the stale      *)
(* threshold.                                                              *)
(***************************************************************************)
EXTENDS BucketPublication, TLAPS

-----------------------------------------------------------------------------
(* Types.                                                                  *)

LEMMA ErrorPhase == \A phase \in Phases : OnError(phase) \in {"idle", "cleanup"}
  BY DEF OnError

LEMMA PhaseNames ==
    /\ {"idle", "probe", "lease", "head", "expired", "again", "match", "hide",
        "upload", "commit", "release", "cleanup"} = Phases
    /\ "idle" \notin Holding /\ Acquiring \cap Holding = {}
  BY DEF Phases, Acquiring, Holding

LEMMA KeyType ==
    ASSUME NEW m \in Publications, NEW i \in Items
    PROVE  m[i] \in Contents /\ Key(i, m[i]) \in Keys
  BY BucketAssumption DEF Key, Keys

(* An answer moves p only, to the next phase or to the one after an error. *)
LEMMA AnswerType ==
    ASSUME TypeOK, NEW p \in Publishers, NEW from \in Phases, NEW to \in Phases,
           Answer(p, from, to)
    PROVE  /\ pc' \in [Publishers -> Phases] /\ faults' \in 0..MaxFaults
           /\ pc[p] = from /\ pc'[p] \in {to, OnError(from)}
           /\ \A q \in Publishers : q # p => pc'[q] = pc[q]
  <1>1. faults' \in 0..MaxFaults
    BY BucketAssumption DEF TypeOK, Answer
  <1>2. PICK ph \in Phases : pc' = [pc EXCEPT ![p] = ph] /\ ph \in {to, OnError(from)}
    BY ErrorPhase, PhaseNames DEF Answer
  <1> QED BY <1>1, <1>2 DEF TypeOK, Answer

LEMMA InitType == Init => TypeOK
  BY BucketAssumption, PhaseNames DEF Init, TypeOK

LEMMA StepType == TypeOK /\ [Next]_vars => TypeOK'
  <1> SUFFICES ASSUME TypeOK, [Next]_vars PROVE TypeOK'
    OBVIOUS
  <1> USE PhaseNames
  <1>1. ASSUME NEW p \in Publishers, Begin(p) PROVE TypeOK'
    BY <1>1 DEF Begin, TypeOK, Quietly
  <1>2. ASSUME NEW p \in Publishers, Probe(p) PROVE TypeOK'
    BY <1>2 DEF Probe, TypeOK, Quietly
  <1>3. ASSUME NEW p \in Publishers, NEW from \in {"lease", "again"},
               CreateLease(p, from)
        PROVE  TypeOK'
    <2>1. Answer(p, from, "match") /\ from \in Phases
      BY <1>3 DEF CreateLease
    <2>2. pc' \in [Publishers -> Phases] /\ faults' \in 0..MaxFaults
      BY <2>1, AnswerType
    <2>3. PICK g \in Generations : /\ lease' = g /\ old' = old \ {g}
                                  /\ held' = [held EXCEPT ![p] =
                                       IF pc'[p] = "match" THEN g ELSE None]
      BY <1>3 DEF CreateLease, Fresh
    <2>4. held' \in [Publishers -> Generations \cup {None}]
      BY <2>3 DEF TypeOK
    <2>5. UNCHANGED <<store, manifest, want, todo, wrong, reported>>
          /\ seen' = [seen EXCEPT ![p] = None]
      BY <1>3 DEF CreateLease
    <2> QED BY <2>2, <2>3, <2>4, <2>5 DEF TypeOK
  <1>4. ASSUME NEW p \in Publishers, NEW from, NEW to \in {"head", "idle"},
               LeaseTaken(p, from, to)
        PROVE  TypeOK'
    BY <1>4 DEF LeaseTaken, TypeOK, Quietly
  <1>5. ASSUME NEW p \in Publishers, Head(p) PROVE TypeOK'
    BY <1>5 DEF Head, TypeOK, Quietly
  <1>6. ASSUME NEW p \in Publishers, DeleteExpired(p) PROVE TypeOK'
    <2>1. pc' \in [Publishers -> Phases] /\ faults' \in 0..MaxFaults
      BY <1>6, AnswerType DEF DeleteExpired, TypeOK
    <2> QED BY <1>6, <2>1 DEF DeleteExpired, TypeOK
  <1>7. ASSUME NEW p \in Publishers, NEW i \in Items, Match(p, i) PROVE TypeOK'
    BY <1>7 DEF Match, TypeOK, Quietly
  <1>8. ASSUME NEW p \in Publishers, Decide(p) PROVE TypeOK'
    BY <1>8 DEF Decide, TypeOK, Quietly
  <1>9. ASSUME NEW p \in Publishers, Hide(p) PROVE TypeOK'
    <2>1. pc' \in [Publishers -> Phases] /\ faults' \in 0..MaxFaults
      BY <1>9, AnswerType DEF Hide
    <2> QED BY <1>9, <2>1 DEF Hide, TypeOK
  <1>10. ASSUME NEW p \in Publishers, NEW i \in Items, Upload(p, i) PROVE TypeOK'
    <2>1. pc' \in [Publishers -> Phases] /\ faults' \in 0..MaxFaults
      BY <1>10, AnswerType DEF Upload
    <2>2. want[p][i] \in Contents /\ Key(i, want[p][i]) \in Keys
      BY KeyType DEF TypeOK
    <2> QED BY <1>10, <2>1, <2>2 DEF Upload, TypeOK
  <1>11. ASSUME NEW p \in Publishers, Uploaded(p) PROVE TypeOK'
    BY <1>11 DEF Uploaded, TypeOK, Quietly
  <1>12. ASSUME NEW p \in Publishers, Commit(p) PROVE TypeOK'
    <2>1. pc' \in [Publishers -> Phases] /\ faults' \in 0..MaxFaults
      BY <1>12, AnswerType DEF Commit, TypeOK
    <2> QED BY <1>12, <2>1 DEF Commit, TypeOK
  <1>13. ASSUME NEW p \in Publishers, Release(p) PROVE TypeOK'
    <2>1. pc' \in [Publishers -> Phases] /\ faults' \in 0..MaxFaults
      BY <1>13, AnswerType DEF Release, TypeOK
    <2> QED BY <1>13, <2>1 DEF Release, TypeOK
  <1>14. ASSUME NEW p \in Publishers, Fail(p) PROVE TypeOK'
    <2>1. OnError(pc[p]) \in Phases
      BY ErrorPhase DEF TypeOK
    <2> QED BY <1>14, <2>1, BucketAssumption DEF Fail, TypeOK, Quietly
  <1>15. ASSUME NEW p \in Publishers, Crash(p) PROVE TypeOK'
    BY <1>15, BucketAssumption DEF Crash, TypeOK, Quietly
  <1>16. CASE Age
    BY <1>16 DEF Age, TypeOK
  <1>17. CASE UNCHANGED vars
    BY <1>17 DEF TypeOK, vars
  <1> QED
    BY <1>1, <1>2, <1>3, <1>4, <1>5, <1>6, <1>7, <1>8, <1>9, <1>10, <1>11,
       <1>12, <1>13, <1>14, <1>15, <1>16, <1>17 DEF Next, Run, Acquire

(* Every variable keeps its type. *)
THEOREM TypeCorrect == Spec => []TypeOK
  BY InitType, StepType, PTL DEF Spec

-----------------------------------------------------------------------------
(* The lease.                                                              *)

(* A publisher holds a generation exactly while it works under the lease;   *)
(* what head_object showed it was expired then and stays so; and when       *)
(* nobody sleeps past the threshold, the lease it holds is the one that is  *)
(* there, young, and nobody else's.                                        *)
Leased(p) ==
    /\ held[p] # None <=> pc[p] \in Holding
    /\ seen[p] \in old \cup {None}
    /\ pc[p] = "expired" => seen[p] # None
    /\ ~LongPauses /\ held[p] # None =>
          /\ lease = held[p] /\ lease \notin old
          /\ \A q \in Publishers : held[q] # None => q = p

LeaseInv == TypeOK /\ \A p \in Publishers : Leased(p)

LEMMA InitLease == Init => LeaseInv
  BY InitType, PhaseNames DEF Init, LeaseInv, Leased

(* A step of p that changes no lease disturbs p only. *)
LEMMA SameLease ==
    ASSUME LeaseInv, NEW p \in Publishers,
           UNCHANGED <<lease, old, held>>,
           pc'[p] \in Holding <=> pc[p] \in Holding,
           \A q \in Publishers : q # p => pc'[q] = pc[q] /\ seen'[q] = seen[q],
           seen'[p] \in old \cup {None}, pc'[p] = "expired" => seen'[p] # None
    PROVE  \A q \in Publishers : Leased(q)'
  BY DEF LeaseInv, Leased

(* A step of p that gives its lease up, leaving the object or removing it. *)
LEMMA LostLease ==
    ASSUME LeaseInv, NEW p \in Publishers, TypeOK',
           UNCHANGED <<old, seen>>, lease' \in {lease, None},
           held' = [held EXCEPT ![p] = None], pc'[p] = "idle",
           \A q \in Publishers : q # p => pc'[q] = pc[q],
           lease' # lease => lease = held[p] \/ lease \in old
    PROVE  \A q \in Publishers : Leased(q)'
  <1>1. held'[p] = None /\ \A q \in Publishers : q # p => held'[q] = held[q]
    BY DEF LeaseInv, TypeOK
  <1>2. ASSUME NEW q \in Publishers, q # p, ~LongPauses, held[q] # None
        PROVE  lease' = held[q] /\ lease' \notin old
    BY <1>2 DEF LeaseInv, Leased
  <1>3. Leased(p)'
    BY <1>1, PhaseNames DEF LeaseInv, Leased
  <1>4. ASSUME NEW q \in Publishers, q # p PROVE Leased(q)'
    BY <1>1, <1>2, <1>4 DEF LeaseInv, Leased
  <1> QED BY <1>3, <1>4

LEMMA StepLease == LeaseInv /\ [Next]_vars => LeaseInv'
  <1> SUFFICES ASSUME LeaseInv, [Next]_vars PROVE \A q \in Publishers : Leased(q)'
    BY StepType DEF LeaseInv
  <1>a. TypeOK /\ TypeOK'
    BY StepType DEF LeaseInv
  <1>b. \A q \in Publishers : Leased(q)
    BY DEF LeaseInv
  <1> USE PhaseNames
  <1>1. ASSUME NEW p \in Publishers, Begin(p) PROVE \A q \in Publishers : Leased(q)'
    <2>1. pc[p] = "idle" /\ pc'[p] = "probe" /\ \A q \in Publishers : q # p => pc'[q] = pc[q]
      BY <1>1, <1>a DEF Begin, TypeOK
    <2> QED BY <1>1, <1>b, <2>1, SameLease DEF Begin, Quietly, Leased, Acquiring
  <1>2. ASSUME NEW p \in Publishers, Probe(p) PROVE \A q \in Publishers : Leased(q)'
    <2>1. pc[p] = "probe" /\ pc'[p] = "lease" /\ \A q \in Publishers : q # p => pc'[q] = pc[q]
      BY <1>2, <1>a DEF Probe, TypeOK
    <2> QED BY <1>2, <1>b, <2>1, SameLease DEF Probe, Quietly, Leased, Acquiring
  <1>3. ASSUME NEW p \in Publishers, NEW from \in {"lease", "again"},
               CreateLease(p, from)
        PROVE  \A q \in Publishers : Leased(q)'
    <2>1. PICK g \in Fresh : /\ lease' = g /\ old' = old \ {g}
                            /\ held' = [held EXCEPT ![p] =
                                 IF pc'[p] = "match" THEN g ELSE None]
      BY <1>3 DEF CreateLease
    <2>2. /\ g # None /\ g # lease
          /\ \A q \in Publishers : held[q] # g /\ seen[q] # g
      BY BucketAssumption DEF Fresh
    <2>3. /\ pc[p] \notin Holding /\ pc'[p] \in {"match", "idle"}
          /\ \A q \in Publishers : q # p => pc'[q] = pc[q]
      <3>1. Answer(p, from, "match") /\ from \in Phases /\ from \notin Holding
        BY <1>3 DEF CreateLease, Holding
      <3> QED BY <3>1, <1>a, AnswerType DEF OnError
    <2>4. seen'[p] = None /\ \A q \in Publishers : q # p => seen'[q] = seen[q]
      BY <1>3, <1>a DEF CreateLease, TypeOK
    <2>5. /\ held'[p] = IF pc'[p] = "match" THEN g ELSE None
          /\ \A q \in Publishers : q # p => held'[q] = held[q]
      BY <2>1, <1>a DEF TypeOK
    <2>6. ~LongPauses => \A q \in Publishers : held[q] = None
      BY <1>3, <1>b DEF CreateLease, Leased
    <2>7. Leased(p)'
      BY <2>1, <2>2, <2>3, <2>4, <2>5, <2>6 DEF Leased, Holding
    <2>8. ASSUME NEW q \in Publishers, q # p PROVE Leased(q)'
      BY <1>b, <2>1, <2>2, <2>3, <2>4, <2>5, <2>6, <2>8 DEF Leased
    <2> QED BY <2>7, <2>8
  <1>4. ASSUME NEW p \in Publishers, NEW from \in {"lease", "again"},
               NEW to \in {"head", "idle"}, LeaseTaken(p, from, to)
        PROVE  \A q \in Publishers : Leased(q)'
    <2>1. /\ pc[p] = from /\ pc'[p] = to /\ seen'[p] = None
          /\ \A q \in Publishers : q # p => pc'[q] = pc[q] /\ seen'[q] = seen[q]
      BY <1>4, <1>a DEF LeaseTaken, TypeOK
    <2> QED BY <1>4, <1>b, <2>1, SameLease DEF LeaseTaken, Quietly, Holding
  <1>5. ASSUME NEW p \in Publishers, Head(p) PROVE \A q \in Publishers : Leased(q)'
    <2>1. /\ pc[p] = "head" /\ pc'[p] \in {"expired", "idle"}
          /\ \A q \in Publishers : q # p => pc'[q] = pc[q] /\ seen'[q] = seen[q]
          /\ pc'[p] = "expired" => seen'[p] # None
          /\ seen'[p] = seen[p] \/ seen'[p] \in old
      BY <1>5, <1>a DEF Head, TypeOK
    <2> QED BY <1>5, <1>b, <2>1, SameLease DEF Head, Quietly, Holding, Leased
  <1>6. ASSUME NEW p \in Publishers, DeleteExpired(p)
        PROVE  \A q \in Publishers : Leased(q)'
    <2>1. /\ pc[p] = "expired" /\ pc'[p] \in {"again", "idle"}
          /\ \A q \in Publishers : q # p => pc'[q] = pc[q]
      <3>1. \/ Answer(p, "expired", "again")
            \/ pc[p] = "expired" /\ pc' = [pc EXCEPT ![p] = "idle"]
        BY <1>6 DEF DeleteExpired
      <3>2. CASE Answer(p, "expired", "again")
        BY <1>a, <3>2, AnswerType DEF OnError, Holding
      <3> QED BY <1>a, <3>1, <3>2 DEF TypeOK
    <2>2. UNCHANGED <<old, held, seen>> /\ (lease' = lease \/ lease \in old)
      BY <1>6, <1>b, <2>1 DEF DeleteExpired, Leased
    <2>3. ASSUME NEW q \in Publishers PROVE Leased(q)'
      BY <1>b, <2>1, <2>2 DEF Leased, Holding
    <2> QED BY <2>3
  <1>7. ASSUME NEW p \in Publishers, NEW i \in Items, Match(p, i)
        PROVE  \A q \in Publishers : Leased(q)'
    BY <1>7, <1>b, SameLease DEF Match, Quietly, Leased
  <1>8. ASSUME NEW p \in Publishers, Decide(p) PROVE \A q \in Publishers : Leased(q)'
    <2>1. /\ pc[p] = "match" /\ pc'[p] \in {"release", "hide"}
          /\ \A q \in Publishers : q # p => pc'[q] = pc[q]
      BY <1>8, <1>a DEF Decide, TypeOK
    <2> QED BY <1>8, <1>b, <2>1, SameLease DEF Decide, Quietly, Leased, Holding
  <1>9. ASSUME NEW p \in Publishers, Hide(p) PROVE \A q \in Publishers : Leased(q)'
    <2>1. /\ pc[p] = "hide" /\ pc'[p] \in {"upload", "cleanup"}
          /\ \A q \in Publishers : q # p => pc'[q] = pc[q]
      BY <1>9, <1>a, AnswerType DEF Hide, OnError, Holding
    <2> QED BY <1>9, <1>b, <2>1, SameLease DEF Hide, Leased, Holding
  <1>10. ASSUME NEW p \in Publishers, NEW i \in Items, Upload(p, i)
         PROVE  \A q \in Publishers : Leased(q)'
    <2>1. /\ pc[p] = "upload" /\ pc'[p] \in {"upload", "cleanup"}
          /\ \A q \in Publishers : q # p => pc'[q] = pc[q]
      BY <1>10, <1>a, AnswerType DEF Upload, OnError, Holding
    <2> QED BY <1>10, <1>b, <2>1, SameLease DEF Upload, Leased, Holding
  <1>11. ASSUME NEW p \in Publishers, Uploaded(p) PROVE \A q \in Publishers : Leased(q)'
    <2>1. /\ pc[p] = "upload" /\ pc'[p] = "commit"
          /\ \A q \in Publishers : q # p => pc'[q] = pc[q]
      BY <1>11, <1>a DEF Uploaded, TypeOK
    <2> QED BY <1>11, <1>b, <2>1, SameLease DEF Uploaded, Quietly, Leased, Holding
  <1>12. ASSUME NEW p \in Publishers, Commit(p) PROVE \A q \in Publishers : Leased(q)'
    <2>1. /\ pc[p] = "commit" /\ pc'[p] \in {"release", "cleanup"}
          /\ \A q \in Publishers : q # p => pc'[q] = pc[q]
      <3>1. \/ Answer(p, "commit", "release")
            \/ pc[p] = "commit" /\ pc' = [pc EXCEPT ![p] = "cleanup"]
        BY <1>12 DEF Commit
      <3>2. CASE Answer(p, "commit", "release")
        BY <1>a, <3>2, AnswerType DEF OnError, Holding
      <3> QED BY <1>a, <3>1, <3>2 DEF TypeOK
    <2> QED BY <1>12, <1>b, <2>1, SameLease DEF Commit, Leased, Holding
  <1>13. ASSUME NEW p \in Publishers, Release(p) PROVE \A q \in Publishers : Leased(q)'
    <2>1. PICK from \in {"release", "cleanup"} :
            IF lease = held[p]
            THEN Answer(p, from, "idle") /\ lease' = None
            ELSE /\ pc[p] = from /\ pc' = [pc EXCEPT ![p] = "idle"]
                 /\ UNCHANGED lease
      BY <1>13 DEF Release
    <2>2. pc'[p] = "idle" /\ \A q \in Publishers : q # p => pc'[q] = pc[q]
      <3>1. CASE Answer(p, from, "idle")
        BY <1>a, <3>1, AnswerType DEF OnError
      <3>2. CASE pc' = [pc EXCEPT ![p] = "idle"]
        BY <1>a, <3>2 DEF TypeOK
      <3> QED BY <2>1, <3>1, <3>2
    <2> QED BY <1>13, <1>a, <2>1, <2>2, LostLease DEF Release
  <1>14. ASSUME NEW p \in Publishers, Fail(p) PROVE \A q \in Publishers : Leased(q)'
    <2>1. pc'[p] = OnError(pc[p]) /\ \A q \in Publishers : q # p => pc'[q] = pc[q]
      BY <1>14, <1>a DEF Fail, TypeOK
    <2>2. CASE pc'[p] = "idle"
      <3>1. held' = [held EXCEPT ![p] = None]
        BY <1>14, <2>2 DEF Fail
      <3> QED BY <1>14, <1>a, <2>1, <2>2, <3>1, LostLease DEF Fail, Quietly
    <2>3. CASE pc'[p] # "idle"
      <3>1. held' = held
        BY <1>14, <1>a, <2>3 DEF Fail, TypeOK
      <3>2. pc[p] \in Holding /\ pc'[p] = "cleanup" /\ "cleanup" \in Holding
        BY <2>1, <2>3 DEF OnError, Holding
      <3> QED BY <1>14, <1>b, <2>1, <3>1, <3>2, SameLease DEF Fail, Quietly, Leased
    <2> QED BY <2>2, <2>3
  <1>15. ASSUME NEW p \in Publishers, Crash(p) PROVE \A q \in Publishers : Leased(q)'
    <2>1. pc'[p] = "idle" /\ \A q \in Publishers : q # p => pc'[q] = pc[q]
      BY <1>15, <1>a DEF Crash, TypeOK
    <2> QED BY <1>15, <1>a, <2>1, LostLease DEF Crash, Quietly
  <1>16. CASE Age
    BY <1>16, <1>b, BucketAssumption DEF Age, Leased
  <1>17. CASE UNCHANGED vars
    BY <1>17, <1>b DEF Leased, vars
  <1> QED
    BY <1>1, <1>2, <1>3, <1>4, <1>5, <1>6, <1>7, <1>8, <1>9, <1>10, <1>11,
       <1>12, <1>13, <1>14, <1>15, <1>16, <1>17 DEF Next, Run, Acquire

LEMMA LeaseHolds == Spec => []LeaseInv
  BY InitLease, StepLease, PTL DEF Spec

-----------------------------------------------------------------------------
(* Two publishers never write at the same time, provided that none sleeps   *)
(* past the stale threshold: _acquire_publication_lease excludes the others.*)
THEOREM WritersExclude == ASSUME ~LongPauses PROVE Spec => []OneWriter
  <1>1. LeaseInv => OneWriter
    BY DEF LeaseInv, Leased, OneWriter
  <1> QED BY <1>1, LeaseHolds, PTL

(* _conditional_delete takes away a lease only from its holder's hand or    *)
(* when it has expired, however long its owner or its thief slept.          *)
THEOREM YoungLeaseStays == Spec => FreshLeaseKept
  <1>1. LeaseInv /\ [Next]_vars =>
          [lease # None /\ lease' # lease =>
              \/ lease \in old
              \/ \E p \in Publishers : held[p] = lease /\ held'[p] # lease]_vars
    <2> SUFFICES ASSUME LeaseInv, [Next]_vars, lease # None, lease' # lease
                 PROVE  \/ lease \in old
                        \/ \E p \in Publishers : held[p] = lease /\ held'[p] # lease
      OBVIOUS
    <2>1. \E p \in Publishers : DeleteExpired(p) \/ Release(p)
      BY DEF Next, Run, Acquire, Begin, Probe, CreateLease, LeaseTaken,
                  Head, Match, Decide, Hide, Upload, Uploaded, Commit, Fail,
                  Crash, Age, Quietly, vars
    <2>2. ASSUME NEW p \in Publishers, DeleteExpired(p) PROVE lease \in old
      BY <2>2 DEF DeleteExpired, LeaseInv, Leased
    <2>3. ASSUME NEW p \in Publishers, Release(p)
          PROVE  held[p] = lease /\ held'[p] # lease
      <3>1. held[p] = lease /\ held' = [held EXCEPT ![p] = None]
        BY <2>3 DEF Release
      <3>2. held \in [Publishers -> Generations \cup {None}]
        BY DEF LeaseInv, TypeOK
      <3> QED BY <3>1, <3>2
    <2> QED BY <2>1, <2>2, <2>3
  <1> QED BY <1>1, LeaseHolds, PTL DEF Spec, FreshLeaseKept

-----------------------------------------------------------------------------
(* The work under the lease.                                               *)

Layout == ContentKeys \/ ~LongPauses

(* An object stored under a digest has that digest. *)
Digests == ContentKeys => \A k \in Keys : store[k] \in {None, k}

(* What a publisher knows about the bucket at each phase. *)
Working(p) ==
    /\ pc[p] \in Acquiring => todo[p] = Items /\ wrong[p] = {}
    /\ pc[p] \in {"hide", "upload", "commit"} => todo[p] = {}
    /\ pc[p] = "commit" => wrong[p] = {}
    /\ pc[p] \in {"match", "hide", "upload", "commit"} =>
          \A i \in Items \ (todo[p] \cup wrong[p]) : Holds(want[p], i)
    /\ ~LongPauses =>
          /\ pc[p] = "match" => \A i \in wrong[p] : ~Holds(want[p], i)
          /\ pc[p] = "hide" => manifest # want[p]
          /\ pc[p] \in {"upload", "commit"} => manifest = None
          /\ pc[p] = "release" => manifest = want[p]

WorkInv == Digests /\ NoFalseCompletion /\ \A p \in Publishers : Working(p)

LEMMA InitWork == Init => WorkInv
  BY DEF Init, WorkInv, Digests, NoFalseCompletion, Working, Acquiring

LEMMA HoldsType ==
    ASSUME NEW m \in Publications, NEW i \in Items
    PROVE  /\ Key(i, m[i]) \in Keys /\ m[i] \in Contents
           /\ ContentKeys => Key(i, m[i]) = m[i]
           /\ ~ContentKeys => Key(i, m[i]) = i
  BY KeyType DEF Key

(* A step of p leaves what every other publisher knows: in one layout it    *)
(* keeps all objects that are there, in the other it writes alone.          *)
LEMMA OthersWork ==
    ASSUME Layout, LeaseInv, WorkInv, NEW p \in Publishers, NEW q \in Publishers,
           q # p, pc'[q] = pc[q], want'[q] = want[q], todo'[q] = todo[q],
           wrong'[q] = wrong[q],
           UNCHANGED <<store, manifest>> \/ pc[p] \in Holding,
           ContentKeys => \A k \in Keys : store[k] = k => store'[k] = k
    PROVE  Working(q)'
  <1>1. want[q] \in Publications
    BY DEF LeaseInv, TypeOK
  <1>2. CASE UNCHANGED <<store, manifest>>
    BY <1>2 DEF WorkInv, Working, Holds
  <1>3. CASE pc[p] \in Holding /\ ~LongPauses
    <2>1. pc[q] \notin Holding
      BY <1>3 DEF LeaseInv, Leased
    <2> QED BY <2>1 DEF WorkInv, Working, Holding
  <1>4. CASE ContentKeys /\ LongPauses
    <2>1. ASSUME NEW i \in Items, Holds(want[q], i) PROVE Holds(want[q], i)'
      BY <1>1, <1>4, <2>1, HoldsType DEF Holds, Key
    <2> QED BY <1>4, <2>1 DEF WorkInv, Working
  <1> QED BY <1>2, <1>3, <1>4 DEF Layout

(* A step that writes neither an object nor the record. *)
LEMMA QuietWork ==
    ASSUME Layout, LeaseInv, WorkInv, NEW p \in Publishers,
           UNCHANGED <<store, manifest>>,
           \A q \in Publishers : q # p =>
               /\ pc'[q] = pc[q] /\ want'[q] = want[q] /\ todo'[q] = todo[q]
               /\ wrong'[q] = wrong[q],
           Working(p)'
    PROVE  WorkInv'
  <1>1. \A q \in Publishers : Working(q)'
    BY OthersWork
  <1>2. Digests' /\ NoFalseCompletion'
    BY DEF WorkInv, Digests, NoFalseCompletion, Complete, Holds
  <1> QED BY <1>1, <1>2 DEF WorkInv

LEMMA StepWork ==
    ASSUME Layout, LeaseInv, WorkInv, [Next]_vars PROVE WorkInv'
  <1>a. TypeOK /\ TypeOK'
    BY StepType DEF LeaseInv
  <1>b. \A q \in Publishers : Working(q)
    BY DEF WorkInv
  <1> USE PhaseNames
  <1>1. ASSUME NEW p \in Publishers, Begin(p) PROVE WorkInv'
    <2>1. /\ pc'[p] = "probe" /\ todo'[p] = Items /\ wrong'[p] = {}
          /\ \A q \in Publishers : q # p =>
               /\ pc'[q] = pc[q] /\ want'[q] = want[q] /\ todo'[q] = todo[q]
               /\ wrong'[q] = wrong[q]
      BY <1>1, <1>a DEF Begin, TypeOK
    <2>2. Working(p)'
      BY <2>1 DEF Working
    <2> QED BY <1>1, <2>1, <2>2, QuietWork DEF Begin, Quietly
  <1>2. ASSUME NEW p \in Publishers, Probe(p) PROVE WorkInv'
    <2>1. /\ pc[p] = "probe" /\ pc'[p] = "lease"
          /\ \A q \in Publishers : q # p => pc'[q] = pc[q]
      BY <1>2, <1>a DEF Probe, TypeOK
    <2>2. Working(p)'
      BY <1>2, <1>b, <2>1 DEF Probe, Working, Acquiring
    <2> QED BY <1>2, <2>1, <2>2, QuietWork DEF Probe, Quietly
  <1>3. ASSUME NEW p \in Publishers, NEW from \in {"lease", "again"},
               CreateLease(p, from)
        PROVE  WorkInv'
    <2>1. /\ pc[p] \in Acquiring /\ pc'[p] \in {"match", "idle"}
          /\ \A q \in Publishers : q # p => pc'[q] = pc[q]
      <3>1. Answer(p, from, "match") /\ from \in Phases
            /\ from \notin Holding /\ from \in Acquiring
        BY <1>3 DEF CreateLease, Holding, Acquiring
      <3> QED BY <3>1, <1>a, AnswerType DEF OnError
    <2>2. Working(p)'
      BY <1>3, <1>b, <2>1 DEF CreateLease, Working, Acquiring
    <2> QED BY <1>3, <2>1, <2>2, QuietWork DEF CreateLease
  <1>4. ASSUME NEW p \in Publishers, NEW from \in {"lease", "again"},
               NEW to \in {"head", "idle"}, LeaseTaken(p, from, to)
        PROVE  WorkInv'
    <2>1. /\ pc[p] \in Acquiring /\ pc'[p] = to
          /\ \A q \in Publishers : q # p => pc'[q] = pc[q]
      BY <1>4, <1>a DEF LeaseTaken, TypeOK, Acquiring
    <2>2. Working(p)'
      BY <1>4, <1>b, <2>1 DEF LeaseTaken, Working, Acquiring
    <2> QED BY <1>4, <2>1, <2>2, QuietWork DEF LeaseTaken, Quietly
  <1>5. ASSUME NEW p \in Publishers, Head(p) PROVE WorkInv'
    <2>1. /\ pc[p] = "head" /\ pc'[p] \in {"expired", "idle"}
          /\ \A q \in Publishers : q # p => pc'[q] = pc[q]
      BY <1>5, <1>a DEF Head, TypeOK
    <2>2. Working(p)'
      BY <1>5, <1>b, <2>1 DEF Head, Working, Acquiring
    <2> QED BY <1>5, <2>1, <2>2, QuietWork DEF Head, Quietly
  <1>6. ASSUME NEW p \in Publishers, DeleteExpired(p) PROVE WorkInv'
    <2>1. /\ pc[p] = "expired" /\ pc'[p] \in {"again", "idle"}
          /\ \A q \in Publishers : q # p => pc'[q] = pc[q]
      <3>1. \/ Answer(p, "expired", "again")
            \/ pc[p] = "expired" /\ pc' = [pc EXCEPT ![p] = "idle"]
        BY <1>6 DEF DeleteExpired
      <3>2. CASE Answer(p, "expired", "again")
        BY <1>a, <3>2, AnswerType DEF OnError, Holding
      <3> QED BY <1>a, <3>1, <3>2 DEF TypeOK
    <2>2. Working(p)'
      BY <1>6, <1>b, <2>1 DEF DeleteExpired, Working, Acquiring
    <2> QED BY <1>6, <2>1, <2>2, QuietWork DEF DeleteExpired
  <1>7. ASSUME NEW p \in Publishers, NEW i \in Items, Match(p, i) PROVE WorkInv'
    <2>1. /\ pc[p] = "match" /\ pc' = pc /\ UNCHANGED <<store, manifest, want>>
          /\ todo'[p] = todo[p] \ {i}
          /\ wrong'[p] = IF Holds(want[p], i) THEN wrong[p] ELSE wrong[p] \cup {i}
          /\ \A q \in Publishers : q # p =>
               todo'[q] = todo[q] /\ wrong'[q] = wrong[q]
      BY <1>7, <1>a DEF Match, Quietly, TypeOK
    <2>2. \A j \in Items : Holds(want[p], j)' <=> Holds(want[p], j)
      BY <2>1 DEF Holds
    <2>3. Working(p)'
      BY <1>a, <1>b, <2>1, <2>2 DEF Working, TypeOK, Acquiring
    <2> QED BY <2>1, <2>3, QuietWork
  <1>8. ASSUME NEW p \in Publishers, Decide(p) PROVE WorkInv'
    <2>1. /\ pc[p] = "match" /\ todo[p] = {}
          /\ pc'[p] = IF manifest = want[p] /\ wrong[p] = {} THEN "release" ELSE "hide"
          /\ UNCHANGED <<store, manifest, want, todo, wrong>>
          /\ \A q \in Publishers : q # p => pc'[q] = pc[q]
      BY <1>8, <1>a DEF Decide, Quietly, TypeOK
    <2>2. ASSUME ~LongPauses, manifest = want[p] PROVE wrong[p] = {}
      <3>1. \A i \in Items : Holds(want[p], i)
        BY <1>a, <2>2, BucketAssumption DEF WorkInv, NoFalseCompletion, Complete, TypeOK
      <3> QED BY <1>a, <1>b, <2>1, <2>2, <3>1 DEF Working, TypeOK
    <2>3. \A j \in Items : Holds(want[p], j)' <=> Holds(want[p], j)
      BY <2>1 DEF Holds
    <2>4. Working(p)'
      BY <1>a, <1>b, <2>1, <2>2, <2>3 DEF Working, TypeOK, Acquiring
    <2> QED BY <2>1, <2>4, QuietWork
  <1>9. ASSUME NEW p \in Publishers, Hide(p) PROVE WorkInv'
    <2>1. /\ pc[p] = "hide" /\ pc'[p] \in {"upload", "cleanup"}
          /\ \A q \in Publishers : q # p => pc'[q] = pc[q]
      BY <1>9, <1>a, AnswerType DEF Hide, OnError, Holding
    <2>2. manifest' = None /\ UNCHANGED <<store, want, todo, wrong>>
      BY <1>9 DEF Hide
    <2>3. Working(p)'
      BY <1>b, <2>1, <2>2 DEF Working, Holds, Acquiring
    <2>4. \A q \in Publishers : q # p => Working(q)'
      BY <2>1, <2>2, OthersWork DEF Holding
    <2> QED BY <2>2, <2>3, <2>4 DEF WorkInv, Digests, NoFalseCompletion
  <1>10. ASSUME NEW p \in Publishers, NEW i \in Items, Upload(p, i) PROVE WorkInv'
    <2> DEFINE c == want[p][i]
    <2>1. /\ pc[p] = "upload" /\ pc'[p] \in {"upload", "cleanup"}
          /\ \A q \in Publishers : q # p => pc'[q] = pc[q]
      BY <1>10, <1>a, AnswerType DEF Upload, OnError, Holding
    <2>2. /\ UNCHANGED <<manifest, want, todo>>
          /\ store' = [store EXCEPT ![Key(i, c)] = c]
          /\ wrong'[p] = wrong[p] \ {i}
          /\ \A q \in Publishers : q # p => wrong'[q] = wrong[q]
      BY <1>10, <1>a DEF Upload, TypeOK
    <2>3. want[p] \in Publications
      BY <1>a DEF TypeOK
    <2>4. /\ store'[Key(i, c)] = c
          /\ \A k \in Keys : k # Key(i, c) => store'[k] = store[k]
      BY <1>a, <2>2, <2>3, HoldsType DEF TypeOK
    <2>5. ContentKeys => \A k \in Keys : store[k] = k => store'[k] = k
      BY <2>3, <2>4, HoldsType
    <2>6. Digests'
      BY <2>3, <2>4, HoldsType DEF WorkInv, Digests, Keys
    <2>7. NoFalseCompletion'
      <3>1. CASE manifest = None
        BY <2>2, <3>1 DEF NoFalseCompletion
      <3>2. CASE ContentKeys /\ manifest # None
        <4>1. manifest \in Publications
          BY <1>a, <3>2 DEF TypeOK
        <4>2. ASSUME NEW j \in Items PROVE store'[Key(j, manifest[j])] = manifest[j]
          BY <2>5, <3>2, <4>1, HoldsType
             DEF WorkInv, NoFalseCompletion, Complete, Holds
        <4> QED BY <2>2, <4>2 DEF NoFalseCompletion, Complete, Holds, Key
      <3>3. CASE ~LongPauses
        BY <1>b, <2>1, <2>2, <3>3 DEF Working, NoFalseCompletion
      <3> QED BY <3>1, <3>2, <3>3 DEF Layout
    <2>8. ASSUME NEW j \in Items PROVE
            Holds(want[p], j) \/ j = i => store'[Key(j, want[p][j])] = want[p][j]
      BY <2>3, <2>4, <2>5, HoldsType DEF Holds
    <2>9. \A j \in Items : Holds(want[p], j) \/ j = i => Holds(want[p], j)'
      BY <2>2, <2>8 DEF Holds, Key
    <2>10. Working(p)'
      BY <1>b, <2>1, <2>2, <2>9 DEF Working, Acquiring
    <2>11. \A q \in Publishers : q # p => Working(q)'
      BY <2>1, <2>2, <2>5, OthersWork DEF Holding
    <2> QED BY <2>6, <2>7, <2>10, <2>11 DEF WorkInv
  <1>11. ASSUME NEW p \in Publishers, Uploaded(p) PROVE WorkInv'
    <2>1. /\ pc[p] = "upload" /\ pc'[p] = "commit" /\ wrong[p] = {}
          /\ UNCHANGED <<store, manifest, want, todo, wrong>>
          /\ \A q \in Publishers : q # p => pc'[q] = pc[q]
      BY <1>11, <1>a DEF Uploaded, Quietly, TypeOK
    <2>2. Working(p)'
      BY <1>b, <2>1 DEF Working, Holds, Acquiring
    <2> QED BY <2>1, <2>2, QuietWork
  <1>12. ASSUME NEW p \in Publishers, Commit(p) PROVE WorkInv'
    <2>1. /\ pc[p] = "commit" /\ pc'[p] \in {"release", "cleanup"}
          /\ \A q \in Publishers : q # p => pc'[q] = pc[q]
          /\ pc'[p] = "release" => manifest' = want[p]
          /\ manifest' \in {manifest, want[p]}
          /\ UNCHANGED <<store, want, todo, wrong>>
      <3>1. \/ Answer(p, "commit", "release") /\ manifest' = want[p]
            \/ /\ pc[p] = "commit" /\ pc' = [pc EXCEPT ![p] = "cleanup"]
               /\ manifest' = manifest
        BY <1>12 DEF Commit
      <3>2. CASE Answer(p, "commit", "release") /\ manifest' = want[p]
        BY <1>12, <1>a, <3>2, AnswerType, SMTT(40) DEF OnError, Holding, Commit
      <3> QED BY <1>12, <1>a, <3>1, <3>2 DEF TypeOK, Commit
    <2>2. \A i \in Items : Holds(want[p], i)
      BY <1>b, <2>1 DEF Working
    <2>3. NoFalseCompletion'
      BY <2>1, <2>2 DEF WorkInv, NoFalseCompletion, Complete, Holds
    <2>4. Working(p)'
      BY <2>1 DEF Working, Acquiring
    <2>5. \A q \in Publishers : q # p => Working(q)'
      BY <2>1, OthersWork DEF Holding
    <2> QED BY <2>1, <2>3, <2>4, <2>5 DEF WorkInv, Digests
  <1>13. ASSUME NEW p \in Publishers, Release(p) PROVE WorkInv'
    <2>1. PICK from \in {"release", "cleanup"} :
            \/ Answer(p, from, "idle") \/ pc' = [pc EXCEPT ![p] = "idle"]
      BY <1>13 DEF Release
    <2>2. pc'[p] = "idle" /\ \A q \in Publishers : q # p => pc'[q] = pc[q]
      <3>1. CASE Answer(p, from, "idle")
        BY <1>a, <3>1, AnswerType DEF OnError
      <3>2. CASE pc' = [pc EXCEPT ![p] = "idle"]
        BY <1>a, <3>2 DEF TypeOK
      <3> QED BY <2>1, <3>1, <3>2
    <2>3. Working(p)'
      BY <2>2 DEF Working, Acquiring
    <2> QED BY <1>13, <2>2, <2>3, QuietWork DEF Release
  <1>14. ASSUME NEW p \in Publishers, Fail(p) \/ Crash(p) PROVE WorkInv'
    <2>1. /\ pc'[p] \in {"idle", "cleanup"}
          /\ \A q \in Publishers : q # p => pc'[q] = pc[q]
          /\ UNCHANGED <<store, manifest, want, todo, wrong>>
      BY <1>14, <1>a, ErrorPhase DEF Fail, Crash, Quietly, TypeOK
    <2>2. Working(p)'
      BY <2>1 DEF Working, Acquiring
    <2> QED BY <2>1, <2>2, QuietWork
  <1>15. CASE Age \/ UNCHANGED vars
    BY <1>15 DEF Age, vars, WorkInv, Digests, NoFalseCompletion, Complete,
                 Holds, Working
  <1> QED
    BY <1>1, <1>2, <1>3, <1>4, <1>5, <1>6, <1>7, <1>8, <1>9, <1>10, <1>11,
       <1>12, <1>13, <1>14, <1>15 DEF Next, Run, Acquire
LEMMA WorkHolds == ASSUME Layout PROVE Spec => [](LeaseInv /\ WorkInv)
  <1>1. Init => LeaseInv /\ WorkInv
    BY InitLease, InitWork
  <1>2. LeaseInv /\ WorkInv /\ [Next]_vars => (LeaseInv /\ WorkInv)'
    BY StepLease, StepWork
  <1> QED BY <1>1, <1>2, PTL DEF Spec

-----------------------------------------------------------------------------
(* While publication.json is there, every object it names is there with the *)
(* digest it names: always with digests as keys, and with fixed keys when   *)
(* no publisher outlives the stale threshold.                              *)
THEOREM CompletionTrue == ASSUME Layout PROVE Spec => []NoFalseCompletion
  <1>1. LeaseInv /\ WorkInv => NoFalseCompletion
    BY DEF WorkInv
  <1> QED BY <1>1, WorkHolds, PTL

(* upload returns its keys only while the publication it staged is there    *)
(* and complete.                                                           *)
THEOREM SuccessTrue == ASSUME ~LongPauses PROVE Spec => SuccessMeansPublished
  <1> DEFINE True == \A p \in reported' \ reported :
                        manifest = want[p] /\ Complete(want[p])
  <1>1. ASSUME LeaseInv, WorkInv, [Next]_vars PROVE True
    <2> SUFFICES ASSUME NEW p \in reported' \ reported
                 PROVE  manifest = want[p] /\ Complete(want[p])
      OBVIOUS
    <2>1. \E q \in Publishers : Release(q)
      BY <1>1 DEF Next, Run, Acquire, Begin, Probe, CreateLease, LeaseTaken,
                  Head, DeleteExpired, Match, Decide, Hide, Upload, Uploaded,
                  Commit, Fail, Crash, Age, Quietly, vars
    <2>2. PICK q \in Publishers : Release(q)
      BY <2>1
    <2>3. p = q /\ pc[p] = "release"
      BY <2>2, PhaseNames DEF Release, Answer
    <2>4. manifest = want[p] /\ want[p] \in Publications
      BY <1>1, <2>3 DEF WorkInv, Working, LeaseInv, TypeOK
    <2> QED BY <1>1, <2>4, BucketAssumption DEF WorkInv, NoFalseCompletion
  <1>2. Spec => [][True]_vars
    BY <1>1, WorkHolds, PTL DEF Spec, Layout
  <1> QED BY <1>2 DEF SuccessMeansPublished

(* Only a publisher that staged something else takes a record away: what is *)
(* already published stays while it is compared.                           *)
THEOREM RecordStays == ASSUME ~LongPauses PROVE Spec => CompleteKept
  <1> DEFINE Stays == manifest # None /\ manifest' = None =>
                 \E p \in Publishers : pc[p] = "hide" /\ want[p] # manifest
  <1>1. ASSUME LeaseInv, WorkInv, [Next]_vars PROVE Stays
    <2> SUFFICES ASSUME manifest # None, manifest' = None
                 PROVE  \E p \in Publishers : pc[p] = "hide" /\ want[p] # manifest
      OBVIOUS
    <2>1. ASSUME NEW p \in Publishers, Commit(p) PROVE FALSE
      BY <1>1, <2>1, BucketAssumption DEF Commit, LeaseInv, TypeOK
    <2>2. \E p \in Publishers : Hide(p)
      BY <1>1, <2>1 DEF Next, Run, Acquire, Begin, Probe, CreateLease,
                  LeaseTaken, Head, DeleteExpired, Match, Decide, Upload,
                  Uploaded, Release, Fail, Crash, Age, Quietly, vars
    <2>3. PICK p \in Publishers : Hide(p)
      BY <2>2
    <2>4. pc[p] = "hide" /\ want[p] # manifest
      BY <1>1, <2>3 DEF Hide, Answer, WorkInv, Working
    <2> QED BY <2>4
  <1>2. Spec => [][Stays]_vars
    BY <1>1, WorkHolds, PTL DEF Spec, Layout
  <1> QED BY <1>2 DEF CompleteKept

-----------------------------------------------------------------------------
(* The refinement.                                                         *)

(* What the console reads through publication.json is what it says. *)
LEMMA ShownIsManifest == LeaseInv /\ WorkInv => Shown = manifest
  <1> SUFFICES ASSUME LeaseInv, WorkInv, manifest # None
               PROVE  [i \in Items |-> store[Key(i, manifest[i])]] = manifest
    BY DEF Shown
  <1>1. manifest \in [Items -> Contents]
    BY BucketAssumption DEF LeaseInv, TypeOK
  <1>2. \A i \in Items : store[Key(i, manifest[i])] = manifest[i]
    BY DEF WorkInv, NoFalseCompletion, Complete, Holds
  <1> QED BY <1>1, <1>2

(* The bucket implements Catalogue: a console sees whole publications, and  *)
(* nothing between one and the next.                                       *)
THEOREM CatalogueKept == ASSUME Layout PROVE Spec => KeepsCatalogue
  <1>1. Init => Console!Init
    BY DEF Init, Console!Init, Shown
  <1>2. ASSUME LeaseInv, WorkInv, Shown = manifest, (Shown = manifest)', [Next]_vars
        PROVE  [Console!Next]_Shown
    <2>1. Shown = manifest /\ Shown' = manifest'
      BY <1>2
    <2>2. CASE manifest' = manifest
      BY <2>1, <2>2
    <2>3. CASE manifest' # manifest
      <3>1. \E p \in Publishers : Hide(p) \/ Commit(p)
        BY <1>2, <2>3 DEF Next, Run, Acquire, Begin, Probe, CreateLease,
             LeaseTaken, Head, DeleteExpired, Match, Decide, Upload, Uploaded,
             Release, Fail, Crash, Age, Quietly, vars
      <3>2. ASSUME NEW p \in Publishers, Hide(p) PROVE Console!Withdraw
        BY <2>1, <2>3, <3>2 DEF Hide, Console!Withdraw
      <3>3. ASSUME NEW p \in Publishers, Commit(p) PROVE Console!Publish(want[p])
        <4>1. manifest' = want[p] /\ pc[p] = "commit"
          BY <2>3, <3>3 DEF Commit, Answer
        <4>2. manifest = None
          BY <1>2, <2>3, <3>3, <4>1 DEF Commit, Layout, WorkInv, Working
        <4> QED BY <2>1, <4>1, <4>2 DEF Console!Publish
      <3>4. \A p \in Publishers : want[p] \in Publications
        BY <1>2 DEF LeaseInv, TypeOK
      <3> QED BY <3>1, <3>2, <3>3, <3>4 DEF Console!Next
    <2> QED BY <2>2, <2>3
  <1>3. Spec => [](LeaseInv /\ WorkInv /\ Shown = manifest)
    BY WorkHolds, ShownIsManifest, PTL
  <1>4. Spec => Console!Init /\ [][Console!Next]_Shown
    BY <1>1, <1>2, <1>3, PTL DEF Spec
  <1> QED BY <1>4 DEF KeepsCatalogue, Console!Spec
=============================================================================
