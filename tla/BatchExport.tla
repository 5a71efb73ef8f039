----------------------------- MODULE BatchExport -----------------------------
(***************************************************************************)
(* Exporting several recordings of one source (OpenAriaSDK.export in          *)
(* client.py).  The recordings are numbered in the order of the fresh list.  *)
(* A batch that continues on errors keeps a window of at most MaxWorkers      *)
(* exports in flight and refills it as they finish, in any order; any other   *)
(* batch is sequential and stops at the first error.  What one export does is *)
(* the subject of ExportTree; here it succeeds, fails with an error the batch *)
(* collects, or breaks with one it does not.                                 *)
(***************************************************************************)
EXTENDS Orders, Sequences, SequencesExt

CONSTANTS
    Count,      \* recordings on the source
    Unknown,    \* identifiers that are not on the source
    MaxWorkers,
    All         \* session_ids is None

Listed == 1..Count
BatchConstants ==
    /\ Count \in Nat /\ MaxWorkers \in 1..8
    /\ Unknown \cap Listed = {} /\ Unknown \subseteq Nat /\ IsFiniteSet(Unknown)

VARIABLES
    requested, exportable, continue,    \* the call and the list it refreshed
    pc,
    remaining,  \* chosen recordings not submitted yet
    active,     \* submitted and not collected
    running,    \* the exports in progress
    outcome,    \* how an export ended: "", "ok", "failed" or "broken"
    exported, failures

vars == <<requested, exportable, continue, pc, remaining, active, running,
          outcome, exported, failures>>
input == <<requested, exportable, continue>>

Wanted(s) == requested = All \/ s \in requested
Chosen == {s \in exportable : Wanted(s)}
UnknownIds == IF requested = All THEN {} ELSE requested \cap Unknown
Unavailable == IF requested = All THEN {}
               ELSE (requested \cap Listed) \ exportable
Parallel == continue /\ MaxWorkers > 1 /\ Cardinality(Chosen) > 1

Init ==
    /\ requested \in {All} \cup SUBSET (Listed \cup Unknown)
    /\ exportable \in SUBSET Listed /\ continue \in BOOLEAN
    /\ pc = "list" /\ remaining = <<>> /\ active = {} /\ running = {}
    /\ outcome = [s \in Listed |-> ""] /\ exported = <<>> /\ failures = <<>>

(* The catalog is read, and what cannot be exported is told or fails at once. *)
List ==
    /\ pc = "list"
    /\ IF ~continue /\ UnknownIds \cup Unavailable # {}
       THEN pc' = "raised" /\ UNCHANGED <<remaining, failures>>
       ELSE /\ pc' = "export" /\ remaining' = Ascending(Chosen)
            /\ failures' = Ascending(UnknownIds) \o Ascending(Unavailable)
    /\ UNCHANGED <<input, active, running, outcome, exported>>

ListFails ==
    /\ pc = "list"
    /\ pc' = "raised"
    /\ UNCHANGED <<input, remaining, active, running, outcome, exported,
                   failures>>

Room == Cardinality(active) < IF Parallel THEN MaxWorkers ELSE 1

Submit ==
    /\ pc = "export" /\ remaining # <<>> /\ Room
    /\ active' = active \cup {Head(remaining)}
    /\ running' = running \cup {Head(remaining)}
    /\ remaining' = Tail(remaining)
    /\ UNCHANGED <<input, pc, outcome, exported, failures>>

Work(s, how) ==
    /\ s \in running
    /\ running' = running \ {s}
    /\ outcome' = [outcome EXCEPT ![s] = how]
    /\ UNCHANGED <<input, pc, remaining, active, exported, failures>>

(* collect(): an OpenAriaError or an OSError is a failure of one recording,   *)
(* unless the batch stops at the first; anything else leaves the executor,    *)
(* which waits for the exports in flight.                                    *)
Collect(s) ==
    /\ pc = "export" /\ s \in active \ running
    /\ active' = active \ {s}
    /\ exported' = IF outcome[s] = "ok" THEN Append(exported, s) ELSE exported
    /\ failures' = IF outcome[s] = "failed" /\ continue
                   THEN Append(failures, s) ELSE failures
    /\ pc' = IF outcome[s] = "broken" \/ (outcome[s] = "failed" /\ ~continue)
             THEN "leave" ELSE pc
    /\ UNCHANGED <<input, remaining, running, outcome>>

(* Sorted by the places in the list; the identifiers it does not have come     *)
(* first, in their own order.                                                *)
Place(s) == IF s \in Listed THEN s ELSE 0
Precedes(r, s) == Place(r) < Place(s) \/ (Place(r) = Place(s) /\ r < s)
InOrder(q) ==
    LET p == CHOOSE f \in [DOMAIN q -> DOMAIN q] : IsInjective(f) /\
                 \A i, j \in DOMAIN q : i < j => ~Precedes(q[f[j]], q[f[i]])
    IN [i \in DOMAIN q |-> q[p[i]]]

Return ==
    /\ pc = "export" /\ remaining = <<>> /\ active = {}
    /\ pc' = "returned"
    /\ IF Parallel
       THEN exported' = InOrder(exported) /\ failures' = InOrder(failures)
       ELSE UNCHANGED <<exported, failures>>
    /\ UNCHANGED <<input, remaining, active, running, outcome>>

(* Wrong: the error is raised while other exports still run. *)
RaiseAtOnce ==
    /\ pc = "leave"
    /\ pc' = "raised"
    /\ UNCHANGED <<input, remaining, active, running, outcome, exported,
                   failures>>

Raise ==
    /\ pc = "leave" /\ running = {}
    /\ pc' = "raised"
    /\ UNCHANGED <<input, remaining, active, running, outcome, exported,
                   failures>>

Next ==
    \/ List \/ ListFails \/ Submit \/ Return \/ Raise
    \/ \E s \in Listed :
        Collect(s) \/ \E how \in {"ok", "failed", "broken"} : Work(s, how)

Spec == Init /\ [][Next]_vars

(* Every step of an export has a timeout or ends with its data. *)
FairSpec == Spec /\ WF_vars(Next)

-----------------------------------------------------------------------------
TypeOK ==
    /\ pc \in {"list", "export", "leave", "raised", "returned"}
    /\ running \subseteq active /\ active \subseteq Listed
    /\ Cardinality(active) <= MaxWorkers
    /\ outcome \in [Listed -> {"", "ok", "failed", "broken"}]

(* A batch that returns tells of every recording that was asked for exactly   *)
(* once, as exported or as failed, and as it really ended, in whatever order   *)
(* the exports finished.                                                      *)
EachOnce == pc = "returned" =>
    /\ ToSet(exported) = {s \in Listed : outcome[s] = "ok"}
    /\ ToSet(exported) \cup ToSet(failures) =
           Chosen \cup UnknownIds \cup Unavailable
    /\ IsInjective(exported \o failures)

(* The exports are reported in the order of the list. *)
Sorted == pc = "returned" =>
    \A i, j \in 1..Len(exported) : i < j => exported[i] < exported[j]

(* No export is running once the call has ended: nothing goes on writing into *)
(* the output directory behind the caller's back.                             *)
Quiet == pc \in {"returned", "raised"} => running = {}

(* In a batch that stops at the first error, no export starts once one has    *)
(* failed.                                                                    *)
StopsAtFirst ==
    [][~continue /\ (\E s \in Listed : outcome[s] \in {"failed", "broken"})
           => running' \subseteq running]_vars

(* The window is refilled and emptied: the call ends. *)
Ends == <>(pc \in {"returned", "raised"})
=============================================================================
