---------------------------- MODULE CatalogPages ----------------------------
(***************************************************************************)
(* Listing the recordings of a device (DeviceApiClient.list_sessions in      *)
(* _lan.py).  The device (external) serves its catalog in pages; every page   *)
(* of session-list.v3 carries the digest of the whole catalog, represented   *)
(* here by the catalog itself, and session-list.v2 has one page.  Recordings *)
(* appear and disappear between two pages.  A recording whose verification    *)
(* the catalog leaves open is resolved by reading its manifest.  The clock of  *)
(* a device may be wrong: as soon as one recording has a note on its time, the  *)
(* whole list is put in the order of the times.                              *)
(***************************************************************************)
EXTENDS Naturals, Sequences, FiniteSets, SequencesExt

CONSTANTS
    Sessions,       \* naturals: the device lists them in this order
    Pending,        \* those the catalog lists without a verification
    Noted,          \* those with a note on their time
    Started,        \* when each recording started; 0 cannot be read
    PageSize,
    MaxAttempts,    \* MAX_REQUEST_ATTEMPTS
    Paged           \* session-list.v3

CatalogConstants ==
    /\ Sessions \subseteq Nat /\ IsFiniteSet(Sessions)
    /\ {Pending, Noted} \subseteq SUBSET Sessions
    /\ Started \in [Sessions -> Nat]
    /\ PageSize \in Nat \ {0} /\ MaxAttempts \in Nat \ {0}
    /\ Paged \in BOOLEAN

VARIABLES
    catalog,    \* the recordings of the device
    good,       \* those whose manifest matches the device and the catalog
    pc,
    attempt,
    cursor,     \* how many recordings the device has listed
    revision,   \* the revision of the first page, in a set; {} before it
    sessions,   \* the recordings read so far
    unresolved, \* those whose manifest is still to be read
    unusable,   \* those listed as not exportable
    snapshots   \* history: the catalogs of the device since the call began

vars == <<catalog, good, pc, attempt, cursor, revision, sessions,
          unresolved, unusable, snapshots>>
device == <<catalog, good, snapshots>>
pages == <<attempt, cursor, revision, sessions>>

DeviceOrder == {o \in Sessions \X Sessions : o[1] < o[2]}

(* The sort is stable: equal times stay in the order of the device. *)
LatestFirst == {o \in Sessions \X Sessions :
    \/ Started[o[1]] > Started[o[2]]
    \/ Started[o[1]] = Started[o[2]] /\ o \in DeviceOrder}

(* All recordings of a catalog, one after the other. *)
Lists(s, c, order) ==
    /\ ToSet(s) = c /\ Len(s) = Cardinality(c)
    /\ \A i, j \in DOMAIN s : i < j => <<s[i], s[j]>> \in order

Arranged(c, order) ==
    CHOOSE s \in [1..Cardinality(c) -> c] : Lists(s, c, order)

(* A catalog in the order of the device. *)
Ordered(c) == Arranged(c, DeviceOrder)

Init ==
    /\ catalog \in SUBSET Sessions /\ good \in SUBSET Pending
    /\ snapshots = {catalog}
    /\ pc = "page" /\ attempt = 0
    /\ cursor = 0 /\ revision = {} /\ sessions = <<>>
    /\ unresolved = {} /\ unusable = {}

(* What the device sends after the cursor. *)
Page ==
    LET all == Ordered(catalog)
        upto == IF ~Paged \/ cursor + PageSize > Len(all)
                THEN Len(all) ELSE cursor + PageSize IN
    [items |-> SubSeq(all, cursor + 1, upto), more |-> upto < Len(all)]

SameRevision == revision = {} \/ revision = {catalog}

(* Wrong: what has been read is kept, the next page goes on. *)
RestartKeeping ==
    /\ pc = "page" /\ Paged /\ ~SameRevision
    /\ IF attempt < MaxAttempts - 1
       THEN /\ attempt' = attempt + 1 /\ revision' = {}
            /\ UNCHANGED <<pc, cursor, sessions>>
       ELSE pc' = "error" /\ UNCHANGED pages
    /\ UNCHANGED <<device, unresolved, unusable>>

(* Wrong: the restarts are not counted. *)
RestartForever ==
    /\ pc = "page" /\ Paged /\ ~SameRevision
    /\ cursor' = 0 /\ revision' = {} /\ sessions' = <<>>
    /\ UNCHANGED <<pc, attempt>>
    /\ UNCHANGED <<device, unresolved, unusable>>

(* _CatalogChangedError: all pages again, as often as there are attempts. *)
Restart ==
    /\ pc = "page" /\ Paged /\ ~SameRevision
    /\ IF attempt < MaxAttempts - 1
       THEN /\ attempt' = attempt + 1
            /\ cursor' = 0 /\ revision' = {} /\ sessions' = <<>>
            /\ UNCHANGED pc
       ELSE pc' = "error" /\ UNCHANGED pages
    /\ UNCHANGED <<device, unresolved, unusable>>

(* One page; a recording that was already listed is an error. *)
Read ==
    /\ pc = "page" /\ (Paged => SameRevision)
    /\ IF ToSet(sessions) \cap ToSet(Page.items) # {}
       THEN pc' = "error" /\ UNCHANGED <<pages, unresolved>>
       ELSE /\ sessions' = sessions \o Page.items
            /\ revision' = {catalog}
            /\ cursor' = cursor + Len(Page.items)
            /\ pc' = IF Page.more THEN "page" ELSE "resolve"
            /\ unresolved' = IF Page.more THEN {}
                             ELSE ToSet(sessions') \cap Pending
            /\ UNCHANGED attempt
    /\ UNCHANGED <<device, unusable>>

(* A request or a page that breaks the contract. *)
Fail ==
    /\ pc = "page"
    /\ pc' = "error"
    /\ UNCHANGED <<device, pages, unresolved, unusable>>

(* resolve(), on four threads: a manifest that cannot be read or does not    *)
(* match makes its recording unusable and nothing else.                      *)
Usable(s) == s \in good /\ s \in catalog
Resolve(s) ==
    /\ pc = "resolve" /\ s \in unresolved
    /\ unresolved' = unresolved \ {s}
    /\ unusable' = IF Usable(s) THEN unusable ELSE unusable \cup {s}
    /\ UNCHANGED <<device, pages, pc>>

(* The request for the manifest fails. *)
Unreadable(s) ==
    /\ pc = "resolve" /\ s \in unresolved
    /\ unresolved' = unresolved \ {s}
    /\ unusable' = unusable \cup {s}
    /\ UNCHANGED <<device, pages, pc>>

(* A note on one time is enough for all to be sorted by their times. *)
Return ==
    /\ pc = "resolve" /\ unresolved = {}
    /\ pc' = "done"
    /\ sessions' = IF ToSet(sessions) \cap Noted = {} THEN sessions
                   ELSE Arranged(ToSet(sessions), LatestFirst)
    /\ UNCHANGED <<device, attempt, cursor, revision, unresolved, unusable>>

(* The device records, deletes, or finds out about its recordings. *)
Change(c) ==
    /\ pc \in {"page", "resolve"} /\ c # catalog
    /\ catalog' = c /\ snapshots' = snapshots \cup {c}
    /\ UNCHANGED <<good, pages, pc, unresolved, unusable>>

Client ==
    \/ Restart \/ Read \/ Fail \/ Return
    \/ \E s \in Sessions : Resolve(s) \/ Unreadable(s)

Next == Client \/ \E c \in SUBSET Sessions : Change(c)

Spec == Init /\ [][Next]_vars

(* Requests have timeouts and the thread pool runs every manifest. *)
FairSpec == Spec /\ WF_vars(Client)

-----------------------------------------------------------------------------
TypeOK ==
    /\ catalog \subseteq Sessions
    /\ pc \in {"page", "resolve", "done", "error"}
    /\ attempt \in 0..MaxAttempts - 1
    /\ sessions \in SeqOf(Sessions, Cardinality(Sessions))
    /\ unresolved \subseteq Pending /\ unusable \subseteq Pending

(* A list that is returned is the whole catalog of the device at one moment  *)
(* of the call, each recording once, although the catalog changed between its  *)
(* pages; in the device's order, or the latest first when the time of one of   *)
(* them is in doubt (_lan.py:219).                                            *)
Snapshot == pc = "done" => \E c \in snapshots :
    Lists(sessions, c, IF c \cap Noted = {} THEN DeviceOrder ELSE LatestFirst)

(* A recording of the returned list without a verification of the catalog is  *)
(* exportable only after its own manifest has been read and found right.      *)
Resolved == pc = "done" =>
    \A s \in (ToSet(sessions) \cap Pending) \ unusable : s \in good

(* A catalog that keeps changing ends the call, with or without a list.      *)
Ends == <>(pc \in {"done", "error"})
=============================================================================
