----------------------------- MODULE CardDelete -----------------------------
(***************************************************************************)
(* Reading and deleting the recordings of a mounted card (_card.py and the    *)
(* card branch of OpenAriaSDK.delete_sessions).  A card is a set of           *)
(* directories, each with the session its manifest describes; removing one    *)
(* can fail after some of its files are gone, with the manifest or without.   *)
(* A directory may be unreadable while the inventory is read, as one bad      *)
(* sector makes it, and readable at the next one.                             *)
(***************************************************************************)
EXTENDS TakeGraph, Sequences, SequencesExt

CONSTANTS
    Lengths,    \* the takes of the card: how many sessions each has
    Glitches    \* directories can be unreadable for one reading

(* One card: take n has sessions <<n, 1>>, ..., each continuing the last. *)
Session(n, q) ==
    [dir |-> <<n, q>>, id |-> <<n, q>>, manifest |-> <<n, q>>, take |-> n,
     seq |-> q, pred |-> IF q = 1 THEN None ELSE <<n, q - 1>>, device |-> 1,
     captured |-> q, sealed |-> q]
Recordings == UNION {{Session(n, q) : q \in 1..n} : n \in Lengths}

CardConstants ==
    /\ Lengths \subseteq Nat \ {0} /\ IsFiniteSet(Lengths) /\ Glitches \in BOOLEAN
    /\ \A s \in Recordings : s.id # None

VARIABLES
    state,      \* each recording: "whole", "partial", "torn" (no manifest)
                \* or "gone"
    pc,
    inventory,  \* the sessions the last reading kept
    chosen,     \* the recordings to delete
    queue,      \* those still to be removed, in order
    deleted, failed

vars == <<state, pc, inventory, chosen, queue, deleted, failed>>

Described(st) == {s \in Recordings : st[s] \in {"whole", "partial"}}

Init ==
    /\ state = [s \in Recordings |-> "whole"]
    /\ pc = "idle" /\ inventory = {} /\ chosen = {} /\ queue = <<>>
    /\ deleted = {} /\ failed = {}

Unreadable == IF Glitches THEN SUBSET Recordings ELSE {{}}

(* _read_inventory: what cannot be read is reported, not kept. *)
Inventory(c, bad) ==
    /\ pc \in {"idle", "told"} /\ c # {}
    /\ bad \subseteq Described(state)
    /\ inventory' = Readable(Described(state) \ bad)
    /\ chosen' = c /\ pc' = "check"
    /\ deleted' = {} /\ failed' = {}
    /\ UNCHANGED <<state, queue>>

(* Wrong: a continuation may stay. *)
ClosedNot(c) == c \subseteq inventory

(* delete_card_sessions: only what the inventory has, with everything the     *)
(* inventory knows to continue it, the last continuation first.               *)
Closed(c) ==
    /\ c \subseteq inventory
    /\ \A s \in inventory : s.pred \in {d.id : d \in c} => s \in c

Before(r, s) == r.seq > s.seq \/ (r.seq = s.seq /\ r.take > s.take)
LastFirst(S) ==
    CHOOSE q \in [1..Cardinality(S) -> S] :
        \A i, j \in DOMAIN q : i < j => Before(q[i], q[j])

Check ==
    /\ pc = "check"
    /\ IF Closed(chosen)
       THEN pc' = "remove" /\ queue' = LastFirst(chosen)
       ELSE pc' = "told" /\ UNCHANGED queue
    /\ UNCHANGED <<state, inventory, chosen, deleted, failed>>

RemoveNext ==
    /\ pc = "remove" /\ queue # <<>>
    /\ state' = [state EXCEPT ![Head(queue)] = "gone"]
    /\ deleted' = deleted \cup {Head(queue)}
    /\ queue' = Tail(queue)
    /\ UNCHANGED <<pc, inventory, chosen, failed>>

(* rmtree fails; the rest is reported as failed and left alone. *)
RemoveFails(left) ==
    /\ pc = "remove" /\ queue # <<>>
    /\ left = "whole" => state[Head(queue)] = "whole"
    /\ state' = [state EXCEPT ![Head(queue)] = left]
    /\ failed' = ToSet(queue) /\ queue' = <<>>
    /\ UNCHANGED <<pc, inventory, chosen, deleted>>

Tell ==
    /\ pc = "remove" /\ queue = <<>>
    /\ pc' = "told"
    /\ UNCHANGED <<state, inventory, chosen, queue, deleted, failed>>

(* The process is killed, or the card pulled out, between two removals. *)
Stop ==
    /\ pc = "remove"
    /\ pc' = "idle" /\ queue' = <<>>
    /\ UNCHANGED <<state, inventory, chosen, deleted, failed>>

Next ==
    \/ Check \/ RemoveNext \/ Tell \/ Stop
    \/ \E left \in {"whole", "partial", "torn"} : RemoveFails(left)
    \/ \E c \in SUBSET Recordings, bad \in Unreadable : Inventory(c, bad)

Spec == Init /\ [][Next]_vars

-----------------------------------------------------------------------------
TypeOK ==
    /\ state \in [Recordings -> {"whole", "partial", "torn", "gone"}]
    /\ pc \in {"idle", "check", "remove", "told"}
    /\ inventory \subseteq Recordings /\ chosen \subseteq Recordings
    /\ ToSet(queue) \subseteq chosen /\ deleted \subseteq chosen
    /\ failed \subseteq chosen

(* At every moment of a deletion, also after a failure or a kill in the       *)
(* middle of it, every recording whose manifest is left is still readable: no  *)
(* continuation has lost the recording it continues.                           *)
StillChains == Readable(Described(state)) = Described(state)

(* A deletion reports every chosen recording once, and as deleted exactly      *)
(* those that are gone from the card.                                          *)
Reported == pc = "told" /\ deleted \cup failed # {} =>
    /\ deleted \cup failed = chosen /\ deleted \cap failed = {}
    /\ \A s \in chosen : s \in deleted <=> state[s] = "gone"

(* Nothing the user did not choose is ever touched. *)
Untouched == [][\A s \in Recordings : state'[s] # state[s] => s \in chosen]_vars

(* README.md: "Linked continuations must be included when deleting their      *)
(* predecessor".  No recording on the card continues one that was deleted;     *)
(* with Glitches the code does not keep this (README, 4).                     *)
NoOrphan == \A s \in Described(state), r \in deleted : s.pred # r.id
=============================================================================
