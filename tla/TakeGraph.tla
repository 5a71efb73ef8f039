------------------------------ MODULE TakeGraph ------------------------------
(***************************************************************************)
(* Which recordings of a card belong together (main.py).  A take is a chain   *)
(* of sessions, each naming the one it continues.  _validate_closed_device_   *)
(* session_take_graph accepts or rejects a whole corpus; _readable_session_   *)
(* takes keeps the takes it accepts one by one.  A corpus is a set of         *)
(* sessions [dir, id, manifest, take, seq, pred, device, captured, sealed].   *)
(***************************************************************************)
EXTENDS Naturals, FiniteSets

CONSTANT None       \* continuation_of of the first session of a take

Take(S, t) == {s \in S : s.take = t}
Takes(S) == {s.take : s \in S}
ById(S, i) == {s \in S : s.id = i}

Single(S, s) == \A r \in S \ {s} : r.id # s.id /\ r.manifest # s.manifest
Unique(S) == \A s \in S : Single(S, s)

(* What following continuation_of from s meets, and the walk's two errors: a  *)
(* predecessor that is not there, and one met before.                         *)
Step(S, i) == UNION {{s.pred} : s \in ById(S, i)}
Met(S, s) ==
    LET met[n \in Nat] == IF n = 0 THEN {s.pred} \ {None}
                          ELSE met[n - 1] \cup
                               UNION {Step(S, i) \ {None} : i \in met[n - 1]}
    IN met[Cardinality(S)]
Walks(S, s) ==
    /\ \A i \in Met(S, s) : ById(S, i) # {}
    /\ s.id \notin Met(S, s)

Numbered(M) == {s.seq : s \in M} = 1..Cardinality(M)

(* Wrong: the predecessor may be of another take. *)
ContinuesAny(S, s) == \E p \in ById(S, s.pred) :
    /\ p.seq + 1 = s.seq
    /\ p.device = s.device
    /\ p.sealed <= s.captured

Continues(S, s) == \E p \in ById(S, s.pred) :
    /\ p.take = s.take
    /\ p.seq + 1 = s.seq
    /\ p.device = s.device
    /\ p.sealed <= s.captured

Unbranched(M) == \A r, s \in M : r.pred = s.pred => r = s

Accepts(S) ==
    /\ Unique(S)
    /\ \A s \in S : Walks(S, s)
    /\ \A t \in Takes(S) :
        LET M == Take(S, t) IN
        /\ Numbered(M)
        /\ \A s \in M : IF s.seq = 1 THEN s.pred = None ELSE Continues(S, s)
        /\ Unbranched(M)

(* Identifiers that occur twice anywhere on the card reject their takes. *)
Readable(S) ==
    UNION {M \in {Take(S, t) : t \in Takes(S)} :
        (\A s \in M : Single(S, s)) /\ Accepts(M)}

-----------------------------------------------------------------------------
(* The definition the walk and the checks implement: each take is a sequence  *)
(* of sessions of one device in which each continues the one before it, made   *)
(* after that one was sealed, and nothing on the card has two owners.          *)
IsChain(M) ==
    \E f \in [1..Cardinality(M) -> M] :
        /\ \A s \in M : \E i \in DOMAIN f : f[i] = s
        /\ \A i \in DOMAIN f :
            /\ f[i].seq = i
            /\ f[i].pred = IF i = 1 THEN None ELSE f[i - 1].id
            /\ i > 1 => /\ f[i].device = f[i - 1].device
                        /\ f[i - 1].sealed <= f[i].captured

Chains(S) == Unique(S) /\ \A t \in Takes(S) : IsChain(Take(S, t))
=============================================================================
