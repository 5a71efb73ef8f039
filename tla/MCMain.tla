-------------------------------- MODULE MCMain --------------------------------
(***************************************************************************)
(* src/main.py: passes over one session recorded by two cameras ("long"),      *)
(* passes over two sessions recorded side by side ("wide"), or the reading of  *)
(* a card ("read"): every card of up to N sessions of two takes, with any       *)
(* numbers, predecessors, devices, times and doubles.  Init chooses; the        *)
(* variables of the others stay at their first values.                        *)
(***************************************************************************)
EXTENDS Naturals, FiniteSets, TakeGraph

CONSTANTS
    s1, s2, v1, v2, t1, t2, Partial,
    N, Ids

VARIABLES
    job,
    card, tool, pc, passes, options, found, todo, cur, left, snapshot, work,
    outcome, published, changes,
    corpus, mode, kept, accepted

Option(rotation, force, skip) ==
    [preset |-> "slow", rotation |-> rotation, force |-> force, skip |-> skip]
Skipping == {Option(0, FALSE, FALSE), Option(180, FALSE, FALSE),
             Option(0, TRUE, FALSE), Option(180, FALSE, TRUE)}

(* Passes over any card, and the two of the runs. *)
Passes(c) == INSTANCE CardPipeline WITH
    Sessions <- c.sessions, Versions <- c.versions, Odd <- c.odd, Split <- c.split,
    Concat <- c.concat, Versioned <- c.versioned, Options <- c.options,
    Tools <- c.tools, Unreadable <- c.unreadable, MaxChanges <- c.changes,
    MaxPasses <- c.passes
Long == [sessions |-> {s1}, versions |-> {v1, v2}, odd |-> {}, split |-> TRUE,
         concat |-> TRUE, versioned |-> {s1}, options |-> Skipping, tools |-> {t1},
         unreadable |-> FALSE, changes |-> 2, passes |-> 3]
Wide == [sessions |-> {s1, s2}, versions |-> {v1, v2}, odd |-> {v2}, split |-> FALSE,
         concat |-> TRUE, versioned |-> {s1}, options |-> {Option(180, FALSE, FALSE)},
         tools |-> {t1, t2}, unreadable |-> TRUE, changes |-> 1, passes |-> 2]

ASSUME MCMainAssumption ==
    /\ Passes(Long)!PipelineConstants /\ Passes(Wide)!PipelineConstants
    /\ N \in Nat \ {0} /\ None \notin 1..N

passVars == <<card, tool, pc, passes, options, found, todo, cur, left, snapshot,
              work, outcome, published, changes>>
readVars == <<corpus, mode, kept, accepted>>
vars == <<job, passVars, readVars>>

Session(d, id, manifest, take, seq, pred, device, time) ==
    [dir |-> d, id |-> id, manifest |-> manifest,
     take |-> take, seq |-> seq, pred |-> pred, device |-> device,
     captured |-> time, sealed |-> time]

Corpora ==
    {{Session(d, IF d = N THEN last[1] ELSE d, IF d = N THEN last[2] ELSE d,
              take[d], seq[d], pred[d],
              IF d = 1 THEN odd ELSE 2, IF d = N THEN early ELSE d) : d \in 1..N} :
        last \in {<<N, N>>, <<1, N>>, <<N, 1>>},
        take \in {f \in [1..N -> {1, 2}] : f[1] = 1},
        seq \in [1..N -> 1..N], pred \in [1..N -> Ids \cup {None}],
        odd \in {1, 2}, early \in {1, N}}

Init ==
    /\ job \in {"long", "wide", "read"}
    /\ IF job = "wide" THEN Passes(Wide)!Init ELSE Passes(Long)!Init
    /\ job = "read" =>
           options = Option(0, FALSE, FALSE) /\ card[s1]["manifest"] = v1
    /\ IF job = "read" THEN corpus \in Corpora ELSE corpus = {}
    /\ mode = "card" /\ kept = {} /\ accepted = FALSE

(* read_sessions without and with on_error. *)
ReadStrictly ==
    /\ job = "read" /\ mode = "card" /\ mode' = "strict"
    /\ accepted' = Accepts(corpus)
    /\ kept' = IF Accepts(corpus) THEN corpus ELSE {}
    /\ UNCHANGED <<job, passVars, corpus>>

ReadTolerantly ==
    /\ job = "read" /\ mode = "card" /\ mode' = "tolerant"
    /\ kept' = Readable(corpus)
    /\ UNCHANGED <<job, passVars, corpus, accepted>>

Next ==
    \/ job = "long" /\ Passes(Long)!Next /\ UNCHANGED <<job, readVars>>
    \/ job = "wide" /\ Passes(Wide)!Next /\ UNCHANGED <<job, readVars>>
    \/ ReadStrictly \/ ReadTolerantly

Spec == Init /\ [][Next]_vars

-----------------------------------------------------------------------------
(* A video that is reused is what its record says, and a publication tells the *)
(* truth about its videos, whatever passes were killed or failed and however    *)
(* the card changed.                                                          *)
Faithful ==
    IF job = "wide" THEN Passes(Wide)!TypeOK /\ Passes(Wide)!CacheSound /\ Passes(Wide)!Faithful
                    ELSE Passes(Long)!TypeOK /\ Passes(Long)!CacheSound /\ Passes(Long)!Faithful

(* No session is left out because another one failed, and none is refused for  *)
(* what an earlier pass left of it: only turned cameras are refused, and those  *)
(* by every pass.                                                             *)
Served ==
    /\ [](job = "long" => Passes(Long)!RetryPublishes)
    /\ [][IF job = "wide" THEN Passes(Wide)!Tried ELSE Passes(Long)!Tried]_vars

(* The strict reader accepts exactly the cards whose takes are chains: the walk *)
(* over predecessors, the numbering and the checks along the links together    *)
(* leave no cycle, gap, branch or shared session.  The tolerant reader keeps   *)
(* every take that is a chain of its own and shares nothing, however broken    *)
(* the rest of the card is, and what it keeps the strict one would accept.     *)
TakesExact ==
    /\ mode = "strict" => (accepted <=> Chains(corpus))
    /\ mode = "tolerant" =>
        /\ Chains(kept)
        /\ \A t \in Takes(corpus) :
            LET M == Take(corpus, t) IN
            M \subseteq kept <=>
                IsChain(M) /\ \A s \in M : Single(corpus, s)
=============================================================================
