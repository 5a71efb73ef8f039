--------------------------- MODULE SourceDiscovery ---------------------------
(***************************************************************************)
(* Finding sources and listing what they have (discover, select_source and    *)
(* list_sessions of OpenAriaSDK, the mDNS listener and probe_lan_sources of   *)
(* _lan.py, discover_card_inventories of _card.py): one SDK object, called    *)
(* again and again while devices and cards come and go.                      *)
(*                                                                           *)
(* A place is an endpoint of the LAN or a mount point; several endpoints may  *)
(* belong to one device.  What a device has is a number, 0 for no recordings. *)
(***************************************************************************)
EXTENDS Naturals, FiniteSets

CONSTANTS
    Places, Devices,
    Label,          \* device_label of each device, not always unique
    Selector,       \* the device to choose: an id, a label or a place, or None
    CardMode,       \* SourceMode.CARD
    MaxEvents,      \* bound on what happens outside
    MaxCalls,
    None

VARIABLES
    there,      \* external: the device at each place, or None
    has,        \* external: what each device has
    sources,    \* _sources: a set of [device, at], or None
    cache,      \* _session_cache: source -> what it had and whose that is
    cards,      \* _card_inventories: place -> the same
    call,       \* the call in progress: step, what it is for and its source
    pending,    \* places announced (browse), or not yet probed (probe)
    found,      \* sources_by_device: the sources probed so far
    result,     \* of the last call
    answered,   \* history: what answered the last probes
    current,    \* history: what each source has had since it was last asked for
    events, calls

vars == <<there, has, sources, cache, cards, call, pending, found, result,
          answered, current, events, calls>>
world == <<there, has, events>>
probing == <<pending, found, answered>>

Source(d, p) == [device |-> d, at |-> p]
AllSources == {Source(d, p) : d \in Devices, p \in Places}
DiscoveryConstants ==
    /\ None \notin Devices \cup Places /\ None \notin AllSources
    /\ \A S \in SUBSET AllSources : S # None
    /\ DOMAIN Label = Devices /\ Places # {} /\ CardMode \in BOOLEAN
    /\ MaxEvents \in Nat /\ MaxCalls \in Nat

(* A list of recordings, each with its device; an empty list says nothing. *)
Empty == [device |-> None, has |-> 0]
Content(d) == IF has[d] = 0 THEN Empty ELSE [device |-> d, has |-> has[d]]
Without(f, x) == [y \in DOMAIN f \ {x} |-> f[y]]
With(f, x, v) == [y \in DOMAIN f \cup {x} |-> IF y = x THEN v ELSE f[y]]

Idle == [step |-> "idle", list |-> FALSE, refresh |-> FALSE, source |-> None]
Nothing == [kind |-> "none", source |-> None, content |-> None]
Error(k) == [Nothing EXCEPT !.kind = k]

(* What a place can show at this moment, as far as anyone can read it. *)
Shown(p) == IF there[p] = None THEN {} ELSE {Content(there[p])}
Since == [p \in Places |-> Shown(p)]

Init ==
    /\ there \in [Places -> Devices \cup {None}]
    /\ has \in [Devices -> {0, 1}]
    /\ sources = None /\ cache = <<>> /\ cards = <<>>
    /\ call = Idle /\ pending = {} /\ found = {} /\ result = Nothing
    /\ answered = {}
    /\ current = [p \in Places |-> {}]
    /\ events = 0 /\ calls = 0

-----------------------------------------------------------------------------
(* discover(): the caches are cleared before anything is asked. *)

Forget ==
    /\ sources' = None /\ cache' = <<>> /\ cards' = <<>>
    /\ current' = Since

Begin(goal) ==
    /\ call.step = "idle" /\ calls < MaxCalls
    /\ calls' = calls + 1
    /\ result' = Nothing
    /\ UNCHANGED <<world, found, answered>>
    /\ IF sources = None \/ (goal.refresh /\ ~goal.list)
       THEN /\ call' = [goal EXCEPT !.step = "browse"]
            /\ Forget
            /\ pending' = IF CardMode THEN Places ELSE {}
       ELSE /\ call' = IF goal.list THEN [goal EXCEPT !.step = "select"] ELSE Idle
            /\ UNCHANGED <<sources, cache, cards, pending, current>>

Discover(refresh) == Begin([Idle EXCEPT !.refresh = refresh])
List(refresh) == Begin([Idle EXCEPT !.list = TRUE, !.refresh = refresh])

Finish(r) == call' = Idle /\ result' = r

(* add_service and update_service, on zeroconf's thread, for three seconds. *)
Announce(p) ==
    /\ call.step = "browse" /\ ~CardMode
    /\ pending' = pending \cup {p}
    /\ UNCHANGED <<world, sources, cache, cards, call, found, result,
                   answered, current, calls>>

Browsed ==
    /\ call.step = "browse"
    /\ IF pending = {} THEN Finish(Error("nothing"))
       ELSE call' = [call EXCEPT !.step = "probe"] /\ UNCHANGED result
    /\ found' = {} /\ answered' = {}
    /\ UNCHANGED <<world, sources, cache, cards, pending, current, calls>>

(* Wrong: devices are told apart by their labels. *)
KeepByLabel(d, p) ==
    found' = IF \E s \in found : Label[s.device] = Label[d] THEN found
             ELSE found \cup {Source(d, p)}

(* The first address of a device to answer; cards are told apart by place. *)
Keep(d, p) ==
    found' = IF ~CardMode /\ (\E s \in found : s.device = d) THEN found
             ELSE found \cup {Source(d, p)}

(* One probe ends, in any order; a card is read here, once and for all. *)
Answers(p) ==
    /\ call.step = "probe" /\ p \in pending /\ there[p] # None
    /\ pending' = pending \ {p}
    /\ Keep(there[p], p) /\ answered' = answered \cup {Source(there[p], p)}
    /\ cards' = IF CardMode THEN With(cards, p, Content(there[p])) ELSE cards
    /\ UNCHANGED <<world, sources, cache, call, result, current, calls>>

(* Wrong: it is probed until it answers. *)
FailsAgain(p) ==
    /\ call.step = "probe" /\ p \in pending /\ there[p] = None
    /\ UNCHANGED vars

Fails(p) ==
    /\ call.step = "probe" /\ p \in pending
    /\ pending' = pending \ {p}
    /\ UNCHANGED <<world, sources, cache, cards, call, found, result,
                   answered, current, calls>>

Probed ==
    /\ call.step = "probe" /\ pending = {}
    /\ IF found = {} THEN Finish(Error("nothing")) /\ UNCHANGED sources
       ELSE /\ sources' = found
            /\ IF call.list
               THEN call' = [call EXCEPT !.step = "select"] /\ UNCHANGED result
               ELSE Finish([Nothing EXCEPT !.kind = "sources"])
    /\ UNCHANGED <<world, cache, cards, probing, current, calls>>

-----------------------------------------------------------------------------
(* list_sessions(): select_source, then the cache. *)

Matches(s) ==
    Selector = None \/ Selector \in {s.device, Label[s.device], s.at}
Candidates == {s \in sources : Matches(s)}

SelectNone ==
    /\ call.step = "select" /\ Cardinality(Candidates) # 1
    /\ Finish(Error(IF Candidates = {} THEN "no match" ELSE "multiple"))
    /\ UNCHANGED <<world, sources, cache, cards, probing, current, calls>>

(* The list that is cached; a refresh drops it, and what was read of the card, *)
(* before anything is read again.                                             *)
Cached(s) ==
    IF s \in DOMAIN cache /\ ~call.refresh
    THEN /\ Finish([kind |-> "list", source |-> s, content |-> cache[s]])
         /\ UNCHANGED <<cache, cards, current>>
    ELSE /\ call' = [call EXCEPT !.step = "read", !.source = s]
         /\ cache' = Without(cache, s)
         /\ cards' = IF call.refresh THEN Without(cards, s.at) ELSE cards
         /\ current' = IF call.refresh
                       THEN [current EXCEPT ![s.at] = Shown(s.at)] ELSE current
         /\ UNCHANGED result

Select(s) ==
    /\ call.step = "select" /\ Candidates = {s}
    /\ Cached(s)
    /\ UNCHANGED <<world, sources, probing, calls>>

(* Whose recordings a device lists is compared with the source. *)
Accepted(s, c) == CardMode \/ c.device \in {s.device, None}

Reading == call.step = "read"
Got(s, c) ==
    /\ Finish([kind |-> "list", source |-> s, content |-> c])
    /\ cache' = With(cache, s, c)
    /\ cards' = IF CardMode THEN With(cards, s.at, c) ELSE cards

ReadCard ==
    /\ Reading /\ call.source.at \in DOMAIN cards
    /\ Got(call.source, cards[call.source.at])
    /\ UNCHANGED <<world, sources, probing, current, calls>>

Read ==
    LET s == call.source IN
    /\ Reading /\ s.at \notin DOMAIN cards /\ there[s.at] # None
    /\ LET c == Content(there[s.at]) IN
       IF Accepted(s, c) THEN Got(s, c)
       ELSE Finish(Error("failed")) /\ UNCHANGED <<cache, cards>>
    /\ UNCHANGED <<world, sources, probing, current, calls>>

ReadFails ==
    /\ Reading /\ call.source.at \notin DOMAIN cards
    /\ Finish(Error("failed"))
    /\ UNCHANGED <<world, sources, cache, cards, probing, current, calls>>

-----------------------------------------------------------------------------
(* Devices and cards come, go and change places; recordings are made.  The     *)
(* last one is deleted, or the first one made.                                 *)

Seen == current' = [p \in Places |-> current[p] \cup Shown(p)']
Outside ==
    /\ events < MaxEvents /\ events' = events + 1
    /\ Seen
    /\ UNCHANGED <<sources, cache, cards, call, probing, result, calls>>

Moves(p, d) ==
    /\ there[p] # d /\ there' = [there EXCEPT ![p] = d] /\ UNCHANGED has
    /\ Outside

Records(d) ==
    /\ has' = [has EXCEPT ![d] = (@ + 1) % 3] /\ UNCHANGED there
    /\ Outside

Client ==
    \/ Browsed \/ Probed \/ SelectNone \/ ReadCard \/ Read \/ ReadFails
    \/ \E p \in Places : Announce(p) \/ Answers(p) \/ Fails(p)
    \/ \E s \in AllSources : Select(s)

Next ==
    \/ \E refresh \in BOOLEAN : Discover(refresh) \/ List(refresh)
    \/ Client
    \/ \E p \in Places, d \in Devices \cup {None} : Moves(p, d)
    \/ \E d \in Devices : Records(d)

Spec == Init /\ [][Next]_vars

(* Browsing lasts three seconds, and every socket has a timeout. *)
FairSpec == Spec /\ WF_vars(Client)

-----------------------------------------------------------------------------
TypeOK ==
    /\ call.step \in {"idle", "browse", "probe", "select", "read"}
    /\ pending \subseteq Places /\ found \subseteq AllSources
    /\ sources = None \/ sources \in (SUBSET AllSources) \ {{}}
    /\ DOMAIN cache \subseteq IF sources = None THEN {} ELSE sources
    /\ DOMAIN cards \subseteq Places

(* A discovery finds every device that answered at one of its addresses,       *)
(* whatever the other addresses did and whichever answered first.             *)
NoneHidden == sources # None =>
    {s.device : s \in sources} = {s.device : s \in answered}

(* A list is of the only source that fits the selector, and a device with      *)
(* several addresses is not taken for several devices.                         *)
OnlyChoice ==
    /\ result.kind = "list" => Candidates = {result.source}
    /\ result.kind = "multiple" /\ ~CardMode =>
           \E r, s \in sources : Matches(r) /\ Matches(s) /\ r.device # s.device

(* docs/workflow-stability.md: "Failed refresh invalidates the old result".    *)
(* What is cached was there at some moment since the last discovery began and  *)
(* since the last refresh of that source.                                     *)
CacheCurrent ==
    /\ \A s \in DOMAIN cache : cache[s] \in current[s.at] \cup {Empty}
    /\ \A p \in DOMAIN cards : cards[p] \in current[p]

(* The recordings that are listed for a source are recordings of its device,   *)
(* although another device has taken its address or another card its place.    *)
RightDevice ==
    result.kind = "list" => result.content.device \in {result.source.device, None}

(* client.py: select_source resolves a "configured selector".  When it is the  *)
(* address at which a device has answered, the device would be found; the code  *)
(* does not keep this (README, 4).                                            *)
SelectorFinds ==
    result.kind = "no match" /\ Selector \in Places
        => \A s \in answered : s.at # Selector
=============================================================================
