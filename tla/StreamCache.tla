----------------------------- MODULE StreamCache -----------------------------
(***************************************************************************)
(* The compressed media that the encoders of a batch share (mediaStream in   *)
(* src/desktop/exporter/internal/core/stream.go): one cache, one lock for    *)
(* every physical read, HTTP requests of ffmpeg, a prefetcher with a bounded *)
(* queue, and the raw copies that borrow the lock.  Blocks of a file are     *)
(* numbered; the last one may be shorter.  What a block holds is left out.   *)
(***************************************************************************)
EXTENDS Naturals, Sequences, FiniteSets, SequencesExt

CONSTANTS
    Requests, Copiers,
    Files, Final,        \* Final[f]: the number of f's last block
    Size,               \* Size[key]: its bytes, in units
    CacheUnits,         \* streamCacheBytes
    QueueUnits,         \* length of the prefetch channel
    Slots,              \* requests served at a time
    None

Keys == UNION {{f} \X (0..Final[f]) : f \in Files}

ASSUME StreamAssumption ==
    /\ Final \in [Files -> Nat] /\ Size \in [Keys -> Nat \ {0}]
    /\ \A k \in Keys : Size[k] <= CacheUnits
    /\ CacheUnits \in Nat /\ QueueUnits \in Nat \ {0} /\ Slots \in Nat \ {0}
    /\ None \notin Requests \cup Copiers \cup Keys \cup {"prefetcher"}
    /\ Requests \cap Copiers = {} /\ "prefetcher" \notin Requests \cup Copiers

Readers == Requests \cup {"prefetcher"}     \* those that go through block()
Actors == Readers \cup Copiers

VARIABLES
    mu,         \* who holds the lock, or None
    cache,      \* cached keys, the most recent first
    bytes,      \* what the cache is counted to hold
    err,        \* has a physical read failed?
    prefetch,   \* the channel of keys to read ahead
    pc, want,   \* per reader, what it is at and the block it is after
    cancelled,  \* is the context done?
    close       \* how far Close has come

vars == <<mu, cache, bytes, err, prefetch, pc, want, cancelled, close>>

Init ==
    /\ mu = None /\ cache = <<>> /\ bytes = 0 /\ err = FALSE /\ prefetch = <<>>
    /\ pc = [a \in Actors |-> "idle"] /\ want = [r \in Readers |-> None]
    /\ cancelled = FALSE /\ close = "open"

Goes(a, step) == pc' = [pc EXCEPT ![a] = step]

-----------------------------------------------------------------------------
(* block() *)

Sums(keys) ==
    LET sum[i \in 0..Len(keys)] ==
            IF i = 0 THEN 0 ELSE sum[i - 1] + Size[keys[i]]
    IN sum

Weight(keys) == Sums(keys)[Len(keys)]

(* The block that was asked for becomes the most recent. *)
ToFront(k) == \E i \in DOMAIN cache :
    cache[i] = k /\ cache' = <<k>> \o RemoveAt(cache, i)

(* The oldest go until the new block fits. *)
Fitting(keys, room) ==
    SubSeq(keys, 1, CHOOSE n \in 0..Len(keys) :
        /\ Weight(SubSeq(keys, 1, n)) <= room
        /\ n < Len(keys) => Weight(SubSeq(keys, 1, n + 1)) > room)

Returned(r) == IF r = "prefetcher" THEN "idle" ELSE "copy"
Failed(r) == IF r = "prefetcher" THEN "idle" ELSE "ended"

(* Wrong: the lock is released for the physical read. *)
LookupUnlocked(r) ==
    /\ pc[r] = "want" /\ mu = None
    /\ IF cancelled THEN Goes(r, Failed(r)) /\ UNCHANGED <<mu, cache>>
       ELSE IF Contains(cache, want[r])
       THEN ToFront(want[r]) /\ Goes(r, Returned(r)) /\ UNCHANGED mu
       ELSE Goes(r, "read") /\ UNCHANGED <<mu, cache>>
    /\ UNCHANGED <<bytes, err, prefetch, want, cancelled, close>>

(* Under the lock: nothing once the context is done, a cached block at once,  *)
(* any other is read while the lock is held.                                  *)
Lookup(r) ==
    /\ pc[r] = "want" /\ mu = None
    /\ IF cancelled THEN Goes(r, Failed(r)) /\ UNCHANGED <<mu, cache>>
       ELSE IF Contains(cache, want[r])
       THEN ToFront(want[r]) /\ Goes(r, Returned(r)) /\ UNCHANGED mu
       ELSE mu' = r /\ Goes(r, "read") /\ UNCHANGED cache
    /\ UNCHANGED <<bytes, err, prefetch, want, cancelled, close>>

(* The block was read: the oldest make room for it. *)
Store(r) ==
    /\ pc[r] = "read"
    /\ LET kept == Fitting(cache, CacheUnits - Size[want[r]]) IN
       /\ cache' = <<want[r]>> \o kept
       /\ bytes' = (bytes + Weight(kept) + Size[want[r]]) - Weight(cache)
    /\ mu' = None /\ Goes(r, Returned(r))
    /\ UNCHANGED <<err, prefetch, want, cancelled, close>>

(* Opening, reading or closing the file failed, or it ended too soon. *)
ReadFails(r) ==
    /\ pc[r] = "read"
    /\ err' = TRUE /\ mu' = None /\ Goes(r, Failed(r))
    /\ UNCHANGED <<cache, bytes, prefetch, want, cancelled, close>>

-----------------------------------------------------------------------------
(* A request of ffmpeg for a file from some block on *)

Serving == {r \in Requests : pc[r] \in {"want", "read", "copy"}}

Ask(r) ==
    /\ pc[r] = "idle" /\ close \in {"open", "cancelled"}
    /\ \E k \in Keys : want' = [want EXCEPT ![r] = k]
    /\ Goes(r, "slot")
    /\ UNCHANGED <<mu, cache, bytes, err, prefetch, cancelled, close>>

(* A free slot, or the answer 503. *)
Admit(r) ==
    /\ pc[r] = "slot"
    /\ \/ Cardinality(Serving) < Slots /\ Goes(r, "want")
       \/ cancelled /\ Goes(r, "ended")
    /\ UNCHANGED <<mu, cache, bytes, err, prefetch, want, cancelled, close>>

Next1(k) == <<k[1], k[2] + 1>>

(* Wrong: the hint waits for room in the channel. *)
HintWaiting(k) ==
    /\ Len(prefetch) < QueueUnits
    /\ prefetch' = Append(prefetch, k)

(* The block after the one that was begun is read ahead, if there is room. *)
Hint(k) ==
    IF Len(prefetch) < QueueUnits THEN prefetch' = Append(prefetch, k)
                                  ELSE UNCHANGED prefetch

(* The bytes go to the client, a chunk of the block or all of it. *)
Copy(r) ==
    /\ pc[r] = "copy"
    /\ IF Next1(want[r]) \in Keys
       THEN /\ Hint(Next1(want[r]))
            /\ want' = [want EXCEPT ![r] = Next1(@)] /\ Goes(r, "want")
       ELSE Goes(r, "ended") /\ UNCHANGED <<prefetch, want>>
    /\ UNCHANGED <<mu, cache, bytes, err, cancelled, close>>

(* ffmpeg has what it needs, was killed, or its connection was closed: the    *)
(* handler notices before it has a slot, or when it writes.                   *)
Leave(r) ==
    /\ pc[r] \in {"slot", "copy"} /\ Goes(r, "ended")
    /\ UNCHANGED <<mu, cache, bytes, err, prefetch, want, cancelled, close>>

End(r) ==
    /\ pc[r] = "ended" /\ Goes(r, "idle")
    /\ want' = [want EXCEPT ![r] = None]
    /\ UNCHANGED <<mu, cache, bytes, err, prefetch, cancelled, close>>

-----------------------------------------------------------------------------
(* The prefetcher *)

Take ==
    /\ pc["prefetcher"] = "idle" /\ prefetch # <<>>
    /\ want' = [want EXCEPT !["prefetcher"] = Head(prefetch)]
    /\ prefetch' = Tail(prefetch) /\ Goes("prefetcher", "want")
    /\ UNCHANGED <<mu, cache, bytes, err, cancelled, close>>

Quit ==
    /\ pc["prefetcher"] = "idle" /\ cancelled /\ Goes("prefetcher", "gone")
    /\ UNCHANGED <<mu, cache, bytes, err, prefetch, want, cancelled, close>>

(* The first block of the batch's next recording (prefetchSession). *)
Foresee ==
    /\ close = "open" /\ \E f \in Files : Hint(<<f, 0>>)
    /\ UNCHANGED <<mu, cache, bytes, err, pc, want, cancelled, close>>

-----------------------------------------------------------------------------
(* Raw copies and the inventory of a recording *)

Borrow(c) ==
    /\ pc[c] = "idle" /\ close = "open" /\ mu = None
    /\ mu' = c /\ Goes(c, "read")
    /\ UNCHANGED <<cache, bytes, err, prefetch, want, cancelled, close>>

GiveBack(c) ==
    /\ pc[c] = "read" /\ Goes(c, "idle")
    /\ mu' = (IF mu = c THEN None ELSE mu)
    /\ UNCHANGED <<cache, bytes, err, prefetch, want, cancelled, close>>

-----------------------------------------------------------------------------
(* The end *)

(* The user cancels, or an export of the batch has failed. *)
Cancel ==
    /\ ~cancelled /\ cancelled' = TRUE
    /\ UNCHANGED <<mu, cache, bytes, err, prefetch, pc, want, close>>

(* The batch closes the stream once its exports have returned. *)
CloseBegins ==
    /\ close = "open" /\ \A c \in Copiers : pc[c] = "idle"
    /\ cancelled' = TRUE /\ close' = "cancelled"
    /\ UNCHANGED <<mu, cache, bytes, err, prefetch, pc, want>>

CloseServer ==
    /\ close = "cancelled" /\ close' = "joining"
    /\ UNCHANGED <<mu, cache, bytes, err, prefetch, pc, want, cancelled>>

(* <-g.done *)
Join ==
    /\ close = "joining" /\ pc["prefetcher"] = "gone" /\ close' = "joined"
    /\ UNCHANGED <<mu, cache, bytes, err, prefetch, pc, want, cancelled>>

CloseEnds ==
    /\ close = "joined" /\ mu = None
    /\ close' = "closed" /\ cache' = <<>>
    /\ UNCHANGED <<mu, bytes, err, prefetch, pc, want, cancelled>>

Block(r) == Lookup(r) \/ Store(r) \/ ReadFails(r)
Serve(r) == Admit(r) \/ Block(r) \/ Copy(r) \/ End(r)
Prefetcher == Take \/ Quit \/ Block("prefetcher")
Close == CloseServer \/ Join \/ CloseEnds

Next ==
    \/ \E r \in Requests : Ask(r) \/ Serve(r) \/ Leave(r)
    \/ Prefetcher \/ Foresee
    \/ \E c \in Copiers : Borrow(c) \/ GiveBack(c)
    \/ Cancel \/ CloseBegins \/ Close

Spec == Init /\ [][Next]_vars

(* Goroutines that can go on again and again do: a select takes every ready   *)
(* case in the end, and a mutex is not withheld from a waiter for ever (a Go   *)
(* mutex turns fair after a millisecond).                                     *)
Fairness ==
    /\ \A r \in Requests : SF_vars(Serve(r))
    /\ SF_vars(Prefetcher) /\ SF_vars(Quit)
    /\ \A c \in Copiers : WF_vars(GiveBack(c))
    /\ SF_vars(Close)

FairSpec == Spec /\ Fairness

-----------------------------------------------------------------------------
TypeOK ==
    /\ mu \in Actors \cup {None} /\ cache \in Seq(Keys) /\ bytes \in Nat
    /\ err \in BOOLEAN /\ cancelled \in BOOLEAN
    /\ prefetch \in Seq(Keys) /\ Len(prefetch) <= QueueUnits
    /\ pc \in [Actors -> {"idle", "slot", "want", "read", "copy", "ended", "gone"}]
    /\ want \in [Readers -> Keys \cup {None}]
    /\ close \in {"open", "cancelled", "joining", "joined", "closed"}

(* One physical read at a time, by encoders, prefetcher and raw copies        *)
(* together: "ext4 directory caches are mutable" (core.go:385).               *)
OneReader == Cardinality({a \in Actors : pc[a] = "read"}) <= 1

(* The cache holds no block twice, holds what it is counted to hold, and no   *)
(* more than its limit (stream.go:186-194), whoever filled it.                *)
Accounted ==
    close # "closed" =>
        /\ bytes = Weight(cache) /\ bytes <= CacheUnits
        /\ \A i, j \in 1..Len(cache) : cache[i] = cache[j] => i = j

(* When Close has returned nobody reads the source, and nobody will, so that  *)
(* the caller may close it (stream.go:141); requests may still be waiting.    *)
Joined == close = "closed" => \A a \in Actors : pc[a] # "read"

(* The readers of a batch share the source and the cache, and leave both in a  *)
(* state their owner can close.                                               *)
Shared == TypeOK /\ OneReader /\ Accounted /\ Joined

(* A request that was accepted is answered, however full the queue of the     *)
(* prefetcher is, and also when the batch is cancelled under it.              *)
Answered == \A r \in Requests : pc[r] = "slot" ~> pc[r] = "idle"

(* Close returns (stream.go:137-146): neither a full queue, nor a request in  *)
(* the middle of a read, nor the prefetcher keep it waiting for ever.         *)
Closes == close = "cancelled" ~> close = "closed"

(* Nobody waits for ever: neither a request nor Close. *)
Ends == Answered /\ Closes
=============================================================================
