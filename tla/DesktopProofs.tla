---------------------------- MODULE DesktopProofs ----------------------------
(***************************************************************************)
(* The desktop application (MCDesktop), for any number of recordings,          *)
(* encoders, processes, ports and cards.  Batches: what was published is in    *)
(* the result, once, and only an error or the user keeps a recording from       *)
(* being tried.  The window: card sources are open exactly while they are used. *)
(* Outputs: they are whole, and go only by the user's hand or a confirmed       *)
(* deletion.                                                                  *)
(***************************************************************************)
EXTENDS MCDesktop, TLAPS, FiniteSetTheorems, WellFoundedInduction

LEMMA Constants == Count \in Nat \ {0} /\ Workers # {} /\ None \notin Workers
BY MCDesktopAssumption DEF Batch!BatchConstants

Idle == {"take", "gone"}
Making == {"render", "judge", "unprocessed", "copy", "publish", "raw", "publishRaw",
           "failed", "stopped"}
Busy(w) == at[w] \notin Idle

(* A recording the result says nothing of. *)
Untold(i) == i \notin results /\ \A k \in 1..Len(completed) : completed[k] # i

(* A recording the result says everything of: its output, its completion, once, *)
(* and why there is no video.                                                 *)
Told(i) ==
    /\ disk[i] # "none" <=> i \in results
    /\ disk[i] = "video" => \E k \in 1..Len(completed) :
           \A l \in 1..Len(completed) : completed[l] = i <=> l = k
    /\ disk[i] # "video" => \A k \in 1..Len(completed) : completed[k] # i
    /\ disk[i] = "none" => first \cap {"failed", "stopped"} # {}
    /\ disk[i] = "raw" => "raw" \in first

(* An encoder has a recording of its own, which was taken. *)
OwnJob ==
    /\ \A w \in Workers : job[w] < next /\ (Busy(w) => job[w] \in 1..Count)
    /\ \A v, w \in Workers : job[v] = job[w] => v = w \/ job[v] = 0

(* It is told once it is published and reported, and not before. *)
Working == \A w \in Workers : Busy(w) =>
    Untold(job[w]) /\ (at[w] = "report" <=> disk[job[w]] # "none")
NotTaken == \A i \in 1..Count : i >= next => Untold(i) /\ disk[i] = "none"
Reported == \A i \in 1..Count : Batch!Ended(i) => Told(i)

(* What made ffmpeg fail, as long as it matters. *)
Judged ==
    /\ \A w \in Workers :
        /\ at[w] = "judge" => /\ why[job[w]] \in {"source", "cancelled", "encoder"}
                              /\ why[job[w]] = "source" => unreadable
                              /\ why[job[w]] = "cancelled" => cancelled
        /\ at[w] \in {"unprocessed", "raw", "publishRaw"} => why[job[w]] = "encoder"
    /\ Batch!FallbackIsForProcessing

(* A batch stops for a reason, and does not return before everybody has. *)
Stops ==
    /\ cancelled => byUser \/ first \cap {"failed", "stopped"} # {}
    /\ \A w \in Workers : at[w] = "gone" => next > Count \/ cancelled
    /\ returned => \A w \in Workers : at[w] = "gone"
    /\ returned /\ cancelled => first # {}

IInv == /\ Batch!TypeOK /\ OwnJob /\ Working /\ NotTaken /\ Reported /\ Judged /\ Stops

LEMMA BatchStarts == Init => Batch!Init
BY DEF Init

LEMMA InitIInv == Batch!Init => IInv
<1> SUFFICES ASSUME Batch!Init PROVE IInv
  OBVIOUS
<1>0. next = 1
  BY DEF Batch!Init
<1>1. /\ at = [w \in Workers |-> "take"] /\ job = [w \in Workers |-> 0]
      /\ disk = [i \in 1..Count |-> "none"] /\ why = [i \in 1..Count |-> "none"]
      /\ first = {} /\ results = {} /\ completed = <<>>
  BY DEF Batch!Init, Batch!Recordings
<1>9. cancelled \in BOOLEAN /\ byUser = cancelled /\ unreadable = FALSE /\ returned = FALSE
  BY DEF Batch!Init
<1>2. Batch!TypeOK
  <2>1. next \in 1..(Count + 1) /\ job \in [Workers -> 0..Count]
    BY <1>0, <1>1, Constants
  <2>2. completed \in Seq(1..Count)
    BY <1>1
  <2> QED  BY <1>1, <1>9, <2>1, <2>2 DEF Batch!TypeOK, Batch!Recordings
<1>3. OwnJob /\ Working
  BY <1>0, <1>1 DEF OwnJob, Working, Busy, Idle
<1>4. NotTaken
  BY <1>0, <1>1 DEF NotTaken, Untold
<1>5. Reported
  BY <1>0, <1>1, Constants DEF Reported, Batch!Ended
<1>6. Judged /\ Stops
  BY <1>1, <1>9 DEF Judged, Stops, Batch!FallbackIsForProcessing, Batch!Recordings
<1> QED  BY <1>2, <1>3, <1>4, <1>5, <1>6 DEF IInv

(* The types, as facts a step can cite. *)
Steps == Idle \cup Making \cup {"report"}
Typed ==
    /\ next \in 1..(Count + 1) /\ job \in [Workers -> 0..Count] /\ at \in [Workers -> Steps]
    /\ cancelled \in BOOLEAN /\ byUser \in BOOLEAN /\ unreadable \in BOOLEAN
    /\ disk \in [1..Count -> {"none", "video", "raw"}]
    /\ first \subseteq {"raw", "failed", "stopped"}
    /\ results \subseteq 1..Count /\ completed \in Seq(1..Count)
    /\ why \in [1..Count -> {"none", "source", "encoder", "cancelled"}]
    /\ returned \in BOOLEAN

LEMMA TypedIsTypeOK == Batch!TypeOK <=> Typed
<1>1. Steps = {"take", "render", "judge", "unprocessed", "copy", "publish", "raw",
               "publishRaw", "report", "failed", "stopped", "gone"}
  BY DEF Steps, Idle, Making
<1> QED  BY <1>1 DEF Batch!TypeOK, Batch!Recordings, Typed

-----------------------------------------------------------------------------
(* Steps of an encoder on the way to its result. *)
Quiet(w) ==
    /\ at[w] \in Making /\ \E s \in Making : at' = [at EXCEPT ![w] = s]
    /\ UNCHANGED <<next, job, cancelled, byUser, disk, first, results, completed, returned>>

LEMMA QuietKeeps ==
    ASSUME IInv, NEW w \in Workers, Quiet(w)
    PROVE  OwnJob' /\ Working' /\ NotTaken' /\ Reported' /\ Stops'
<1>0. Typed
  BY TypedIsTypeOK DEF IInv
<1>1. PICK s \in Making : at' = [at EXCEPT ![w] = s]
  BY DEF Quiet
<1>2. /\ next' = next /\ job' = job /\ cancelled' = cancelled /\ byUser' = byUser
      /\ disk' = disk /\ first' = first /\ results' = results
      /\ completed' = completed /\ returned' = returned
  BY DEF Quiet
<1>3. \A v \in Workers : Busy(v)' <=> Busy(v)
  BY <1>0, <1>1 DEF Quiet, Busy, Making, Idle, Typed
<1>4. \A v \in Workers : at'[v] = "report" <=> at[v] = "report"
  BY <1>0, <1>1 DEF Quiet, Making, Typed
<1>5. \A v \in Workers : at'[v] = "gone" <=> at[v] = "gone"
  BY <1>0, <1>1 DEF Quiet, Making, Typed
<1>6. OwnJob'
  BY <1>2, <1>3 DEF IInv, OwnJob
<1>7. \A i : Untold(i)' <=> Untold(i)
  BY <1>2 DEF Untold
<1>8. Working' /\ NotTaken'
  BY <1>2, <1>3, <1>4, <1>7 DEF IInv, Working, NotTaken
<1>9. Reported'
  <2>1. \A i : Batch!Ended(i)' <=> Batch!Ended(i)
    BY <1>2, <1>3 DEF Batch!Ended, Busy, Idle
  <2>2. \A i : Told(i)' <=> Told(i)
    BY <1>2 DEF Told
  <2> QED  BY <2>1, <2>2 DEF IInv, Reported
<1>10. Stops'
  BY <1>2, <1>5 DEF IInv, Stops
<1> QED  BY <1>6, <1>8, <1>9, <1>10

(* Making the video, copying and renaming are such steps, and why it failed is  *)
(* kept for those that fall back.                                             *)
LEMMA JudgedByOthers ==
    ASSUME IInv, NEW w \in Workers, Busy(w), at[w] # "report",
           NEW s \in Steps, at' = [at EXCEPT ![w] = s],
           NEW r \in {"none", "source", "encoder", "cancelled"},
           why' = why \/ why' = [why EXCEPT ![job[w]] = r],
           job' = job, cancelled' = cancelled, disk' = disk,
           unreadable => unreadable',
           s = "judge" => /\ why'[job[w]] \in {"source", "cancelled", "encoder"}
                          /\ why'[job[w]] = "source" => unreadable'
                          /\ why'[job[w]] = "cancelled" => cancelled,
           s \in {"unprocessed", "raw", "publishRaw"} => why'[job[w]] = "encoder"
    PROVE  Judged'
<1>0. Typed
  BY TypedIsTypeOK DEF IInv
<1>1. \A v \in Workers : Busy(v) => job[v] \in 1..Count
  BY DEF IInv, OwnJob
<1>2. \A v \in Workers : Busy(v) /\ v # w => job[v] # job[w]
  BY <1>1 DEF IInv, OwnJob
<1>3. \A v \in Workers : Busy(v) /\ v # w => why'[job[v]] = why[job[v]] /\ at'[v] = at[v]
  BY <1>0, <1>1, <1>2 DEF Typed
<1>4. disk[job[w]] = "none"
  BY DEF IInv, Working
<1>5. \A i \in 1..Count : disk[i] = "raw" => why'[i] = why[i]
  BY <1>0, <1>1, <1>4 DEF Typed
<1>6. Batch!FallbackIsForProcessing'
  BY <1>5 DEF IInv, Judged, Batch!FallbackIsForProcessing, Batch!Recordings
<1>7. ASSUME NEW v \in Workers
      PROVE  /\ at'[v] = "judge" => /\ why'[job[v]] \in {"source", "cancelled", "encoder"}
                                    /\ why'[job[v]] = "source" => unreadable'
                                    /\ why'[job[v]] = "cancelled" => cancelled
             /\ at'[v] \in {"unprocessed", "raw", "publishRaw"} => why'[job[v]] = "encoder"
  <2>1. CASE v = w
    BY <1>0, <2>1 DEF Typed
  <2>2. CASE v # w
    <3>1. at'[v] = at[v]
      BY <1>0, <2>2 DEF Typed
    <3>2. CASE Busy(v)
      BY <1>3, <2>2, <3>2 DEF IInv, Judged
    <3>3. CASE ~Busy(v)
      BY <3>1, <3>3 DEF Busy, Idle
    <3> QED  BY <3>2, <3>3
  <2> QED  BY <2>1, <2>2
<1> QED  BY <1>6, <1>7 DEF Judged

(* One step per action that is such a step; what is left is the type of what  *)
(* it writes.                                                                 *)
Ahead(w) == \/ Batch!Breaks(w) \/ Batch!ReadFails(w) \/ Batch!EncoderFails(w)
            \/ Batch!Judge(w) \/ Batch!FallBack(w) \/ Batch!Advance(w)

LEMMA Judging ==
    ASSUME NEW w \in Workers, Batch!Judge(w)
    PROVE  \/ cancelled /\ at' = [at EXCEPT ![w] = "stopped"]
           \/ ~cancelled /\ unreadable /\ at' = [at EXCEPT ![w] = "failed"]
           \/ ~cancelled /\ ~unreadable /\ at' = [at EXCEPT ![w] = "unprocessed"]
<1>1. CASE cancelled
  BY <1>1 DEF Batch!Judge, Batch!Goes
<1>2. CASE ~cancelled /\ unreadable
  BY <1>2 DEF Batch!Judge, Batch!Goes
<1>3. CASE ~cancelled /\ ~unreadable
  BY <1>3 DEF Batch!Judge, Batch!Goes
<1> QED  BY <1>1, <1>2, <1>3

LEMMA AheadIsQuiet ==
    ASSUME IInv, NEW w \in Workers, Ahead(w)
    PROVE  Quiet(w)
<1>1. CASE Batch!Breaks(w)
  BY <1>1 DEF Batch!Breaks, Batch!Goes, Quiet, Making
<1>2. CASE Batch!ReadFails(w)
  BY <1>2 DEF Batch!ReadFails, Batch!Goes, Quiet, Making
<1>3. CASE Batch!EncoderFails(w)
  BY <1>3 DEF Batch!EncoderFails, Batch!Goes, Quiet, Making
<1>4. CASE Batch!Judge(w)
  <2>1. \E s \in Making : at' = [at EXCEPT ![w] = s]
    BY <1>4, Judging DEF Making
  <2> QED  BY <1>4, <2>1 DEF Batch!Judge, Quiet, Making
<1>5. CASE Batch!FallBack(w)
  BY <1>5 DEF Batch!FallBack, Batch!Goes, Quiet, Making
<1>6. CASE Batch!Advance(w)
  BY <1>6 DEF Batch!Advance, Batch!Goes, Quiet, Making
<1> QED  BY <1>1, <1>2, <1>3, <1>4, <1>5, <1>6 DEF Ahead

(* An encoder goes to s, and r is noted, if anything is.                      *)
Reasons == {"none", "source", "encoder", "cancelled"}
Goes(w, s, r) ==
    /\ at' = [at EXCEPT ![w] = s] /\ (why' = why \/ why' = [why EXCEPT ![job[w]] = r])
    /\ unreadable' \in BOOLEAN /\ (unreadable => unreadable')
    /\ s = "judge" => /\ why'[job[w]] \in {"source", "cancelled", "encoder"}
                      /\ why'[job[w]] = "source" => unreadable'
                      /\ why'[job[w]] = "cancelled" => cancelled
    /\ s \in {"unprocessed", "raw", "publishRaw"} => why'[job[w]] = "encoder"

LEMMA AheadGoes ==
    ASSUME IInv, NEW w \in Workers, Ahead(w)
    PROVE  \E s \in Steps, r \in Reasons : Goes(w, s, r)
<1>0. Typed
  BY TypedIsTypeOK DEF IInv
<1>1. job[w] \in 1..Count
  BY AheadIsQuiet DEF Quiet, Making, Busy, Idle, IInv, OwnJob
<1>s. \A s \in Making : s \in Steps
  BY DEF Steps
<1>2. CASE Batch!Breaks(w)
  <2>1. why' = why /\ unreadable' = unreadable
    BY <1>2 DEF Batch!Breaks
  <2>2. at' = [at EXCEPT ![w] = "stopped"] \/ at' = [at EXCEPT ![w] = "failed"]
    BY <1>2 DEF Batch!Breaks, Batch!Goes
  <2>3. Goes(w, "stopped", "none") \/ Goes(w, "failed", "none")
    BY <1>0, <2>1, <2>2 DEF Goes, Typed
  <2> QED  BY <1>s, <2>3 DEF Making, Reasons
<1>3. CASE Batch!ReadFails(w)
  <2>1. CASE at[w] = "render"
    <3>1. at' = [at EXCEPT ![w] = "judge"] /\ unreadable' = TRUE
      BY <1>3, <2>1 DEF Batch!ReadFails, Batch!Goes
    <3>2. why' = [why EXCEPT ![job[w]] = "source"]
      BY <1>3, <2>1 DEF Batch!ReadFails, Batch!Because
    <3>3. why'[job[w]] = "source"
      BY <1>0, <1>1, <3>2 DEF Typed
    <3>4. Goes(w, "judge", "source")
      BY <3>1, <3>2, <3>3 DEF Goes
    <3> QED  BY <1>s, <3>4 DEF Making, Reasons
  <2>2. CASE at[w] # "render"
    <3>1. at' = [at EXCEPT ![w] = "failed"] /\ why' = why /\ unreadable' = TRUE
      BY <1>3, <2>2 DEF Batch!ReadFails, Batch!Goes
    <3>2. Goes(w, "failed", "none")
      BY <3>1 DEF Goes
    <3> QED  BY <1>s, <3>2 DEF Making, Reasons
  <2> QED  BY <2>1, <2>2
<1>4. CASE Batch!EncoderFails(w)
  <2>1. at' = [at EXCEPT ![w] = "judge"] /\ unreadable' = unreadable
    BY <1>4 DEF Batch!EncoderFails, Batch!Goes
  <2>2. PICK r \in {"encoder", "cancelled"} :
           why' = [why EXCEPT ![job[w]] = r] /\ (r = "cancelled" => cancelled)
    BY <1>4 DEF Batch!EncoderFails, Batch!Because
  <2>3. why'[job[w]] = r
    BY <1>0, <1>1, <2>2 DEF Typed
  <2>4. Goes(w, "judge", r)
    BY <1>0, <2>1, <2>2, <2>3 DEF Goes, Typed
  <2> QED  BY <1>s, <2>4 DEF Making, Reasons
<1>5. CASE Batch!Judge(w)
  <2>1. why' = why /\ unreadable' = unreadable /\ at[w] = "judge"
    BY <1>5 DEF Batch!Judge
  <2>2. ~cancelled /\ ~unreadable => why[job[w]] = "encoder"
    BY <2>1 DEF IInv, Judged
  <2>3. Goes(w, "stopped", "none") \/ Goes(w, "failed", "none")
           \/ Goes(w, "unprocessed", "none")
    BY <1>0, <1>5, <2>1, <2>2, Judging DEF Goes, Typed
  <2> QED  BY <1>s, <2>3 DEF Making, Reasons
<1>6. CASE Batch!FallBack(w)
  <2>1. why' = why /\ unreadable' = unreadable /\ why[job[w]] = "encoder"
    BY <1>6 DEF Batch!FallBack, IInv, Judged
  <2>2. at' = [at EXCEPT ![w] = "stopped"] \/ at' = [at EXCEPT ![w] = "raw"]
    BY <1>6 DEF Batch!FallBack, Batch!Goes
  <2>3. Goes(w, "stopped", "none") \/ Goes(w, "raw", "none")
    BY <1>0, <2>1, <2>2 DEF Goes, Typed
  <2> QED  BY <1>s, <2>3 DEF Making, Reasons
<1>7. CASE Batch!Advance(w)
  <2>1. why' = why /\ unreadable' = unreadable
    BY <1>7 DEF Batch!Advance
  <2>2. PICK s \in {"copy", "publish", "publishRaw"} :
           at' = [at EXCEPT ![w] = s] /\ (s = "publishRaw" => at[w] = "raw")
    BY <1>7 DEF Batch!Advance, Batch!Goes
  <2>3. s = "publishRaw" => why[job[w]] = "encoder"
    BY <2>2 DEF IInv, Judged
  <2>4. Goes(w, s, "none")
    BY <1>0, <2>1, <2>2, <2>3 DEF Goes, Typed
  <2> QED  BY <1>s, <2>4 DEF Making, Reasons
<1> QED  BY <1>2, <1>3, <1>4, <1>5, <1>6, <1>7 DEF Ahead

LEMMA AheadJudged ==
    ASSUME IInv, NEW w \in Workers, Ahead(w)
    PROVE  Typed' /\ Judged'
<1>0. Typed
  BY TypedIsTypeOK DEF IInv
<1>1. Quiet(w)
  BY AheadIsQuiet
<1>2. Busy(w) /\ at[w] # "report" /\ job[w] \in 1..Count
  BY <1>1 DEF Quiet, Making, Busy, Idle, IInv, OwnJob
<1>3. job' = job /\ disk' = disk /\ cancelled' = cancelled
  BY <1>1 DEF Quiet
<1>4. PICK s \in Steps, r \in Reasons : Goes(w, s, r)
  BY AheadGoes
<1>5. Judged'
  BY <1>2, <1>3, <1>4, JudgedByOthers DEF Goes, Reasons
<1>6. at' \in [Workers -> Steps] /\ why' \in [1..Count -> Reasons] /\ unreadable' \in BOOLEAN
  BY <1>0, <1>2, <1>4 DEF Typed, Goes, Reasons
<1> QED  BY <1>0, <1>1, <1>5, <1>6 DEF Typed, Quiet, Reasons

LEMMA AheadKeeps == ASSUME IInv, NEW w \in Workers, Ahead(w) PROVE IInv'
<1>1. Batch!TypeOK' <=> Typed'
  BY TypedIsTypeOK, PTL
<1> QED  BY <1>1, AheadIsQuiet, AheadJudged, QuietKeeps DEF IInv

-----------------------------------------------------------------------------
(* A recording is taken, or there is none left. *)
LEMMA TakeKeeps == ASSUME IInv, NEW w \in Workers, Batch!Take(w) PROVE IInv'
<1>0. Typed /\ Count \in Nat \ {0}
  BY TypedIsTypeOK, Constants DEF IInv
<1>1. /\ at[w] = "take"
      /\ cancelled' = cancelled /\ byUser' = byUser /\ unreadable' = unreadable
      /\ disk' = disk /\ why' = why /\ first' = first /\ results' = results
      /\ completed' = completed /\ returned' = returned
  BY DEF Batch!Take
<1>2. \A i : Untold(i)' <=> Untold(i)
  BY <1>1 DEF Untold
<1>3. \A i : Told(i)' <=> Told(i)
  BY <1>1 DEF Told
<1>4. Batch!FallbackIsForProcessing'
  BY <1>1 DEF IInv, Judged, Batch!FallbackIsForProcessing
<1>5. ~returned
  BY <1>1 DEF IInv, Stops
<1>6. CASE Batch!More
  <2>1. /\ at' = [at EXCEPT ![w] = "render"] /\ job' = [job EXCEPT ![w] = next]
        /\ next' = next + 1 /\ next \in 1..Count
    BY <1>0, <1>6 DEF Batch!Take, Batch!Goes, Batch!More, Typed
  <2>2. /\ at' \in [Workers -> Steps] /\ at'[w] = "render" /\ job'[w] = next
        /\ \A v \in Workers : v # w => at'[v] = at[v] /\ job'[v] = job[v]
    BY <1>0, <2>1 DEF Typed, Steps, Making
  <2>3. Typed'
    BY <1>0, <1>1, <2>1, <2>2 DEF Typed
  <2>4. OwnJob'
    <3>1. ASSUME NEW v \in Workers PROVE job'[v] < next' /\ (Busy(v)' => job'[v] \in 1..Count)
      BY <1>0, <2>1, <2>2 DEF IInv, OwnJob, Busy, Typed
    <3>2. ASSUME NEW u \in Workers, NEW v \in Workers, job'[u] = job'[v], job'[v] # 0
          PROVE  u = v
      BY <1>0, <2>1, <2>2, <3>2 DEF IInv, OwnJob, Typed
    <3> QED  BY <3>1, <3>2 DEF OwnJob
  <2>5. Working'
    <3> SUFFICES ASSUME NEW v \in Workers, Busy(v)'
                 PROVE  (Untold(job[v]) /\ (at[v] = "report" <=> disk[job[v]] # "none"))'
      BY DEF Working
    <3>1. CASE v = w
      <4>1. Untold(next) /\ disk[next] = "none"
        BY <1>0, <2>1 DEF IInv, NotTaken, Typed
      <4>2. Untold(job[v])'
        BY <1>1, <2>2, <3>1, <4>1 DEF Untold
      <4> QED  BY <1>1, <2>1, <2>2, <3>1, <4>1, <4>2
    <3>2. CASE v # w
      <4>1. Busy(v)
        BY <2>2, <3>2 DEF Busy
      <4>2. Untold(job[v]) /\ (at[v] = "report" <=> disk[job[v]] # "none")
        BY <4>1 DEF IInv, Working
      <4>3. Untold(job[v])'
        BY <1>1, <2>2, <3>2, <4>2 DEF Untold
      <4> QED  BY <1>1, <2>2, <3>2, <4>2, <4>3
    <3> QED  BY <3>1, <3>2
  <2>6. NotTaken'
    BY <1>0, <1>1, <1>2, <2>1 DEF IInv, NotTaken, Typed
  <2>7. Reported'
    <3> SUFFICES ASSUME NEW i \in 1..Count, Batch!Ended(i)' PROVE Told(i)'
      BY DEF Reported
    <3>1. i # next
      BY <2>2 DEF Batch!Ended
    <3>2. Batch!Ended(i)
      BY <1>0, <1>1, <2>1, <2>2, <3>1 DEF Batch!Ended, Typed
    <3> QED  BY <1>3, <3>2 DEF IInv, Reported
  <2>8. Judged'
    BY <1>1, <1>4, <2>2 DEF IInv, Judged
  <2>9. Stops'
    BY <1>0, <1>1, <1>5, <1>6, <2>1, <2>2 DEF IInv, Stops, Batch!More, Typed
  <2> QED  BY <2>3, <2>4, <2>5, <2>6, <2>7, <2>8, <2>9, TypedIsTypeOK, PTL DEF IInv
<1>7. CASE ~Batch!More
  <2>1. at' = [at EXCEPT ![w] = "gone"] /\ job' = job /\ next' = next
    BY <1>7 DEF Batch!Take, Batch!Goes
  <2>2. /\ at' \in [Workers -> Steps] /\ at'[w] = "gone"
        /\ \A v \in Workers : v # w => at'[v] = at[v]
    BY <1>0, <2>1 DEF Typed, Steps, Idle
  <2>3. \A v \in Workers : Busy(v)' <=> Busy(v)
    BY <1>1, <2>2 DEF Busy, Idle
  <2>4. Typed'
    BY <1>0, <1>1, <2>1, <2>2 DEF Typed
  <2>5. OwnJob'
    BY <2>1, <2>3 DEF IInv, OwnJob
  <2>6. Working' /\ NotTaken'
    <3>1. \A v \in Workers : at'[v] = "report" <=> at[v] = "report"
      BY <1>1, <2>2
    <3> QED  BY <1>1, <1>2, <2>1, <2>3, <3>1 DEF IInv, Working, NotTaken
  <2>7. Reported'
    <3>1. \A i : Batch!Ended(i)' <=> Batch!Ended(i)
      BY <2>1, <2>3 DEF Batch!Ended, Busy, Idle
    <3> QED  BY <1>3, <3>1 DEF IInv, Reported
  <2>8. Judged'
    BY <1>1, <1>4, <2>1, <2>2 DEF IInv, Judged
  <2>9. Stops'
    BY <1>0, <1>1, <1>5, <1>7, <2>1, <2>2 DEF IInv, Stops, Batch!More, Typed
  <2> QED  BY <2>4, <2>5, <2>6, <2>7, <2>8, <2>9, TypedIsTypeOK, PTL DEF IInv
<1> QED  BY <1>6, <1>7

(* An output is renamed into place, and is told of by the report that follows. *)
LEMMA PublishKeeps == ASSUME IInv, NEW w \in Workers, Batch!Publish(w) PROVE IInv'
<1>0. Typed /\ Count \in Nat \ {0}
  BY TypedIsTypeOK, Constants DEF IInv
<1> DEFINE j == job[w]
<1>1. /\ next' = next /\ job' = job /\ cancelled' = cancelled /\ byUser' = byUser
      /\ unreadable' = unreadable /\ why' = why /\ first' = first /\ results' = results
      /\ completed' = completed /\ returned' = returned
      /\ at' = [at EXCEPT ![w] = "report"] /\ at[w] \in {"publish", "publishRaw"}
  BY DEF Batch!Publish, Batch!Goes
<1>2. PICK output \in {"video", "raw"} :
         disk' = [disk EXCEPT ![j] = output] /\ (output = "raw" => at[w] = "publishRaw")
  BY DEF Batch!Publish
<1>3. Busy(w) /\ j \in 1..Count /\ j < next
  BY <1>1 DEF IInv, OwnJob, Busy, Idle
<1>4. \A v \in Workers : v # w => job[v] # j
  BY <1>3 DEF IInv, OwnJob
<1>5. /\ disk' \in [1..Count -> {"none", "video", "raw"}] /\ disk'[j] = output
      /\ \A i \in 1..Count : i # j => disk'[i] = disk[i]
  BY <1>0, <1>2, <1>3 DEF Typed
<1>6. /\ at' \in [Workers -> Steps] /\ at'[w] = "report"
      /\ \A v \in Workers : v # w => at'[v] = at[v]
  BY <1>0, <1>1 DEF Typed, Steps
<1>7. \A v \in Workers : Busy(v)' <=> Busy(v)
  BY <1>3, <1>6 DEF Busy, Idle
<1>8. \A i : Untold(i)' <=> Untold(i)
  BY <1>1 DEF Untold
<1>9. Typed'
  BY <1>0, <1>1, <1>5, <1>6 DEF Typed
<1>10. OwnJob'
  BY <1>1, <1>7 DEF IInv, OwnJob
<1>11. Working'
  <2> SUFFICES ASSUME NEW v \in Workers, Busy(v)'
               PROVE  (Untold(job[v]) /\ (at[v] = "report" <=> disk[job[v]] # "none"))'
    BY DEF Working
  <2>1. Busy(v) /\ job[v] \in 1..Count
    BY <1>7 DEF IInv, OwnJob
  <2>2. Untold(job[v]) /\ (at[v] = "report" <=> disk[job[v]] # "none")
    BY <2>1 DEF IInv, Working
  <2>3. Untold(job[v])'
    BY <1>1, <2>2 DEF Untold
  <2> QED  BY <1>1, <1>4, <1>5, <1>6, <2>1, <2>2, <2>3
<1>12. NotTaken'
  BY <1>0, <1>1, <1>3, <1>5, <1>8 DEF IInv, NotTaken, Typed
<1>13. Reported'
  <2> SUFFICES ASSUME NEW i \in 1..Count, Batch!Ended(i)' PROVE Told(i)'
    BY DEF Reported
  <2>1. i # j
    BY <1>1, <1>6 DEF Batch!Ended
  <2>2. Batch!Ended(i)
    BY <1>1, <1>7, <1>6 DEF Batch!Ended, Busy, Idle
  <2>3. Told(i)
    BY <2>2 DEF IInv, Reported
  <2> QED  BY <1>1, <1>5, <2>1, <2>3 DEF Told
<1>14. Judged'
  <2>1. at[w] = "publishRaw" => why[j] = "encoder"
    BY DEF IInv, Judged
  <2>2. Batch!FallbackIsForProcessing'
    BY <1>1, <1>2, <1>5, <2>1 DEF IInv, Judged, Batch!FallbackIsForProcessing,
                                  Batch!Recordings
  <2> QED  BY <1>1, <1>6, <2>2 DEF IInv, Judged
<1>15. Stops'
  <2>1. \A v \in Workers : at'[v] = "gone" => at[v] = "gone"
    BY <1>6
  <2>2. ~returned
    BY <1>1 DEF IInv, Stops
  <2> QED  BY <1>1, <2>1, <2>2 DEF IInv, Stops
<1> QED  BY <1>9, <1>10, <1>11, <1>12, <1>13, <1>14, <1>15, TypedIsTypeOK, PTL DEF IInv

(* What Report does, per outcome. *)
LEMMA Reporting ==
    ASSUME IInv, NEW w \in Workers, Batch!Report(w)
    PROVE  /\ next' = next /\ job' = job /\ byUser' = byUser /\ unreadable' = unreadable
           /\ disk' = disk /\ why' = why /\ returned' = returned
           /\ at' = [at EXCEPT ![w] = "take"] /\ at[w] \in {"report", "failed", "stopped"}
           /\ cancelled' \in BOOLEAN /\ (cancelled' <=> cancelled \/ at[w] # "report")
           /\ \/ /\ at[w] = "report" /\ results' = results \cup {job[w]}
                 /\ \/ /\ disk[job[w]] = "video" /\ first' = first
                       /\ completed' = Append(completed, job[w])
                    \/ /\ disk[job[w]] = "raw" /\ first' = first \cup {"raw"}
                       /\ completed' = completed
              \/ /\ at[w] # "report" /\ results' = results
                 /\ first' = first \cup {at[w]} /\ completed' = completed
<1>0. Typed
  BY TypedIsTypeOK DEF IInv
<1>1. /\ next' = next /\ job' = job /\ byUser' = byUser /\ unreadable' = unreadable
      /\ disk' = disk /\ why' = why /\ returned' = returned
      /\ at' = [at EXCEPT ![w] = "take"] /\ at[w] \in {"report", "failed", "stopped"}
  BY DEF Batch!Report, Batch!Goes
<1>2. results' = IF at[w] = "report" THEN results \cup {job[w]} ELSE results
  BY DEF Batch!Report, Batch!Reported
<1>3. first' = first \cup (IF at[w] \in {"failed", "stopped"} THEN {at[w]}
                           ELSE IF disk[job[w]] = "raw" THEN {"raw"} ELSE {})
  BY DEF Batch!Report, Batch!Fatal
<1>4. cancelled' \in BOOLEAN /\ (cancelled' <=> cancelled \/ at[w] # "report")
  <2>1. cancelled' = (cancelled \/ at[w] \in {"failed", "stopped"})
    BY DEF Batch!Report, Batch!Fatal
  <2> QED  BY <1>1, <2>1
<1>5. completed' = IF at[w] = "report" /\ disk[job[w]] = "video"
                   THEN Append(completed, job[w]) ELSE completed
  BY DEF Batch!Report, Batch!Completes
<1>6. CASE at[w] = "report"
  <2>1. job[w] \in 1..Count /\ disk[job[w]] # "none"
    BY <1>6 DEF IInv, OwnJob, Working, Busy, Idle
  <2>2. disk[job[w]] \in {"video", "raw"}
    BY <1>0, <2>1 DEF Typed
  <2>3. results' = results \cup {job[w]}
    BY <1>2, <1>6
  <2> QED  BY <1>1, <1>3, <1>4, <1>5, <1>6, <2>2, <2>3
<1>7. CASE at[w] # "report"
  BY <1>1, <1>2, <1>3, <1>4, <1>5, <1>7
<1> QED  BY <1>6, <1>7

(* The recording of w is told, once; nothing is said of any other.            *)
LEMMA ReportTells ==
    ASSUME IInv, NEW w \in Workers, Batch!Report(w)
    PROVE  /\ Told(job[w])'
           /\ \A i : i # job[w] => /\ Untold(i) => Untold(i)'
                                   /\ Told(i) => Told(i)'
<1>0. Typed
  BY TypedIsTypeOK DEF IInv
<1> DEFINE j == job[w]
<1>1. j \in 1..Count /\ Untold(j) /\ (at[w] = "report" <=> disk[j] # "none")
  BY Reporting DEF IInv, OwnJob, Working, Busy, Idle
<1>2. /\ job' = job /\ disk' = disk /\ results \subseteq results'
      /\ results' \subseteq results \cup {j} /\ first \subseteq first'
  BY Reporting
<1>3. completed' = completed \/ completed' = Append(completed, j)
  BY Reporting
<1>9. \A k \in 1..Len(completed') :
         completed'[k] = j \/ (k \in 1..Len(completed) /\ completed'[k] = completed[k])
  <2>1. CASE completed' = completed
    BY <2>1
  <2>2. CASE completed' = Append(completed, j)
    BY <1>0, <1>1, <2>2 DEF Typed
  <2> QED  BY <1>3, <2>1, <2>2
<1>10. 1..Len(completed) \subseteq 1..Len(completed')
  <2>1. CASE completed' = completed
    BY <2>1
  <2>2. CASE completed' = Append(completed, j)
    BY <1>0, <1>1, <2>2 DEF Typed
  <2> QED  BY <1>3, <2>1, <2>2
<1>11. \A k \in 1..Len(completed) : completed'[k] = completed[k]
  <2>1. CASE completed' = completed
    BY <2>1
  <2>2. CASE completed' = Append(completed, j)
    BY <1>0, <1>1, <2>2 DEF Typed
  <2> QED  BY <1>3, <2>1, <2>2
<1>4. \A i : i # j => (Untold(i) => Untold(i)')
  <2> SUFFICES ASSUME NEW i, i # j, Untold(i) PROVE Untold(i)'
    OBVIOUS
  <2>1. \A k \in 1..Len(completed') : completed'[k] # i
    BY <1>9 DEF Untold
  <2> QED  BY <1>2, <2>1 DEF Untold
<1>5. \A i : i # j => (Told(i) => Told(i)')
  <2> SUFFICES ASSUME NEW i, i # j, Told(i) PROVE Told(i)'
    OBVIOUS
  <2>1. (disk[i] # "none" <=> i \in results)'
    BY <1>2 DEF Told
  <2>2. (disk[i] = "none" => first \cap {"failed", "stopped"} # {})'
    BY <1>2 DEF Told
  <2>3. (disk[i] = "raw" => "raw" \in first)'
    BY <1>2 DEF Told
  <2>4. (disk[i] # "video" => \A k \in 1..Len(completed) : completed[k] # i)'
    BY <1>2, <1>9 DEF Told
  <2>5. (disk[i] = "video" => \E k \in 1..Len(completed) :
             \A l \in 1..Len(completed) : completed[l] = i <=> l = k)'
    <3> SUFFICES ASSUME disk'[i] = "video"
                 PROVE  (\E k \in 1..Len(completed) :
                            \A l \in 1..Len(completed) : completed[l] = i <=> l = k)'
      OBVIOUS
    <3>1. PICK k \in 1..Len(completed) :
             \A l \in 1..Len(completed) : completed[l] = i <=> l = k
      BY <1>2 DEF Told
    <3>2. k \in 1..Len(completed') /\ \A l \in 1..Len(completed') : completed'[l] = i <=> l = k
      BY <1>9, <1>10, <1>11, <3>1
    <3> QED  BY <3>2
  <2> QED  BY <2>1, <2>2, <2>3, <2>4, <2>5 DEF Told
<1>6. Told(j)'
  <2>1. CASE at[w] = "report" /\ disk[j] = "video"
    <3>1. results' = results \cup {j} /\ completed' = Append(completed, j) /\ first' = first
      BY <2>1, Reporting
    <3>2. /\ Len(completed) + 1 \in 1..Len(completed')
          /\ \A l \in 1..Len(completed') : completed'[l] = j <=> l = Len(completed) + 1
      BY <1>0, <1>1, <3>1 DEF Untold, Typed
    <3> QED  BY <1>2, <2>1, <3>1, <3>2 DEF Told
  <2>2. CASE at[w] = "report" /\ disk[j] # "video"
    <3>1. /\ results' = results \cup {j} /\ completed' = completed
          /\ disk[j] = "raw" /\ "raw" \in first'
      BY <2>2, Reporting
    <3> QED  BY <1>1, <1>2, <3>1 DEF Told, Untold
  <2>3. CASE at[w] # "report"
    <3>1. /\ results' = results /\ completed' = completed /\ disk[j] = "none"
          /\ first' \cap {"failed", "stopped"} # {}
      BY <1>1, <2>3, Reporting
    <3> QED  BY <1>1, <1>2, <3>1 DEF Told, Untold
  <2> QED  BY <2>1, <2>2, <2>3
<1> QED  BY <1>4, <1>5, <1>6

LEMMA ReportKeeps == ASSUME IInv, NEW w \in Workers, Batch!Report(w) PROVE IInv'
<1>0. Typed /\ Count \in Nat \ {0}
  BY TypedIsTypeOK, Constants DEF IInv
<1> DEFINE j == job[w]
<1>1. /\ next' = next /\ job' = job /\ byUser' = byUser /\ unreadable' = unreadable
      /\ disk' = disk /\ why' = why /\ returned' = returned
      /\ at' = [at EXCEPT ![w] = "take"] /\ at[w] \in {"report", "failed", "stopped"}
  BY Reporting
<1>2. /\ results' = results \/ results' = results \cup {j}
      /\ completed' = completed \/ completed' = Append(completed, j)
      /\ cancelled' \in BOOLEAN /\ (cancelled => cancelled')
      /\ first \subseteq first'
  BY Reporting
<1>15. first' \subseteq {"raw", "failed", "stopped"}
  BY <1>0, <1>1, Reporting, ZenonT(60) DEF Typed
<1>14. cancelled' => cancelled \/ first' \cap {"failed", "stopped"} # {}
  BY Reporting
<1>3. Busy(w) /\ j \in 1..Count /\ j < next /\ ~returned
  BY <1>1 DEF IInv, OwnJob, Busy, Idle, Stops
<1>4. \A v \in Workers : v # w => job[v] # j
  BY <1>3 DEF IInv, OwnJob
<1>5. /\ at' \in [Workers -> Steps] /\ at'[w] = "take"
      /\ \A v \in Workers : v # w => at'[v] = at[v]
  BY <1>0, <1>1 DEF Typed, Steps, Idle
<1>6. \A v \in Workers : Busy(v)' => Busy(v) /\ v # w
  BY <1>5 DEF Busy, Idle
<1>7. Typed'
  <2>1. results' \subseteq 1..Count /\ completed' \in Seq(1..Count)
    <3>1. CASE completed' = completed
      BY <1>0, <1>2, <1>3, <3>1 DEF Typed
    <3>2. CASE completed' = Append(completed, j)
      <4>1. completed' \in Seq(1..Count)
        BY <1>0, <1>3, <3>2 DEF Typed
      <4> QED  BY <1>0, <1>2, <1>3, <4>1 DEF Typed
    <3> QED  BY <1>2, <3>1, <3>2
  <2> QED  BY <1>0, <1>1, <1>2, <1>5, <1>15, <2>1 DEF Typed
<1>8. OwnJob'
  BY <1>1, <1>6 DEF IInv, OwnJob
<1>9. Working'
  <2> SUFFICES ASSUME NEW v \in Workers, Busy(v)'
               PROVE  (Untold(job[v]) /\ (at[v] = "report" <=> disk[job[v]] # "none"))'
    BY DEF Working
  <2>1. Busy(v) /\ v # w /\ job[v] # j
    BY <1>4, <1>6
  <2>2. Untold(job[v]) /\ (at[v] = "report" <=> disk[job[v]] # "none")
    BY <2>1 DEF IInv, Working
  <2>3. Untold(job[v])'
    <3>1. \A i : i # j => (Untold(i) => Untold(i)')
      BY ReportTells
    <3> QED  BY <1>1, <2>1, <2>2, <3>1 DEF Untold
  <2> QED  BY <1>1, <1>5, <2>1, <2>2, <2>3
<1>10. NotTaken'
  <2> SUFFICES ASSUME NEW i \in 1..Count, i >= next PROVE Untold(i)' /\ disk'[i] = "none"
    BY <1>1 DEF NotTaken
  <2>1. i # j /\ Untold(i) /\ disk[i] = "none"
    BY <1>0, <1>3 DEF IInv, NotTaken, Typed
  <2> QED  BY <1>1, <2>1, ReportTells
<1>11. Reported'
  <2> SUFFICES ASSUME NEW i \in 1..Count, Batch!Ended(i)' PROVE Told(i)'
    BY DEF Reported
  <2>1. CASE i = j
    <3>1. Told(j)'
      BY ReportTells
    <3> QED  BY <1>1, <2>1, <3>1 DEF Told
  <2>2. CASE i # j
    <3>1. Batch!Ended(i)
      BY <1>1, <1>5, <2>2 DEF Batch!Ended
    <3>2. Told(i)
      BY <3>1 DEF IInv, Reported
    <3>3. \A k : k # j => (Told(k) => Told(k)')
      BY ReportTells
    <3> QED  BY <2>2, <3>2, <3>3
  <2> QED  BY <2>1, <2>2
<1>12. Judged'
  <2>1. Batch!FallbackIsForProcessing'
    BY <1>1 DEF IInv, Judged, Batch!FallbackIsForProcessing
  <2> QED  BY <1>1, <1>2, <1>5, <2>1 DEF IInv, Judged
<1>13. Stops'
  <2>1. cancelled' => byUser' \/ first' \cap {"failed", "stopped"} # {}
    BY <1>1, <1>2, <1>14 DEF IInv, Stops
  <2>2. \A v \in Workers : at'[v] = "gone" => next' > Count \/ cancelled'
    BY <1>1, <1>2, <1>5 DEF IInv, Stops
  <2> QED  BY <1>1, <1>3, <2>1, <2>2 DEF Stops
<1> QED  BY <1>7, <1>8, <1>9, <1>10, <1>11, <1>12, <1>13, TypedIsTypeOK, PTL DEF IInv

-----------------------------------------------------------------------------
(* The steps of nobody's recording. *)
LEMMA PrefetchKeeps == ASSUME IInv, Batch!PrefetchFails PROVE IInv'
<1>0. Typed
  BY TypedIsTypeOK DEF IInv
<1>1. /\ next' = next /\ at' = at /\ job' = job /\ cancelled' = cancelled
      /\ byUser' = byUser /\ unreadable' = TRUE /\ disk' = disk /\ why' = why
      /\ first' = first /\ results' = results /\ completed' = completed
      /\ returned' = returned
  BY DEF Batch!PrefetchFails
<1>2. Typed'
  BY <1>0, <1>1 DEF Typed
<1>3. OwnJob' /\ Working' /\ NotTaken' /\ Stops'
  BY <1>1 DEF IInv, OwnJob, Working, NotTaken, Stops, Busy, Untold
<1>4. Reported'
  <2>1. \A i : Batch!Ended(i)' <=> Batch!Ended(i)
    BY <1>1 DEF Batch!Ended
  <2>2. \A i : Told(i)' <=> Told(i)
    BY <1>1 DEF Told
  <2> QED  BY <2>1, <2>2 DEF IInv, Reported
<1>5. Judged'
  BY <1>1 DEF IInv, Judged, Batch!FallbackIsForProcessing
<1> QED  BY <1>2, <1>3, <1>4, <1>5, TypedIsTypeOK, PTL DEF IInv

LEMMA CancelKeeps == ASSUME IInv, Batch!Cancel PROVE IInv'
<1>0. Typed
  BY TypedIsTypeOK DEF IInv
<1>1. /\ next' = next /\ at' = at /\ job' = job /\ cancelled' = TRUE
      /\ byUser' = TRUE /\ unreadable' = unreadable /\ disk' = disk /\ why' = why
      /\ first' = first /\ results' = results /\ completed' = completed
      /\ returned' = returned /\ ~returned
  BY DEF Batch!Cancel
<1>2. Typed'
  BY <1>0, <1>1 DEF Typed
<1>3. OwnJob' /\ Working' /\ NotTaken'
  BY <1>1 DEF IInv, OwnJob, Working, NotTaken, Busy, Untold
<1>4. Reported'
  <2>1. \A i : Batch!Ended(i)' <=> Batch!Ended(i)
    BY <1>1 DEF Batch!Ended
  <2>2. \A i : Told(i)' <=> Told(i)
    BY <1>1 DEF Told
  <2> QED  BY <2>1, <2>2 DEF IInv, Reported
<1>5. Judged'
  BY <1>1 DEF IInv, Judged, Batch!FallbackIsForProcessing
<1>6. Stops'
  BY <1>1 DEF IInv, Stops
<1> QED  BY <1>2, <1>3, <1>4, <1>5, <1>6, TypedIsTypeOK, PTL DEF IInv

LEMMA ReturnKeeps == ASSUME IInv, Batch!Return PROVE IInv'
<1>0. Typed
  BY TypedIsTypeOK DEF IInv
<1>1. /\ next' = next /\ at' = at /\ job' = job /\ cancelled' = cancelled
      /\ byUser' = byUser /\ unreadable' = unreadable /\ disk' = disk /\ why' = why
      /\ results' = results /\ completed' = completed /\ returned' = TRUE
  BY DEF Batch!Return
<1>2. first' = IF first = {} /\ cancelled THEN {"stopped"} ELSE first
  BY DEF Batch!Return
<1>3. \A w \in Workers : at[w] = "gone"
  BY DEF Batch!Return, Batch!Gone
<1>4. first \subseteq first' /\ first' \subseteq {"raw", "failed", "stopped"}
  BY <1>0, <1>2 DEF Typed
<1>5. Typed'
  BY <1>0, <1>1, <1>4 DEF Typed
<1>6. OwnJob' /\ Working' /\ NotTaken'
  BY <1>1 DEF IInv, OwnJob, Working, NotTaken, Busy, Untold
<1>7. Reported'
  <2>1. \A i : Told(i) => Told(i)'
    BY <1>1, <1>4 DEF Told
  <2>2. \A i : Batch!Ended(i)' <=> Batch!Ended(i)
    BY <1>1 DEF Batch!Ended
  <2> QED  BY <2>1, <2>2 DEF IInv, Reported
<1>8. Judged'
  BY <1>1 DEF IInv, Judged, Batch!FallbackIsForProcessing
<1>9. Stops'
  BY <1>1, <1>2, <1>3 DEF IInv, Stops
<1> QED  BY <1>5, <1>6, <1>7, <1>8, <1>9, TypedIsTypeOK, PTL DEF IInv

LEMMA BatchKeeps == ASSUME IInv, Batch!Next PROVE IInv'
<1>1. ASSUME NEW w \in Workers, Batch!Run(w) PROVE IInv'
  BY <1>1, AheadKeeps, TakeKeeps, PublishKeeps, ReportKeeps DEF Batch!Run, Ahead
<1> QED  BY <1>1, PrefetchKeeps, CancelKeeps, ReturnKeeps DEF Batch!Next

(* The other parts of the application, and stuttering. *)
LEMMA OthersKeep == ASSUME IInv, UNCHANGED batchVars PROVE IInv'
<1>1. /\ next' = next /\ at' = at /\ job' = job /\ cancelled' = cancelled
      /\ byUser' = byUser /\ unreadable' = unreadable /\ disk' = disk /\ why' = why
      /\ first' = first /\ results' = results /\ completed' = completed
      /\ returned' = returned
  BY DEF batchVars
<1>2. Typed'
  BY <1>1, TypedIsTypeOK DEF IInv, Typed
<1>3. OwnJob' /\ Working' /\ NotTaken' /\ Stops'
  BY <1>1 DEF IInv, OwnJob, Working, NotTaken, Stops, Busy, Untold
<1>4. Reported'
  <2>1. \A i : Batch!Ended(i)' <=> Batch!Ended(i)
    BY <1>1 DEF Batch!Ended
  <2>2. \A i : Told(i)' <=> Told(i)
    BY <1>1 DEF Told
  <2> QED  BY <2>1, <2>2 DEF IInv, Reported
<1>5. Judged'
  BY <1>1 DEF IInv, Judged, Batch!FallbackIsForProcessing
<1> QED  BY <1>2, <1>3, <1>4, <1>5, TypedIsTypeOK, PTL DEF IInv

-----------------------------------------------------------------------------
(* The invariant says what the run checks. *)
LEMMA IInvReports == IInv => Batch!PublishedIsReported
<1> SUFFICES ASSUME IInv, NEW i \in 1..Count, Batch!Ended(i)
             PROVE  /\ disk[i] # "none" <=> i \in results
                    /\ Cardinality({k \in 1..Len(completed) : completed[k] = i})
                          = IF disk[i] = "video" THEN 1 ELSE 0
  BY DEF Batch!PublishedIsReported, Batch!Recordings, Batch!Cardinality, Cardinality
<1> DEFINE calls == {k \in 1..Len(completed) : completed[k] = i}
<1>1. Told(i)
  BY DEF IInv, Reported
<1>2. CASE disk[i] = "video"
  <2>1. PICK k \in 1..Len(completed) :
           \A l \in 1..Len(completed) : completed[l] = i <=> l = k
    BY <1>1, <1>2 DEF Told
  <2>2. calls = {k}
    BY <2>1
  <2>3. Cardinality(calls) = 1
    BY <2>2, FS_Singleton, Zenon
  <2> QED  BY <1>1, <1>2, <2>3 DEF Told
<1>3. CASE disk[i] # "video"
  <2>1. calls = {}
    BY <1>1, <1>3 DEF Told
  <2>2. Cardinality(calls) = 0
    BY <2>1, FS_EmptySet, Zenon
  <2> QED  BY <1>1, <1>3, <2>2 DEF Told
<1> QED  BY <1>2, <1>3

LEMMA IInvBatches == IInv => Batches
<1> SUFFICES ASSUME IInv PROVE Batches
  OBVIOUS
<1>0. Typed /\ Workers # {}
  BY TypedIsTypeOK, Constants DEF IInv
<1>1. ASSUME returned, ~cancelled, NEW i \in 1..Count PROVE Told(i)
  <2>1. next > Count /\ \A w \in Workers : at[w] = "gone"
    BY <1>0, <1>1 DEF IInv, Stops
  <2>2. Batch!Ended(i)
    BY <1>0, <2>1, Constants DEF Batch!Ended, Typed
  <2> QED  BY <2>2 DEF IInv, Reported
<1>2. Batch!SuccessIsWhole
  <2> SUFFICES ASSUME returned, first = {} PROVE Batch!Videos = 1..Count
    BY DEF Batch!SuccessIsWhole, Batch!Recordings
  <2>1. ~cancelled
    BY DEF IInv, Stops
  <2>2. ASSUME NEW i \in 1..Count PROVE disk[i] = "video"
    <3>1. Told(i)
      BY <1>1, <2>1
    <3>2. disk[i] \in {"none", "video", "raw"}
      BY <1>0 DEF Typed
    <3>3. disk[i] # "none" /\ disk[i] # "raw"
      BY <3>1 DEF Told
    <3> QED  BY <3>2, <3>3
  <2> QED  BY <2>2 DEF Batch!Videos, Batch!Recordings
<1>3. Batch!GoesOn
  <2> SUFFICES ASSUME returned, ~byUser, first \cap {"failed", "stopped"} = {},
                      NEW i \in 1..Count
               PROVE  disk[i] # "none"
    BY DEF Batch!GoesOn, Batch!Recordings
  <2>1. ~cancelled
    BY DEF IInv, Stops
  <2> QED  BY <1>1, <2>1 DEF Told
<1> QED  BY <1>2, <1>3, IInvReports DEF Batches, IInv, Judged

(* Batches of the application, for any number of recordings and encoders: what *)
(* was published is in the result, a video is completed exactly once, a batch    *)
(* without an error made every video, only an error that is no raw copy or the  *)
(* user keeps a recording from being tried, and raw copies stand for videos      *)
(* ffmpeg could not make (batch.go, Export and exportOnce).                     *)
THEOREM BatchesTell == Spec => []Batches
<1>1. Init => IInv
  BY BatchStarts, InitIInv
<1>2. IInv /\ [Next]_vars => IInv'
  <2> SUFFICES ASSUME IInv, [Next]_vars PROVE IInv'
    OBVIOUS
  <2>1. Batch!Next \/ UNCHANGED batchVars
    BY DEF Next, vars, OnlyOutput, OnlyWindow
  <2> QED  BY <2>1, BatchKeeps, OthersKeep
<1> QED  BY <1>1, <1>2, IInvBatches, PTL DEF Spec

-----------------------------------------------------------------------------
(* The window *)

WindowSteps == {"none", "open", "read", "plan", "dialog", "delete", "done", "failed"}
Tasks == [kind : {"none", "scan", "export", "local"}, step : WindowSteps,
          source : Window!Sources \cup {None}, card : Window!Cards \cup {None},
          volume : Volumes \cup {None}]

Shown ==
    /\ inserted \in [Ports -> Window!Medium \cup {None}]
    /\ plugs \in 0..MaxPlugs /\ errors \in 0..MaxErrors
    /\ selected \in Window!Cards \cup {None} /\ held \in Window!Sources \cup {None}
    /\ scanned \in Ports \cup {None} /\ items \in Volumes \cup {None}
    /\ picked \in BOOLEAN /\ busy \in BOOLEAN /\ refreshing \in BOOLEAN /\ stopped \in BOOLEAN
    /\ open \subseteq Window!Sources /\ task \in Tasks
    /\ found \in [left : SUBSET Ports, cards : SUBSET Window!Cards]

(* A scan works for the card that is selected, with nothing held or listed; an   *)
(* export uses the source that is held; nothing else uses any.                *)
Scanning ==
    /\ task.step \in {"open", "read", "done", "failed"}
    /\ task.card = selected /\ selected \in Window!Cards /\ held = None /\ items = None
    /\ task.step = "open" => task.source = None
    /\ task.step \in {"read", "done"} =>
           /\ task.source \in Window!Sources /\ task.source.port = selected.port
           /\ task.source.medium.volume = selected.volume
    /\ task.step = "done" => task.volume = selected.volume
AtTask ==
    /\ busy <=> task.kind # "none"
    /\ ~(busy /\ refreshing) /\ ~(busy /\ stopped)
    /\ task.kind = "none" => task.step = "none" /\ task.source = None
    /\ task.kind = "scan" => Scanning
    /\ task.kind = "export" => /\ task.step \in {"read", "done", "failed"}
                               /\ task.source = held /\ held \in Window!Sources
    /\ task.kind = "local" => /\ task.step \in {"plan", "dialog", "delete", "done", "failed"}
                              /\ task.source = None

WindowInv == Shown /\ AtTask /\ Window!SourcesOpen /\ Window!ListOfSelected

LEMMA WindowKinds ==
    /\ \A c \in Window!Cards : /\ c.port \in Ports /\ c.volume \in Volumes
                               /\ c = Window!Card(c.port, c.volume)
    /\ \A s \in Window!Sources : s.port \in Ports /\ s.medium \in Window!Medium
    /\ \A m \in Window!Medium : m.volume \in Volumes
    /\ None \notin Ports /\ None \notin Volumes /\ None \notin Window!Cards
    /\ None \notin Window!Medium /\ None \notin Window!Sources
    /\ Ports \subseteq Nat /\ MaxPlugs \in Nat /\ MaxErrors \in Nat
<1>1. \A c \in Window!Cards : c.port \in Ports /\ c.volume \in Volumes
                              /\ c = Window!Card(c.port, c.volume)
  BY DEF Window!Cards, Window!Card
<1>2. /\ \A s \in Window!Sources : s.port \in Ports /\ s.medium \in Window!Medium
      /\ \A m \in Window!Medium : m.volume \in Volumes
  BY DEF Window!Sources, Window!Medium
<1> QED  BY <1>1, <1>2, MCDesktopAssumption DEF Window!WindowConstants

LEMMA WindowStarts == Window!Init => WindowInv
<1> SUFFICES ASSUME Window!Init PROVE WindowInv
  OBVIOUS
<1>1. Shown
  <2>1. plugs = 0 /\ errors = 0 /\ 0 \in 0..MaxPlugs /\ 0 \in 0..MaxErrors
    BY WindowKinds DEF Window!Init
  <2>2. task \in Tasks
    BY DEF Window!Init, Window!Idle, Tasks, WindowSteps
  <2>3. found \in [left : SUBSET Ports, cards : SUBSET Window!Cards]
    BY DEF Window!Init, Window!Quiet
  <2> QED  BY <2>1, <2>2, <2>3 DEF Window!Init, Shown
<1>2. AtTask
  BY DEF Window!Init, Window!Idle, AtTask
<1>3. Window!SourcesOpen /\ Window!ListOfSelected
  BY DEF Window!Init, Window!Idle, Window!SourcesOpen, Window!Holding, Window!Using,
         Window!ListOfSelected
<1> QED  BY <1>1, <1>2, <1>3 DEF WindowInv

(* Another card is selected, or none, while nothing is at work. *)
LEMMA SelectKeeps ==
    ASSUME WindowInv, ~busy, ~stopped, NEW c \in Window!Cards \cup {None}, Window!Select(c),
           UNCHANGED <<inserted, plugs, errors, stopped, found>>, refreshing' = FALSE
    PROVE  WindowInv'
<1>1. /\ Shown /\ AtTask /\ task.kind = "none" /\ task.source = None
      /\ open = Window!Closed
  BY DEF WindowInv, AtTask, Window!SourcesOpen, Window!Holding, Window!Using, Window!Closed
<1>2. /\ open' = {} /\ held' = None /\ scanned' = None /\ items' = None /\ picked' = FALSE
      /\ selected' = c
      /\ inserted' = inserted /\ plugs' = plugs /\ errors' = errors
      /\ stopped' = stopped /\ found' = found
  BY <1>1 DEF Window!Select
<1>3. CASE c = None
  <2>1. busy' = FALSE /\ task' = task
    BY <1>3 DEF Window!Select
  <2>2. Shown'
    BY <1>1, <1>2, <1>3, <2>1 DEF Shown
  <2>3. AtTask'
    BY <1>1, <1>2, <2>1 DEF AtTask
  <2>4. Window!SourcesOpen' /\ Window!ListOfSelected'
    BY <1>1, <1>2, <2>1 DEF Window!SourcesOpen, Window!Holding, Window!Using,
                            Window!ListOfSelected
  <2> QED  BY <2>2, <2>3, <2>4 DEF WindowInv
<1>4. CASE c # None
  <2>1. /\ busy' = TRUE /\ task' \in Tasks
        /\ task'.kind = "scan" /\ task'.step = "open" /\ task'.card = c
        /\ task'.source = None
    BY <1>4 DEF Window!Select, Window!Idle, Tasks, WindowSteps
  <2>2. Shown'
    BY <1>1, <1>2, <2>1, refreshing' = FALSE DEF Shown
  <2>3. AtTask'
    BY <1>1, <1>2, <1>4, <2>1 DEF AtTask, Scanning
  <2>4. Window!SourcesOpen' /\ Window!ListOfSelected'
    BY <1>2, <2>1 DEF Window!SourcesOpen, Window!Holding, Window!Using,
                      Window!ListOfSelected
  <2> QED  BY <2>2, <2>3, <2>4 DEF WindowInv
<1> QED  BY <1>3, <1>4

(* A task goes on: what is listed, held and selected stays. *)
UiStays == UNCHANGED <<selected, held, scanned, items, picked, busy, refreshing, stopped>>

LEMMA OpenCardKeeps == ASSUME WindowInv, Window!OpenCard PROVE WindowInv'
<1>1. /\ task.step = "open" /\ inserted' = inserted /\ plugs' = plugs /\ errors' = errors
      /\ UiStays /\ found' = found
  BY DEF Window!OpenCard, Window!world, Window!ui, UiStays
<1>2. Shown /\ AtTask
  BY DEF WindowInv
<1>3. /\ task.kind = "scan" /\ task.source = None /\ task.card = selected
      /\ selected \in Window!Cards /\ held = None /\ items = None /\ open = {}
  BY <1>1, <1>2 DEF AtTask, Scanning, Shown, Tasks, WindowInv, Window!SourcesOpen,
                    Window!Holding, Window!Using
<1>4. CASE Window!Accepts(task.card.port, task.card)
  <2> DEFINE s == [port |-> selected.port, medium |-> inserted[selected.port]]
  <2>1. selected.port \in Ports /\ inserted[selected.port] \in Window!Medium
    BY <1>2, <1>3, <1>4, WindowKinds DEF Window!Accepts, Shown
  <2>2. s \in Window!Sources /\ s.port = selected.port /\ s.medium.volume = selected.volume
    BY <1>3, <1>4, <2>1 DEF Window!Sources, Window!Accepts
  <2>3. open' = {s} /\ task' = [task EXCEPT !.step = "read", !.source = s]
    BY <1>3, <1>4 DEF Window!OpenCard
  <2> HIDE DEF s
  <2>4. /\ task' \in Tasks /\ task'.kind = "scan" /\ task'.step = "read"
        /\ task'.source = s /\ task'.card = selected
    BY <1>2, <1>3, <2>2, <2>3 DEF Shown, Tasks, WindowSteps
  <2>5. Shown'
    BY <1>1, <1>2, <2>2, <2>3, <2>4 DEF Shown, UiStays
  <2>6. AtTask'
    BY <1>1, <1>2, <1>3, <2>2, <2>4 DEF AtTask, Scanning, UiStays
  <2>7. Window!SourcesOpen' /\ Window!ListOfSelected'
    BY <1>1, <1>3, <2>2, <2>3, <2>4, WindowKinds
    DEF Window!SourcesOpen, Window!Holding, Window!Using, Window!ListOfSelected, UiStays
  <2> QED  BY <2>5, <2>6, <2>7 DEF WindowInv
<1>5. CASE ~Window!Accepts(task.card.port, task.card)
  <2>1. open' = open /\ task' = [task EXCEPT !.step = "failed"]
    BY <1>5 DEF Window!OpenCard
  <2>2. /\ task' \in Tasks /\ task'.kind = "scan" /\ task'.step = "failed"
        /\ task'.source = None /\ task'.card = selected
    BY <1>2, <1>3, <2>1 DEF Shown, Tasks, WindowSteps
  <2>3. Shown'
    BY <1>1, <1>2, <2>1, <2>2 DEF Shown, UiStays
  <2>4. AtTask'
    BY <1>1, <1>2, <1>3, <2>2 DEF AtTask, Scanning, UiStays
  <2>5. Window!SourcesOpen' /\ Window!ListOfSelected'
    BY <1>1, <1>3, <2>1, <2>2
    DEF Window!SourcesOpen, Window!Holding, Window!Using, Window!ListOfSelected, UiStays
  <2> QED  BY <2>3, <2>4, <2>5 DEF WindowInv
<1> QED  BY <1>4, <1>5

(* A step that uses no other source. *)
LEMMA StepKeeps ==
    ASSUME WindowInv, UiStays, open' = open, found' = found, inserted' = inserted,
           plugs' = plugs, errors' \in 0..MaxErrors,
           task' \in Tasks, task'.kind = task.kind, task'.source = task.source,
           task'.card = task.card, AtTask'
    PROVE  WindowInv'
<1>1. Shown'
  BY DEF WindowInv, Shown, UiStays
<1>2. Window!SourcesOpen' /\ Window!ListOfSelected'
  BY DEF WindowInv, Window!SourcesOpen, Window!Holding, Window!Using,
         Window!ListOfSelected, UiStays
<1> QED  BY <1>1, <1>2 DEF WindowInv

LEMMA ReadKeeps == ASSUME WindowInv, Window!Read PROVE WindowInv'
<1>1. /\ task.step = "read" /\ inserted' = inserted /\ plugs' = plugs /\ errors' = errors
      /\ UiStays /\ found' = found /\ open' = open
  BY DEF Window!Read, Window!world, Window!ui, UiStays
<1>2. Shown /\ AtTask
  BY DEF WindowInv
<1>3. task.kind \in {"scan", "export"} /\ task.source \in Window!Sources
  BY <1>1, <1>2 DEF AtTask, Scanning, Shown, Tasks
<1>4. PICK step \in {"done", "failed"} :
         task' = [task EXCEPT !.step = step, !.volume = task.source.medium.volume]
  BY DEF Window!Read
<1>5. /\ task' \in Tasks /\ task'.kind = task.kind /\ task'.step = step
      /\ task'.source = task.source /\ task'.card = task.card
      /\ task'.volume = task.source.medium.volume
  BY <1>2, <1>3, <1>4, WindowKinds DEF Shown, Tasks, WindowSteps
<1>6. AtTask'
  BY <1>1, <1>2, <1>3, <1>5 DEF AtTask, Scanning, UiStays
<1> QED  BY <1>1, <1>2, <1>5, <1>6, StepKeeps DEF Shown

LEMMA OtherStepsKeep ==
    ASSUME WindowInv,
           Window!TaskFails \/ Window!Planned \/ Window!Confirm \/ Window!Deleted
    PROVE  WindowInv'
<1>0. Shown /\ AtTask
  BY DEF WindowInv
<1>1. /\ UiStays /\ open' = open /\ found' = found /\ inserted' = inserted /\ plugs' = plugs
  BY DEF Window!TaskFails, Window!Planned, Window!Confirm, Window!Deleted, Window!world,
         Window!ui, UiStays
<1>2. errors' \in 0..MaxErrors
  BY <1>0, WindowKinds DEF Window!TaskFails, Window!Planned, Window!Confirm, Window!Deleted,
                      Window!world, Window!Fault, Shown
<1>3. PICK step \in WindowSteps :
         /\ task' = [task EXCEPT !.step = step]
         /\ \/ task.step \in {"open", "read", "plan", "delete"} /\ step = "failed"
            \/ task.step = "plan" /\ step = "dialog"
            \/ task.step = "dialog" /\ step = "delete"
            \/ task.step = "delete" /\ step = "done"
  BY DEF Window!TaskFails, Window!Planned, Window!Confirm, Window!Deleted, WindowSteps
<1>4. /\ task' \in Tasks /\ task'.kind = task.kind /\ task'.step = step
      /\ task'.source = task.source /\ task'.card = task.card
  BY <1>0, <1>3 DEF Shown, Tasks
<1>5. AtTask'
  BY <1>0, <1>1, <1>3, <1>4 DEF AtTask, Scanning, UiStays
<1> QED  BY <1>1, <1>2, <1>4, <1>5, StepKeeps

LEMMA FinishKeeps == ASSUME WindowInv, Window!Finish PROVE WindowInv'
<1>1. /\ task.step \in {"done", "failed"} /\ busy' = FALSE /\ task' = Window!Idle
      /\ inserted' = inserted /\ plugs' = plugs /\ errors' = errors
      /\ selected' = selected /\ refreshing' = refreshing /\ stopped' = stopped
      /\ found' = found
  BY DEF Window!Finish, Window!world
<1>2. Shown /\ AtTask /\ open = Window!Holding \cup Window!Using
  BY DEF WindowInv, Window!SourcesOpen
<1>3. /\ task' \in Tasks /\ task'.kind = "none" /\ task'.step = "none"
      /\ task'.source = None
  BY <1>1 DEF Window!Idle, Tasks, WindowSteps
<1>4. AtTask'
  BY <1>1, <1>3 DEF AtTask
<1>5. CASE task.step = "done" /\ task.kind = "scan"
  <2>1. /\ held' = task.source /\ scanned' = task.card.port /\ items' = task.volume
        /\ picked' = FALSE /\ open' = open
    BY <1>5 DEF Window!Finish
  <2>2. /\ task.source \in Window!Sources /\ task.card = selected /\ selected \in Window!Cards
        /\ task.source.port = selected.port /\ task.volume = selected.volume
        /\ task.source.medium.volume = selected.volume /\ held = None
    BY <1>2, <1>5 DEF AtTask, Scanning
  <2>3. selected = Window!Card(selected.port, selected.volume) /\ selected.port \in Ports
        /\ selected.volume \in Volumes
    BY <2>2, WindowKinds
  <2>4. Shown'
    BY <1>1, <1>2, <1>3, <2>1, <2>2, <2>3 DEF Shown
  <2>5. Window!ListOfSelected'
    BY <1>1, <2>1, <2>2, <2>3, WindowKinds DEF Window!ListOfSelected, Window!Card
  <2>6. Window!SourcesOpen'
    BY <1>2, <1>3, <2>1, <2>2, WindowKinds DEF Window!SourcesOpen, Window!Holding, Window!Using
  <2> QED  BY <1>4, <2>4, <2>5, <2>6 DEF WindowInv
<1>6. CASE ~(task.step = "done" /\ task.kind = "scan")
  <2>1. /\ held' = held /\ scanned' = scanned /\ items' = items /\ picked' = picked
        /\ open' = IF task.step = "failed" /\ task.kind = "scan"
                   THEN open \ {task.source} ELSE open
    BY <1>1, <1>6 DEF Window!Finish, Window!LeftOpenBy
  <2>2. Shown'
    BY <1>1, <1>2, <1>3, <2>1 DEF Shown
  <2>3. Window!ListOfSelected'
    BY <1>1, <2>1 DEF WindowInv, Window!ListOfSelected, Window!Card
  <2>4. Window!SourcesOpen'
    <3>1. CASE task.kind = "scan"
      <4>1. held = None /\ open' = open \ {task.source}
        BY <1>1, <1>2, <1>6, <2>1, <3>1 DEF AtTask, Scanning
      <4>2. open' = {}
        BY <1>2, <4>1 DEF Window!Holding, Window!Using
      <4> QED  BY <1>3, <2>1, <4>1, <4>2 DEF Window!SourcesOpen, Window!Holding, Window!Using
    <3>2. CASE task.kind # "scan"
      <4>1. open' = open /\ (task.source = held \/ task.source = None)
        BY <1>2, <2>1, <3>2 DEF AtTask, Shown, Tasks
      <4>2. open = Window!Holding
        BY <1>2, <4>1 DEF Window!Holding, Window!Using
      <4> QED  BY <1>3, <2>1, <4>1, <4>2 DEF Window!SourcesOpen, Window!Holding, Window!Using
    <3> QED  BY <3>1, <3>2
  <2> QED  BY <1>4, <2>2, <2>3, <2>4 DEF WindowInv
<1> QED  BY <1>5, <1>6

(* A task of the user's starts, or he is told of one and says no. *)
LEMMA TaskStarts ==
    ASSUME WindowInv, Window!Export \/ Window!Manage \/ Window!Dismiss
    PROVE  WindowInv'
<1>0. Shown /\ AtTask /\ open = Window!Holding \cup Window!Using
  BY DEF WindowInv, Window!SourcesOpen
<1>1. /\ inserted' = inserted /\ plugs' = plugs /\ errors' = errors /\ selected' = selected
      /\ held' = held /\ scanned' = scanned /\ items' = items /\ picked' = picked
      /\ refreshing' = refreshing /\ stopped' = stopped /\ found' = found /\ open' = open
  BY DEF Window!Export, Window!Manage, Window!Dismiss, Window!world
<1>2. Window!ListOfSelected'
  BY <1>1 DEF WindowInv, Window!ListOfSelected, Window!Card
<1>3. CASE Window!Export
  <2>1. /\ ~busy /\ ~refreshing /\ ~stopped /\ held # None /\ busy' = TRUE
        /\ task' = [kind |-> "export", step |-> "read", source |-> held,
                    card |-> selected, volume |-> items]
    BY <1>3 DEF Window!Export, Window!Ready, Window!Calm
  <2>2. held \in Window!Sources /\ task.source = None
    BY <1>0, <2>1 DEF Shown, AtTask
  <2>3. task' \in Tasks /\ task'.kind = "export" /\ task'.step = "read" /\ task'.source = held
    BY <1>0, <2>1 DEF Tasks, WindowSteps, Shown
  <2>4. Shown' /\ AtTask'
    BY <1>0, <1>1, <2>1, <2>2, <2>3 DEF Shown, AtTask
  <2>5. Window!SourcesOpen'
    BY <1>0, <1>1, <2>1, <2>2, <2>3 DEF Window!SourcesOpen, Window!Holding, Window!Using
  <2> QED  BY <1>2, <2>4, <2>5 DEF WindowInv
<1>4. CASE Window!Manage
  <2>1. /\ ~busy /\ ~refreshing /\ ~stopped /\ busy' = TRUE
        /\ task' = [Window!Idle EXCEPT !.kind = "local", !.step = "plan", !.volume = items]
    BY <1>4 DEF Window!Manage, Window!Calm
  <2>2. task.source = None
    BY <1>0, <2>1 DEF Shown, AtTask
  <2>3. task' \in Tasks /\ task'.kind = "local" /\ task'.step = "plan" /\ task'.source = None
    BY <1>0, <2>1 DEF Tasks, WindowSteps, Shown, Window!Idle
  <2>4. Shown' /\ AtTask'
    BY <1>0, <1>1, <2>1, <2>2, <2>3 DEF Shown, AtTask
  <2>5. Window!SourcesOpen'
    BY <1>0, <1>1, <2>2, <2>3 DEF Window!SourcesOpen, Window!Holding, Window!Using
  <2> QED  BY <1>2, <2>4, <2>5 DEF WindowInv
<1>5. CASE Window!Dismiss
  <2>1. task.step = "dialog" /\ task' = Window!Idle /\ busy' = FALSE
    BY <1>5 DEF Window!Dismiss
  <2>2. task.source = None
    BY <1>0, <2>1 DEF Shown, AtTask, Scanning, Tasks
  <2>3. task' \in Tasks /\ task'.kind = "none" /\ task'.step = "none" /\ task'.source = None
    BY <2>1 DEF Tasks, WindowSteps, Window!Idle
  <2>4. Shown' /\ AtTask'
    BY <1>0, <1>1, <2>1, <2>2, <2>3 DEF Shown, AtTask
  <2>5. Window!SourcesOpen'
    BY <1>0, <1>1, <2>2, <2>3 DEF Window!SourcesOpen, Window!Holding, Window!Using
  <2> QED  BY <1>2, <2>4, <2>5 DEF WindowInv
<1> QED  BY <1>3, <1>4, <1>5

(* Cards, picks and the detector leave the task and its source alone. *)
LEMMA AsideKeeps ==
    ASSUME WindowInv, Shown', UNCHANGED <<selected, held, scanned, items, busy, stopped, task, open>>,
           refreshing' => refreshing \/ ~busy
    PROVE  WindowInv'
<1>1. /\ selected' = selected /\ held' = held /\ scanned' = scanned /\ items' = items
      /\ busy' = busy /\ stopped' = stopped /\ task' = task /\ open' = open
  OBVIOUS
<1>2. AtTask'
  BY <1>1 DEF WindowInv, AtTask, Scanning
<1>3. Window!SourcesOpen' /\ Window!ListOfSelected'
  BY <1>1 DEF WindowInv, Window!SourcesOpen, Window!Holding, Window!Using,
              Window!ListOfSelected, Window!Card
<1> QED  BY <1>2, <1>3 DEF WindowInv

LEMMA WorldKeeps ==
    ASSUME WindowInv,
           \/ \E p \in Ports : Window!Pull(p) \/ \E v \in Volumes : Window!Insert(p, v)
           \/ Window!ProbeFails \/ Window!Pick \/ Window!Refresh
           \/ \E p \in Ports : Window!Probe(p)
    PROVE  WindowInv'
<1>0. Shown
  BY DEF WindowInv
<1>1. ASSUME NEW p \in Ports, Window!Pull(p) PROVE WindowInv'
  <2>1. /\ inserted' = [inserted EXCEPT ![p] = None] /\ UiStays
        /\ plugs' = plugs /\ errors' = errors /\ task' = task /\ found' = found /\ open' = open
    BY <1>1 DEF Window!Pull, Window!ui, UiStays
  <2>2. Shown'
    BY <1>0, <2>1 DEF Shown, UiStays
  <2> QED  BY <2>1, <2>2, AsideKeeps DEF UiStays
<1>2. ASSUME NEW p \in Ports, NEW v \in Volumes, Window!Insert(p, v) PROVE WindowInv'
  <2>1. /\ inserted' = [inserted EXCEPT ![p] = [volume |-> v, at |-> plugs']] /\ UiStays
        /\ plugs < MaxPlugs /\ plugs' = plugs + 1 /\ errors' = errors
        /\ task' = task /\ found' = found /\ open' = open
    BY <1>2 DEF Window!Insert, Window!ui, UiStays
  <2>2. plugs' \in 1..MaxPlugs
    BY <1>0, <2>1, WindowKinds DEF Shown
  <2>3. [volume |-> v, at |-> plugs'] \in Window!Medium
    BY <2>2 DEF Window!Medium
  <2>4. Shown'
    BY <1>0, <2>1, <2>2, <2>3 DEF Shown, UiStays
  <2> QED  BY <2>1, <2>4, AsideKeeps DEF UiStays
<1>3. CASE Window!Pick
  <2>1. /\ picked' \in BOOLEAN /\ inserted' = inserted /\ plugs' = plugs /\ errors' = errors
        /\ found' = found /\ refreshing' = refreshing
        /\ UNCHANGED <<selected, held, scanned, items, busy, stopped, task, open>>
    BY <1>3 DEF Window!Pick, Window!world
  <2>2. Shown'
    BY <1>0, <2>1 DEF Shown
  <2> QED  BY <2>1, <2>2, AsideKeeps
<1>4. CASE Window!Refresh
  <2>1. /\ ~busy /\ refreshing' = TRUE /\ picked' = picked /\ inserted' = inserted
        /\ plugs' = plugs /\ errors' = errors
        /\ UNCHANGED <<selected, held, scanned, items, busy, stopped, task, open>>
    BY <1>4 DEF Window!Refresh, Window!Calm, Window!world
  <2>2. found' \in [left : SUBSET Ports, cards : SUBSET Window!Cards]
    BY <1>4 DEF Window!Refresh, Window!Quiet
  <2>3. Shown'
    BY <1>0, <2>1, <2>2 DEF Shown
  <2> QED  BY <2>1, <2>3, AsideKeeps
<1>5. ASSUME NEW p \in Ports, Window!Probe(p) PROVE WindowInv'
  <2>1. /\ UiStays /\ inserted' = inserted /\ plugs' = plugs /\ errors' = errors
        /\ task' = task /\ open' = open
    BY <1>5 DEF Window!Probe, Window!world, Window!ui, UiStays
  <2> DEFINE seen == IF inserted[p] = None THEN found.cards
                     ELSE found.cards \cup {Window!Card(p, inserted[p].volume)}
  <2>2. found' = [found EXCEPT !.left = found.left \ {p}, !.cards = seen]
    BY <1>5 DEF Window!Probe
  <2>3. seen \subseteq Window!Cards
    <3>1. inserted[p] # None => Window!Card(p, inserted[p].volume) \in Window!Cards
      BY <1>0, WindowKinds DEF Shown, Window!Cards
    <3> QED  BY <1>0, <3>1 DEF Shown
  <2> HIDE DEF seen
  <2>4. found' \in [left : SUBSET Ports, cards : SUBSET Window!Cards]
    BY <1>0, <2>2, <2>3 DEF Shown
  <2>5. Shown'
    BY <1>0, <2>1, <2>4 DEF Shown, UiStays
  <2> QED  BY <2>1, <2>5, AsideKeeps DEF UiStays
<1>6. CASE Window!ProbeFails
  <2>1. /\ UiStays /\ inserted' = inserted /\ plugs' = plugs /\ task' = task /\ open' = open
        /\ errors < MaxErrors /\ errors' = errors + 1
    BY <1>6 DEF Window!ProbeFails, Window!ui, Window!Fault, UiStays
  <2>2. found' \in [left : SUBSET Ports, cards : SUBSET Window!Cards]
    <3>1. PICK p \in found.left : found' = [found EXCEPT !.left = found.left \ {p}]
      BY <1>6 DEF Window!ProbeFails
    <3> QED  BY <1>0, <3>1 DEF Shown
  <2>3. errors' \in 0..MaxErrors
    BY <1>0, <2>1, WindowKinds DEF Shown
  <2>4. Shown'
    BY <1>0, <2>1, <2>2, <2>3 DEF Shown, UiStays
  <2> QED  BY <2>1, <2>4, AsideKeeps DEF UiStays
<1> QED  BY <1>1, <1>2, <1>3, <1>4, <1>5, <1>6

(* The first of the cards is one of them: their ports are numbers. *)
LEMMA FirstIsOne ==
    ASSUME NEW C \in SUBSET Window!Cards, C # {}
    PROVE  Window!FirstOf(C) \in C
<1> DEFINE R == {ss \in Nat \X Nat : ss[1] < ss[2]}
           B == {c.port : c \in C}
<1>1. IsWellFoundedOn(R, Nat)
  BY NatLessThanWellFounded DEF OpToRel
<1>2. B \subseteq Nat /\ B # {}
  <2>1. \A c \in C : c.port \in Nat
    BY WindowKinds
  <2> QED  BY <2>1
<1> HIDE DEF R, B
<1>3. PICK x \in B : \A y \in B : <<y, x>> \notin R
  BY <1>1, <1>2, WFMin
<1>4. \A y \in B : ~(y < x)
  BY <1>2, <1>3 DEF R
<1>5. \A y \in B : x <= y
  BY ONLY <1>2, <1>4, x \in B
<1> USE DEF B
<1>6. \E c \in C : \A d \in C : c.port <= d.port
  BY <1>5
<1> QED  BY <1>6 DEF Window!FirstOf

LEMMA SelectsKeep ==
    ASSUME WindowInv,
           Window!Rescan \/ Window!Apply \/ \E c \in Window!Cards : Window!SelectCard(c)
    PROVE  WindowInv'
<1>0. Shown /\ AtTask
  BY DEF WindowInv
<1>1. CASE Window!Rescan
  <2>1. /\ ~busy /\ ~stopped /\ ~refreshing /\ Window!Select(selected)
        /\ inserted' = inserted /\ plugs' = plugs /\ errors' = errors
        /\ stopped' = stopped /\ found' = found /\ refreshing' = refreshing
    BY <1>1 DEF Window!Rescan, Window!Calm, Window!world
  <2>2. selected \in Window!Cards \cup {None} /\ refreshing' = FALSE
    BY <1>0, <2>1 DEF Shown
  <2> QED  BY <2>1, <2>2, SelectKeeps
<1>2. ASSUME NEW c \in Window!Cards, Window!SelectCard(c) PROVE WindowInv'
  <2>1. /\ ~busy /\ ~stopped /\ ~refreshing /\ Window!Select(c)
        /\ inserted' = inserted /\ plugs' = plugs /\ errors' = errors
        /\ stopped' = stopped /\ found' = found /\ refreshing' = refreshing
    BY <1>2 DEF Window!SelectCard, Window!Calm, Window!world
  <2>2. refreshing' = FALSE
    BY <1>0, <2>1 DEF Shown
  <2> QED  BY <2>1, <2>2, SelectKeeps
<1>3. CASE Window!Apply
  <2>1. /\ refreshing' = FALSE /\ inserted' = inserted /\ plugs' = plugs
        /\ errors' = errors /\ stopped' = stopped /\ found' = found
    BY <1>3 DEF Window!Apply, Window!world
  <2>2. CASE stopped \/ busy \/ Window!StillThere(selected, found.cards)
    <3>1. UNCHANGED <<selected, held, scanned, items, picked, busy, task, open>>
      BY <1>3, <2>2 DEF Window!Apply
    <3>2. Shown'
      BY <1>0, <2>1, <3>1 DEF Shown
    <3> QED  BY <1>0, <2>1, <3>1, <3>2, AsideKeeps DEF AtTask, Window!Apply
  <2>3. CASE ~(stopped \/ busy \/ Window!StillThere(selected, found.cards))
    <3> DEFINE c == IF found.cards = {} THEN None ELSE Window!FirstOf(found.cards)
    <3>1. Window!Select(c)
      BY <1>3, <2>3 DEF Window!Apply
    <3>2. found.cards \in SUBSET Window!Cards
      BY <1>0 DEF Shown
    <3>3. c \in Window!Cards \cup {None}
      BY <3>2, FirstIsOne
    <3> HIDE DEF c
    <3> QED  BY <2>1, <2>3, <3>1, <3>3, SelectKeeps
  <2> QED  BY <2>2, <2>3
<1> QED  BY <1>1, <1>2, <1>3

LEMMA ExitKeeps == ASSUME WindowInv, Window!Exit PROVE WindowInv'
<1>1. /\ ~busy /\ stopped' = TRUE /\ open' = open \ Window!Closed /\ held' = None
      /\ inserted' = inserted /\ plugs' = plugs /\ errors' = errors /\ selected' = selected
      /\ scanned' = scanned /\ items' = items /\ picked' = picked /\ busy' = busy
      /\ refreshing' = refreshing /\ task' = task /\ found' = found
  BY DEF Window!Exit, Window!world
<1>2. /\ Shown /\ AtTask /\ task.kind = "none" /\ task.source = None
      /\ open = Window!Closed
  BY <1>1 DEF WindowInv, AtTask, Window!SourcesOpen, Window!Holding, Window!Using,
              Window!Closed
<1>3. Shown'
  BY <1>1, <1>2 DEF Shown
<1>4. AtTask'
  BY <1>1, <1>2 DEF AtTask
<1>5. Window!SourcesOpen' /\ Window!ListOfSelected'
  BY <1>1, <1>2 DEF Window!SourcesOpen, Window!Holding, Window!Using, Window!ListOfSelected
<1> QED  BY <1>3, <1>4, <1>5 DEF WindowInv

LEMMA WindowKeeps ==
    ASSUME WindowInv, Window!Next \/ UNCHANGED windowVars PROVE WindowInv'
<1>1. CASE UNCHANGED windowVars
  <2>1. Shown'
    BY <1>1 DEF WindowInv, Shown, windowVars
  <2> QED  BY <1>1, <2>1, AsideKeeps DEF windowVars, WindowInv, AtTask
<1>2. CASE Window!Next
  BY <1>2, OpenCardKeeps, ReadKeeps, OtherStepsKeep, FinishKeeps, TaskStarts, WorldKeeps,
     SelectsKeep, ExitKeeps
  DEF Window!Next, Window!Environment, Window!User, Window!Work, Window!Detect
<1> QED  BY <1>1, <1>2

LEMMA WindowTyped == WindowInv => Window!TypeOK
<1> SUFFICES ASSUME WindowInv PROVE Window!TypeOK
  OBVIOUS
<1>1. Shown /\ (busy <=> task.kind # "none") /\ ~(busy /\ refreshing)
  BY DEF WindowInv, AtTask
<1>2. task.source \in Window!Sources \cup {None}
  BY <1>1 DEF Shown, Tasks
<1>3. found.left \subseteq Ports /\ found.cards \subseteq Window!Cards
  BY <1>1 DEF Shown
<1> QED  BY <1>1, <1>2, <1>3 DEF Shown, Window!TypeOK

(* An export or a deletion is disturbed by nobody: what could change the list, *)
(* the selection or the source waits until the window is calm.                *)
LEMMA Undisturbing ==
    ASSUME WindowInv, Window!Next \/ UNCHANGED windowVars,
           task.kind \in {"export", "local"}, task'.kind = task.kind
    PROVE  UNCHANGED <<selected, held, items, picked, stopped>>
<1>1. busy /\ ~refreshing /\ ~stopped
  BY DEF WindowInv, AtTask
<1>2. task.step \notin {"none", "open"} /\ (task.kind = "local" => task.source = None)
  BY DEF WindowInv, AtTask
<1>3. ~Window!Finish /\ ~Window!Dismiss
  BY DEF Window!Finish, Window!Dismiss, Window!Idle
<1>4. /\ ~Window!Rescan /\ ~Window!Pick /\ ~Window!Export /\ ~Window!Manage /\ ~Window!Exit
      /\ ~Window!Refresh /\ ~Window!Apply /\ \A c \in Window!Cards : ~Window!SelectCard(c)
  BY <1>1 DEF Window!Rescan, Window!Pick, Window!Export, Window!Manage, Window!Exit,
              Window!Refresh, Window!Apply, Window!SelectCard, Window!Calm, Window!Ready
<1>5. ~Window!OpenCard
  BY <1>2 DEF Window!OpenCard
<1>6. CASE UNCHANGED windowVars
  BY <1>6 DEF windowVars
<1>7. CASE \/ \E p \in Ports : Window!Pull(p) \/ \E v \in Volumes : Window!Insert(p, v)
           \/ Window!TaskFails \/ Window!ProbeFails \/ \E p \in Ports : Window!Probe(p)
  BY <1>7 DEF Window!Pull, Window!Insert, Window!TaskFails, Window!ProbeFails,
              Window!Probe, Window!ui
<1>8. CASE Window!Confirm \/ Window!Read \/ Window!Planned \/ Window!Deleted
  BY <1>8 DEF Window!Confirm, Window!Read, Window!Planned, Window!Deleted, Window!ui
<1> QED  BY <1>3, <1>4, <1>5, <1>6, <1>7, <1>8
         DEF Window!Next, Window!Environment, Window!User, Window!Work, Window!Detect

(* The window tells the truth, for any ports, cards and number of insertions:   *)
(* sources are open exactly while they are held or used, the list and every     *)
(* export from it are of the selected card, and an export or deletion keeps     *)
(* both (lifecycle.go:5; changeSource, applyCards and run in main.go, cards.go). *)
THEOREM WindowTold == Spec => WindowTrue
<1>1. Init => WindowInv
  BY WindowStarts DEF Init
<1>2. [Next]_vars => (Window!Next \/ UNCHANGED windowVars)
  BY DEF Next, vars, OnlyOutput, OnlyBatch
<1>3. WindowInv /\ [Next]_vars => WindowInv'
  BY <1>2, WindowKeeps
<1>4. WindowInv => Window!TypeOK /\ Window!SourcesOpen /\ Window!ListOfSelected
  BY WindowTyped DEF WindowInv
<1>5. WindowInv /\ [Next]_vars =>
         [task.kind \in {"export", "local"} /\ task'.kind = task.kind =>
             UNCHANGED <<selected, held, items, picked, stopped>>]_(Window!vars)
  BY <1>2, Undisturbing
<1> QED  BY <1>1, <1>3, <1>4, <1>5, PTL DEF Spec, WindowTrue, Window!UndisturbedWork

-----------------------------------------------------------------------------
(* Outputs, by the processes P: all of them, or the one of the part "alone" *)

Held == {"look", "delete", "claim", "claiming", "check", "clean", "render", "copy",
         "copying", "manifest", "manifesting", "receipt", "signing", "publish"}
OutputSteps == Held \cup {"idle", "lock", "record", "confirm", "forget"}

OutputTyped(P) ==
    /\ final \in [Output(P)!Modes -> Output(P)!Directories \cup {None}]
    /\ stage \in [Output(P)!Modes -> Output(P)!Directories \cup {None}]
    /\ lock \in [Output(P)!Modes -> P \cup {None}]
    /\ pc \in [P -> OutputSteps] /\ mode \in [P -> Output(P)!Modes]
    /\ after \in [P -> {"end", "fallback"}]
    /\ record \in Output(P)!Directories \cup {None}
    /\ plan \in [P -> Output(P)!Directories \cup {None}]
    /\ moves \in 0..MaxMoves /\ faults \in 0..MaxFaults /\ broken \in BOOLEAN

(* What may be in a hidden directory at any time. *)
StageFits(P, d, m) == d # None =>
    /\ m = "raw" => d.video = "none"
    /\ d.claim \in {"mine", "short"} => ~d.extra
    /\ Output(P)!NotOurs(d) => {d.source, d.manifest} \subseteq {"none", "kept"}

(* What errors leave: a claimed directory without originals, or a claim that    *)
(* was not written to its end.                                                *)
Good(P, d) == d # None =>
    \/ d = [Output(P)!Fresh EXCEPT !.claim = "short"]
    \/ d.claim = "mine" /\ Output(P)!Unused(d)

(* What is in it while the export that holds the lock is at a step. *)
Fits(P, s, d, m, b) ==
    /\ s \in {"look", "delete", "check"} => b \/ Good(P, d)
    /\ s \in {"copying", "manifest"} => d.manifest = "none"
    /\ s \in Output(P)!Working \ {"signing", "publish"} /\ m = "video" =>
           d.receipt = "none"
    /\ s = "claim" => d # None /\ (b \/ d = Output(P)!Fresh \/ Good(P, d))
    /\ s = "claiming" => d = [Output(P)!Fresh EXCEPT !.claim = "short"]
    /\ s \notin {"look", "delete", "claim", "claiming"} => d # None /\ d.claim = "mine"
    /\ s \in Output(P)!Working \cup {"clean"} => "kept" \notin {d.source, d.manifest}
    /\ s \in {"render", "copy"} => Output(P)!Unused(d)
    /\ s = "render" => m = "video"
    /\ s \in Output(P)!Working \ {"render"} =>
           d.video = (IF m = "video" THEN "whole" ELSE "none")
    /\ s \in {"manifest", "manifesting"} => d.source = "whole"
    /\ s \in {"receipt", "signing", "publish"} => d.source = "whole" /\ d.manifest = "whole"
    /\ s = "publish" => d.receipt = "whole"

(* A lock is held exactly by a process that is at one of the steps under it. *)
Holders(P) ==
    /\ \A p \in P : \A m \in Output(P)!Modes :
           lock[m] = p <=> mode[p] = m /\ pc[p] \in Held
    /\ \A p \in P : pc[p] \in {"confirm", "delete"} => mode[p] = "video"

Stages(P) ==
    /\ \A m \in Output(P)!Modes :
           /\ StageFits(P, stage[m], m)
           /\ lock[m] = None => broken \/ Good(P, stage[m])
    /\ \A p \in P : pc[p] \in Held =>
           Fits(P, pc[p], stage[mode[p]], mode[p], broken)

(* A published output loses its receipt last; what is deleted is what was       *)
(* confirmed, or what the user has put in its place; with one process alone     *)
(* nobody publishes until the deleted output is forgotten.                    *)
Shelf(P) ==
    /\ Output(P)!Remainder
    /\ final["video"] # None => (final["video"].source = "none" =>
                                    final["video"].manifest = "none")
    /\ record # None => ~record.extra
ConfirmedOne(P, d, c) == d = None \/ c.made = d.made \/ (Output(P)!Bare(d) /\ d.extra)
Deleting(P) ==
    /\ \A p \in P : pc[p] = "delete" => ConfirmedOne(P, final["video"], plan[p])
    /\ (\A p, q \in P : p = q) => \A p \in P : pc[p] = "forget" =>
           final["video"] = None \/ final["video"].extra

StageInv(P) == OutputTyped(P) /\ Holders(P) /\ Stages(P)
OutputInv(P) == StageInv(P) /\ Shelf(P) /\ Deleting(P)

LEMMA OutputKinds ==
    ASSUME NEW P, Output(P)!OutputConstants
    PROVE  /\ None \notin P /\ None \notin Output(P)!Directories
           /\ MaxMoves \in Nat /\ MaxFaults \in Nat
BY DEF Output!OutputConstants

LEMMA DirectoryKinds ==
    ASSUME NEW P, NEW d \in Output(P)!Directories
    PROVE  /\ d.claim \in {"none", "short", "mine", "other"}
           /\ d.source \in {"none", "kept", "part", "whole"}
           /\ d.manifest \in {"none", "kept", "short", "whole"}
           /\ d.video \in {"none", "whole"} /\ d.receipt \in {"none", "short", "whole"}
           /\ d.extra \in BOOLEAN /\ d.made \in 0..MaxMoves
           /\ d = [claim |-> d.claim, source |-> d.source, manifest |-> d.manifest,
                   video |-> d.video, receipt |-> d.receipt, extra |-> d.extra,
                   made |-> d.made]
BY DEF Output!Directories

LEMMA ClaimsDiffer ==
    ASSUME NEW P
    PROVE  [Output(P)!Fresh EXCEPT !.claim = "short"].claim = "short"
BY DEF Output!Fresh

LEMMA Freshly ==
    ASSUME NEW P, Output(P)!OutputConstants, NEW c \in {"none", "short", "mine", "other"},
           NEW x \in BOOLEAN, NEW s \in {"none", "kept"}, NEW r \in {"none", "short"}
    PROVE  [claim |-> c, source |-> s, manifest |-> "none", video |-> "none",
            receipt |-> r, extra |-> x, made |-> 0] \in Output(P)!Directories
<1>1. 0 \in 0..MaxMoves
  BY OutputKinds
<1> QED  BY <1>1 DEF Output!Directories

LEMMA LeftoversFit ==
    ASSUME NEW P, Output(P)!OutputConstants, NEW d \in Output(P)!Leftovers,
           NEW m \in Output(P)!Modes
    PROVE  d \in Output(P)!Directories \cup {None} /\ StageFits(P, d, m)
<1>1. CASE d = None
  BY <1>1 DEF StageFits
<1>2. CASE d # None
  <2>1. PICK c \in {"other", "none", "mine"}, x \in BOOLEAN, s \in {"none", "kept"},
             r \in {"none", "short"} :
           /\ d = [claim |-> c, source |-> s, manifest |-> "none", video |-> "none",
                   receipt |-> r, extra |-> x, made |-> 0]
           /\ c = "mine" => ~x
    BY <1>2 DEF Output!Leftovers, Output!Fresh
  <2>2. d \in Output(P)!Directories
    BY <2>1, Freshly
  <2> QED  BY <2>1, <2>2 DEF StageFits, Output!NotOurs
<1> QED  BY <1>1, <1>2

LEMMA OutputStarts ==
    ASSUME NEW P, Output(P)!OutputConstants, Output(P)!Init
    PROVE  OutputInv(P)
<1>1. \A m \in Output(P)!Modes :
         /\ stage[m] \in Output(P)!Directories \cup {None} /\ StageFits(P, stage[m], m)
         /\ lock[m] = None /\ final[m] = None
  BY LeftoversFit DEF Output!Init
<1>2. OutputTyped(P)
  <2>1. stage \in [Output(P)!Modes -> Output(P)!Directories \cup {None}]
    BY <1>1 DEF Output!Init
  <2>2. moves = 0 /\ faults = 0 /\ 0 \in 0..MaxMoves /\ 0 \in 0..MaxFaults
    BY OutputKinds DEF Output!Init
  <2> QED  BY <2>1, <2>2 DEF Output!Init, OutputTyped, OutputSteps, Output!Modes
<1>3. /\ \A p \in P : pc[p] = "idle" /\ p # None
      /\ "video" \in Output(P)!Modes
  BY OutputKinds DEF Output!Init, Output!Modes
<1>4. Holders(P)
  BY <1>1, <1>3 DEF Holders, Held
<1>5. Stages(P)
  <2>1. \A m \in Output(P)!Modes : broken \/ Good(P, stage[m])
    BY DEF Output!Init, Good
  <2> QED  BY <1>1, <1>3, <2>1 DEF Stages, Held, Good
<1>6. Shelf(P) /\ Deleting(P)
  BY <1>1, <1>3 DEF Output!Init, Shelf, Deleting, Output!Remainder
<1> QED  BY <1>2, <1>4, <1>5, <1>6 DEF OutputInv, StageInv

-----------------------------------------------------------------------------
(* Steps by what they do to locks and hidden directories *)

LEMMA SameStages ==
    ASSUME NEW P, StageInv(P),
           stage' = stage, lock' = lock, pc' = pc, mode' = mode, broken' = broken,
           OutputTyped(P)'
    PROVE  StageInv(P)'
BY DEF StageInv, Holders, Stages

(* A process goes on under its lock. *)
LEMMA GoesOn ==
    ASSUME NEW P, Output(P)!OutputConstants, StageInv(P), NEW p \in P, NEW s \in Held,
           NEW d, pc[p] \in Held, s # "delete",
           pc' = [pc EXCEPT ![p] = s], stage' = [stage EXCEPT ![mode[p]] = d],
           lock' = lock, mode' = mode, broken' = broken,
           StageFits(P, d, mode[p]), Fits(P, s, d, mode[p], broken),
           OutputTyped(P)'
    PROVE  StageInv(P)'
<1>0. OutputTyped(P) /\ Holders(P) /\ Stages(P)
  BY DEF StageInv
<1>1. /\ \A q \in P : pc'[q] = IF q = p THEN s ELSE pc[q]
      /\ \A m \in Output(P)!Modes : stage'[m] = IF m = mode[p] THEN d ELSE stage[m]
      /\ mode[p] \in Output(P)!Modes /\ lock[mode[p]] = p /\ p # None
      /\ \A q \in P : mode[q] \in Output(P)!Modes
  BY <1>0, OutputKinds DEF OutputTyped, Holders
<1>2. Holders(P)'
  BY <1>0, <1>1 DEF Holders, Held
<1>3. Stages(P)'
  <2>1. ASSUME NEW m \in Output(P)!Modes
        PROVE  StageFits(P, stage'[m], m) /\ (lock'[m] = None => broken' \/ Good(P, stage'[m]))
    BY <1>0, <1>1 DEF Stages
  <2>2. ASSUME NEW q \in P, pc'[q] \in Held
        PROVE  Fits(P, pc'[q], stage'[mode'[q]], mode'[q], broken')
    <3>1. CASE q = p
      BY <1>1, <3>1
    <3>2. CASE q # p
      <4>1. pc[q] \in Held /\ lock[mode[q]] = q
        BY <1>0, <1>1, <2>2, <3>2 DEF Holders
      <4>2. mode[q] # mode[p]
        BY <1>1, <3>2, <4>1
      <4> QED  BY <1>0, <1>1, <3>2, <4>1, <4>2 DEF Stages
    <3> QED  BY <3>1, <3>2
  <2> QED  BY <2>1, <2>2 DEF Stages
<1> QED  BY <1>2, <1>3 DEF StageInv

(* A process gives up its lock. *)
LEMMA GivesUp ==
    ASSUME NEW P, Output(P)!OutputConstants, StageInv(P), NEW p \in P, NEW s \in OutputSteps,
           NEW d, NEW n \in Output(P)!Modes, pc[p] \in Held, s \notin Held, s # "confirm",
           pc' = [pc EXCEPT ![p] = s], stage' = [stage EXCEPT ![mode[p]] = d],
           lock' = [lock EXCEPT ![mode[p]] = None], mode' = [mode EXCEPT ![p] = n],
           broken => broken', StageFits(P, d, mode[p]), broken' \/ Good(P, d),
           OutputTyped(P)'
    PROVE  StageInv(P)'
<1>0. OutputTyped(P) /\ Holders(P) /\ Stages(P)
  BY DEF StageInv
<1>1. /\ \A q \in P : pc'[q] = IF q = p THEN s ELSE pc[q]
      /\ \A q \in P : mode'[q] = IF q = p THEN n ELSE mode[q]
      /\ \A m \in Output(P)!Modes : stage'[m] = IF m = mode[p] THEN d ELSE stage[m]
      /\ \A m \in Output(P)!Modes : lock'[m] = IF m = mode[p] THEN None ELSE lock[m]
      /\ mode[p] \in Output(P)!Modes /\ lock[mode[p]] = p
      /\ \A q \in P : mode[q] \in Output(P)!Modes /\ q # None
  BY <1>0, OutputKinds DEF OutputTyped, Holders
<1>2. ASSUME NEW q \in P, q # p
      PROVE  /\ pc'[q] = pc[q] /\ mode'[q] = mode[q]
             /\ pc[q] \in Held => lock[mode[q]] = q /\ mode[q] # mode[p]
             /\ lock[mode[p]] # q
  BY <1>0, <1>1, <1>2 DEF Holders
<1>3. Holders(P)'
  <2>1. ASSUME NEW q \in P, NEW m \in Output(P)!Modes
        PROVE  lock'[m] = q <=> mode'[q] = m /\ pc'[q] \in Held
    <3>1. CASE q = p
      BY <1>0, <1>1, <3>1 DEF Holders
    <3>2. CASE q # p
      BY <1>0, <1>1, <1>2, <3>2 DEF Holders
    <3> QED  BY <3>1, <3>2
  <2>2. ASSUME NEW q \in P, pc'[q] \in {"confirm", "delete"} PROVE mode'[q] = "video"
    <3>1. q # p
      BY <1>1, <2>2 DEF Held
    <3> QED  BY <1>0, <1>2, <2>2, <3>1 DEF Holders
  <2> QED  BY <2>1, <2>2 DEF Holders
<1>4. Stages(P)'
  <2>1. ASSUME NEW m \in Output(P)!Modes
        PROVE  StageFits(P, stage'[m], m) /\ (lock'[m] = None => broken' \/ Good(P, stage'[m]))
    BY <1>0, <1>1 DEF Stages
  <2>2. ASSUME NEW q \in P, pc'[q] \in Held
        PROVE  Fits(P, pc'[q], stage'[mode'[q]], mode'[q], broken')
    <3>1. q # p
      BY <1>1, <2>2
    <3>2. Fits(P, pc'[q], stage'[mode'[q]], mode'[q], broken)
      BY <1>0, <1>1, <1>2, <2>2, <3>1 DEF Stages
    <3>3. broken' \in BOOLEAN /\ broken \in BOOLEAN
      BY <1>0 DEF OutputTyped
    <3> QED  BY <3>2, <3>3 DEF Fits
  <2> QED  BY <2>1, <2>2 DEF Stages
<1> QED  BY <1>3, <1>4 DEF StageInv

(* A process moves without a lock. *)
LEMMA MovesFree ==
    ASSUME NEW P, Output(P)!OutputConstants, StageInv(P), NEW p \in P, NEW s \in OutputSteps,
           NEW n \in Output(P)!Modes, pc[p] \notin Held, s \notin Held,
           s = "confirm" => n = "video",
           pc' = [pc EXCEPT ![p] = s], stage' = stage, lock' = lock,
           mode' = [mode EXCEPT ![p] = n], broken => broken', OutputTyped(P)'
    PROVE  StageInv(P)'
<1>0. OutputTyped(P) /\ Holders(P) /\ Stages(P)
  BY DEF StageInv
<1>1. /\ \A q \in P : pc'[q] = IF q = p THEN s ELSE pc[q]
      /\ \A q \in P : mode'[q] = IF q = p THEN n ELSE mode[q]
      /\ broken' \in BOOLEAN /\ broken \in BOOLEAN
  BY <1>0 DEF OutputTyped
<1>2. Holders(P)'
  <2>1. ASSUME NEW q \in P, NEW m \in Output(P)!Modes
        PROVE  lock'[m] = q <=> mode'[q] = m /\ pc'[q] \in Held
    BY <1>0, <1>1 DEF Holders
  <2>2. ASSUME NEW q \in P, pc'[q] \in {"confirm", "delete"} PROVE mode'[q] = "video"
    BY <1>0, <1>1, <2>2 DEF Holders, Held
  <2> QED  BY <2>1, <2>2 DEF Holders
<1>3. Stages(P)'
  <2>1. ASSUME NEW m \in Output(P)!Modes
        PROVE  StageFits(P, stage'[m], m) /\ (lock'[m] = None => broken' \/ Good(P, stage'[m]))
    BY <1>0, <1>1 DEF Stages
  <2>2. ASSUME NEW q \in P, pc'[q] \in Held
        PROVE  Fits(P, pc'[q], stage'[mode'[q]], mode'[q], broken')
    <3>1. Fits(P, pc'[q], stage'[mode'[q]], mode'[q], broken)
      BY <1>0, <1>1, <2>2 DEF Stages
    <3> QED  BY <1>1, <3>1 DEF Fits
  <2> QED  BY <2>1, <2>2 DEF Stages
<1> QED  BY <1>2, <1>3 DEF StageInv

(* A process takes a lock that is free. *)
LEMMA TakesLock ==
    ASSUME NEW P, Output(P)!OutputConstants, StageInv(P), NEW p \in P,
           NEW s \in {"look", "delete"}, pc[p] \notin Held, lock[mode[p]] = None,
           s = "delete" => mode[p] = "video",
           pc' = [pc EXCEPT ![p] = s], stage' = stage, mode' = mode, broken' = broken,
           lock' = [lock EXCEPT ![mode[p]] = p], OutputTyped(P)'
    PROVE  StageInv(P)'
<1>0. OutputTyped(P) /\ Holders(P) /\ Stages(P)
  BY DEF StageInv
<1>1. /\ \A q \in P : pc'[q] = IF q = p THEN s ELSE pc[q]
      /\ \A m \in Output(P)!Modes : lock'[m] = IF m = mode[p] THEN p ELSE lock[m]
      /\ mode[p] \in Output(P)!Modes /\ s \in Held
      /\ \A q \in P : mode[q] \in Output(P)!Modes /\ q # None
  BY <1>0, OutputKinds DEF OutputTyped, Held
<1>2. Holders(P)'
  <2>1. ASSUME NEW q \in P, NEW m \in Output(P)!Modes
        PROVE  lock'[m] = q <=> mode'[q] = m /\ pc'[q] \in Held
    <3>1. CASE q = p
      BY <1>0, <1>1, <3>1 DEF Holders
    <3>2. CASE q # p
      BY <1>0, <1>1, <3>2 DEF Holders
    <3> QED  BY <3>1, <3>2
  <2>2. ASSUME NEW q \in P, pc'[q] \in {"confirm", "delete"} PROVE mode'[q] = "video"
    BY <1>0, <1>1, <2>2 DEF Holders
  <2> QED  BY <2>1, <2>2 DEF Holders
<1>3. Stages(P)'
  <2>1. ASSUME NEW m \in Output(P)!Modes
        PROVE  StageFits(P, stage'[m], m) /\ (lock'[m] = None => broken' \/ Good(P, stage'[m]))
    BY <1>0, <1>1 DEF Stages
  <2>2. ASSUME NEW q \in P, pc'[q] \in Held
        PROVE  Fits(P, pc'[q], stage'[mode'[q]], mode'[q], broken')
    <3>1. CASE q = p
      <4>1. broken \/ Good(P, stage[mode[p]])
        BY <1>0, <1>1 DEF Stages
      <4>2. Fits(P, s, stage[mode[p]], mode[p], broken)
        BY <4>1 DEF Fits, Output!Working
      <4> QED  BY <1>1, <3>1, <4>2
    <3>2. CASE q # p
      BY <1>0, <1>1, <2>2, <3>2 DEF Stages
    <3> QED  BY <3>1, <3>2
  <2> QED  BY <2>1, <2>2 DEF Stages
<1> QED  BY <1>2, <1>3 DEF StageInv

-----------------------------------------------------------------------------
(* The steps of an export *)

LEMMA AtHand ==
    ASSUME NEW P, Output(P)!OutputConstants, StageInv(P), NEW p \in P
    PROVE  /\ mode[p] \in Output(P)!Modes /\ mode[p] \in {"video", "raw"}
           /\ stage[mode[p]] \in Output(P)!Directories \cup {None}
           /\ StageFits(P, stage[mode[p]], mode[p])
           /\ pc[p] \in Held => Fits(P, pc[p], stage[mode[p]], mode[p], broken)
           /\ pc[p] \in OutputSteps /\ OutputTyped(P)
           /\ stage = [stage EXCEPT ![mode[p]] = stage[mode[p]]]
           /\ mode = [mode EXCEPT ![p] = mode[p]]
BY DEF StageInv, OutputTyped, Stages, Output!Modes

Unmoved == final' = final /\ record' = record /\ plan' = plan /\ moves' = moves

(* A step under the lock leaves a directory that fits, and one that is not ours  *)
(* as it is.                                                                  *)
LEMMA Forward ==
    ASSUME NEW P, Output(P)!OutputConstants, StageInv(P), NEW p \in P, NEW s \in Held,
           NEW d \in Output(P)!Directories \cup {None}, pc[p] \in Held, s # "delete",
           pc' = [pc EXCEPT ![p] = s], stage' = [stage EXCEPT ![mode[p]] = d],
           lock' = lock, mode' = mode, after' \in [P -> {"end", "fallback"}], Unmoved,
           faults' \in 0..MaxFaults, broken' = broken,
           StageFits(P, d, mode[p]), Fits(P, s, d, mode[p], broken),
           Output(P)!NotOurs(stage[mode[p]]) => d = stage[mode[p]]
    PROVE  StageInv(P)' /\ Output(P)!LeftoversUntouched
<1>1. OutputTyped(P) /\ mode[p] \in Output(P)!Modes
  BY AtHand
<1>2. OutputTyped(P)'
  BY <1>1 DEF OutputTyped, OutputSteps, Unmoved
<1>3. StageInv(P)'
  BY <1>2, GoesOn
<1>4. Output(P)!LeftoversUntouched
  BY <1>1 DEF Output!LeftoversUntouched, OutputTyped
<1> QED  BY <1>3, <1>4

(* So does one that gives up the lock, and then it is as after an error. *)
LEMMA Backward ==
    ASSUME NEW P, Output(P)!OutputConstants, StageInv(P), NEW p \in P, NEW s \in OutputSteps,
           NEW d \in Output(P)!Directories \cup {None}, NEW n \in Output(P)!Modes,
           pc[p] \in Held, s \notin Held, s # "confirm",
           pc' = [pc EXCEPT ![p] = s], stage' = [stage EXCEPT ![mode[p]] = d],
           lock' = [lock EXCEPT ![mode[p]] = None], mode' = [mode EXCEPT ![p] = n],
           after' \in [P -> {"end", "fallback"}],
           final' \in [Output(P)!Modes -> Output(P)!Directories \cup {None}],
           record' = record, plan' = plan, moves' = moves,
           faults' \in 0..MaxFaults, broken' \in BOOLEAN, broken => broken',
           StageFits(P, d, mode[p]), broken' \/ Good(P, d),
           Output(P)!NotOurs(stage[mode[p]]) => d = stage[mode[p]]
    PROVE  StageInv(P)' /\ Output(P)!LeftoversUntouched
<1>1. OutputTyped(P) /\ mode[p] \in Output(P)!Modes
  BY AtHand
<1>2. OutputTyped(P)'
  BY <1>1 DEF OutputTyped
<1>3. StageInv(P)'
  BY <1>2, GivesUp
<1>4. Output(P)!LeftoversUntouched
  BY <1>1 DEF Output!LeftoversUntouched, OutputTyped
<1> QED  BY <1>3, <1>4

LEMMA LookKeeps ==
    ASSUME NEW P, Output(P)!OutputConstants, StageInv(P), NEW p \in P, Output(P)!Look(p)
    PROVE  StageInv(P)' /\ Output(P)!LeftoversUntouched
<1> DEFINE d == stage[mode[p]]
<1>0. /\ d \in Output(P)!Directories \cup {None} /\ StageFits(P, d, mode[p])
      /\ pc[p] = "look" /\ pc[p] \in Held /\ (broken \/ Good(P, d)) /\ OutputTyped(P)
      /\ stage = [stage EXCEPT ![mode[p]] = d] /\ mode = [mode EXCEPT ![p] = mode[p]]
      /\ mode[p] \in Output(P)!Modes
  BY AtHand DEF Output!Look, Held, Fits
<1>1. Unmoved /\ mode' = mode /\ after' = after /\ faults' = faults /\ broken' = broken
  BY DEF Output!Look, Unmoved
<1>2. CASE final[mode[p]] = None
  <2> DEFINE e == IF d = None THEN Output(P)!Fresh ELSE d
  <2>1. /\ pc' = [pc EXCEPT ![p] = "claim"] /\ lock' = lock
        /\ stage' = [stage EXCEPT ![mode[p]] = e]
    BY <1>0, <1>2 DEF Output!Look, Output!Goes, Output!Puts, Output!Mine
  <2>2. Output(P)!Fresh \in Output(P)!Directories
    BY Freshly DEF Output!Fresh
  <2>3. /\ e \in Output(P)!Directories \cup {None} /\ StageFits(P, e, mode[p])
        /\ Fits(P, "claim", e, mode[p], broken)
        /\ Output(P)!NotOurs(d) => e = d
    BY <1>0, <2>2, OutputKinds
    DEF StageFits, Fits, Output!NotOurs, Output!Fresh, Output!Working
  <2>4. "claim" \in Held /\ after' \in [P -> {"end", "fallback"}] /\ faults' \in 0..MaxFaults
    BY <1>0, <1>1 DEF Held, OutputTyped
  <2> HIDE DEF d, e
  <2> QED  BY <1>0, <1>1, <2>1, <2>3, <2>4, Forward DEF d
<1>3. CASE final[mode[p]] # None
  <2>1. /\ pc' = [pc EXCEPT ![p] = "idle"] /\ stage' = stage
        /\ lock' = [lock EXCEPT ![mode[p]] = None]
    BY <1>3 DEF Output!Look, Output!Gives, Output!Goes, Output!Frees
  <2>2. /\ "idle" \in OutputSteps /\ "idle" \notin Held
        /\ after' \in [P -> {"end", "fallback"}] /\ faults' \in 0..MaxFaults
        /\ final' \in [Output(P)!Modes -> Output(P)!Directories \cup {None}]
        /\ broken' \in BOOLEAN
    BY <1>0, <1>1 DEF Held, OutputSteps, OutputTyped, Unmoved
  <2> QED  BY <1>0, <1>1, <2>1, <2>2, Backward DEF Unmoved
<1> QED  BY <1>2, <1>3

(* An export that finds what it may not touch gives up its lock. *)
LEMMA Leaves ==
    ASSUME NEW P, Output(P)!OutputConstants, StageInv(P), NEW p \in P, pc[p] \in Held,
           Output(P)!Gives(p), stage' = stage, final' = final, record' = record,
           plan' = plan, moves' = moves, mode' = mode, after' = after,
           faults' \in 0..MaxFaults, broken' \in BOOLEAN, broken => broken',
           broken' \/ Good(P, stage[mode[p]])
    PROVE  StageInv(P)' /\ Output(P)!LeftoversUntouched
<1>1. /\ pc' = [pc EXCEPT ![p] = "idle"] /\ lock' = [lock EXCEPT ![mode[p]] = None]
      /\ "idle" \in OutputSteps /\ "idle" \notin Held /\ "idle" # "confirm"
  BY DEF Output!Gives, Output!Goes, Output!Frees, Held, OutputSteps
<1>2. /\ after' \in [P -> {"end", "fallback"}] /\ mode[p] \in Output(P)!Modes
      /\ final' \in [Output(P)!Modes -> Output(P)!Directories \cup {None}]
      /\ stage[mode[p]] \in Output(P)!Directories \cup {None}
      /\ StageFits(P, stage[mode[p]], mode[p])
      /\ stage' = [stage EXCEPT ![mode[p]] = stage[mode[p]]]
      /\ mode' = [mode EXCEPT ![p] = mode[p]]
  BY AtHand DEF OutputTyped
<1> QED  BY <1>1, <1>2, Backward

LEMMA ClaimKeeps ==
    ASSUME NEW P, Output(P)!OutputConstants, StageInv(P), NEW p \in P, Output(P)!Claim(p)
    PROVE  StageInv(P)' /\ Output(P)!LeftoversUntouched
<1> DEFINE d == stage[mode[p]]
<1>0. /\ d \in Output(P)!Directories \cup {None} /\ StageFits(P, d, mode[p])
      /\ pc[p] = "claim" /\ pc[p] \in Held /\ OutputTyped(P)
      /\ d # None /\ (broken \/ d = Output(P)!Fresh \/ Good(P, d))
      /\ stage = [stage EXCEPT ![mode[p]] = d]
  BY AtHand DEF Output!Claim, Held, Fits
<1>1. /\ Unmoved /\ mode' = mode /\ after' = after /\ faults' = faults /\ broken' = broken
      /\ after' \in [P -> {"end", "fallback"}] /\ faults' \in 0..MaxFaults
      /\ broken' \in BOOLEAN
  BY <1>0 DEF Output!Claim, Unmoved, OutputTyped
<1>2. CASE d.claim = "mine"
  <2>1. pc' = [pc EXCEPT ![p] = "check"] /\ stage' = stage /\ lock' = lock
    BY <1>2 DEF Output!Claim, Output!Goes, Output!Mine, Output!Fresh
  <2>2. Fits(P, "check", d, mode[p], broken) /\ "check" \in Held
    BY <1>0, <1>2 DEF Fits, Good, Output!Fresh, Held, Output!Working
  <2> QED  BY <1>0, <1>1, <2>1, <2>2, Forward
<1>3. CASE d = Output(P)!Fresh
  <2> DEFINE e == [Output(P)!Fresh EXCEPT !.claim = "short"]
  <2>1. /\ pc' = [pc EXCEPT ![p] = "claiming"] /\ lock' = lock
        /\ stage' = [stage EXCEPT ![mode[p]] = e]
    BY <1>3 DEF Output!Claim, Output!Goes, Output!Puts, Output!Mine, Output!Fresh
  <2>2. e \in Output(P)!Directories
    <3>1. Output(P)!Fresh \in Output(P)!Directories
      BY Freshly DEF Output!Fresh
    <3> QED  BY <3>1 DEF Output!Directories
  <2>3. /\ StageFits(P, e, mode[p]) /\ Fits(P, "claiming", e, mode[p], broken)
        /\ ~Output(P)!NotOurs(d) /\ "claiming" \in Held
    BY <1>3 DEF StageFits, Fits, Output!NotOurs, Output!Fresh, Held, Output!Working
  <2> HIDE DEF d, e
  <2> QED  BY <1>0, <1>1, <2>1, <2>2, <2>3, Forward DEF d
<1>4. CASE ~(d.claim = "mine") /\ d # Output(P)!Fresh
  <2>1. Output(P)!Gives(p) /\ stage' = stage
    BY <1>4 DEF Output!Claim, Output!Mine
  <2>2. broken' \/ Good(P, d)
    BY <1>0, <1>1, <1>4
  <2> QED  BY <1>0, <1>1, <2>1, <2>2, Leaves DEF Unmoved
<1> QED  BY <1>2, <1>3, <1>4

LEMMA ClaimedKeeps ==
    ASSUME NEW P, Output(P)!OutputConstants, StageInv(P), NEW p \in P, Output(P)!Claimed(p)
    PROVE  StageInv(P)' /\ Output(P)!LeftoversUntouched
<1> DEFINE d == stage[mode[p]]
           e == [d EXCEPT !.claim = "mine"]
<1>0. /\ pc[p] = "claiming" /\ pc[p] \in Held /\ OutputTyped(P)
      /\ d = [Output(P)!Fresh EXCEPT !.claim = "short"]
  BY AtHand DEF Output!Claimed, Held, Fits
<1>1. /\ Unmoved /\ mode' = mode /\ after' = after /\ faults' = faults /\ broken' = broken
      /\ after' \in [P -> {"end", "fallback"}] /\ faults' \in 0..MaxFaults /\ lock' = lock
  BY <1>0 DEF Output!Claimed, Unmoved, OutputTyped
<1>2. /\ pc' = [pc EXCEPT ![p] = "check"] /\ stage' = [stage EXCEPT ![mode[p]] = e]
  BY DEF Output!Claimed, Output!Goes, Output!Puts, Output!Mine
<1>3. e \in Output(P)!Directories
  <2>1. Output(P)!Fresh \in Output(P)!Directories
    BY Freshly DEF Output!Fresh
  <2> QED  BY <1>0, <2>1 DEF Output!Directories
<1>4. /\ StageFits(P, e, mode[p]) /\ Fits(P, "check", e, mode[p], broken)
      /\ ~Output(P)!NotOurs(d) /\ "check" \in Held
  BY <1>0, <1>3, OutputKinds
  DEF StageFits, Fits, Good, Output!NotOurs, Output!Unused, Output!Fresh, Held,
      Output!Working
<1> HIDE DEF d, e
<1> QED  BY <1>0, <1>1, <1>2, <1>3, <1>4, Forward DEF d

LEMMA CheckKeeps ==
    ASSUME NEW P, Output(P)!OutputConstants, StageInv(P), NEW p \in P, Output(P)!Check(p)
    PROVE  StageInv(P)' /\ Output(P)!LeftoversUntouched
<1> DEFINE d == stage[mode[p]]
<1>0. /\ d \in Output(P)!Directories \cup {None} /\ StageFits(P, d, mode[p])
      /\ pc[p] = "check" /\ pc[p] \in Held /\ OutputTyped(P)
      /\ d # None /\ d.claim = "mine" /\ (broken \/ Good(P, d))
      /\ stage = [stage EXCEPT ![mode[p]] = d] /\ mode[p] \in {"video", "raw"}
  BY AtHand DEF Output!Check, Held, Fits
<1>1. /\ Unmoved /\ mode' = mode /\ after' = after /\ faults' = faults /\ broken' = broken
      /\ after' \in [P -> {"end", "fallback"}] /\ faults' \in 0..MaxFaults
      /\ broken' \in BOOLEAN
  BY <1>0 DEF Output!Check, Unmoved, OutputTyped
<1>2. CASE Output(P)!Unused(d) /\ mode[p] = "video"
  <2> DEFINE e == [d EXCEPT !.video = "none", !.receipt = "none"]
  <2>1. /\ pc' = [pc EXCEPT ![p] = "render"] /\ lock' = lock
        /\ stage' = [stage EXCEPT ![mode[p]] = e]
    BY <1>2 DEF Output!Check, Output!Goes, Output!Puts, Output!Mine
  <2>2. e \in Output(P)!Directories /\ d \in Output(P)!Directories
    BY <1>0 DEF Output!Directories
  <2>3. /\ e.claim = d.claim /\ e.source = d.source /\ e.manifest = d.manifest
        /\ e.extra = d.extra
    BY <2>2 DEF Output!Directories
  <2>4. /\ StageFits(P, e, mode[p]) /\ Fits(P, "render", e, mode[p], broken)
        /\ ~Output(P)!NotOurs(d) /\ "render" \in Held
    BY <1>0, <1>2, <2>2, <2>3, OutputKinds
    DEF StageFits, Fits, Output!NotOurs, Output!Unused, Held, Output!Working
  <2> HIDE DEF d, e
  <2> QED  BY <1>0, <1>1, <2>1, <2>2, <2>4, Forward DEF d
<1>3. CASE Output(P)!Unused(d) /\ mode[p] = "raw"
  <2>1. pc' = [pc EXCEPT ![p] = "copy"] /\ lock' = lock /\ stage' = stage
    BY <1>3 DEF Output!Check, Output!Goes, Output!Mine
  <2>2. Fits(P, "copy", d, mode[p], broken) /\ "copy" \in Held
    BY <1>0, <1>3 DEF StageFits, Fits, Output!Unused, Held, Output!Working
  <2> QED  BY <1>0, <1>1, <2>1, <2>2, Forward
<1>4. CASE ~Output(P)!Unused(d)
  <2>1. Output(P)!Gives(p) /\ stage' = stage
    BY <1>4 DEF Output!Check, Output!Mine
  <2>2. broken'
    BY <1>0, <1>1, <1>4, ClaimsDiffer DEF Good
  <2> QED  BY <1>0, <1>1, <2>1, <2>2, Leaves DEF Unmoved
<1> QED  BY <1>0, <1>2, <1>3, <1>4

(* At work under its claim: the directory is its own. *)
LEMMA AtWork ==
    ASSUME NEW P, Output(P)!OutputConstants, StageInv(P), NEW p \in P,
           pc[p] \in Output(P)!Working \cup {"clean"}
    PROVE  LET d == stage[mode[p]] IN
           /\ d \in Output(P)!Directories /\ StageFits(P, d, mode[p])
           /\ d.claim = "mine" /\ "kept" \notin {d.source, d.manifest} /\ ~d.extra
           /\ ~Output(P)!NotOurs(d) /\ Fits(P, pc[p], d, mode[p], broken)
           /\ pc[p] \in Held /\ OutputTyped(P) /\ mode[p] \in {"video", "raw"}
<1> DEFINE d == stage[mode[p]]
<1>1. pc[p] \in Held
  BY DEF Held, Output!Working
<1>2. /\ d \in Output(P)!Directories \cup {None} /\ StageFits(P, d, mode[p])
      /\ Fits(P, pc[p], d, mode[p], broken) /\ OutputTyped(P) /\ mode[p] \in {"video", "raw"}
  BY <1>1, AtHand
<1>3. d # None /\ d.claim = "mine" /\ "kept" \notin {d.source, d.manifest}
  BY <1>2 DEF Fits, Output!Working
<1>4. ~d.extra
  BY <1>2, <1>3 DEF StageFits
<1>5. ~Output(P)!NotOurs(d)
  BY <1>3, <1>4 DEF Output!NotOurs
<1> QED  BY <1>1, <1>2, <1>3, <1>4, <1>5

(* The work goes on with what else is in the directory. *)
LEMMA Works ==
    ASSUME NEW P, Output(P)!OutputConstants, StageInv(P), NEW p \in P,
           NEW s \in Output(P)!Working \cup {"clean"}, NEW d \in Output(P)!Directories,
           pc[p] \in Output(P)!Working,
           pc' = [pc EXCEPT ![p] = s], stage' = [stage EXCEPT ![mode[p]] = d],
           lock' = lock, mode' = mode, after' \in [P -> {"end", "fallback"}], Unmoved,
           faults' \in 0..MaxFaults, broken' = broken, d.claim = "mine", ~d.extra,
           "kept" \notin {d.source, d.manifest}, mode[p] = "raw" => d.video = "none",
           s \in {"render", "copy"} => Output(P)!Unused(d), s = "render" => mode[p] = "video",
           s \in Output(P)!Working \ {"render"} =>
               d.video = (IF mode[p] = "video" THEN "whole" ELSE "none"),
           s \in {"manifest", "manifesting"} => d.source = "whole",
           s \in {"receipt", "signing", "publish"} =>
               d.source = "whole" /\ d.manifest = "whole",
           s = "publish" => d.receipt = "whole",
           s \in {"copying", "manifest"} => d.manifest = "none",
           s \in Output(P)!Working \ {"signing", "publish"} /\ mode[p] = "video" =>
               d.receipt = "none"
    PROVE  StageInv(P)' /\ Output(P)!LeftoversUntouched
<1>1. /\ ~Output(P)!NotOurs(stage[mode[p]]) /\ pc[p] \in Held /\ s \in Held
      /\ s \notin {"look", "delete", "claim", "claiming", "check"} /\ d # None
  BY AtWork, OutputKinds DEF Output!Working, Held
<1>2. StageFits(P, d, mode[p])
  BY DEF StageFits, Output!NotOurs
<1>3. Fits(P, s, d, mode[p], broken)
  BY <1>1 DEF Fits
<1> QED  BY <1>1, <1>2, <1>3, Forward

LEMMA RenderKeeps ==
    ASSUME NEW P, Output(P)!OutputConstants, StageInv(P), NEW p \in P,
           Output(P)!Render(p) \/ Output(P)!Copy(p)
    PROVE  StageInv(P)' /\ Output(P)!LeftoversUntouched
<1> DEFINE d == stage[mode[p]]
<1>0. /\ pc[p] \in {"render", "copy", "copying"} /\ pc[p] \in Output(P)!Working
      /\ Unmoved /\ mode' = mode /\ after' = after /\ faults' = faults /\ broken' = broken
      /\ lock' = lock
  BY DEF Output!Render, Output!Copy, Output!Working, Unmoved
<1>1. /\ d \in Output(P)!Directories /\ d.claim = "mine" /\ ~d.extra
      /\ "kept" \notin {d.source, d.manifest} /\ StageFits(P, d, mode[p])
      /\ Fits(P, pc[p], d, mode[p], broken) /\ mode[p] \in {"video", "raw"}
      /\ after' \in [P -> {"end", "fallback"}] /\ faults' \in 0..MaxFaults
  BY <1>0, AtWork DEF OutputTyped
<1>2. CASE Output(P)!Render(p)
  <2> DEFINE e == [d EXCEPT !.video = "whole"]
  <2>1. /\ pc[p] = "render" /\ pc' = [pc EXCEPT ![p] = "copy"]
        /\ stage' = [stage EXCEPT ![mode[p]] = e]
    BY <1>2 DEF Output!Render, Output!Goes, Output!Puts, Output!Mine
  <2>2. Output(P)!Unused(d) /\ mode[p] = "video" /\ d.receipt = "none"
    BY <1>0, <1>1, <2>1 DEF Fits
  <2>3. /\ e \in Output(P)!Directories /\ e.claim = d.claim /\ e.extra = d.extra
        /\ e.source = d.source /\ e.manifest = d.manifest /\ e.video = "whole"
        /\ e.receipt = d.receipt
    BY <1>1 DEF Output!Directories
  <2>4. /\ "copy" \in Output(P)!Working /\ Output(P)!Unused(e)
        /\ e.claim = "mine" /\ ~e.extra /\ "kept" \notin {e.source, e.manifest}
        /\ e.video = (IF mode[p] = "video" THEN "whole" ELSE "none")
        /\ mode[p] # "raw" /\ e.receipt = "none"
    BY <1>1, <2>2, <2>3 DEF Output!Working, Output!Unused
  <2> HIDE DEF d, e
  <2> QED  BY <1>0, <1>1, <2>1, <2>3, <2>4, Works
<1>3. CASE Output(P)!Copy(p)
  <2>1. PICK c \in {"part", "whole"}, s \in {"copying", "manifest"} :
           /\ pc' = [pc EXCEPT ![p] = s] /\ (c = "whole" <=> s = "manifest")
           /\ stage' = [stage EXCEPT ![mode[p]] = [d EXCEPT !.source = c]]
    BY <1>3 DEF Output!Copy, Output!Goes, Output!Puts, Output!Mine
  <2> DEFINE e == [d EXCEPT !.source = c]
  <2>2. /\ d.video = (IF mode[p] = "video" THEN "whole" ELSE "none")
        /\ d.manifest = "none" /\ (mode[p] = "video" => d.receipt = "none")
    BY <1>1, <1>3 DEF Fits, Output!Copy, Output!Working, Output!Unused
  <2>3. /\ e \in Output(P)!Directories /\ e.claim = d.claim /\ e.extra = d.extra
        /\ e.source = c /\ e.manifest = d.manifest /\ e.video = d.video
        /\ e.receipt = d.receipt
    BY <1>1 DEF Output!Directories
  <2>4. s \in Output(P)!Working /\ s \notin {"render", "copy", "receipt", "signing", "publish"}
    BY DEF Output!Working
  <2>5. /\ e.claim = "mine" /\ ~e.extra /\ "kept" \notin {e.source, e.manifest}
        /\ e.video = (IF mode[p] = "video" THEN "whole" ELSE "none")
        /\ (mode[p] = "raw" => e.video = "none")
        /\ (s \in {"manifest", "manifesting"} => e.source = "whole")
        /\ e.manifest = "none" /\ (mode[p] = "video" => e.receipt = "none")
    BY <1>1, <2>1, <2>2, <2>3
  <2>6. stage' = [stage EXCEPT ![mode[p]] = e]
    BY <2>1
  <2> HIDE DEF d, e
  <2> QED  BY <1>0, <1>1, <2>1, <2>3, <2>4, <2>5, <2>6, Works
<1> QED  BY <1>2, <1>3

LEMMA WriteKeeps ==
    ASSUME NEW P, Output(P)!OutputConstants, StageInv(P), NEW p \in P, Output(P)!Write(p)
    PROVE  StageInv(P)' /\ Output(P)!LeftoversUntouched
<1> DEFINE d == stage[mode[p]]
<1>0. /\ pc[p] \in {"manifest", "manifesting", "receipt", "signing"}
      /\ pc[p] \in Output(P)!Working
      /\ Unmoved /\ mode' = mode /\ after' = after /\ faults' = faults /\ broken' = broken
      /\ lock' = lock
  BY DEF Output!Write, Output!Working, Unmoved
<1>1. /\ d \in Output(P)!Directories /\ d.claim = "mine" /\ ~d.extra
      /\ "kept" \notin {d.source, d.manifest}
      /\ Fits(P, pc[p], d, mode[p], broken) /\ mode[p] \in {"video", "raw"}
      /\ after' \in [P -> {"end", "fallback"}] /\ faults' \in 0..MaxFaults
      /\ stage = [stage EXCEPT ![mode[p]] = d]
  BY <1>0, AtWork, AtHand DEF OutputTyped
<1>2. /\ d.source = "whole" /\ d.video = (IF mode[p] = "video" THEN "whole" ELSE "none")
      /\ (pc[p] \in {"receipt", "signing"} => d.manifest = "whole")
      /\ (pc[p] \in {"manifest", "manifesting"} /\ mode[p] = "video" => d.receipt = "none")
  BY <1>0, <1>1 DEF Fits
<1>3. /\ d.manifest \in {"none", "short", "whole"}
      /\ d.receipt \in {"none", "short", "whole"}
  BY <1>1 DEF Output!Directories
<1> DEFINE Written(f, r, s) ==
        /\ pc' = [pc EXCEPT ![p] = s]
        /\ stage' = [stage EXCEPT ![mode[p]] = [d EXCEPT !.manifest = f, !.receipt = r]]
        /\ s \in {"receipt", "signing", "publish"} => f = "whole"
        /\ s = "publish" => r = "whole"
        /\ s \in {"manifesting", "receipt"} =>
               r = d.receipt /\ pc[p] \in {"manifest", "manifesting"}
<1>4. PICK f \in {"none", "short", "whole"}, r \in {"none", "short", "whole"},
           s \in {"manifesting", "receipt", "signing", "publish", "clean"} : Written(f, r, s)
  <2> DEFINE e(f, r) == [d EXCEPT !.manifest = f, !.receipt = r]
  <2>1. d = e(d.manifest, d.receipt)
    BY <1>1 DEF Output!Directories
  <2>2. /\ \A f : [d EXCEPT !["manifest"] = f] = e(f, d.receipt)
        /\ \A r : [d EXCEPT !["receipt"] = r] = e(d.manifest, r)
    BY <1>1 DEF Output!Directories
  <2>3. stage' = [stage EXCEPT ![mode[p]] = d] <=> stage' = stage
    BY <1>1
  <2>4. CASE pc[p] = "manifest" /\ Output(P)!WriteNew(p, "manifest", "manifesting", "receipt")
    <3>1. CASE d.manifest = "short"
      <4>1. pc' = [pc EXCEPT ![p] = "clean"] /\ stage' = stage
        BY <2>4, <3>1 DEF Output!WriteNew, Output!Conflicts, Output!Goes, Output!Mine
      <4>2. Written("short", d.receipt, "clean")
        BY <2>1, <2>3, <3>1, <4>1
      <4> QED  BY <1>3, <4>2
    <3>2. CASE d.manifest = "none"
      <4>1. /\ pc' = [pc EXCEPT ![p] = "manifesting"]
            /\ stage' = [stage EXCEPT ![mode[p]] = e("short", d.receipt)]
        BY <2>2, <2>4, <3>2
        DEF Output!WriteNew, Output!Conflicts, Output!Goes, Output!Puts, Output!Mine
      <4>2. Written("short", d.receipt, "manifesting")
        BY <2>4, <4>1
      <4> QED  BY <1>3, <4>2
    <3>3. CASE d.manifest = "whole"
      <4>1. pc' = [pc EXCEPT ![p] = "receipt"] /\ stage' = stage
        BY <2>4, <3>3 DEF Output!WriteNew, Output!Conflicts, Output!Goes, Output!Mine
      <4>2. Written("whole", d.receipt, "receipt")
        BY <2>1, <2>3, <2>4, <3>3, <4>1
      <4> QED  BY <1>3, <4>2
    <3> QED  BY <1>3, <3>1, <3>2, <3>3
  <2>5. CASE pc[p] = "manifesting" /\ Output(P)!Fills(p, "manifest", "receipt")
    <3>1. /\ pc' = [pc EXCEPT ![p] = "receipt"]
          /\ stage' = [stage EXCEPT ![mode[p]] = e("whole", d.receipt)]
      BY <2>2, <2>5 DEF Output!Fills, Output!Goes, Output!Puts, Output!Mine
    <3>2. Written("whole", d.receipt, "receipt")
      BY <2>5, <3>1
    <3> QED  BY <1>3, <3>2
  <2>6. CASE pc[p] = "receipt" /\ Output(P)!WriteNew(p, "receipt", "signing", "publish")
    <3>0. d.manifest = "whole"
      BY <1>2, <2>6
    <3>1. CASE d.receipt = "short"
      <4>1. pc' = [pc EXCEPT ![p] = "clean"] /\ stage' = stage
        BY <2>6, <3>1 DEF Output!WriteNew, Output!Conflicts, Output!Goes, Output!Mine
      <4>2. Written("whole", "short", "clean")
        BY <2>1, <2>3, <3>0, <3>1, <4>1
      <4> QED  BY <4>2
    <3>2. CASE d.receipt = "none"
      <4>1. /\ pc' = [pc EXCEPT ![p] = "signing"]
            /\ stage' = [stage EXCEPT ![mode[p]] = e("whole", "short")]
        BY <2>2, <2>6, <3>0, <3>2
        DEF Output!WriteNew, Output!Conflicts, Output!Goes, Output!Puts, Output!Mine
      <4>2. Written("whole", "short", "signing")
        BY <4>1
      <4> QED  BY <4>2
    <3>3. CASE d.receipt = "whole"
      <4>1. pc' = [pc EXCEPT ![p] = "publish"] /\ stage' = stage
        BY <2>6, <3>3 DEF Output!WriteNew, Output!Conflicts, Output!Goes, Output!Mine
      <4>2. Written("whole", "whole", "publish")
        BY <2>1, <2>3, <3>0, <3>3, <4>1
      <4> QED  BY <4>2
    <3> QED  BY <1>3, <3>1, <3>2, <3>3
  <2>7. CASE pc[p] = "signing" /\ Output(P)!Fills(p, "receipt", "publish")
    <3>1. d.manifest = "whole"
      BY <1>2, <2>7
    <3>2. /\ pc' = [pc EXCEPT ![p] = "publish"]
          /\ stage' = [stage EXCEPT ![mode[p]] = e("whole", "whole")]
      BY <2>2, <2>7, <3>1 DEF Output!Fills, Output!Goes, Output!Puts, Output!Mine
    <3>3. Written("whole", "whole", "publish")
      BY <3>2
    <3> QED  BY <3>3
  <2> HIDE DEF d, Written
  <2> QED  BY <2>4, <2>5, <2>6, <2>7 DEF Output!Write
<1> DEFINE e == [d EXCEPT !.manifest = f, !.receipt = r]
<1>5. /\ e \in Output(P)!Directories /\ e.claim = d.claim /\ e.extra = d.extra
      /\ e.source = d.source /\ e.manifest = f /\ e.video = d.video /\ e.receipt = r
  BY <1>1, <1>3 DEF Output!Directories
<1>6. /\ s \in Output(P)!Working \cup {"clean"}
      /\ s \notin {"render", "copy", "copying", "manifest"}
      /\ (s \in Output(P)!Working \ {"signing", "publish"} => s \in {"manifesting", "receipt"})
  BY DEF Output!Working
<1>7. /\ e.claim = "mine" /\ ~e.extra /\ "kept" \notin {e.source, e.manifest}
      /\ e.video = (IF mode[p] = "video" THEN "whole" ELSE "none")
      /\ (mode[p] = "raw" => e.video = "none") /\ e.source = "whole"
      /\ (s \in {"receipt", "signing", "publish"} => e.manifest = "whole")
      /\ (s = "publish" => e.receipt = "whole")
      /\ (s \in {"manifesting", "receipt"} /\ mode[p] = "video" => e.receipt = "none")
  BY <1>1, <1>2, <1>4, <1>5
<1>8. stage' = [stage EXCEPT ![mode[p]] = e]
  BY <1>4
<1> HIDE DEF d, e
<1> QED  BY <1>0, <1>1, <1>4, <1>5, <1>6, <1>7, <1>8, Works

LEMMA FailsKeeps ==
    ASSUME NEW P, Output(P)!OutputConstants, StageInv(P), NEW p \in P, Output(P)!Fails(p)
    PROVE  StageInv(P)' /\ Output(P)!LeftoversUntouched
<1> DEFINE d == stage[mode[p]]
<1>0. /\ pc[p] \in Output(P)!Working /\ pc' = [pc EXCEPT ![p] = "clean"]
      /\ faults < MaxFaults /\ faults' = faults + 1
      /\ Unmoved /\ mode' = mode /\ broken' = broken /\ lock' = lock /\ stage' = stage
  BY DEF Output!Fails, Output!Fault, Output!Goes, Unmoved
<1>1. /\ d \in Output(P)!Directories /\ d.claim = "mine" /\ ~d.extra
      /\ "kept" \notin {d.source, d.manifest} /\ StageFits(P, d, mode[p]) /\ OutputTyped(P)
      /\ stage = [stage EXCEPT ![mode[p]] = d]
  BY <1>0, AtWork, AtHand
<1>2. after' \in [P -> {"end", "fallback"}]
  BY <1>1 DEF Output!Fails, OutputTyped
<1>3. faults' \in 0..MaxFaults
  BY <1>0, <1>1, OutputKinds DEF OutputTyped
<1>4. mode[p] = "raw" => d.video = "none"
  BY <1>1, OutputKinds DEF StageFits
<1>5. /\ "clean" \notin Output(P)!Working
      /\ "clean" \notin {"render", "copy", "copying", "manifest", "manifesting", "receipt",
                         "signing", "publish"}
  BY DEF Output!Working
<1> HIDE DEF d
<1> QED  BY <1>0, <1>1, <1>2, <1>3, <1>4, <1>5, Works

LEMMA ClaimFailsKeeps ==
    ASSUME NEW P, Output(P)!OutputConstants, StageInv(P), NEW p \in P,
           Output(P)!ClaimFails(p)
    PROVE  StageInv(P)' /\ Output(P)!LeftoversUntouched
<1>1. /\ pc[p] = "claiming" /\ Output(P)!Gives(p) /\ broken' = broken /\ Unmoved
      /\ faults < MaxFaults /\ faults' = faults + 1
      /\ stage' = stage /\ mode' = mode /\ after' = after
  BY DEF Output!ClaimFails, Output!Fault, Unmoved
<1>2. pc[p] \in Held /\ faults' \in 0..MaxFaults /\ broken' \in BOOLEAN
  BY <1>1, AtHand, OutputKinds DEF Held, OutputTyped
<1>3. Good(P, stage[mode[p]])
  BY <1>1, <1>2, AtHand DEF Fits, Good
<1> QED  BY <1>1, <1>2, <1>3, Leaves DEF Unmoved

LEMMA CleanUpKeeps ==
    ASSUME NEW P, Output(P)!OutputConstants, StageInv(P), NEW p \in P, Output(P)!CleanUp(p)
    PROVE  StageInv(P)' /\ Output(P)!LeftoversUntouched
<1> DEFINE d == stage[mode[p]]
           e == [d EXCEPT !.source = "none", !.manifest = "none"]
<1>0. /\ pc[p] = "clean" /\ stage' = [stage EXCEPT ![mode[p]] = e]
      /\ lock' = [lock EXCEPT ![mode[p]] = None] /\ Unmoved /\ faults' = faults
      /\ broken' = broken
  BY DEF Output!CleanUp, Output!Puts, Output!Frees, Output!Mine, Output!Emptied, Unmoved
<1>1. /\ d \in Output(P)!Directories /\ d.claim = "mine" /\ ~d.extra
      /\ StageFits(P, d, mode[p]) /\ ~Output(P)!NotOurs(d) /\ OutputTyped(P)
      /\ pc[p] \in Held /\ mode = [mode EXCEPT ![p] = mode[p]]
      /\ mode[p] \in Output(P)!Modes
  BY <1>0, AtWork, AtHand
<1>2. /\ e \in Output(P)!Directories /\ e.claim = d.claim /\ e.extra = d.extra
      /\ e.source = "none" /\ e.manifest = "none" /\ e.video = d.video
  BY <1>1 DEF Output!Directories
<1>3. StageFits(P, e, mode[p]) /\ Good(P, e)
  BY <1>1, <1>2, OutputKinds DEF StageFits, Good, Output!NotOurs, Output!Unused
<1>4. /\ faults' \in 0..MaxFaults /\ broken' \in BOOLEAN
      /\ final' \in [Output(P)!Modes -> Output(P)!Directories \cup {None}]
  BY <1>0, <1>1 DEF OutputTyped, Unmoved
<1>5. PICK s \in {"lock", "idle"}, n \in Output(P)!Modes :
         /\ pc' = [pc EXCEPT ![p] = s] /\ mode' = [mode EXCEPT ![p] = n]
         /\ after' \in [P -> {"end", "fallback"}]
  <2>1. CASE after[p] = "fallback"
    <3>1. "raw" \in Output(P)!Modes
      BY DEF Output!Modes
    <3>2. /\ pc' = [pc EXCEPT ![p] = "lock"] /\ mode' = [mode EXCEPT ![p] = "raw"]
          /\ after' = [after EXCEPT ![p] = "end"]
      BY <2>1 DEF Output!CleanUp, Output!Goes
    <3> QED  BY <1>1, <3>1, <3>2 DEF OutputTyped
  <2>2. CASE after[p] # "fallback"
    <3>1. pc' = [pc EXCEPT ![p] = "idle"] /\ mode' = mode /\ after' = after
      BY <2>2 DEF Output!CleanUp, Output!Goes
    <3> QED  BY <1>1, <3>1 DEF OutputTyped
  <2> QED  BY <2>1, <2>2
<1>6. s \in OutputSteps /\ s \notin Held /\ s # "confirm"
  BY DEF OutputSteps, Held
<1> HIDE DEF d, e
<1> QED  BY <1>0, <1>1, <1>2, <1>3, <1>4, <1>5, <1>6, Backward DEF Unmoved, d

LEMMA KillKeeps ==
    ASSUME NEW P, Output(P)!OutputConstants, StageInv(P), NEW p \in P, Output(P)!Kill(p)
    PROVE  StageInv(P)' /\ Output(P)!LeftoversUntouched
<1> DEFINE d == stage[mode[p]]
<1>0. /\ pc' = [pc EXCEPT ![p] = "idle"] /\ broken' = TRUE /\ Unmoved
      /\ faults < MaxFaults /\ faults' = faults + 1 /\ mode' = mode /\ after' = after
      /\ "idle" \in OutputSteps /\ "idle" \notin Held /\ "idle" # "confirm"
  BY DEF Output!Kill, Output!Fault, Output!Goes, Unmoved, OutputSteps, Held
<1>1. /\ d \in Output(P)!Directories \cup {None} /\ StageFits(P, d, mode[p])
      /\ OutputTyped(P) /\ mode' = [mode EXCEPT ![p] = mode[p]]
      /\ mode[p] \in Output(P)!Modes
      /\ stage = [stage EXCEPT ![mode[p]] = d] /\ Holders(P)
  BY <1>0, AtHand DEF StageInv
<1>2. /\ faults' \in 0..MaxFaults /\ broken' \in BOOLEAN
      /\ after' \in [P -> {"end", "fallback"}]
      /\ final' \in [Output(P)!Modes -> Output(P)!Directories \cup {None}]
  BY <1>0, <1>1, OutputKinds DEF OutputTyped, Unmoved
<1>3. CASE lock[mode[p]] = p
  <2> DEFINE e == IF pc[p] = "delete" THEN d ELSE Output(P)!Aged(d)
  <2>1. pc[p] \in Held
    BY <1>1, <1>3 DEF Holders
  <2>2. /\ lock' = [lock EXCEPT ![mode[p]] = None]
        /\ stage' = [stage EXCEPT ![mode[p]] = e]
    BY <1>1, <1>3 DEF Output!Kill, Output!Holding, Output!Frees, Output!Puts, Output!Mine
  <2>3. /\ e \in Output(P)!Directories \cup {None} /\ StageFits(P, e, mode[p])
        /\ Output(P)!NotOurs(d) => e = d
    <3>1. CASE e = d
      BY <1>1, <3>1
    <3>2. CASE e # d
      <4> DEFINE a == IF d.source = "none" THEN "none" ELSE "kept"
                 b == IF d.manifest = "none" THEN "none" ELSE "kept"
      <4>1. d \in Output(P)!Directories /\ e = [d EXCEPT !.source = a, !.manifest = b]
        BY <1>1, <3>2 DEF Output!Aged
      <4>2. /\ e \in Output(P)!Directories /\ e.claim = d.claim /\ e.extra = d.extra
            /\ e.source = a /\ e.manifest = b /\ e.video = d.video
        BY <4>1 DEF Output!Directories
      <4>3. {a, b} \subseteq {"none", "kept"}
        OBVIOUS
      <4> HIDE DEF e, d
      <4>4. StageFits(P, e, mode[p])
        BY <1>1, <4>1, <4>2, <4>3, OutputKinds DEF StageFits
      <4>5. Output(P)!NotOurs(d) => e = d
        <5>1. Output(P)!NotOurs(d) => a = d.source /\ b = d.manifest
          BY <1>1, <4>1, OutputKinds DEF StageFits
        <5>2. [d EXCEPT !.source = d.source, !.manifest = d.manifest] = d
          BY <4>1 DEF Output!Directories
        <5> QED  BY <4>1, <5>1, <5>2
      <4> QED  BY <4>2, <4>4, <4>5
    <3> QED  BY <3>1, <3>2
  <2> HIDE DEF d, e
  <2> QED  BY <1>0, <1>1, <1>2, <2>1, <2>2, <2>3, Backward DEF Unmoved, d
<1>4. CASE lock[mode[p]] # p
  <2>1. lock' = lock /\ stage' = stage /\ pc[p] \notin Held
    BY <1>1, <1>4 DEF Output!Kill, Output!Holding, Holders
  <2>2. OutputTyped(P)'
    BY <1>0, <1>1, <1>2, <2>1 DEF OutputTyped, Unmoved
  <2> QED  BY <1>0, <1>1, <2>1, <2>2, MovesFree DEF Output!LeftoversUntouched
<1> QED  BY <1>3, <1>4

-----------------------------------------------------------------------------
(* The steps without a hidden directory, and publication *)

LEMMA FreeStepsKeep ==
    ASSUME NEW P, Output(P)!OutputConstants, StageInv(P), NEW p \in P,
           \/ Output(P)!Start(p) \/ Output(P)!Lock(p) \/ Output(P)!Record(p)
           \/ Output(P)!Ask(p) \/ Output(P)!Confirm(p) \/ Output(P)!Forget(p)
    PROVE  StageInv(P)' /\ Output(P)!LeftoversUntouched
<1>0. /\ OutputTyped(P) /\ Holders(P) /\ mode[p] \in Output(P)!Modes
      /\ mode = [mode EXCEPT ![p] = mode[p]] /\ "video" \in Output(P)!Modes
  BY AtHand DEF StageInv, Output!Modes
<1>1. /\ stage' = stage /\ final' = final /\ broken' = broken /\ faults' = faults
      /\ Output(P)!LeftoversUntouched /\ pc[p] \notin Held
  BY DEF Output!Start, Output!Lock, Output!Record, Output!Ask, Output!Confirm,
         Output!Forget, Output!LeftoversUntouched, Held
<1>2. CASE Output(P)!Start(p)
  <2>1. /\ pc' = [pc EXCEPT ![p] = "lock"] /\ mode' = [mode EXCEPT ![p] = "video"]
        /\ after' = [after EXCEPT ![p] = "end"] /\ lock' = lock
        /\ moves < MaxMoves /\ moves' = moves + 1 /\ record' = record /\ plan' = plan
        /\ "lock" \in OutputSteps /\ "lock" \notin Held
    BY <1>2 DEF Output!Start, Output!Move, Output!Goes, OutputSteps, Held
  <2>2. moves' \in 0..MaxMoves
    BY <1>0, <2>1, OutputKinds DEF OutputTyped
  <2>3. OutputTyped(P)'
    BY <1>0, <1>1, <2>1, <2>2 DEF OutputTyped
  <2> QED  BY <1>0, <1>1, <2>1, <2>3, MovesFree
<1>3. CASE Output(P)!Lock(p) /\ lock[mode[p]] = None
  <2>1. /\ pc' = [pc EXCEPT ![p] = "look"] /\ mode' = mode /\ after' = after
        /\ lock' = [lock EXCEPT ![mode[p]] = p]
        /\ moves' = moves /\ record' = record /\ plan' = plan
        /\ "look" \in OutputSteps
    BY <1>3 DEF Output!Lock, Output!Free, Output!Goes, OutputSteps, Held
  <2>2. OutputTyped(P)'
    BY <1>0, <1>1, <2>1 DEF OutputTyped
  <2> QED  BY <1>0, <1>1, <1>3, <2>1, <2>2, TakesLock
<1>4. CASE Output(P)!Confirm(p) /\ lock' # lock
  <2>1. /\ pc' = [pc EXCEPT ![p] = "delete"] /\ mode' = mode /\ after' = after
        /\ lock["video"] = None /\ lock' = [lock EXCEPT !["video"] = p]
        /\ moves' = moves /\ record' = record /\ plan' = plan /\ mode[p] = "video"
        /\ "delete" \in OutputSteps
    BY <1>0, <1>4 DEF Output!Confirm, Output!Free, Output!Goes, OutputSteps, Held, Holders
  <2>2. OutputTyped(P)'
    BY <1>0, <1>1, <2>1 DEF OutputTyped
  <2> QED  BY <1>0, <1>1, <2>1, <2>2, TakesLock
<1>5. CASE \/ Output(P)!Lock(p) /\ lock[mode[p]] # None
           \/ Output(P)!Confirm(p) /\ lock' = lock
           \/ Output(P)!Record(p) \/ Output(P)!Forget(p)
  <2>1. lock' = lock /\ mode' = mode /\ after' = after /\ moves' = moves /\ plan' = plan
    BY <1>5 DEF Output!Lock, Output!Confirm, Output!Record, Output!Forget, Output!Free
  <2>2. pc' = [pc EXCEPT ![p] = "idle"] /\ "idle" \in OutputSteps /\ "idle" \notin Held
    <3>1. Output(P)!Confirm(p) /\ lock' = lock => pc' = [pc EXCEPT ![p] = "idle"]
      <4>1. lock["video"] = None => [lock EXCEPT !["video"] = p] # lock
        BY <1>0, OutputKinds DEF OutputTyped
      <4> QED  BY <4>1 DEF Output!Confirm, Output!Free, Output!Goes
    <3> QED  BY <1>5, <3>1
             DEF Output!Lock, Output!Record, Output!Forget, Output!Free, Output!Goes,
                 OutputSteps, Held
  <2>3. record' \in Output(P)!Directories \cup {None}
    BY <1>0, <1>5 DEF Output!Lock, Output!Confirm, Output!Record, Output!Forget, OutputTyped
  <2>4. OutputTyped(P)'
    BY <1>0, <1>1, <2>1, <2>2, <2>3 DEF OutputTyped
  <2> QED  BY <1>0, <1>1, <2>1, <2>2, <2>4, MovesFree
<1>6. CASE Output(P)!Ask(p)
  <2>1. /\ pc' = [pc EXCEPT ![p] = "confirm"] /\ mode' = [mode EXCEPT ![p] = "video"]
        /\ after' = after /\ lock' = lock /\ record' = record
        /\ moves < MaxMoves /\ moves' = moves + 1 /\ plan' = [plan EXCEPT ![p] = record]
        /\ "confirm" \in OutputSteps /\ "confirm" \notin Held
    BY <1>6 DEF Output!Ask, Output!Move, Output!Goes, OutputSteps, Held
  <2>2. moves' \in 0..MaxMoves
    BY <1>0, <2>1, OutputKinds DEF OutputTyped
  <2>3. OutputTyped(P)'
    BY <1>0, <1>1, <2>1, <2>2 DEF OutputTyped
  <2> QED  BY <1>0, <1>1, <2>1, <2>3, MovesFree
<1> QED  BY <1>2, <1>3, <1>4, <1>5, <1>6

LEMMA BareIs ==
    ASSUME NEW P, Output(P)!OutputConstants, NEW d \in Output(P)!Directories
    PROVE  Output(P)!Bare(d) <=> /\ d.claim = "none" /\ d.source = "none"
                                 /\ d.manifest = "none" /\ d.video = "none"
                                 /\ d.receipt = "none"
<1> DEFINE e == [d EXCEPT !.made = 0, !.extra = FALSE]
           f == Output(P)!Fresh
<1>a. 0 \in 0..MaxMoves
  BY OutputKinds
<1>0. f \in Output(P)!Directories
  BY Freshly DEF Output!Fresh
<1>1. /\ e \in Output(P)!Directories /\ e.claim = d.claim /\ e.source = d.source
      /\ e.manifest = d.manifest /\ e.video = d.video /\ e.receipt = d.receipt
      /\ e.extra = FALSE /\ e.made = 0
  BY <1>a DEF Output!Directories
<1>2. /\ f.claim = "none" /\ f.source = "none" /\ f.manifest = "none"
      /\ f.video = "none" /\ f.receipt = "none" /\ f.extra = FALSE /\ f.made = 0
  BY DEF Output!Fresh
<1> HIDE DEF e, f
<1>3. e = f <=> /\ d.claim = "none" /\ d.source = "none" /\ d.manifest = "none"
                /\ d.video = "none" /\ d.receipt = "none"
  <2>1. e = [claim |-> e.claim, source |-> e.source, manifest |-> e.manifest,
             video |-> e.video, receipt |-> e.receipt, extra |-> e.extra, made |-> e.made]
    BY <1>1, DirectoryKinds
  <2>2. f = [claim |-> f.claim, source |-> f.source, manifest |-> f.manifest,
             video |-> f.video, receipt |-> f.receipt, extra |-> f.extra, made |-> f.made]
    BY <1>0, DirectoryKinds
  <2> QED  BY <1>1, <1>2, <2>1, <2>2
<1> QED  BY <1>3 DEF e, f, Output!Bare

(* A file goes from an output; its receipt goes last. *)
LEMMA NextFileFits ==
    ASSUME NEW P, Output(P)!OutputConstants, NEW d \in Output(P)!Directories, d.receipt # "none",
           d.source = "none" => d.manifest = "none"
    PROVE  LET e == Output(P)!NextFile(d) IN
           /\ e \in Output(P)!Directories /\ e.made = d.made /\ e.extra = d.extra
           /\ e.receipt = "none" => Output(P)!Bare(e)
           /\ e.source = "none" => e.manifest = "none"
<1> DEFINE e == Output(P)!NextFile(d)
<1>1. CASE d.video # "none"
  <2>1. e = [d EXCEPT !.video = "none"]
    BY <1>1 DEF Output!NextFile
  <2>2. /\ e \in Output(P)!Directories /\ e.made = d.made /\ e.extra = d.extra
        /\ e.receipt = d.receipt /\ e.source = d.source /\ e.manifest = d.manifest
    BY <2>1 DEF Output!Directories
  <2> QED  BY <2>2
<1>2. CASE d.video = "none" /\ d.source # "none"
  <2>1. e = [d EXCEPT !.source = "none", !.manifest = "none"]
    BY <1>2 DEF Output!NextFile, Output!Emptied
  <2>2. /\ e \in Output(P)!Directories /\ e.made = d.made /\ e.extra = d.extra
        /\ e.receipt = d.receipt /\ e.source = "none" /\ e.manifest = "none"
    BY <2>1 DEF Output!Directories
  <2> QED  BY <2>2
<1>3. CASE d.video = "none" /\ d.source = "none" /\ d.claim # "none"
  <2>1. e = [d EXCEPT !.claim = "none"]
    BY <1>3 DEF Output!NextFile
  <2>2. /\ e \in Output(P)!Directories /\ e.made = d.made /\ e.extra = d.extra
        /\ e.receipt = d.receipt /\ e.source = d.source /\ e.manifest = d.manifest
    BY <2>1 DEF Output!Directories
  <2> QED  BY <2>2
<1>4. CASE d.video = "none" /\ d.source = "none" /\ d.claim = "none"
  <2>1. e = [d EXCEPT !.receipt = "none"]
    BY <1>4 DEF Output!NextFile
  <2>2. /\ e \in Output(P)!Directories /\ e.made = d.made /\ e.extra = d.extra
        /\ e.receipt = "none" /\ e.source = d.source /\ e.manifest = d.manifest
        /\ e.claim = d.claim /\ e.video = d.video
    BY <2>1 DEF Output!Directories
  <2>3. Output(P)!Bare(e)
    BY <1>4, <2>2, BareIs
  <2> QED  BY <2>2, <2>3
<1> QED  BY <1>1, <1>2, <1>3, <1>4

(* What every step does to what is published. *)
Lawful(P) == /\ Output(P)!PublishedWhole /\ Output(P)!LeftoversUntouched
             /\ Output(P)!Confirmed

(* A step that publishes and removes nothing. *)
LEMMA ShelfStays ==
    ASSUME NEW P, OutputInv(P), final' = final,
           record' # None => record' = record \/ ~record'.extra,
           \A q \in P : pc'[q] = "delete" => ConfirmedOne(P, final["video"], plan'[q]),
           \A q \in P : pc'[q] = "forget" => pc[q] = "forget"
    PROVE  Shelf(P)' /\ Deleting(P)' /\ Output(P)!PublishedWhole /\ Output(P)!Confirmed
<1>1. Shelf(P)'
  BY DEF OutputInv, Shelf, Output!Remainder
<1>2. Deleting(P)'
  BY DEF OutputInv, Deleting
<1>3. Output(P)!PublishedWhole /\ Output(P)!Confirmed
  BY DEF Output!PublishedWhole, Output!Confirmed
<1> QED  BY <1>1, <1>2, <1>3

LEMMA PublishesWhole ==
    ASSUME NEW P, Output(P)!OutputConstants, OutputInv(P), NEW p \in P, Output(P)!Publish(p)
    PROVE  OutputInv(P)' /\ Lawful(P)
<1> DEFINE d == stage[mode[p]]
<1>0. /\ pc[p] = "publish" /\ pc[p] \in Output(P)!Working /\ mode' = mode
      /\ after' = after /\ record' = record /\ plan' = plan /\ moves' = moves
      /\ faults' = faults /\ broken' = broken
  BY DEF Output!Publish, Output!Working
<1>1. /\ d \in Output(P)!Directories /\ d.claim = "mine" /\ ~d.extra
      /\ "kept" \notin {d.source, d.manifest} /\ StageFits(P, d, mode[p])
      /\ ~Output(P)!NotOurs(d) /\ Fits(P, "publish", d, mode[p], broken)
      /\ mode[p] \in {"video", "raw"} /\ pc[p] \in Held /\ OutputTyped(P)
      /\ stage = [stage EXCEPT ![mode[p]] = d] /\ mode = [mode EXCEPT ![p] = mode[p]]
      /\ StageInv(P) /\ Shelf(P) /\ Deleting(P) /\ Holders(P)
      /\ mode[p] \in Output(P)!Modes
  BY <1>0, AtWork, AtHand DEF OutputInv, StageInv
<1>2. /\ d.source = "whole" /\ d.manifest = "whole" /\ d.receipt = "whole"
      /\ d.video = (IF mode[p] = "video" THEN "whole" ELSE "none")
  BY <1>1 DEF Fits, Output!Working
<1>3. /\ after' \in [P -> {"end", "fallback"}] /\ faults' \in 0..MaxFaults
      /\ broken' \in BOOLEAN /\ moves \in 0..MaxMoves
  BY <1>0, <1>1 DEF OutputTyped
<1>4. CASE final[mode[p]] # None
  <2>1. /\ pc' = [pc EXCEPT ![p] = "clean"] /\ stage' = stage /\ lock' = lock
        /\ final' = final
    BY <1>4 DEF Output!Publish, Output!Goes
  <2>2. "clean" \notin Output(P)!Working /\ (mode[p] = "raw" => d.video = "none")
    BY <1>2 DEF Output!Working
  <2>3. StageInv(P)' /\ Output(P)!LeftoversUntouched
    <3> HIDE DEF d
    <3> QED  BY <1>0, <1>1, <1>3, <2>1, <2>2, Works DEF Unmoved
  <2>4. \A q \in P : /\ pc'[q] = "delete" => pc[q] = "delete"
                     /\ pc'[q] = "forget" => pc[q] = "forget"
    BY <1>1, <2>1 DEF OutputTyped
  <2>5. \A q \in P : pc'[q] = "delete" => ConfirmedOne(P, final["video"], plan'[q])
    BY <1>0, <1>1, <2>4 DEF Deleting
  <2> QED  BY <1>0, <2>1, <2>3, <2>4, <2>5, ShelfStays DEF OutputInv, Lawful
<1>5. CASE final[mode[p]] = None
  <2> DEFINE e == [d EXCEPT !.made = moves]
             s == IF mode[p] = "video" THEN "record" ELSE "idle"
  <2>1. /\ pc' = [pc EXCEPT ![p] = s] /\ stage' = [stage EXCEPT ![mode[p]] = None]
        /\ lock' = [lock EXCEPT ![mode[p]] = None]
        /\ final' = [final EXCEPT ![mode[p]] = e]
    BY <1>5 DEF Output!Publish, Output!Goes, Output!Puts, Output!Frees, Output!Mine
  <2>2. /\ e \in Output(P)!Directories /\ Output(P)!Whole(e, mode[p])
        /\ e.receipt = "whole" /\ e.source = "whole"
    BY <1>1, <1>2, <1>3 DEF Output!Directories, Output!Whole
  <2>3. /\ s \in OutputSteps /\ s \notin Held /\ s \notin {"confirm", "delete", "forget"}
        /\ StageFits(P, None, mode[p]) /\ Good(P, None)
    BY DEF OutputSteps, Held, StageFits, Good
  <2> HIDE DEF e, s, d
  <2>4. final' \in [Output(P)!Modes -> Output(P)!Directories \cup {None}]
    BY <1>1, <2>1, <2>2 DEF OutputTyped
  <2>5. StageInv(P)' /\ Output(P)!LeftoversUntouched
    BY <1>0, <1>1, <1>3, <2>1, <2>3, <2>4, Backward DEF d
  <2>6. /\ \A m \in Output(P)!Modes : final'[m] = IF m = mode[p] THEN e ELSE final[m]
        /\ \A q \in P : pc'[q] = IF q = p THEN s ELSE pc[q]
        /\ "video" \in Output(P)!Modes
    BY <1>1, <2>1 DEF OutputTyped, Output!Modes
  <2>7. Shelf(P)'
    BY <1>0, <1>1, <2>2, <2>6 DEF Shelf, Output!Remainder
  <2>8. Deleting(P)'
    <3>1. ASSUME NEW q \in P, pc'[q] = "delete"
          PROVE  ConfirmedOne(P, final'["video"], plan'[q])
      <4>1. q # p /\ pc[q] = "delete"
        BY <2>3, <2>6, <3>1
      <4>2. lock["video"] = q
        BY <1>1, <2>6, <4>1 DEF Holders, Held
      <4>3. lock[mode[p]] = p
        BY <1>1 DEF Holders
      <4>4. final'["video"] = final["video"]
        BY <2>6, <4>1, <4>2, <4>3
      <4> QED  BY <1>0, <1>1, <4>1, <4>4 DEF Deleting
    <3>2. ASSUME \A q, r \in P : q = r, NEW q \in P, pc'[q] = "forget" PROVE FALSE
      BY <2>3, <2>6, <3>2
    <3> QED  BY <3>1, <3>2 DEF Deleting
  <2>9. Output(P)!PublishedWhole /\ Output(P)!Confirmed
    BY <1>5, <2>2, <2>6 DEF Output!PublishedWhole, Output!Confirmed
  <2> QED  BY <2>5, <2>7, <2>8, <2>9 DEF OutputInv, Lawful
<1> QED  BY <1>4, <1>5

LEMMA DeleteKeeps ==
    ASSUME NEW P, Output(P)!OutputConstants, OutputInv(P), NEW p \in P, Output(P)!Delete(p)
    PROVE  OutputInv(P)' /\ Lawful(P)
<1> DEFINE d == final["video"]
<1>0. /\ pc[p] = "delete" /\ pc[p] \in Held /\ mode' = mode /\ stage' = stage
      /\ after' = after /\ record' = record /\ plan' = plan /\ moves' = moves
      /\ faults' = faults /\ broken' = broken
  BY DEF Output!Delete, Held
<1>1. /\ OutputTyped(P) /\ Holders(P) /\ StageInv(P) /\ Shelf(P) /\ Deleting(P)
      /\ stage = [stage EXCEPT ![mode[p]] = stage[mode[p]]]
      /\ mode = [mode EXCEPT ![p] = mode[p]] /\ mode[p] = "video"
      /\ stage[mode[p]] \in Output(P)!Directories \cup {None}
      /\ StageFits(P, stage[mode[p]], mode[p])
      /\ broken \/ Good(P, stage[mode[p]])
  BY <1>0, AtHand DEF OutputInv, StageInv, Holders, Fits
<1>2. /\ "video" \in Output(P)!Modes /\ d \in Output(P)!Directories \cup {None}
      /\ after' \in [P -> {"end", "fallback"}] /\ faults' \in 0..MaxFaults
      /\ broken' \in BOOLEAN
  BY <1>0, <1>1 DEF OutputTyped, Output!Modes
<1>3. ConfirmedOne(P, d, plan[p]) /\ Output(P)!LeftoversUntouched
  BY <1>0, <1>1 DEF Deleting, Output!LeftoversUntouched
<1>4. CASE d # None /\ ~Output(P)!Bare(d) /\ final' = [final EXCEPT !["video"] = Output(P)!NextFile(d)]
           /\ pc' = pc /\ lock' = lock
  <2> DEFINE e == Output(P)!NextFile(d)
  <2>1. /\ d \in Output(P)!Directories /\ d.receipt # "none"
        /\ d.source = "none" => d.manifest = "none"
    BY <1>1, <1>2, <1>4 DEF Shelf, Output!Remainder
  <2>2. /\ e \in Output(P)!Directories /\ e.made = d.made /\ e.extra = d.extra
        /\ e.receipt = "none" => Output(P)!Bare(e)
        /\ e.source = "none" => e.manifest = "none"
    BY <2>1, NextFileFits
  <2> HIDE DEF e
  <2>3. /\ final' = [final EXCEPT !["video"] = e] /\ e # None
    BY <1>4, <2>2, OutputKinds DEF e
  <2> HIDE DEF d
  <2>4. /\ \A m \in Output(P)!Modes : final'[m] = IF m = "video" THEN e ELSE final[m]
        /\ final' \in [Output(P)!Modes -> Output(P)!Directories \cup {None}]
    BY <1>1, <2>2, <2>3 DEF OutputTyped
  <2>5. OutputTyped(P)'
    BY <1>0, <1>1, <1>4, <2>4 DEF OutputTyped
  <2>6. StageInv(P)'
    BY <1>0, <1>1, <1>4, <2>5, SameStages
  <2>7. Shelf(P)'
    BY <1>0, <1>1, <1>2, <2>2, <2>4 DEF Shelf, Output!Remainder
  <2>8. Deleting(P)'
    <3>1. ASSUME NEW q \in P, pc[q] = "delete" PROVE q = p
      BY <1>0, <1>1, <1>2, <3>1 DEF Holders, Held
    <3>2. ConfirmedOne(P, e, plan[p])
      BY <1>3, <1>4, <2>2 DEF ConfirmedOne
    <3>3. ASSUME \A q, r \in P : q = r, NEW q \in P, pc[q] = "forget" PROVE FALSE
      BY <1>0, <3>3
    <3> QED  BY <1>0, <1>2, <1>4, <2>4, <3>1, <3>2, <3>3 DEF Deleting
  <2>9. Output(P)!PublishedWhole /\ Output(P)!Confirmed
    <3>1. plan[p].made = d.made
      BY <1>3, <1>4 DEF ConfirmedOne
    <3> QED  BY <1>0, <1>4, <2>2, <2>3, <2>4, <3>1
             DEF d, Output!PublishedWhole, Output!Confirmed
  <2> QED  BY <1>3, <2>6, <2>7, <2>8, <2>9 DEF OutputInv, Lawful
<1>5. CASE d # None /\ Output(P)!Removable(d) /\ final' = [final EXCEPT !["video"] = None]
           /\ Output(P)!Goes(p, "forget") /\ Output(P)!Frees(p)
  <2>1. /\ pc' = [pc EXCEPT ![p] = "forget"] /\ lock' = [lock EXCEPT ![mode[p]] = None]
        /\ "forget" \in OutputSteps /\ "forget" \notin Held /\ "forget" # "confirm"
    BY <1>5 DEF Output!Goes, Output!Frees, OutputSteps, Held
  <2>2. /\ \A m \in Output(P)!Modes : final'[m] = IF m = "video" THEN None ELSE final[m]
        /\ final' \in [Output(P)!Modes -> Output(P)!Directories \cup {None}]
    BY <1>1, <1>5 DEF OutputTyped
  <2>3. StageInv(P)'
    <3> HIDE DEF d
    <3> QED  BY <1>0, <1>1, <1>2, <2>1, <2>2, Backward
  <2>4. Shelf(P)'
    BY <1>0, <1>1, <1>2, <2>2 DEF Shelf, Output!Remainder
  <2>5. Deleting(P)'
    BY <1>2, <2>2 DEF Deleting, ConfirmedOne
  <2>6. Output(P)!PublishedWhole /\ Output(P)!Confirmed
    <3>1. plan[p].made = d.made /\ d.extra # TRUE
      BY <1>3, <1>5 DEF ConfirmedOne, Output!Removable
    <3> QED  BY <1>0, <2>2, <3>1 DEF Output!PublishedWhole, Output!Confirmed
  <2> QED  BY <1>3, <2>3, <2>4, <2>5, <2>6 DEF OutputInv, Lawful
<1>6. CASE Output(P)!Gives(p) /\ final' = final
  <2>1. StageInv(P)'
    <3> HIDE DEF d
    <3> QED  BY <1>0, <1>1, <1>2, <1>6, Leaves
  <2>2. pc' = [pc EXCEPT ![p] = "idle"]
    BY <1>6 DEF Output!Gives, Output!Goes
  <2>3. \A q \in P : /\ pc'[q] = "delete" => pc[q] = "delete"
                     /\ pc'[q] = "forget" => pc[q] = "forget"
    BY <1>1, <2>2 DEF OutputTyped
  <2>4. \A q \in P : pc'[q] = "delete" => ConfirmedOne(P, final["video"], plan'[q])
    BY <1>0, <1>1, <2>3 DEF Deleting
  <2>5. Shelf(P)' /\ Deleting(P)' /\ Output(P)!PublishedWhole /\ Output(P)!Confirmed
    BY <1>0, <1>6, <2>3, <2>4, ShelfStays
  <2> QED  BY <1>3, <2>1, <2>5 DEF OutputInv, Lawful
<1> QED  BY <1>4, <1>5, <1>6 DEF Output!Delete

(* The user's hand. *)
LEMMA UserKeeps ==
    ASSUME NEW P, Output(P)!OutputConstants, OutputInv(P), Output(P)!User
    PROVE  OutputInv(P)' /\ Lawful(P)
<1>0. /\ stage' = stage /\ lock' = lock /\ pc' = pc /\ mode' = mode /\ after' = after
      /\ record' = record /\ plan' = plan /\ faults' = faults /\ broken' = broken
      /\ moves < MaxMoves /\ moves' = moves + 1
      /\ Output(P)!LeftoversUntouched /\ Output(P)!Confirmed
  BY DEF Output!User, Output!UserAdds, Output!UserDiscards, Output!Move,
         Output!LeftoversUntouched, Output!Confirmed
<1>1. OutputTyped(P) /\ StageInv(P) /\ Shelf(P) /\ Deleting(P) /\ moves' \in 0..MaxMoves
      /\ "video" \in Output(P)!Modes
  BY <1>0, OutputKinds DEF OutputInv, StageInv, OutputTyped, Output!Modes
<1>2. PICK m \in Output(P)!Modes : Output(P)!UserAdds(m) \/ Output(P)!UserDiscards(m)
  BY DEF Output!User
(* What is in the place now: nothing, or what was there and something more. *)
<1> DEFINE Grown(d, e) ==
        \/ e = None
        \/ /\ e \in Output(P)!Directories /\ e # None /\ e.extra
           /\ \/ d = None /\ Output(P)!Bare(e)
              \/ /\ d # None /\ e.made = d.made /\ e.receipt = d.receipt
                 /\ e.source = d.source /\ e.manifest = d.manifest
                 /\ Output(P)!Bare(d) <=> Output(P)!Bare(e)
<1>3. /\ Grown(final[m], final'[m])
      /\ \A n \in Output(P)!Modes : n # m => final'[n] = final[n]
      /\ final' \in [Output(P)!Modes -> Output(P)!Directories \cup {None}]
      /\ final[m] = None /\ final'[m] # None => Output(P)!UserAdds(m)
  <2>1. CASE Output(P)!UserDiscards(m)
    BY <1>1, <2>1 DEF Output!UserDiscards, OutputTyped
  <2>2. CASE Output(P)!UserAdds(m) /\ final[m] = None
    <3> DEFINE e == [Output(P)!Fresh EXCEPT !.extra = TRUE]
    <3>1. final' = [final EXCEPT ![m] = e]
      BY <2>2 DEF Output!UserAdds
    <3>2. Output(P)!Fresh \in Output(P)!Directories
      BY Freshly DEF Output!Fresh
    <3>3. e \in Output(P)!Directories /\ e.extra
      BY <3>2 DEF Output!Directories
    <3>4. /\ e.claim = "none" /\ e.source = "none" /\ e.manifest = "none"
          /\ e.video = "none" /\ e.receipt = "none"
      BY DEF Output!Fresh
    <3> HIDE DEF e
    <3>5. Output(P)!Bare(e) /\ e # None
      BY <3>3, <3>4, BareIs, OutputKinds
    <3> QED  BY <1>1, <2>2, <3>1, <3>3, <3>5 DEF OutputTyped
  <2>3. CASE Output(P)!UserAdds(m) /\ final[m] # None
    <3> DEFINE d == final[m]
               e == [d EXCEPT !.extra = TRUE]
    <3>1. d \in Output(P)!Directories
      BY <1>1, <2>3 DEF OutputTyped
    <3>2. final' = [final EXCEPT ![m] = e]
      BY <2>3 DEF Output!UserAdds
    <3>3. /\ e \in Output(P)!Directories /\ e.extra /\ e.made = d.made
          /\ e.claim = d.claim /\ e.source = d.source /\ e.manifest = d.manifest
          /\ e.video = d.video /\ e.receipt = d.receipt
      BY <3>1 DEF Output!Directories
    <3> HIDE DEF d, e
    <3>4. (Output(P)!Bare(d) <=> Output(P)!Bare(e)) /\ e # None /\ d # None
      BY <3>1, <3>3, BareIs, OutputKinds
    <3>5. Grown(d, e)
      BY <3>3, <3>4
    <3> QED  BY <1>1, <2>3, <3>2, <3>3, <3>5 DEF OutputTyped, d
  <2> QED  BY <1>2, <2>1, <2>2, <2>3
<1>4. StageInv(P)'
  <2>1. OutputTyped(P)'
    BY <1>0, <1>1, <1>3 DEF OutputTyped
  <2> QED  BY <1>0, <1>1, <2>1, SameStages
<1>5. Shelf(P)' /\ Deleting(P)'
  <2>1. CASE m # "video"
    BY <1>0, <1>1, <1>3, <2>1 DEF Shelf, Deleting, Output!Remainder
  <2>2. CASE m = "video"
    <3>1. Grown(final["video"], final'["video"])
      BY <1>3, <2>2
    <3>2. Output(P)!Remainder' /\ Shelf(P)'
      <4>1. CASE final'["video"] = None
        BY <1>0, <1>1, <4>1 DEF Shelf, Output!Remainder
      <4>2. CASE final["video"] = None /\ final'["video"] # None
        <5>1. Output(P)!Bare(final'["video"]) /\ final'["video"] \in Output(P)!Directories
          BY <3>1, <4>2
        <5>2. final'["video"].manifest = "none"
          BY <5>1, BareIs
        <5> QED  BY <1>0, <1>1, <5>1, <5>2 DEF Shelf, Output!Remainder
      <4>3. CASE final["video"] # None /\ final'["video"] # None
        BY <1>0, <1>1, <3>1, <4>3 DEF Shelf, Output!Remainder
      <4> QED  BY <4>1, <4>2, <4>3
    <3>3. Deleting(P)'
      BY <1>0, <1>1, <3>1 DEF Deleting, ConfirmedOne
    <3> QED  BY <3>2, <3>3
  <2> QED  BY <2>1, <2>2
<1>6. Output(P)!PublishedWhole
  BY <1>3 DEF Output!PublishedWhole
<1> QED  BY <1>0, <1>4, <1>5, <1>6 DEF OutputInv, Lawful

(* The other steps leave what is published as it is. *)
LEMMA OthersKeepShelf ==
    ASSUME NEW P, Output(P)!OutputConstants, OutputInv(P), NEW p \in P,
           \/ Output(P)!Start(p) \/ Output(P)!Ask(p) \/ Output(P)!Lock(p) \/ Output(P)!Look(p)
           \/ Output(P)!Claim(p) \/ Output(P)!Claimed(p) \/ Output(P)!Check(p)
           \/ Output(P)!Render(p) \/ Output(P)!Copy(p) \/ Output(P)!Write(p)
           \/ Output(P)!Record(p) \/ Output(P)!CleanUp(p) \/ Output(P)!Confirm(p)
           \/ Output(P)!Forget(p) \/ Output(P)!Fails(p) \/ Output(P)!ClaimFails(p)
           \/ Output(P)!Kill(p)
    PROVE  Shelf(P)' /\ Deleting(P)' /\ Output(P)!PublishedWhole /\ Output(P)!Confirmed
<1>0. OutputTyped(P) /\ Deleting(P)
  BY DEF OutputInv, StageInv
<1>1. final' = final
  BY DEF Output!Start, Output!Ask, Output!Lock, Output!Look, Output!Claim, Output!Claimed,
         Output!Check, Output!Render, Output!Copy, Output!Write, Output!Record,
         Output!CleanUp, Output!Confirm, Output!Forget, Output!Fails, Output!ClaimFails,
         Output!Kill
<1>2. record' # None => record' = record \/ ~record'.extra
  BY DEF Output!Start, Output!Ask, Output!Lock, Output!Look, Output!Claim, Output!Claimed,
         Output!Check, Output!Render, Output!Copy, Output!Write, Output!Record,
         Output!CleanUp, Output!Confirm, Output!Forget, Output!Fails, Output!ClaimFails,
         Output!Kill, Output!Inspects
<1>3. PICK s \in OutputSteps \ {"forget"} :
         /\ pc' = [pc EXCEPT ![p] = s]
         /\ s = "delete" => final["video"] = plan[p] /\ plan' = plan
  <2>1. CASE Output(P)!Confirm(p)
    BY <2>1 DEF Output!Confirm, Output!Goes, Output!Same, OutputSteps, Held
  <2>2. CASE \/ Output(P)!Start(p) \/ Output(P)!Ask(p) \/ Output(P)!Lock(p)
             \/ Output(P)!Look(p) \/ Output(P)!Record(p) \/ Output(P)!Forget(p)
             \/ Output(P)!CleanUp(p) \/ Output(P)!Kill(p)
    BY <2>2 DEF Output!Start, Output!Ask, Output!Lock, Output!Look, Output!Record,
                Output!Forget, Output!CleanUp, Output!Kill, Output!Gives, Output!Goes,
                OutputSteps, Held
  <2>3. CASE \/ Output(P)!Claim(p) \/ Output(P)!Claimed(p) \/ Output(P)!Check(p)
             \/ Output(P)!Render(p) \/ Output(P)!Copy(p)
             \/ Output(P)!Fails(p) \/ Output(P)!ClaimFails(p)
    BY <2>3 DEF Output!Claim, Output!Claimed, Output!Check, Output!Render, Output!Copy,
                Output!Fails, Output!ClaimFails, Output!Gives, Output!Goes,
                OutputSteps, Held, Output!Fresh
  <2>4. CASE Output(P)!Write(p)
    BY <2>4 DEF Output!Write, Output!WriteNew, Output!Fills, Output!Goes, OutputSteps, Held
  <2> QED  BY <2>1, <2>2, <2>3, <2>4
<1>4. plan' = plan \/ (pc'[p] # "delete" /\ \E c : plan' = [plan EXCEPT ![p] = c])
  <2>1. CASE Output(P)!Ask(p)
    <3>1. pc' = [pc EXCEPT ![p] = "confirm"] /\ plan' = [plan EXCEPT ![p] = record]
      BY <2>1 DEF Output!Ask, Output!Goes
    <3> QED  BY <1>0, <3>1 DEF OutputTyped
  <2>2. CASE ~Output(P)!Ask(p)
    BY <2>2
    DEF Output!Start, Output!Lock, Output!Look, Output!Claim, Output!Claimed, Output!Check,
        Output!Render, Output!Copy, Output!Write, Output!Record, Output!CleanUp,
        Output!Confirm, Output!Forget, Output!Fails, Output!ClaimFails, Output!Kill
  <2> QED  BY <2>1, <2>2
<1>5. ASSUME NEW q \in P, pc'[q] = "delete"
      PROVE  ConfirmedOne(P, final["video"], plan'[q])
  <2>1. CASE q = p
    BY <1>0, <1>3, <1>5, <2>1 DEF OutputTyped, ConfirmedOne
  <2>2. CASE q # p
    <3>1. pc[q] = "delete" /\ plan'[q] = plan[q]
      BY <1>0, <1>3, <1>4, <1>5, <2>2 DEF OutputTyped
    <3> QED  BY <1>0, <3>1 DEF Deleting
  <2> QED  BY <2>1, <2>2
<1>6. \A q \in P : pc'[q] = "forget" => pc[q] = "forget"
  BY <1>0, <1>3 DEF OutputTyped
<1> QED  BY <1>1, <1>2, <1>5, <1>6, ShelfStays

LEMMA OutputKeeps ==
    ASSUME NEW P, Output(P)!OutputConstants, OutputInv(P), Output(P)!Next
    PROVE  OutputInv(P)' /\ Lawful(P)
<1>0. StageInv(P)
  BY DEF OutputInv
<1>1. ASSUME NEW p \in P,
             \/ Output(P)!Start(p) \/ Output(P)!Ask(p) \/ Output(P)!Lock(p)
             \/ Output(P)!Look(p) \/ Output(P)!Claim(p) \/ Output(P)!Claimed(p)
             \/ Output(P)!Check(p) \/ Output(P)!Render(p) \/ Output(P)!Copy(p)
             \/ Output(P)!Write(p) \/ Output(P)!Record(p) \/ Output(P)!CleanUp(p)
             \/ Output(P)!Confirm(p) \/ Output(P)!Forget(p) \/ Output(P)!Fails(p)
             \/ Output(P)!ClaimFails(p) \/ Output(P)!Kill(p)
      PROVE  OutputInv(P)' /\ Lawful(P)
  <2>1. StageInv(P)' /\ Output(P)!LeftoversUntouched
    BY <1>0, <1>1, FreeStepsKeep, LookKeeps, ClaimKeeps, ClaimedKeeps, CheckKeeps,
       RenderKeeps, WriteKeeps, CleanUpKeeps, FailsKeeps, ClaimFailsKeeps, KillKeeps
  <2>2. Shelf(P)' /\ Deleting(P)' /\ Output(P)!PublishedWhole /\ Output(P)!Confirmed
    BY <1>1, OthersKeepShelf
  <2> QED  BY <2>1, <2>2 DEF OutputInv, Lawful
<1>2. ASSUME NEW p \in P, Output(P)!Publish(p) PROVE OutputInv(P)' /\ Lawful(P)
  BY <1>2, PublishesWhole
<1>3. ASSUME NEW p \in P, Output(P)!Delete(p) PROVE OutputInv(P)' /\ Lawful(P)
  BY <1>3, DeleteKeeps
<1>4. CASE Output(P)!User
  BY <1>4, UserKeeps
<1> QED  BY <1>1, <1>2, <1>3, <1>4 DEF Output!Next, Output!Run

(* The history drops an output only where it has been deleted and forgotten, by  *)
(* nobody but the one process.                                                *)
LEMMA OneRemembers ==
    ASSUME NEW P, Output(P)!OutputConstants, OutputInv(P), Output(P)!Next,
           \A p, q \in P : p = q
    PROVE  Output(P)!Remembers
<1> SUFFICES ASSUME record # None, record' = None PROVE final["video"] # record
  BY DEF Output!Remembers
<1>1. PICK p \in P : Output(P)!Forget(p) \/ Output(P)!Record(p)
  <2>1. \/ \E p \in P : Output(P)!Forget(p) \/ Output(P)!Record(p)
        \/ record' = record
    BY DEF Output!Next, Output!Run, Output!User, Output!UserAdds, Output!UserDiscards,
           Output!Start, Output!Ask, Output!Lock, Output!Look, Output!Claim,
           Output!Claimed, Output!Check, Output!Render, Output!Copy, Output!Write,
           Output!Publish, Output!CleanUp, Output!Confirm, Output!Delete, Output!Fails,
           Output!ClaimFails, Output!Kill
  <2> QED  BY <2>1
<1>2. CASE Output(P)!Forget(p)
  <2>1. pc[p] = "forget"
    BY <1>2 DEF Output!Forget
  <2>2. final["video"] = None \/ final["video"].extra
    BY <2>1 DEF OutputInv, Deleting
  <2>3. ~record.extra
    BY DEF OutputInv, Shelf
  <2> QED  BY <2>2, <2>3
<1>3. CASE Output(P)!Record(p)
  BY <1>3 DEF Output!Record, Output!Inspects
<1> QED  BY <1>1, <1>2, <1>3

(* An export is refused by a step of its own, at its claim, at the originals or  *)
(* at a file it would write.                                                  *)
LEMMA RefusedBy ==
    ASSUME NEW P, Output(P)!OutputConstants, OutputInv(P), Output(P)!Next,
           NEW p \in P, Output(P)!Refused(p)
    PROVE  Output(P)!Claim(p) \/ Output(P)!Check(p) \/ Output(P)!Write(p)
<1>0. pc \in [P -> OutputSteps] /\ faults \in Nat
  BY OutputKinds DEF OutputInv, StageInv, OutputTyped
<1>1. /\ pc[p] \in {"claim", "check", "manifest", "receipt"} /\ pc'[p] # pc[p]
      /\ faults' = faults /\ faults' # faults + 1
  BY <1>0 DEF Output!Refused
<1>2. ASSUME NEW q \in P, NEW s, pc' = [pc EXCEPT ![q] = s] PROVE q = p
  BY <1>0, <1>1, <1>2
<1>3. ASSUME NEW q \in P,
             \/ Output(P)!Start(q) \/ Output(P)!Ask(q) \/ Output(P)!Lock(q)
             \/ Output(P)!Look(q) \/ Output(P)!Claimed(q) \/ Output(P)!Render(q)
             \/ Output(P)!Copy(q)
      PROVE  FALSE
  <2>1. \E s : pc' = [pc EXCEPT ![q] = s]
    BY <1>3 DEF Output!Start, Output!Ask, Output!Lock, Output!Look, Output!Claimed,
                Output!Render, Output!Copy, Output!Gives, Output!Goes
  <2>2. pc[q] \notin {"claim", "check", "manifest", "receipt"}
    BY <1>3 DEF Output!Start, Output!Ask, Output!Lock, Output!Look, Output!Claimed,
                Output!Render, Output!Copy
  <2> QED  BY <1>1, <1>2, <2>1, <2>2
<1>4. ASSUME NEW q \in P,
             \/ Output(P)!Publish(q) \/ Output(P)!Record(q) \/ Output(P)!CleanUp(q)
             \/ Output(P)!Confirm(q) \/ Output(P)!Delete(q) \/ Output(P)!Forget(q)
      PROVE  FALSE
  <2>1. pc' = pc \/ \E s : pc' = [pc EXCEPT ![q] = s]
    BY <1>4 DEF Output!Publish, Output!Record, Output!CleanUp, Output!Confirm,
                Output!Delete, Output!Forget, Output!Gives, Output!Goes
  <2>2. pc[q] \notin {"claim", "check", "manifest", "receipt"}
    BY <1>4 DEF Output!Publish, Output!Record, Output!CleanUp, Output!Confirm,
                Output!Delete, Output!Forget
  <2> QED  BY <1>1, <1>2, <2>1, <2>2
<1>5. ASSUME NEW q \in P, Output(P)!Fails(q) \/ Output(P)!ClaimFails(q) \/ Output(P)!Kill(q)
      PROVE  FALSE
  BY <1>1, <1>5 DEF Output!Fails, Output!ClaimFails, Output!Kill, Output!Fault
<1>6. CASE Output(P)!User
  BY <1>1, <1>6 DEF Output!User, Output!UserAdds, Output!UserDiscards
<1>7. ASSUME NEW q \in P, Output(P)!Claim(q) \/ Output(P)!Check(q) \/ Output(P)!Write(q)
      PROVE  Output(P)!Claim(p) \/ Output(P)!Check(p) \/ Output(P)!Write(p)
  <2>1. \E s : pc' = [pc EXCEPT ![q] = s]
    <3>1. CASE Output(P)!Claim(q)
      BY <3>1 DEF Output!Claim, Output!Gives, Output!Goes
    <3>2. CASE Output(P)!Check(q)
      BY <3>2 DEF Output!Check, Output!Gives, Output!Goes
    <3>3. CASE Output(P)!Write(q)
      BY <3>3 DEF Output!Write, Output!WriteNew, Output!Fills, Output!Goes
    <3> QED  BY <1>7, <3>1, <3>2, <3>3
  <2> QED  BY <1>2, <1>7, <2>1
<1> QED  BY <1>3, <1>4, <1>5, <1>6, <1>7 DEF Output!Next, Output!Run

(* What errors and cancellations left does not refuse an export, but for a claim *)
(* or a raw receipt cut short: under its claim the directory has no manifest     *)
(* before the export writes one, and in video mode no receipt.                  *)
LEMMA Retries ==
    ASSUME NEW P, Output(P)!OutputConstants, OutputInv(P),
           Output(P)!Next \/ UNCHANGED outputVars
    PROVE  Output(P)!Retryable
<1> SUFFICES ASSUME NEW p \in P, ~broken, Output(P)!Refused(p)
             PROVE  Output(P)!Unfinished(stage[mode[p]], mode[p])
  BY DEF Output!Retryable, Output!Mine
<1> DEFINE d == stage[mode[p]]
<1>0. /\ pc[p] \in {"claim", "check", "manifest", "receipt"} /\ pc'[p] # pc[p]
      /\ pc' # pc
  BY DEF Output!Refused
<1>1. Output(P)!Next
  BY <1>0 DEF outputVars
<1>2. /\ d \in Output(P)!Directories \cup {None} /\ Fits(P, pc[p], d, mode[p], broken)
      /\ mode[p] \in {"video", "raw"} /\ pc[p] \in Held /\ pc \in [P -> OutputSteps]
  BY <1>0, AtHand DEF OutputInv, StageInv, OutputTyped, Held
<1>3. CASE Output(P)!Claim(p)
  <2>1. pc[p] = "claim" /\ pc'[p] = "idle"
    BY <1>3 DEF Output!Claim, Output!Refused
  <2>2. d.claim # "mine" /\ d # Output(P)!Fresh
    BY <1>2, <1>3, <2>1 DEF Output!Claim, Output!Goes, Output!Mine
  <2>3. d = [Output(P)!Fresh EXCEPT !.claim = "short"]
    BY <1>2, <2>1, <2>2 DEF Fits, Good
  <2> QED  BY <2>3, ClaimsDiffer DEF Output!Unfinished
<1>4. CASE Output(P)!Check(p)
  <2>1. pc[p] = "check" /\ pc'[p] = "idle"
    BY <1>4 DEF Output!Check, Output!Refused
  <2>2. ~Output(P)!Unused(d)
    BY <1>2, <1>4, <2>1 DEF Output!Check, Output!Goes, Output!Mine
  <2>3. d # None /\ d.claim = "mine" /\ Good(P, d)
    BY <1>2, <2>1 DEF Fits, Output!Working
  <2> QED  BY <2>2, <2>3, ClaimsDiffer DEF Good
<1>5. CASE Output(P)!Write(p)
  <2>1. pc[p] \in {"manifest", "receipt"} /\ pc'[p] = "clean"
    BY <1>0, <1>5 DEF Output!Write, Output!Refused
  <2>2. CASE pc[p] = "manifest"
    <3>1. d.manifest = "none"
      BY <1>2, <2>2 DEF Fits
    <3>2. Output(P)!WriteNew(p, "manifest", "manifesting", "receipt")
      BY <1>5, <2>2 DEF Output!Write
    <3>3. pc' = [pc EXCEPT ![p] = "manifesting"]
      BY <3>1, <3>2 DEF Output!WriteNew, Output!Conflicts, Output!Goes, Output!Mine
    <3> QED  BY <1>2, <2>1, <3>3
  <2>3. CASE pc[p] = "receipt"
    <3>1. Output(P)!WriteNew(p, "receipt", "signing", "publish")
      BY <1>5, <2>3 DEF Output!Write
    <3>2. Output(P)!Conflicts(d, "receipt")
      <4>1. CASE ~Output(P)!Conflicts(d, "receipt")
        <5>1. pc' = [pc EXCEPT ![p] = "signing"] \/ pc' = [pc EXCEPT ![p] = "publish"]
          BY <3>1, <4>1 DEF Output!WriteNew, Output!Goes, Output!Mine
        <5> QED  BY <1>2, <2>1, <5>1
      <4> QED  BY <4>1
    <3>3. d.receipt \notin {"none", "whole"} /\ d \in Output(P)!Directories
      BY <1>2, <2>3, <3>2 DEF Output!Conflicts, Fits
    <3>4. d.receipt = "short"
      BY <3>3 DEF Output!Directories
    <3>5. mode[p] = "raw"
      BY <1>2, <2>3, <3>4 DEF Fits, Output!Working
    <3> QED  BY <3>4, <3>5 DEF Output!Unfinished
  <2> QED  BY <2>1, <2>2, <2>3
<1> QED  BY <1>1, <1>3, <1>4, <1>5, RefusedBy

LEMMA OutputSpeaks ==
    ASSUME NEW P, OutputInv(P)
    PROVE  Output(P)!TypeOK /\ Output(P)!Remainder
<1>1. OutputTyped(P) /\ Holders(P) /\ Stages(P) /\ Output(P)!Remainder
  BY DEF OutputInv, StageInv, Shelf
<1>2. \A p \in P : pc[p] \in Output(P)!Working => lock[mode[p]] = p
  BY <1>1 DEF OutputTyped, Holders, Held, Output!Working
<1>3. Output(P)!TypeOK
  BY <1>1, <1>2 DEF OutputTyped, Output!TypeOK
<1> QED  BY <1>1, <1>3

-----------------------------------------------------------------------------
(* The application *)

LEMMA OutputRests ==
    ASSUME NEW P, OutputInv(P), UNCHANGED outputVars
    PROVE  OutputInv(P)' /\ Lawful(P)
<1>1. /\ final' = final /\ stage' = stage /\ lock' = lock /\ pc' = pc /\ mode' = mode
      /\ after' = after /\ record' = record /\ plan' = plan /\ moves' = moves
      /\ faults' = faults /\ broken' = broken
  BY DEF outputVars
<1>2. OutputTyped(P)'
  BY <1>1 DEF OutputInv, StageInv, OutputTyped
<1>3. StageInv(P)'
  BY <1>1, <1>2, SameStages DEF OutputInv
<1>4. Shelf(P)' /\ Deleting(P)'
  BY <1>1 DEF OutputInv, Shelf, Deleting, Output!Remainder
<1>5. Lawful(P)
  BY <1>1 DEF Lawful, Output!PublishedWhole, Output!LeftoversUntouched, Output!Confirmed
<1> QED  BY <1>3, <1>4, <1>5 DEF OutputInv

LEMMA OneAlone ==
    /\ Output(Processes)!OutputConstants /\ Output(Alone)!OutputConstants
    /\ \A p, q \in Alone : p = q
<1>1. Output(Processes)!OutputConstants /\ Alone \subseteq Processes
  BY MCDesktopAssumption DEF Alone
<1> QED  BY <1>1 DEF Output!OutputConstants, Alone, Output!Directories

(* What is published and what is left alone are nobody's in particular. *)
LEMMA AloneLikeAll ==
    /\ Output(Alone)!PublishedWhole => Output(Processes)!PublishedWhole
    /\ Output(Alone)!LeftoversUntouched => Output(Processes)!LeftoversUntouched
    /\ Output(Alone)!Remainder => Output(Processes)!Remainder
<1>1. Output(Alone)!PublishedWhole => Output(Processes)!PublishedWhole
  BY DEF Output!PublishedWhole, Output!UserAdds, Output!Move, Output!Modes, Output!Whole,
         Output!Fresh
<1>2. Output(Alone)!LeftoversUntouched => Output(Processes)!LeftoversUntouched
  BY DEF Output!LeftoversUntouched, Output!NotOurs, Output!Modes
<1>3. Output(Alone)!Remainder => Output(Processes)!Remainder
  BY DEF Output!Remainder, Output!Bare, Output!Fresh
<1> QED  BY <1>1, <1>2, <1>3

OutInv == IF part = "alone" THEN OutputInv(Alone) ELSE OutputInv(Processes)

LEMMA OutStarts == Init => OutInv
BY OutputStarts, OneAlone DEF Init, OutInv

LEMMA OutKeeps ==
    ASSUME OutInv, [Next]_vars
    PROVE  /\ OutInv'
           /\ part = "alone" => /\ Lawful(Alone) /\ Output(Alone)!Remembers
                                /\ Output(Alone)!Retryable
           /\ part # "alone" => Lawful(Processes) /\ Output(Processes)!Retryable
<1>1. part' = part
  BY DEF Next, vars, OnlyOutput, OnlyBatch, OnlyWindow
<1>2. CASE part = "alone"
  <2>1. Output(Alone)!Next \/ UNCHANGED outputVars
    BY <1>2 DEF Next, vars, OnlyBatch, OnlyWindow
  <2>2. OutputInv(Alone)
    BY <1>2 DEF OutInv
  <2>3. OutputInv(Alone)' /\ Lawful(Alone)
    BY <2>1, <2>2, OneAlone, OutputKeeps, OutputRests
  <2>4. Output(Alone)!Remembers
    <3>1. CASE UNCHANGED outputVars
      BY <3>1 DEF outputVars, Output!Remembers
    <3>2. CASE Output(Alone)!Next
      BY <2>2, <3>2, OneAlone, OneRemembers
    <3> QED  BY <2>1, <3>1, <3>2
  <2>5. Output(Alone)!Retryable
    BY <2>1, <2>2, OneAlone, Retries
  <2> QED  BY <1>1, <1>2, <2>3, <2>4, <2>5 DEF OutInv
<1>3. CASE part # "alone"
  <2>1. Output(Processes)!Next \/ UNCHANGED outputVars
    BY <1>3 DEF Next, vars, OnlyBatch, OnlyWindow
  <2>2. OutputInv(Processes)
    BY <1>3 DEF OutInv
  <2>3. OutputInv(Processes)' /\ Lawful(Processes)
    BY <2>1, <2>2, OneAlone, OutputKeeps, OutputRests
  <2>4. Output(Processes)!Retryable
    BY <2>1, <2>2, OneAlone, Retries
  <2> QED  BY <1>1, <1>3, <2>3, <2>4 DEF OutInv
<1> QED  BY <1>2, <1>3

(* For any number of processes, errors, kills and moves of the user: what is    *)
(* published has the whole recording; hidden directories that are not this       *)
(* recording's stay as they are; what errors and cancellations left refuses no    *)
(* export, but for a claim or a raw receipt cut short; an output without its      *)
(* receipt is empty (core.go:307, 327, 370, 560; local_output.go:300).          *)
THEOREM OutputsSafe == Spec => Outputs
<1>1. Init => OutInv
  BY OutStarts
<1>2. OutInv /\ [Next]_vars => OutInv'
  BY OutKeeps
<1>3. OutInv => /\ IF part = "alone" THEN Output(Alone)!TypeOK ELSE Output(Processes)!TypeOK
                /\ Output(Processes)!Remainder
  BY OutputSpeaks, AloneLikeAll DEF OutInv
<1>4. OutInv /\ [Next]_vars =>
         [/\ Output(Processes)!PublishedWhole /\ Output(Processes)!LeftoversUntouched
          /\ IF part = "alone" THEN Output(Alone)!Retryable
                               ELSE Output(Processes)!Retryable]_vars
  BY OutKeeps, AloneLikeAll DEF Lawful
<1> QED  BY <1>1, <1>2, <1>3, <1>4, PTL DEF Spec, Outputs

(* For any number of processes and moves: an output goes by the user's hand or by *)
(* the deletion of the very output that was confirmed, and one process alone      *)
(* never forgets an output that is there as it was recorded                     *)
(* (local_output.go:251, 321; history.go:112).                                *)
THEOREM DeletesConfirmed == Spec => Deletions
<1>1. Init => OutInv
  BY OutStarts
<1>2. OutInv /\ [Next]_vars => OutInv'
  BY OutKeeps
<1>3. OutInv /\ [Next]_vars =>
         /\ [IF part = "alone" THEN Output(Alone)!Confirmed
                               ELSE Output(Processes)!Confirmed]_vars
         /\ [part = "alone" => Output(Alone)!Remembers]_vars
  BY OutKeeps DEF Lawful
<1> QED  BY <1>1, <1>2, <1>3, PTL DEF Spec, Deletions
=============================================================================
