------------------------------ MODULE PythonProofs ------------------------------
(***************************************************************************)
(* The Python programs.  src/main.py (MCMain): what the passes over a card       *)
(* reuse and publish, for every configuration c of them, and which takes the     *)
(* readers of a card keep, for cards of any number of sessions.  The SDK object  *)
(* (MCSdk): what its calls find and list, for every configuration c of them,     *)
(* what a batch of exports reports, what a deletion on a card leaves, and what    *)
(* is in a video that a rendering keeps.                                        *)
(***************************************************************************)
EXTENDS MCMain, MCSdk, TLAPS, FiniteSetTheorems, NaturalsInduction

-----------------------------------------------------------------------------
(* Passes over a card *)

Eyes == {"left", "right"}
InSession == {"verify", "copy", "again", "normalize", "left", "right", "record", "upload"}
Copied == {"normalize", "left", "right", "record", "upload"}
Steps == InSession \cup {"off", "next", "done", "stranded"}

Presets(c) == {o.preset : o \in c.options}
Videos(c) == [eye : Eyes, bytes : c.versions, rotation : {0, 180},
              preset : Presets(c), tool : c.tools]
Keys(c) == [manifest : c.versions, preset : Presets(c), rotation : {0, 180}]
States(c) == [key : Keys(c), outputs : [Eyes -> Videos(c)], arguments : Nat, tool : c.tools]
Publications(c) == [manifest : c.versions, options : c.options, tool : c.tools,
                    outputs : [Eyes -> Videos(c)]]
Works(c) == [outputs : [Eyes -> Videos(c) \cup {Partial, None}],
             state : States(c) \cup {None}]

(* The types of the steps that read, and of what is written. *)
Reads(c) ==
    /\ card \in [c.sessions -> [Passes(c)!Files -> Passes(c)!Bytes]]
    /\ tool \in c.tools /\ options \in c.options /\ pc \in Steps
    /\ passes \in 0..c.passes /\ changes \in 0..c.changes
    /\ found \in [c.sessions -> c.versions \cup {None}]
    /\ todo \subseteq c.sessions /\ cur \in c.sessions \cup {None}
    /\ left \subseteq Passes(c)!Files
    /\ snapshot \in [Passes(c)!Files -> Passes(c)!Bytes \cup {None}]
    /\ outcome \in [c.sessions -> {"ok", "failed", "refused", None}]
    /\ \A s \in todo : found[s] # None
Writes(c) ==
    /\ work \in [c.sessions -> Works(c)]
    /\ published \in [c.sessions -> Publications(c) \cup {None}]

(* A state that was recorded tells of the pair it was recorded with, whether    *)
(* its videos are still there or not.                                         *)
Honest(c) ==
    \A s \in c.sessions : work[s].state # None =>
        LET state == work[s].state IN
        Passes(c)!Pair(state.outputs, state.key.manifest, state.key, state.tool)

(* The videos of the session in work are a pair of its recording. *)
Ready(c) == \E by \in c.tools :
    Passes(c)!Pair(work[cur].outputs, found[cur], options, by)

(* What the session in work has behind it. *)
InWork(c) ==
    /\ pc \in InSession => cur \in c.sessions /\ found[cur] # None
    /\ pc \in Copied => \A f \in Passes(c)!Files : snapshot[f] = found[cur]
    /\ pc \in {"right", "record"} =>
           work[cur].outputs["left"] = Passes(c)!Encoding("left")
    /\ pc = "record" => work[cur].outputs["right"] = Passes(c)!Encoding("right")
    /\ pc = "upload" => Ready(c)

IInv(c) == Reads(c) /\ Writes(c) /\ Honest(c) /\ InWork(c) /\ Passes(c)!Faithful

LEMMA PassesFiles ==
    ASSUME NEW c, Passes(c)!PipelineConstants
    PROVE  /\ "manifest" \in Passes(c)!Files
           /\ \A e \in Eyes, r \in {0, 180} : Passes(c)!Source(e, r) \in Passes(c)!Files
           /\ c.versions \subseteq Passes(c)!Bytes
           /\ \A o \in c.options : o.rotation \in {0, 180}
BY DEF Passes!PipelineConstants, Passes!Files, Passes!Media, Passes!Source, Passes!Other,
       Passes!Eyes, Passes!Bytes, Eyes

LEMMA PassesStart ==
    ASSUME NEW c, Passes(c)!PipelineConstants, Passes(c)!Init
    PROVE  IInv(c)
<1>1. PICK v \in c.versions : card = [s \in c.sessions |-> [f \in Passes(c)!Files |-> v]]
  BY DEF Passes!Init
<1>2. /\ tool \in c.tools /\ options \in c.options
      /\ pc = "off" /\ passes = 0 /\ changes = 0
      /\ found = [s \in c.sessions |-> None]
      /\ todo = {} /\ cur = None /\ left = {}
      /\ snapshot = [f \in Passes(c)!Files |-> None]
      /\ outcome = [s \in c.sessions |-> None]
      /\ published = [s \in c.sessions |-> None]
  BY DEF Passes!Init
<1>3. work = [s \in c.sessions |-> [outputs |-> [e \in Eyes |-> None], state |-> None]]
  BY DEF Passes!Init, Passes!Eyes, Eyes
<1>4. c.passes \in Nat /\ c.changes \in Nat
  BY DEF Passes!PipelineConstants
<1>5. card \in [c.sessions -> [Passes(c)!Files -> Passes(c)!Bytes]]
  BY <1>1, PassesFiles
<1>6. Reads(c)
  BY <1>2, <1>4, <1>5 DEF Reads, Steps
<1>7. Writes(c)
  BY <1>2, <1>3 DEF Writes, Works
<1>8. Honest(c)
  BY <1>3 DEF Honest
<1>9. InWork(c)
  BY <1>2 DEF InWork, InSession, Copied
<1>10. Passes(c)!Faithful
  BY <1>2 DEF Passes!Faithful
<1> QED  BY <1>6, <1>7, <1>8, <1>9, <1>10 DEF IInv

(* Steps that write neither the work directory nor the store keep what is true  *)
(* of them.                                                                   *)
LEMMA Unwritten ==
    ASSUME NEW c, IInv(c), work' = work, published' = published
    PROVE  Writes(c)' /\ Honest(c)' /\ Passes(c)!Faithful'
<1> DEFINE Told(s, p) ==
        \E by \in IF s \in c.versioned THEN {p.tool} ELSE c.tools :
            Passes(c)!Pair(p.outputs, p.manifest, p.options, by)
<1>1. Writes(c)' /\ Honest(c)'
  BY DEF IInv, Writes, Honest, Passes!Pair, Passes!Eyes
<1>2. \A s \in c.sessions : published[s] # None => Told(s, published[s])
  BY DEF IInv, Passes!Faithful
<1>3. \A s \in c.sessions : published'[s] # None => Told(s, published'[s])
  <2> HIDE DEF Told
  <2> QED  BY ONLY <1>2, published' = published
<1>4. Passes(c)!Faithful'
  BY ONLY <1>3 DEF Told, Passes!Faithful, Passes!Pair, Passes!Eyes
<1> QED  BY <1>1, <1>4

LEMMA WritesKept ==
    ASSUME NEW c, IInv(c), UNCHANGED <<work, published>>, Reads(c)', InWork(c)'
    PROVE  IInv(c)'
BY Unwritten DEF IInv

LEMMA StartKeeps ==
    ASSUME NEW c, Passes(c)!PipelineConstants, IInv(c),
           NEW o \in c.options, Passes(c)!Start(o)
    PROVE  IInv(c)'
<1>1. /\ passes < c.passes /\ passes' = passes + 1 /\ options' = o /\ pc' = "next"
      /\ todo' = {s \in c.sessions : found'[s] # None}
      /\ outcome' = [s \in c.sessions |-> None]
      /\ cur' = None /\ left' = {}
      /\ card' = card /\ tool' = tool /\ snapshot' = snapshot /\ changes' = changes
      /\ UNCHANGED <<work, published>>
  BY DEF Passes!Start
<1>2. found' \in [c.sessions -> c.versions \cup {None}]
  BY DEF Passes!Start
<1>3. c.passes \in Nat
  BY DEF Passes!PipelineConstants
<1>4. passes' \in 0..c.passes
  BY <1>1, <1>3 DEF IInv, Reads
<1>5. Reads(c)'
  BY <1>1, <1>2, <1>4 DEF IInv, Reads, Steps
<1>6. InWork(c)'
  BY <1>1 DEF InWork, InSession, Copied
<1> QED  BY <1>1, <1>5, <1>6, WritesKept

(* A session ends: its outcome is known and the next one comes. *)
Ends(c) ==
    /\ \E r \in {"ok", "failed", "refused"} : outcome' = [outcome EXCEPT ![cur] = r]
    /\ pc' = "next" /\ left' = left
    /\ UNCHANGED <<card, tool, passes, options, found, todo, cur, changes>>
    /\ snapshot' \in [Passes(c)!Files -> Passes(c)!Bytes \cup {None}]

LEMMA EndsReads == ASSUME NEW c, IInv(c), Ends(c) PROVE Reads(c)' /\ InWork(c)'
<1>1. Reads(c)'
  BY DEF IInv, Reads, Ends, Steps
<1>2. InWork(c)'
  BY DEF InWork, Ends, InSession, Copied
<1> QED  BY <1>1, <1>2

(* A session is read on, or with its last file comes to another step. *)
ReadsOn(c) ==
    /\ pc \in InSession /\ pc' \in InSession \cup {"stranded"} /\ pc' \notin Copied
    /\ left' \subseteq Passes(c)!Files
    /\ UNCHANGED <<card, tool, passes, options, found, todo, cur, changes, outcome>>
    /\ snapshot' \in [Passes(c)!Files -> Passes(c)!Bytes \cup {None}]

LEMMA ReadsOnReads == ASSUME NEW c, IInv(c), ReadsOn(c) PROVE Reads(c)' /\ InWork(c)'
<1>1. Reads(c)'
  BY DEF IInv, Reads, ReadsOn, Steps
<1>2. InWork(c)'
  BY DEF IInv, InWork, ReadsOn, InSession, Copied
<1> QED  BY <1>1, <1>2

LEMMA ProcessKeeps ==
    ASSUME NEW c, IInv(c), NEW s \in c.sessions, Passes(c)!Process(s)
    PROVE  IInv(c)'
<1>1. /\ s \in todo /\ cur' = s /\ todo' = todo \ {s} /\ pc' = "verify"
      /\ left' = Passes(c)!Files
      /\ card' = card /\ tool' = tool /\ passes' = passes /\ options' = options
      /\ found' = found /\ snapshot' = snapshot /\ changes' = changes
      /\ outcome' = outcome /\ UNCHANGED <<work, published>>
  BY DEF Passes!Process, Passes!Pass
<1>2. Reads(c)'
  BY <1>1 DEF IInv, Reads, Steps, InSession
<1>3. InWork(c)'
  BY <1>1 DEF IInv, Reads, InWork, InSession, Copied
<1> QED  BY <1>1, <1>2, <1>3, WritesKept

(* Files are verified and copied. *)
LEMMA VerifyKeeps ==
    ASSUME NEW c, IInv(c), NEW f, Passes(c)!Verify(f)
    PROVE  IInv(c)'
<1>1. /\ pc = "verify" /\ UNCHANGED <<work, published>>
      /\ UNCHANGED <<card, tool, passes, options, found, todo, cur, changes>>
      /\ snapshot' = snapshot
  BY DEF Passes!Verify, Passes!Pass
<1>2. Passes(c)!Read(f, "copy") \/ Passes(c)!Strand \/ Passes(c)!Fail
  BY DEF Passes!Verify
<1>3. Reads(c)
  BY DEF IInv
<1>4. CASE Passes(c)!Fail
  <2>1. Ends(c)
    BY <1>1, <1>3, <1>4 DEF Passes!Fail, Passes!Done, Ends, Reads
  <2> QED  BY <1>1, <2>1, EndsReads, WritesKept
<1>5. CASE Passes(c)!Read(f, "copy") \/ Passes(c)!Strand
  <2>1. outcome' = outcome /\ pc' \in {"verify", "copy", "stranded"}
        /\ left' \subseteq Passes(c)!Files
    BY <1>1, <1>3, <1>5 DEF Passes!Read, Passes!Strand, Reads
  <2>2. ReadsOn(c)
    BY <1>1, <1>3, <2>1 DEF ReadsOn, InSession, Copied, Reads
  <2> QED  BY <1>1, <2>2, ReadsOnReads, WritesKept
<1> QED  BY <1>2, <1>4, <1>5

LEMMA CopyKeeps ==
    ASSUME NEW c, Passes(c)!PipelineConstants, IInv(c), NEW f, Passes(c)!Copy(f)
    PROVE  IInv(c)'
<1>1. /\ pc = "copy" /\ UNCHANGED <<work, published>>
      /\ UNCHANGED <<card, tool, passes, options, found, todo, cur, changes>>
      /\ f \in left /\ snapshot' = [snapshot EXCEPT ![f] = card[cur][f]]
  BY DEF Passes!Copy, Passes!Pass, Passes!Due
<1>2. Reads(c) /\ cur \in c.sessions
  BY <1>1 DEF IInv, InWork, InSession
<1>3. snapshot' \in [Passes(c)!Files -> Passes(c)!Bytes \cup {None}]
  <2>1. f \in Passes(c)!Files /\ card[cur][f] \in Passes(c)!Bytes
    BY <1>1, <1>2 DEF Reads
  <2> QED  BY <1>1, <1>2, <2>1 DEF Reads
<1>4. Passes(c)!Read(f, "again") \/ Passes(c)!Fail
  BY DEF Passes!Copy
<1>5. CASE Passes(c)!Fail
  <2>1. Ends(c)
    BY <1>1, <1>3, <1>5 DEF Passes!Fail, Passes!Done, Ends
  <2> QED  BY <1>1, <2>1, EndsReads, WritesKept
<1>6. CASE Passes(c)!Read(f, "again")
  <2>1. outcome' = outcome /\ pc' \in {"copy", "again"} /\ left' \subseteq Passes(c)!Files
    BY <1>1, <1>2, <1>6 DEF Passes!Read, Reads
  <2>2. ReadsOn(c)
    BY <1>1, <1>3, <2>1 DEF ReadsOn, InSession, Copied
  <2> QED  BY <1>1, <2>2, ReadsOnReads, WritesKept
<1> QED  BY <1>4, <1>5, <1>6

(* From here on the copies are the recording that was found. *)
LEMMA VerifyCopyKeeps ==
    ASSUME NEW c, IInv(c), Passes(c)!VerifyCopy
    PROVE  IInv(c)'
<1>1. /\ pc = "again" /\ UNCHANGED <<work, published>> /\ snapshot' = snapshot
      /\ UNCHANGED <<card, tool, passes, options, found, todo, cur, changes>>
  BY DEF Passes!VerifyCopy, Passes!Pass
<1>2. CASE Passes(c)!Fail
  <2>1. Ends(c)
    BY <1>1, <1>2 DEF Passes!Fail, Passes!Done, Ends, IInv, Reads
  <2> QED  BY <1>1, <2>1, EndsReads, WritesKept
<1>3. CASE ~Passes(c)!Fail
  <2>1. /\ \A f \in Passes(c)!Files : snapshot[f] = found[cur]
        /\ pc' = "normalize" /\ outcome' = outcome /\ left' = left
    BY <1>3 DEF Passes!VerifyCopy
  <2>2. Reads(c)'
    BY <1>1, <2>1 DEF IInv, Reads, Steps, InSession
  <2>3. InWork(c)'
    BY <1>1, <2>1 DEF IInv, InWork, InSession, Copied
  <2> QED  BY <1>1, <2>2, <2>3, WritesKept
<1> QED  BY <1>2, <1>3

(* A state whose key and digests fit tells of such a pair. *)
LEMMA CachedIsPair ==
    ASSUME NEW c, IInv(c), pc \in Copied, Passes(c)!Cached(cur)
    PROVE  /\ work[cur].state.tool \in c.tools
           /\ Passes(c)!Pair(work[cur].outputs, found[cur], options, work[cur].state.tool)
<1>1. cur \in c.sessions
  BY DEF IInv, InWork, Copied, InSession
<1>2. /\ work[cur].state # None /\ work[cur].state.key = Passes(c)!Key(cur)
      /\ work[cur].state.outputs = work[cur].outputs
  BY DEF Passes!Cached, Passes!State
<1>3. work[cur].state.tool \in c.tools
  BY <1>1, <1>2 DEF IInv, Writes, Works, States
<1>4. Passes(c)!Pair(work[cur].outputs, work[cur].state.key.manifest,
                     work[cur].state.key, work[cur].state.tool)
  BY <1>1, <1>2 DEF IInv, Honest
<1> QED  BY <1>2, <1>3, <1>4 DEF Passes!Pair, Passes!Key

LEMMA CachedIsReady ==
    ASSUME NEW c, IInv(c), pc \in Copied, Passes(c)!Cached(cur)
    PROVE  Ready(c)
BY CachedIsPair DEF Ready

LEMMA NormalizeKeeps ==
    ASSUME NEW c, IInv(c), Passes(c)!Normalize
    PROVE  IInv(c)'
<1>1. /\ pc = "normalize" /\ UNCHANGED <<work, published>> /\ snapshot' = snapshot
      /\ UNCHANGED <<card, tool, passes, options, found, todo, cur, changes>>
  BY DEF Passes!Normalize, Passes!Pass
<1>2. \/ \E r \in {"ok", "failed"} : Passes(c)!Done(r) /\ left' = left
      \/ pc' = "upload" /\ Passes(c)!Cached(cur) /\ outcome' = outcome /\ left' = left
      \/ pc' = "left" /\ outcome' = outcome /\ left' = left
  BY DEF Passes!Normalize, Passes!Normalized, Passes!Fail
<1>3. CASE \E r \in {"ok", "failed"} : Passes(c)!Done(r) /\ left' = left
  <2>1. Ends(c)
    BY <1>1, <1>3 DEF Passes!Done, Ends, IInv, Reads
  <2> QED  BY <1>1, <2>1, EndsReads, WritesKept
<1>4. CASE pc' \in {"upload", "left"} /\ outcome' = outcome /\ left' = left
           /\ (pc' = "upload" => Passes(c)!Cached(cur))
  <2>1. Reads(c)'
    BY <1>1, <1>4 DEF IInv, Reads, Steps, InSession
  <2>2. ASSUME Passes(c)!Cached(cur) PROVE Ready(c)'
    <3>1. Ready(c)
      BY <1>1, <2>2, CachedIsReady DEF Copied
    <3> QED  BY <1>1, <3>1 DEF Ready, Passes!Pair, Passes!Eyes
  <2>3. InWork(c)'
    BY <1>1, <1>4, <2>2 DEF IInv, InWork, InSession, Copied
  <2> QED  BY <1>1, <2>1, <2>3, WritesKept
<1> QED  BY <1>2, <1>3, <1>4

(* The card changes, ffmpeg is replaced, a pass is over. *)
LEMMA OutsideKeeps ==
    ASSUME NEW c, Passes(c)!PipelineConstants, IInv(c),
           \/ \E s \in c.sessions, f \in Passes(c)!Files, b \in Passes(c)!Bytes :
                  Passes(c)!CardChanges(s, f, b)
           \/ \E t \in c.tools : Passes(c)!Upgraded(t)
           \/ Passes(c)!Finish
    PROVE  IInv(c)'
<1>1. CASE \E s \in c.sessions, f \in Passes(c)!Files, b \in Passes(c)!Bytes :
               Passes(c)!CardChanges(s, f, b)
  <2>1. PICK s \in c.sessions, f \in Passes(c)!Files, b \in Passes(c)!Bytes :
             Passes(c)!CardChanges(s, f, b)
    BY <1>1
  <2>2. /\ changes < c.changes /\ changes' = changes + 1
        /\ card' = [card EXCEPT ![s][f] = b] /\ UNCHANGED <<work, published>>
        /\ UNCHANGED <<tool, passes, options, found, todo, cur, left, snapshot, pc, outcome>>
    BY <2>1 DEF Passes!CardChanges, Passes!Pass
  <2>3. changes' \in 0..c.changes
    BY <2>2 DEF IInv, Reads, Passes!PipelineConstants
  <2>4. card' \in [c.sessions -> [Passes(c)!Files -> Passes(c)!Bytes]]
    BY <2>2 DEF IInv, Reads
  <2>5. Reads(c)'
    BY <2>2, <2>3, <2>4 DEF IInv, Reads
  <2>6. InWork(c)'
    BY <2>2 DEF IInv, InWork, Ready, Passes!Pair, Passes!Eyes, Passes!Encoding, Passes!Frozen
  <2> QED  BY <2>2, <2>5, <2>6, WritesKept
<1>2. CASE \E t \in c.tools : Passes(c)!Upgraded(t)
  <2>1. /\ pc \notin InSession /\ tool' \in c.tools /\ UNCHANGED <<work, published>>
        /\ UNCHANGED <<card, pc, passes, options, found, todo, cur, left, snapshot,
                       outcome, changes>>
    BY <1>2 DEF Passes!Upgraded, Passes!Running, InSession
  <2>2. Reads(c)'
    BY <2>1 DEF IInv, Reads
  <2>3. InWork(c)'
    BY <2>1 DEF InWork, InSession, Copied
  <2> QED  BY <2>1, <2>2, <2>3, WritesKept
<1>3. CASE Passes(c)!Finish
  <2>1. /\ pc' = "done" /\ UNCHANGED <<work, published>>
        /\ UNCHANGED <<card, tool, passes, options, found, todo, cur, left, snapshot,
                       outcome, changes>>
    BY <1>3 DEF Passes!Finish, Passes!Pass
  <2>2. Reads(c)'
    BY <2>1 DEF IInv, Reads, Steps
  <2>3. InWork(c)'
    BY <2>1 DEF InWork, InSession, Copied
  <2> QED  BY <2>1, <2>2, <2>3, WritesKept
<1> QED  BY <1>1, <1>2, <1>3

-----------------------------------------------------------------------------
(* Steps that write *)

(* What ffmpeg makes of the copies is a video of the recording in work.        *)
LEMMA EncodingIs ==
    ASSUME NEW c, Passes(c)!PipelineConstants, IInv(c), pc \in Copied, NEW e \in Eyes
    PROVE  /\ Passes(c)!Encoding(e) =
                  [eye |-> e, bytes |-> found[cur], rotation |-> options.rotation,
                   preset |-> options.preset, tool |-> tool]
           /\ Passes(c)!Encoding(e) \in Videos(c)
           /\ Passes(c)!Key(cur) \in Keys(c)
           /\ cur \in c.sessions /\ found[cur] \in c.versions
<1>1. cur \in c.sessions /\ found[cur] \in c.versions
  BY DEF IInv, InWork, Reads, Copied, InSession
<1>2. options \in c.options /\ options.rotation \in {0, 180} /\ tool \in c.tools
  BY PassesFiles DEF IInv, Reads
<1>3. snapshot[Passes(c)!Source(e, options.rotation)] = found[cur]
  BY <1>2, PassesFiles DEF IInv, InWork
<1>4. options.preset \in Presets(c)
  BY <1>2 DEF Presets
<1>5. Passes(c)!Encoding(e) =
          [eye |-> e, bytes |-> found[cur], rotation |-> options.rotation,
           preset |-> options.preset, tool |-> tool]
  BY <1>3 DEF Passes!Encoding, Passes!Frozen
<1>6. Passes(c)!Encoding(e) \in Videos(c)
  BY <1>1, <1>2, <1>4, <1>5 DEF Videos
<1>7. Passes(c)!Key(cur) \in Keys(c)
  BY <1>1, <1>2, <1>4 DEF Passes!Key, Keys
<1> QED  BY <1>1, <1>5, <1>6, <1>7

(* Only the videos of the session in work are touched. *)
LEMMA LeavesKeeps ==
    ASSUME NEW c, IInv(c), cur \in c.sessions, NEW e \in Eyes,
           NEW video \in Videos(c) \cup {Partial, None},
           Passes(c)!Leaves(e, video), published' = published
    PROVE  /\ Writes(c)' /\ Honest(c)' /\ Passes(c)!Faithful'
           /\ work'[cur].outputs = [work[cur].outputs EXCEPT ![e] = video]
           /\ work'[cur].outputs[e] = video
           /\ \A d \in Eyes : d # e => work'[cur].outputs[d] = work[cur].outputs[d]
<1>1. work' = [work EXCEPT ![cur].outputs[e] = video] /\ work \in [c.sessions -> Works(c)]
  BY DEF Passes!Leaves, IInv, Writes
<1>2. /\ work[cur] \in Works(c) /\ work[cur].outputs \in [Eyes -> Videos(c) \cup {Partial, None}]
  BY <1>1 DEF Works
<1>3. /\ work'[cur].outputs = [work[cur].outputs EXCEPT ![e] = video]
      /\ work'[cur].state = work[cur].state
      /\ \A s \in c.sessions : s # cur => work'[s] = work[s]
  BY <1>1, <1>2 DEF Works
<1>4. work' \in [c.sessions -> Works(c)]
  <2>1. [work[cur].outputs EXCEPT ![e] = video] \in [Eyes -> Videos(c) \cup {Partial, None}]
    BY <1>2
  <2>2. work' = [work EXCEPT ![cur] = [work[cur] EXCEPT !.outputs =
                                          [work[cur].outputs EXCEPT ![e] = video]]]
    BY <1>1
  <2>3. [work[cur] EXCEPT !.outputs = [work[cur].outputs EXCEPT ![e] = video]] \in Works(c)
    BY <1>2, <2>1 DEF Works
  <2> QED  BY <1>1, <2>2, <2>3
<1>5. Writes(c)'
  BY <1>4 DEF IInv, Writes
<1>6. Honest(c)'
  <2>1. \A s \in c.sessions : work'[s].state = work[s].state
    BY <1>3
  <2> QED  BY <2>1 DEF IInv, Honest, Passes!Pair, Passes!Eyes
<1>7. Passes(c)!Faithful'
  BY DEF IInv, Passes!Faithful, Passes!Pair, Passes!Eyes
<1> QED  BY <1>2, <1>3, <1>5, <1>6, <1>7

LEMMA EncodeKeeps ==
    ASSUME NEW c, Passes(c)!PipelineConstants, IInv(c), NEW e \in Eyes, Passes(c)!Encode(e)
    PROVE  IInv(c)'
<1>1. /\ pc = e /\ Passes(c)!Leaves(e, Passes(c)!Encoding(e))
      /\ pc' = IF e = "left" THEN "right" ELSE "record"
      /\ UNCHANGED <<card, tool, passes, options, found, todo, cur, changes>>
      /\ left' = left /\ snapshot' = snapshot /\ outcome' = outcome
      /\ published' = published
  BY DEF Passes!Encode, Passes!Pass
<1>2. pc \in Copied
  BY <1>1 DEF Eyes, Copied
<1>3. Passes(c)!Encoding(e) \in Videos(c) /\ cur \in c.sessions
  BY <1>2, EncodingIs
<1>4. /\ Writes(c)' /\ Honest(c)' /\ Passes(c)!Faithful'
      /\ work'[cur].outputs[e] = Passes(c)!Encoding(e)
      /\ \A d \in Eyes : d # e => work'[cur].outputs[d] = work[cur].outputs[d]
  BY <1>1, <1>3, LeavesKeeps
<1>5. \A d \in Eyes : Passes(c)!Encoding(d)' = Passes(c)!Encoding(d)
  BY <1>1 DEF Passes!Encoding, Passes!Frozen
<1>6. Reads(c)'
  BY <1>1 DEF IInv, Reads, Steps, InSession
<1>7. CASE e = "left"
  <2>1. pc' = "right" /\ (work[cur].outputs["left"] = Passes(c)!Encoding("left"))'
    BY <1>1, <1>4, <1>5, <1>7 DEF Eyes
  <2>2. InWork(c)'
    BY <1>1, <1>2, <2>1 DEF IInv, InWork, InSession, Copied
  <2> QED  BY <1>4, <1>6, <2>2 DEF IInv
<1>8. CASE e = "right"
  <2>1. work[cur].outputs["left"] = Passes(c)!Encoding("left")
    BY <1>1, <1>8 DEF IInv, InWork
  <2>2. /\ pc' = "record" /\ (work[cur].outputs["left"] = Passes(c)!Encoding("left"))'
        /\ (work[cur].outputs["right"] = Passes(c)!Encoding("right"))'
    BY <1>1, <1>4, <1>5, <1>8, <2>1 DEF Eyes
  <2>3. InWork(c)'
    BY <1>1, <1>2, <2>2 DEF IInv, InWork, InSession, Copied
  <2> QED  BY <1>4, <1>6, <2>3 DEF IInv
<1> QED  BY <1>7, <1>8 DEF Eyes

LEMMA EncodeFailsKeeps ==
    ASSUME NEW c, IInv(c), NEW e \in Eyes, Passes(c)!EncodeFails(e)
    PROVE  IInv(c)'
<1>1. /\ pc = e /\ Passes(c)!Leaves(e, Partial) /\ Passes(c)!Fail
      /\ UNCHANGED <<card, tool, passes, options, found, todo, cur, changes>>
      /\ snapshot' = snapshot /\ published' = published
  BY DEF Passes!EncodeFails, Passes!Pass
<1>2. cur \in c.sessions
  BY <1>1 DEF IInv, InWork, Eyes, InSession
<1>3. Writes(c)' /\ Honest(c)' /\ Passes(c)!Faithful'
  BY <1>1, <1>2, LeavesKeeps
<1>4. Ends(c)
  BY <1>1 DEF Passes!Fail, Passes!Done, Ends, IInv, Reads
<1> QED  BY <1>3, <1>4, EndsReads DEF IInv

LEMMA KilledKeeps ==
    ASSUME NEW c, IInv(c), Passes(c)!Killed
    PROVE  IInv(c)'
<1>1. /\ pc' = "off" /\ todo' = {}
      /\ UNCHANGED <<card, tool, passes, options, found, cur, changes>>
      /\ left' = left /\ snapshot' = snapshot /\ outcome' = outcome
      /\ published' = published
  BY DEF Passes!Killed, Passes!Pass
<1>2. Reads(c)'
  BY <1>1 DEF IInv, Reads, Steps
<1>3. InWork(c)'
  BY <1>1 DEF InWork, InSession, Copied
<1>4. work' = work \/ (pc \in Eyes /\ Passes(c)!Leaves(pc, Partial))
  BY DEF Passes!Killed, Passes!Eyes, Eyes
<1>5. CASE work' = work
  BY <1>1, <1>2, <1>3, <1>5, WritesKept
<1>6. CASE pc \in Eyes /\ Passes(c)!Leaves(pc, Partial)
  <2>1. cur \in c.sessions
    BY <1>6 DEF IInv, InWork, Eyes, InSession
  <2>2. Writes(c)' /\ Honest(c)' /\ Passes(c)!Faithful'
    BY <1>1, <1>6, <2>1, LeavesKeeps
  <2> QED  BY <1>2, <1>3, <2>2 DEF IInv
<1> QED  BY <1>4, <1>5, <1>6

(* The state that is recorded tells of the pair that is there. *)
StateNow(c) == [key |-> Passes(c)!Key(cur), outputs |-> work[cur].outputs,
                arguments |-> Passes(c)!Arguments, tool |-> tool]

LEMMA StateIsTrue ==
    ASSUME NEW c, Passes(c)!PipelineConstants, IInv(c), pc = "record"
    PROVE  /\ cur \in c.sessions /\ tool \in c.tools
           /\ StateNow(c) \in States(c)
           /\ StateNow(c).key = Passes(c)!Key(cur)
           /\ StateNow(c).outputs = work[cur].outputs
           /\ StateNow(c).arguments = Passes(c)!Arguments
           /\ Passes(c)!Pair(work[cur].outputs, found[cur], options, tool)
           /\ Passes(c)!Pair(StateNow(c).outputs, StateNow(c).key.manifest,
                             StateNow(c).key, StateNow(c).tool)
<1>0. pc \in Copied /\ "left" \in Eyes
  BY DEF Copied, Eyes
<1>1. /\ work \in [c.sessions -> Works(c)] /\ tool \in c.tools
      /\ Passes(c)!Arguments \in Nat
  BY DEF IInv, Writes, Reads, Passes!Arguments
<1>2. /\ cur \in c.sessions /\ Passes(c)!Key(cur) \in Keys(c)
      /\ \A e \in Eyes : /\ Passes(c)!Encoding(e) \in Videos(c)
                         /\ Passes(c)!Encoding(e) =
                                [eye |-> e, bytes |-> found[cur],
                                 rotation |-> options.rotation,
                                 preset |-> options.preset, tool |-> tool]
  BY <1>0, EncodingIs
<1>3. \A e \in Eyes : work[cur].outputs[e] = Passes(c)!Encoding(e)
  BY DEF IInv, InWork, Eyes
<1>4. work[cur].outputs \in [Eyes -> Videos(c) \cup {Partial, None}]
  BY <1>1, <1>2 DEF Works
<1>5. work[cur].outputs = [e \in Eyes |->
          [eye |-> e, bytes |-> found[cur], rotation |-> options.rotation,
           preset |-> options.preset, tool |-> tool]]
  BY <1>2, <1>3, <1>4
<1>6. work[cur].outputs \in [Eyes -> Videos(c)]
  BY <1>2, <1>3, <1>4
<1>7. StateNow(c) \in States(c)
  BY <1>1, <1>2, <1>6 DEF StateNow, States
<1>8. /\ StateNow(c).key = Passes(c)!Key(cur)
      /\ StateNow(c).outputs = work[cur].outputs
      /\ StateNow(c).arguments = Passes(c)!Arguments
      /\ StateNow(c).tool = tool
  BY DEF StateNow
<1>9. Passes(c)!Pair(work[cur].outputs, found[cur], options, tool)
  BY <1>5 DEF Passes!Pair, Passes!Eyes, Eyes
<1>10. Passes(c)!Pair(StateNow(c).outputs, StateNow(c).key.manifest,
                      StateNow(c).key, StateNow(c).tool)
  BY <1>8, <1>9 DEF Passes!Pair, Passes!Key
<1> QED  BY <1>1, <1>2, <1>7, <1>8, <1>9, <1>10

(* A state is recorded of a pair that is whole. *)
LEMMA RecordedKeeps ==
    ASSUME NEW c, Passes(c)!PipelineConstants, IInv(c), pc = "record",
           Passes(c)!Recorded, UNCHANGED <<published, found, options, cur>>
    PROVE  Writes(c)' /\ Honest(c)' /\ Passes(c)!Faithful' /\ Ready(c)'
<1> DEFINE state == StateNow(c)
<1>1. /\ work' = [work EXCEPT ![cur].state = state] /\ work \in [c.sessions -> Works(c)]
      /\ tool \in c.tools
  BY DEF Passes!Recorded, StateNow, IInv, Writes, Reads
<1>2. cur \in c.sessions /\ state \in States(c)
  BY StateIsTrue
<1>4. /\ work[cur] \in Works(c) /\ work[cur].outputs \in [Eyes -> Videos(c) \cup {Partial, None}]
  BY <1>1, <1>2 DEF Works
<1>5. Passes(c)!Pair(work[cur].outputs, found[cur], options, tool)
  BY StateIsTrue
<1>9. Passes(c)!Pair(state.outputs, state.key.manifest, state.key, state.tool)
  BY StateIsTrue
<1> HIDE DEF state
<1>11. work' = [work EXCEPT ![cur] = [work[cur] EXCEPT !.state = state]]
  BY <1>1
<1>12. [work[cur] EXCEPT !.state = state] \in Works(c)
  BY <1>2, <1>4 DEF Works
<1>13. /\ work' \in [c.sessions -> Works(c)]
       /\ work'[cur].state = state /\ work'[cur].outputs = work[cur].outputs
       /\ \A s \in c.sessions : s # cur => work'[s] = work[s]
  BY <1>1, <1>2, <1>4, <1>11, <1>12 DEF Works
<1>14. Writes(c)'
  BY <1>13 DEF IInv, Writes
<1>15. Honest(c)'
  <2>1. ASSUME NEW s \in c.sessions, work'[s].state # None
        PROVE  LET st == work'[s].state IN
               Passes(c)!Pair(st.outputs, st.key.manifest, st.key, st.tool)
    <3>1. CASE s = cur
      BY <1>9, <1>13, <3>1 DEF Passes!Pair, Passes!Eyes
    <3>2. CASE s # cur
      BY <1>13, <2>1, <3>2 DEF IInv, Honest
    <3> QED  BY <3>1, <3>2
  <2> QED  BY <2>1 DEF Honest, Passes!Pair, Passes!Eyes
<1>16. Passes(c)!Faithful'
  BY DEF IInv, Passes!Faithful, Passes!Pair, Passes!Eyes
<1>17. Ready(c)'
  <2>1. Passes(c)!Pair(work'[cur].outputs, found[cur], options, tool)
    BY <1>5, <1>13 DEF Passes!Pair, Passes!Eyes, Eyes
  <2> QED  BY <1>1, <2>1 DEF Ready, Passes!Pair
<1> QED  BY <1>14, <1>15, <1>16, <1>17

LEMMA RecordKeeps ==
    ASSUME NEW c, Passes(c)!PipelineConstants, IInv(c),
           Passes(c)!Record \/ Passes(c)!RecordFails
    PROVE  IInv(c)'
<1>1. /\ pc = "record" /\ snapshot' = snapshot /\ published' = published
      /\ UNCHANGED <<card, tool, passes, options, found, todo, cur, changes>>
  BY DEF Passes!Record, Passes!RecordFails, Passes!Pass
<1>2. work' = work \/ Passes(c)!Recorded
  BY DEF Passes!Record, Passes!RecordFails
<1>3. Passes(c)!Recorded => Ready(c)'
  BY <1>1, RecordedKeeps
<1>4. Writes(c)' /\ Honest(c)' /\ Passes(c)!Faithful'
  <2>1. CASE Passes(c)!Recorded
    BY <1>1, <2>1, RecordedKeeps
  <2>2. CASE work' = work
    BY <1>1, <2>2, Unwritten
  <2> QED  BY <1>2, <2>1, <2>2
<1>5. \/ \E r \in {"ok", "failed"} : Passes(c)!Done(r) /\ left' = left
      \/ pc' = "upload" /\ Passes(c)!Recorded /\ outcome' = outcome /\ left' = left
  BY DEF Passes!Record, Passes!RecordFails, Passes!Normalized, Passes!Fail
<1>6. CASE \E r \in {"ok", "failed"} : Passes(c)!Done(r) /\ left' = left
  <2>1. Ends(c)
    BY <1>1, <1>6 DEF Passes!Done, Ends, IInv, Reads
  <2> QED  BY <1>4, <2>1, EndsReads DEF IInv
<1>7. CASE pc' = "upload" /\ Passes(c)!Recorded /\ outcome' = outcome /\ left' = left
  <2>1. Reads(c)'
    BY <1>1, <1>7 DEF IInv, Reads, Steps, InSession
  <2>2. InWork(c)'
    BY <1>1, <1>3, <1>7 DEF IInv, InWork, InSession, Copied
  <2> QED  BY <1>4, <2>1, <2>2 DEF IInv
<1> QED  BY <1>5, <1>6, <1>7

(* What is published is the pair that is there, by the ffmpeg that is told.    *)
LEMMA UploadKeeps ==
    ASSUME NEW c, Passes(c)!PipelineConstants, IInv(c),
           Passes(c)!Upload \/ Passes(c)!UploadFails
    PROVE  IInv(c)'
<1>1. /\ pc = "upload" /\ snapshot' = snapshot /\ work' = work
      /\ UNCHANGED <<card, tool, passes, options, found, todo, cur, changes>>
  BY DEF Passes!Upload, Passes!UploadFails, Passes!Pass
<1>2. \E r \in {"ok", "failed", "refused"} : Passes(c)!Done(r) /\ left' = left
  BY DEF Passes!Upload, Passes!UploadFails, Passes!Fail
<1>3. Ends(c)
  BY <1>1, <1>2 DEF Passes!Done, Ends, IInv, Reads
<1>4. CASE published' = published
  BY <1>1, <1>3, <1>4, EndsReads, WritesKept
<1>5. CASE /\ Passes(c)!Publishable(cur)
           /\ published' = [published EXCEPT ![cur] = Passes(c)!Publication]
  <2> DEFINE p == Passes(c)!Publication
  <2>0. pc \in Copied
    BY <1>1 DEF Copied
  <2>1. /\ cur \in c.sessions /\ options \in c.options /\ tool \in c.tools
        /\ found[cur] \in c.versions
    BY <1>1 DEF IInv, Reads, InWork, InSession
  <2>2. PICK by \in c.tools :
           /\ Passes(c)!Pair(work[cur].outputs, found[cur], options, by)
           /\ cur \in c.versioned => by = tool
    <3>1. CASE cur \in c.versioned
      <4>1. Passes(c)!Cached(cur) /\ work[cur].state.tool = tool
        BY <1>5, <3>1 DEF Passes!Publishable, Passes!State
      <4> QED  BY <2>0, <4>1, CachedIsPair
    <3>2. CASE cur \notin c.versioned
      BY <1>1, <3>2 DEF IInv, InWork, Ready
    <3> QED  BY <3>1, <3>2
  <2>3. /\ p.manifest = found[cur] /\ p.options = options /\ p.tool = tool
        /\ p.outputs = work[cur].outputs
    BY DEF Passes!Publication
  <2>4. p.outputs \in [Eyes -> Videos(c)]
    <3>1. p.outputs = [e \in Eyes |->
              [eye |-> e, bytes |-> found[cur], rotation |-> options.rotation,
               preset |-> options.preset, tool |-> by]]
      BY <2>2, <2>3 DEF Passes!Pair, Passes!Eyes, Eyes
    <3>2. options.preset \in Presets(c)
      BY <2>1 DEF Presets
    <3>3. ASSUME NEW e \in Eyes
          PROVE  [eye |-> e, bytes |-> found[cur], rotation |-> options.rotation,
                  preset |-> options.preset, tool |-> by] \in Videos(c)
      <4>1. options.rotation \in {0, 180}
        BY <2>1, PassesFiles
      <4> QED  BY <2>1, <3>2, <4>1 DEF Videos
    <3> QED  BY <3>1, <3>3
  <2>5. p \in Publications(c)
    BY <2>1, <2>4 DEF Passes!Publication, Publications
  <2>6. published \in [c.sessions -> Publications(c) \cup {None}]
    BY DEF IInv, Writes
  <2> HIDE DEF p
  <2>7. /\ published' \in [c.sessions -> Publications(c) \cup {None}]
        /\ published'[cur] = p
        /\ \A s \in c.sessions : s # cur => published'[s] = published[s]
    BY <1>5, <2>1, <2>5, <2>6 DEF p
  <2>8. Writes(c)' /\ Honest(c)'
    BY <1>1, <2>7 DEF IInv, Writes, Honest, Passes!Pair, Passes!Eyes
  <2>9. Passes(c)!Faithful'
    <3> SUFFICES ASSUME NEW s \in c.sessions, published'[s] # None
                 PROVE  \E t \in IF s \in c.versioned THEN {published'[s].tool} ELSE c.tools :
                          Passes(c)!Pair(published'[s].outputs, published'[s].manifest,
                                         published'[s].options, t)
      BY DEF Passes!Faithful, Passes!Pair, Passes!Eyes
    <3>1. CASE s = cur
      BY <2>2, <2>3, <2>7, <3>1
    <3>2. CASE s # cur
      BY <2>7, <3>2 DEF IInv, Passes!Faithful
    <3> QED  BY <3>1, <3>2
  <2> QED  BY <1>3, <2>8, <2>9, EndsReads DEF IInv
<1>6. \/ published' = published
      \/ /\ Passes(c)!Publishable(cur)
         /\ published' = [published EXCEPT ![cur] = Passes(c)!Publication]
  BY DEF Passes!Upload, Passes!UploadFails
<1> QED  BY <1>4, <1>5, <1>6

LEMMA PassesKeep ==
    ASSUME NEW c, Passes(c)!PipelineConstants, IInv(c), Passes(c)!Next
    PROVE  IInv(c)'
<1>1. ASSUME NEW o \in c.options, Passes(c)!Start(o) PROVE IInv(c)'
  BY <1>1, StartKeeps
<1>2. ASSUME NEW s \in c.sessions, Passes(c)!Process(s) PROVE IInv(c)'
  BY <1>2, ProcessKeeps
<1>3. ASSUME NEW f \in Passes(c)!Files, Passes(c)!Verify(f) \/ Passes(c)!Copy(f)
      PROVE  IInv(c)'
  BY <1>3, VerifyKeeps, CopyKeeps
<1>4. ASSUME NEW e \in Eyes, Passes(c)!Encode(e) \/ Passes(c)!EncodeFails(e)
      PROVE  IInv(c)'
  BY <1>4, EncodeKeeps, EncodeFailsKeeps
<1>5. CASE Passes(c)!VerifyCopy \/ Passes(c)!Normalize
  BY <1>5, VerifyCopyKeeps, NormalizeKeeps
<1>6. CASE Passes(c)!Record \/ Passes(c)!RecordFails
  BY <1>6, RecordKeeps
<1>7. CASE Passes(c)!Upload \/ Passes(c)!UploadFails
  BY <1>7, UploadKeeps
<1>8. CASE Passes(c)!Killed
  BY <1>8, KilledKeeps
<1>9. CASE \/ \E s \in c.sessions, f \in Passes(c)!Files, b \in Passes(c)!Bytes :
                  Passes(c)!CardChanges(s, f, b)
           \/ \E t \in c.tools : Passes(c)!Upgraded(t)
           \/ Passes(c)!Finish
  BY <1>9, OutsideKeeps
<1> QED
  BY <1>1, <1>2, <1>3, <1>4, <1>5, <1>6, <1>7, <1>8, <1>9
  DEF Passes!Next, Passes!Eyes, Eyes

LEMMA PassesStutter ==
    ASSUME NEW c, IInv(c), UNCHANGED passVars
    PROVE  IInv(c)'
<1>1. /\ UNCHANGED <<card, tool, pc, passes, options, found, todo, cur, left, snapshot,
                     outcome, changes>>
      /\ work' = work /\ published' = published
  BY DEF passVars
<1>2. Reads(c)'
  BY <1>1 DEF IInv, Reads
<1>3. InWork(c)'
  BY <1>1 DEF IInv, InWork, Ready, Passes!Pair, Passes!Eyes, Passes!Encoding, Passes!Frozen
<1> QED  BY <1>1, <1>2, <1>3, WritesKept

LEMMA StatesAre ==
    ASSUME NEW c
    PROVE  Passes(c)!States = States(c) /\ Passes(c)!Videos = Videos(c)
<1>1. Passes(c)!Eyes = Eyes /\ Passes(c)!Presets = Presets(c)
  BY DEF Passes!Eyes, Eyes, Passes!Presets, Presets
<1>2. Passes(c)!Videos = Videos(c)
  BY <1>1 DEF Passes!Videos, Videos
<1> QED  BY <1>1, <1>2 DEF Passes!States, States, Keys

(* The invariant says what the run checks. *)
LEMMA IInvFaithful ==
    ASSUME NEW c, Passes(c)!PipelineConstants, IInv(c)
    PROVE  Passes(c)!TypeOK /\ Passes(c)!CacheSound /\ Passes(c)!Faithful
<1>1. Passes(c)!Videos = Videos(c) /\ Passes(c)!States = States(c)
  BY StatesAre
<1>2. Passes(c)!TypeOK
  <2>1. \A s \in c.sessions :
          /\ work[s].outputs \in [Eyes -> Videos(c) \cup {Partial, None}]
          /\ work[s].state # None => work[s].state \in States(c)
          /\ published[s] # None => published[s].outputs \in [Eyes -> Videos(c)]
    BY DEF IInv, Writes, Works, States, Publications
  <2>2. pc \in Eyes \cup {"off", "next", "verify", "copy", "again", "normalize",
                          "record", "upload", "done", "stranded"}
    BY DEF IInv, Reads, Steps, InSession, Eyes
  <2>3. Passes(c)!Eyes = Eyes
    BY DEF Passes!Eyes, Eyes
  <2> QED  BY <1>1, <2>1, <2>2, <2>3
           DEF Passes!TypeOK, Passes!State, Passes!Results, IInv, Reads
<1>3. Passes(c)!CacheSound
  BY DEF IInv, Honest, Passes!CacheSound, Passes!State, Passes!Pair, Passes!Eyes
<1> QED  BY <1>2, <1>3 DEF IInv

(* For any card, any options, any number of sessions, passes and changes of the *)
(* card, whatever is killed or fails (main.py, process, normalize, upload): a   *)
(* state whose digests match is of a pair made from the recording and with the  *)
(* options of its key, and what is published is such a pair.                  *)
THEOREM PassesFaithful ==
    ASSUME NEW c, Passes(c)!PipelineConstants
    PROVE  Passes(c)!Spec =>
               [](Passes(c)!TypeOK /\ Passes(c)!CacheSound /\ Passes(c)!Faithful)
<1>1. Passes(c)!Init => IInv(c)
  BY PassesStart
<1>2. IInv(c) /\ [Passes(c)!Next]_(Passes(c)!vars) => IInv(c)'
  <2>1. UNCHANGED Passes(c)!vars => UNCHANGED passVars
    BY DEF Passes!vars, passVars
  <2> QED  BY <2>1, PassesKeep, PassesStutter
<1>3. IInv(c) => Passes(c)!TypeOK /\ Passes(c)!CacheSound /\ Passes(c)!Faithful
  BY IInvFaithful
<1> QED  BY <1>1, <1>2, <1>3, PTL DEF Passes!Spec

(* The two configurations of the run, and the readers that leave them alone.    *)
Working == IF job = "wide" THEN IInv(Wide) ELSE IInv(Long)

THEOREM MainFaithful == Spec => []Faithful
<1>0. Passes(Long)!PipelineConstants /\ Passes(Wide)!PipelineConstants
  BY MCMainAssumption
<1>1. Init => Working
  BY <1>0, PassesStart DEF Init, Working
<1>2. Working /\ [Next]_vars => Working'
  <2> SUFFICES ASSUME Working, [Next]_vars PROVE Working'
    OBVIOUS
  <2>1. job' = job
    BY DEF Next, ReadStrictly, ReadTolerantly, vars
  <2>2. \/ job = "long" /\ Passes(Long)!Next
        \/ job = "wide" /\ Passes(Wide)!Next
        \/ UNCHANGED passVars
    BY DEF Next, ReadStrictly, ReadTolerantly, vars
  <2>3. CASE job = "long" /\ Passes(Long)!Next
    <3>1. IInv(Long)'
      BY <1>0, <2>3, PassesKeep DEF Working
    <3> QED  BY <2>1, <2>3, <3>1 DEF Working
  <2>4. CASE job = "wide" /\ Passes(Wide)!Next
    <3>1. IInv(Wide)'
      BY <1>0, <2>4, PassesKeep DEF Working
    <3> QED  BY <2>1, <2>4, <3>1 DEF Working
  <2>5. CASE UNCHANGED passVars
    <3>1. (IInv(Long) => IInv(Long)') /\ (IInv(Wide) => IInv(Wide)')
      BY <2>5, PassesStutter
    <3> QED  BY <2>1, <3>1 DEF Working
  <2> QED  BY <2>2, <2>3, <2>4, <2>5
<1>3. Working => Faithful
  BY <1>0, IInvFaithful DEF Working, Faithful
<1> QED  BY <1>1, <1>2, <1>3, PTL DEF Spec

-----------------------------------------------------------------------------
(* Every session is answered *)

(* A session that was found is answered, waits, or is the one in work. *)
Accounted(c) ==
    /\ pc \in InSession \cup {"next", "done"} =>
           \A s \in c.sessions : found[s] # None =>
               outcome[s] # None \/ s \in todo \/ (pc \in InSession /\ s = cur)
    /\ pc = "done" => todo = {}

(* What a step does with the session in work. *)
Answers ==
    /\ pc \in InSession /\ pc' = "next"
    /\ \E r \in {"ok", "failed", "refused"} : outcome' = [outcome EXCEPT ![cur] = r]
    /\ UNCHANGED <<found, todo, cur>>
GoesOn ==
    /\ pc \in InSession /\ pc' \in InSession \cup {"stranded"}
    /\ UNCHANGED <<found, todo, cur, outcome>>
Aside ==
    \/ pc' \in {"off", "stranded"}
    \/ UNCHANGED <<pc, found, todo, cur, outcome>>

LEMMA AnswerOrGoOn ==
    ASSUME NEW c, Passes(c)!Next
    PROVE  \/ \E o \in c.options : Passes(c)!Start(o)
           \/ \E s \in c.sessions : Passes(c)!Process(s)
           \/ Passes(c)!Finish
           \/ Answers \/ GoesOn \/ Aside
<1>1. ASSUME NEW f \in Passes(c)!Files, Passes(c)!Verify(f) PROVE Answers \/ GoesOn
  <2>1. pc = "verify" /\ UNCHANGED <<found, todo, cur>>
    BY <1>1 DEF Passes!Verify, Passes!Pass
  <2>2. Passes(c)!Fail => Answers
    BY <2>1 DEF Passes!Fail, Passes!Done, Answers, InSession
  <2>3. Passes(c)!Read(f, "copy") \/ Passes(c)!Strand => GoesOn
    BY <2>1 DEF Passes!Read, Passes!Strand, GoesOn, InSession
  <2> QED  BY <1>1, <2>2, <2>3 DEF Passes!Verify
<1>2. ASSUME NEW f \in Passes(c)!Files, Passes(c)!Copy(f) PROVE Answers \/ GoesOn
  <2>1. pc = "copy" /\ UNCHANGED <<found, todo, cur>>
    BY <1>2 DEF Passes!Copy, Passes!Pass
  <2>2. Passes(c)!Fail => Answers
    BY <2>1 DEF Passes!Fail, Passes!Done, Answers, InSession
  <2>3. Passes(c)!Read(f, "again") => GoesOn
    BY <2>1 DEF Passes!Read, GoesOn, InSession
  <2> QED  BY <1>2, <2>2, <2>3 DEF Passes!Copy
<1>3. CASE Passes(c)!VerifyCopy
  BY <1>3 DEF Passes!VerifyCopy, Passes!Fail, Passes!Done, Passes!Pass, Answers, GoesOn,
              InSession
<1>4. CASE Passes(c)!Normalize
  BY <1>4 DEF Passes!Normalize, Passes!Normalized, Passes!Fail, Passes!Done, Passes!Pass,
              Answers, GoesOn, InSession
<1>5. CASE Passes(c)!Record
  BY <1>5 DEF Passes!Record, Passes!Normalized, Passes!Done, Passes!Pass, Answers, GoesOn,
              InSession
<1>6. CASE Passes(c)!RecordFails
  BY <1>6 DEF Passes!RecordFails, Passes!Fail, Passes!Done, Passes!Pass, Answers, InSession
<1>7. ASSUME NEW e \in Eyes, Passes(c)!Encode(e) PROVE GoesOn
  BY <1>7 DEF Passes!Encode, Passes!Pass, GoesOn, InSession, Eyes
<1>8. ASSUME NEW e \in Eyes, Passes(c)!EncodeFails(e) PROVE Answers
  BY <1>8 DEF Passes!EncodeFails, Passes!Fail, Passes!Done, Passes!Pass, Answers, InSession,
              Eyes
<1>9. CASE Passes(c)!Upload \/ Passes(c)!UploadFails
  BY <1>9 DEF Passes!Upload, Passes!UploadFails, Passes!Fail, Passes!Done, Passes!Pass,
              Answers, InSession
<1>10. CASE Passes(c)!Killed
  BY <1>10 DEF Passes!Killed, Aside
<1>11. ASSUME NEW s, NEW f, NEW b, Passes(c)!CardChanges(s, f, b) PROVE Aside
  BY <1>11 DEF Passes!CardChanges, Passes!Pass, Aside
<1>12. ASSUME NEW t, Passes(c)!Upgraded(t) PROVE Aside
  BY <1>12 DEF Passes!Upgraded, Aside
<1> QED
  BY <1>1, <1>2, <1>3, <1>4, <1>5, <1>6, <1>7, <1>8, <1>9, <1>10, <1>11, <1>12
  DEF Passes!Next, Passes!Eyes, Eyes

LEMMA AccountedKept ==
    ASSUME NEW c, Passes(c)!PipelineConstants, IInv(c), Accounted(c), Passes(c)!Next
    PROVE  Accounted(c)'
<1>0. Reads(c)
  BY DEF IInv
<1>1. ASSUME NEW o \in c.options, Passes(c)!Start(o) PROVE Accounted(c)'
  BY <1>1 DEF Passes!Start, Accounted, InSession
<1>2. ASSUME NEW s \in c.sessions, Passes(c)!Process(s) PROVE Accounted(c)'
  BY <1>2 DEF Passes!Process, Passes!Pass, Accounted, InSession
<1>3. CASE Passes(c)!Finish
  BY <1>3 DEF Passes!Finish, Passes!Pass, Accounted, InSession
<1>4. CASE Answers
  <2>1. PICK r \in {"ok", "failed", "refused"} : outcome' = [outcome EXCEPT ![cur] = r]
    BY <1>4 DEF Answers
  <2>2. cur \in c.sessions
    BY <1>4 DEF Answers, IInv, InWork
  <2>3. /\ pc' = "next" /\ found' = found /\ todo' = todo
        /\ \A s \in c.sessions : found[s] # None =>
               outcome[s] # None \/ s \in todo \/ s = cur
    BY <1>4 DEF Answers, Accounted
  <2>4. /\ outcome'[cur] = r
        /\ \A s \in c.sessions : s # cur => outcome'[s] = outcome[s]
    BY <1>0, <2>1, <2>2 DEF Reads
  <2>5. r # None
    BY DEF Passes!PipelineConstants, Passes!Results
  <2> QED  BY <2>3, <2>4, <2>5 DEF Accounted
<1>5. CASE GoesOn
  BY <1>5 DEF GoesOn, Accounted, InSession
<1>6. CASE Aside
  BY <1>6 DEF Aside, Accounted, InSession
<1> QED  BY <1>1, <1>2, <1>3, <1>4, <1>5, <1>6, AnswerOrGoOn

(* What is uploaded is told by the state. *)
Matched(c) == pc = "upload" => Passes(c)!Cached(cur)

LEMMA BeforeUpload ==
    ASSUME NEW c, Passes(c)!Next, pc' = "upload"
    PROVE  /\ UNCHANGED <<found, options, cur>>
           /\ \/ pc = "upload" /\ work' = work
              \/ pc = "normalize" /\ work' = work /\ Passes(c)!Cached(cur)
              \/ pc = "record" /\ Passes(c)!Recorded /\ tool' = tool
<1>1. CASE Passes(c)!Normalize
  BY <1>1 DEF Passes!Normalize, Passes!Normalized, Passes!Fail, Passes!Done, Passes!Pass
<1>2. CASE Passes(c)!Record
  BY <1>2 DEF Passes!Record, Passes!Pass
<1>3. ASSUME NEW s, NEW f, NEW b, Passes(c)!CardChanges(s, f, b)
      PROVE  UNCHANGED <<found, options, cur, pc>> /\ work' = work
  BY <1>3 DEF Passes!CardChanges, Passes!Pass
<1>4. ASSUME NEW f, Passes(c)!Verify(f) \/ Passes(c)!Copy(f) PROVE FALSE
  BY <1>4 DEF Passes!Verify, Passes!Copy, Passes!Read, Passes!Fail, Passes!Strand, Passes!Done
<1>5. ASSUME NEW e, Passes(c)!Encode(e) \/ Passes(c)!EncodeFails(e) PROVE FALSE
  BY <1>5 DEF Passes!Encode, Passes!EncodeFails, Passes!Fail, Passes!Done
<1>6. CASE \/ Passes(c)!VerifyCopy \/ Passes(c)!RecordFails \/ Passes(c)!Upload
           \/ Passes(c)!UploadFails \/ Passes(c)!Finish \/ Passes(c)!Killed
  BY <1>6 DEF Passes!VerifyCopy, Passes!RecordFails, Passes!Upload, Passes!UploadFails,
              Passes!Finish, Passes!Killed, Passes!Fail, Passes!Done
<1>7. ASSUME NEW s, Passes(c)!Process(s) \/ Passes(c)!Start(s) PROVE FALSE
  BY <1>7 DEF Passes!Process, Passes!Start
<1>8. ASSUME NEW t, Passes(c)!Upgraded(t) PROVE FALSE
  BY <1>8 DEF Passes!Upgraded, Passes!Running
<1> QED
  BY <1>1, <1>2, <1>3, <1>4, <1>5, <1>6, <1>7, <1>8 DEF Passes!Next

LEMMA MatchedKept ==
    ASSUME NEW c, Passes(c)!PipelineConstants, IInv(c), Matched(c), Passes(c)!Next
    PROVE  Matched(c)'
<1> SUFFICES ASSUME pc' = "upload" PROVE Passes(c)!Cached(cur)'
  BY DEF Matched
<1>1. found' = found /\ options' = options /\ cur' = cur
  BY BeforeUpload
<1>2. CASE work' = work /\ Passes(c)!Cached(cur)
  BY <1>1, <1>2 DEF Passes!Cached, Passes!State, Passes!Key
<1>3. CASE pc = "record" /\ Passes(c)!Recorded
  <2> DEFINE state == StateNow(c)
  <2>1. cur \in c.sessions /\ work \in [c.sessions -> Works(c)]
    BY <1>3 DEF IInv, InWork, InSession, Writes
  <2>2. work' = [work EXCEPT ![cur].state = state]
    BY <1>3 DEF Passes!Recorded, StateNow
  <2>3. /\ state \in States(c) /\ state.key = Passes(c)!Key(cur)
        /\ state.outputs = work[cur].outputs
    BY <1>3, StateIsTrue
  <2> HIDE DEF state
  <2>4. state # None
    BY <2>3, StatesAre DEF Passes!PipelineConstants
  <2>5. work'[cur].state = state /\ work'[cur].outputs = work[cur].outputs
    BY <2>1, <2>2 DEF Works
  <2>6. Passes(c)!Key(cur)' = Passes(c)!Key(cur)
    BY <1>1 DEF Passes!Key
  <2> QED  BY <1>1, <2>3, <2>4, <2>5, <2>6 DEF Passes!Cached, Passes!State
<1> QED  BY <1>2, <1>3, BeforeUpload DEF Matched

(* With segments that are named through one listing, every state was recorded   *)
(* with the same arguments, and then only turned cameras are refused.         *)
Unrefused(c) ==
    /\ \A s \in c.sessions : work[s].state # None => work[s].state.arguments = 0
    /\ \A s \in c.sessions : outcome[s] = "refused" => ~Passes(c)!Uncrossed

(* The three ways a step writes into the work directory. *)
LEMMA WorkWritten ==
    ASSUME NEW c, Passes(c)!Next
    PROVE  \/ work' = work
           \/ \E e \in Eyes : \E video : pc \in Eyes /\ Passes(c)!Leaves(e, video)
           \/ pc = "record" /\ Passes(c)!Recorded
<1>1. ASSUME NEW e \in Eyes, Passes(c)!Encode(e) \/ Passes(c)!EncodeFails(e)
      PROVE  \E video : pc \in Eyes /\ Passes(c)!Leaves(e, video)
  BY <1>1 DEF Passes!Encode, Passes!EncodeFails
<1>2. CASE Passes(c)!Record \/ Passes(c)!RecordFails
  BY <1>2 DEF Passes!Record, Passes!RecordFails
<1>3. CASE Passes(c)!Killed
  BY <1>3 DEF Passes!Killed, Passes!Eyes, Eyes
<1>4. ASSUME NEW f, Passes(c)!Verify(f) \/ Passes(c)!Copy(f) PROVE work' = work
  BY <1>4 DEF Passes!Verify, Passes!Copy
<1>5. CASE \/ Passes(c)!VerifyCopy \/ Passes(c)!Normalize \/ Passes(c)!Upload
           \/ Passes(c)!UploadFails \/ Passes(c)!Finish
  BY <1>5 DEF Passes!VerifyCopy, Passes!Normalize, Passes!Upload, Passes!UploadFails,
              Passes!Finish
<1>6. ASSUME NEW s, \/ Passes(c)!Process(s) \/ Passes(c)!Start(s) \/ Passes(c)!Upgraded(s)
      PROVE  work' = work
  BY <1>6 DEF Passes!Process, Passes!Start, Passes!Upgraded
<1>7. ASSUME NEW s, NEW f, NEW b, Passes(c)!CardChanges(s, f, b) PROVE work' = work
  BY <1>7 DEF Passes!CardChanges
<1> QED
  BY <1>1, <1>2, <1>3, <1>4, <1>5, <1>6, <1>7 DEF Passes!Next, Passes!Eyes, Eyes

LEMMA OutcomeSet ==
    ASSUME NEW c, Passes(c)!Next
    PROVE  \/ outcome' = [s \in c.sessions |-> None]
           \/ /\ options' = options
              /\ \/ outcome' = outcome
                 \/ \E r \in {"ok", "failed"} : outcome' = [outcome EXCEPT ![cur] = r]
                 \/ /\ pc = "upload" /\ ~Passes(c)!Publishable(cur)
                    /\ outcome' = [outcome EXCEPT ![cur] = "refused"]
<1>1. ASSUME NEW f, Passes(c)!Verify(f) \/ Passes(c)!Copy(f)
      PROVE  /\ options' = options
             /\ outcome' = outcome \/ outcome' = [outcome EXCEPT ![cur] = "failed"]
  BY <1>1 DEF Passes!Verify, Passes!Copy, Passes!Read, Passes!Fail, Passes!Strand, Passes!Done,
              Passes!Pass
<1>2. ASSUME NEW e, Passes(c)!Encode(e) \/ Passes(c)!EncodeFails(e)
      PROVE  /\ options' = options
             /\ outcome' = outcome \/ outcome' = [outcome EXCEPT ![cur] = "failed"]
  BY <1>2 DEF Passes!Encode, Passes!EncodeFails, Passes!Fail, Passes!Done, Passes!Pass
<1>3. CASE Passes(c)!VerifyCopy \/ Passes(c)!RecordFails \/ Passes(c)!UploadFails
  BY <1>3 DEF Passes!VerifyCopy, Passes!RecordFails, Passes!UploadFails, Passes!Fail, Passes!Done,
              Passes!Pass
<1>4. CASE Passes(c)!Normalize \/ Passes(c)!Record
  BY <1>4 DEF Passes!Normalize, Passes!Record, Passes!Normalized, Passes!Fail, Passes!Done,
              Passes!Pass
<1>5. CASE Passes(c)!Upload
  BY <1>5 DEF Passes!Upload, Passes!Done, Passes!Pass
<1>6. CASE Passes(c)!Finish \/ Passes(c)!Killed
  BY <1>6 DEF Passes!Finish, Passes!Killed, Passes!Pass
<1>7. ASSUME NEW s, Passes(c)!Process(s) \/ Passes(c)!Upgraded(s)
      PROVE  options' = options /\ outcome' = outcome
  BY <1>7 DEF Passes!Process, Passes!Upgraded, Passes!Pass
<1>8. ASSUME NEW o, Passes(c)!Start(o) PROVE outcome' = [s \in c.sessions |-> None]
  BY <1>8 DEF Passes!Start
<1>9. ASSUME NEW s, NEW f, NEW b, Passes(c)!CardChanges(s, f, b)
      PROVE  options' = options /\ outcome' = outcome
  BY <1>9 DEF Passes!CardChanges, Passes!Pass
<1> QED
  BY <1>1, <1>2, <1>3, <1>4, <1>5, <1>6, <1>7, <1>8, <1>9 DEF Passes!Next

LEMMA UnrefusedKept ==
    ASSUME NEW c, Passes(c)!PipelineConstants, c.concat, NEW t, c.tools = {t},
           IInv(c), Matched(c), Unrefused(c), Passes(c)!Next
    PROVE  Unrefused(c)'
<1>0. Reads(c) /\ Writes(c)
  BY DEF IInv
<1>1. Passes(c)!Arguments = 0
  BY DEF Passes!Arguments
<1>2. \A s \in c.sessions : (work[s].state # None => work[s].state.arguments = 0)'
  <2>1. CASE \E e \in Eyes : \E video : pc \in Eyes /\ Passes(c)!Leaves(e, video)
    <3>0. PICK e \in Eyes : \E video : Passes(c)!Leaves(e, video)
      BY <2>1
    <3>1. PICK video : work' = [work EXCEPT ![cur].outputs[e] = video]
      BY <3>0 DEF Passes!Leaves
    <3>2. \A s \in c.sessions : work'[s].state = work[s].state
      BY <1>0, <3>1 DEF Writes, Works
    <3> QED  BY <3>2 DEF Unrefused
  <2>2. CASE pc = "record" /\ Passes(c)!Recorded
    <3> DEFINE state == StateNow(c)
    <3>1. work' = [work EXCEPT ![cur].state = state] /\ state.arguments = 0
      BY <1>1, <2>2, StateIsTrue DEF Passes!Recorded, StateNow
    <3> HIDE DEF state
    <3>2. \A s \in c.sessions :
             work'[s].state = work[s].state \/ work'[s].state = state
      BY <1>0, <3>1 DEF Writes, Works
    <3> QED  BY <3>1, <3>2 DEF Unrefused
  <2>3. CASE work' = work
    BY <2>3 DEF Unrefused
  <2> QED  BY <2>1, <2>2, <2>3, WorkWritten
<1>3. pc = "upload" /\ Passes(c)!Uncrossed => Passes(c)!Publishable(cur)
  <2> SUFFICES ASSUME pc = "upload", Passes(c)!Uncrossed
               PROVE  Passes(c)!Publishable(cur)
    OBVIOUS
  <2>1. cur \in c.sessions /\ Passes(c)!Cached(cur) /\ tool = t
    BY <1>0 DEF IInv, InWork, InSession, Matched, Reads
  <2>2. work[cur].state \in States(c)
    BY <1>0, <2>1 DEF Writes, Works, Passes!Cached, Passes!State
  <2>3. work[cur].state.tool = tool /\ work[cur].state.arguments = 0
    BY <2>1, <2>2 DEF States, Unrefused, Passes!Cached, Passes!State
  <2> QED  BY <1>1, <2>1, <2>3 DEF Passes!Publishable, Passes!State
<1>4. \A s \in c.sessions : outcome'[s] = "refused" => ~Passes(c)!Uncrossed'
  <2>0. options' = options => (Passes(c)!Uncrossed' <=> Passes(c)!Uncrossed)
    BY DEF Passes!Uncrossed, Passes!Source, Passes!Other, Passes!Eyes
  <2>1. CASE /\ options' = options
             /\ \E r \in {"ok", "failed"} : outcome' = [outcome EXCEPT ![cur] = r]
    BY <1>0, <2>0, <2>1 DEF Reads, Unrefused
  <2>2. CASE outcome' = [s \in c.sessions |-> None]
    BY <2>2 DEF Passes!PipelineConstants, Passes!Results
  <2>3. CASE options' = options /\ outcome' = outcome
    BY <2>0, <2>3 DEF Unrefused
  <2>4. CASE /\ options' = options /\ pc = "upload" /\ ~Passes(c)!Publishable(cur)
             /\ outcome' = [outcome EXCEPT ![cur] = "refused"]
    BY <1>0, <1>3, <2>0, <2>4 DEF Reads, Unrefused
  <2> QED  BY <2>1, <2>2, <2>3, <2>4, OutcomeSet
<1> QED  BY <1>2, <1>4 DEF Unrefused

(* Only a file that was opened and cannot be read strands a pass. *)
LEMMA Stranding ==
    ASSUME NEW c, Passes(c)!Next, pc' = "stranded"
    PROVE  pc = "stranded" \/ \E f \in left : card[cur][f] = "bad"
<1>1. ASSUME NEW f, Passes(c)!Verify(f) PROVE f \in left /\ card[cur][f] = "bad"
  BY <1>1 DEF Passes!Verify, Passes!Due, Passes!Read, Passes!Fail, Passes!Done
<1>2. ASSUME NEW f, Passes(c)!Copy(f) PROVE FALSE
  BY <1>2 DEF Passes!Copy, Passes!Read, Passes!Fail, Passes!Done
<1>3. ASSUME NEW e, Passes(c)!Encode(e) \/ Passes(c)!EncodeFails(e) PROVE FALSE
  BY <1>3 DEF Passes!Encode, Passes!EncodeFails, Passes!Fail, Passes!Done
<1>4. CASE Passes(c)!VerifyCopy \/ Passes(c)!Normalize \/ Passes(c)!Record
  BY <1>4 DEF Passes!VerifyCopy, Passes!Normalize, Passes!Record, Passes!Normalized,
              Passes!Fail, Passes!Done
<1>5. CASE \/ Passes(c)!RecordFails \/ Passes(c)!Upload \/ Passes(c)!UploadFails
           \/ Passes(c)!Finish \/ Passes(c)!Killed
  BY <1>5 DEF Passes!RecordFails, Passes!Upload, Passes!UploadFails, Passes!Finish,
              Passes!Killed, Passes!Fail, Passes!Done
<1>6. ASSUME NEW s, Passes(c)!Process(s) \/ Passes(c)!Start(s) PROVE FALSE
  BY <1>6 DEF Passes!Process, Passes!Start
<1>7. ASSUME NEW t, Passes(c)!Upgraded(t) PROVE pc' = pc
  BY <1>7 DEF Passes!Upgraded
<1>8. ASSUME NEW s, NEW f, NEW b, Passes(c)!CardChanges(s, f, b) PROVE pc' = pc
  BY <1>8 DEF Passes!CardChanges
<1> QED
  BY <1>1, <1>2, <1>3, <1>4, <1>5, <1>6, <1>7, <1>8 DEF Passes!Next

Serving(c) == IInv(c) /\ Accounted(c) /\ Matched(c)

LEMMA ServingStarts ==
    ASSUME NEW c, Passes(c)!PipelineConstants, Passes(c)!Init
    PROVE  Serving(c) /\ Unrefused(c)
<1>1. pc = "off"
  BY DEF Passes!Init
<1>2. /\ work = [s \in c.sessions |->
                    [outputs |-> [e \in Passes(c)!Eyes |-> None], state |-> None]]
      /\ outcome = [s \in c.sessions |-> None]
  BY DEF Passes!Init
<1>3. Unrefused(c)
  BY <1>2 DEF Unrefused, Passes!PipelineConstants, Passes!Results
<1> QED  BY <1>1, <1>3, PassesStart DEF Serving, Accounted, Matched, InSession

LEMMA ServingKept ==
    ASSUME NEW c, Passes(c)!PipelineConstants, Serving(c), Passes(c)!Next
    PROVE  Serving(c)'
BY PassesKeep, AccountedKept, MatchedKept DEF Serving

LEMMA ServingStutters ==
    ASSUME NEW c, UNCHANGED passVars
    PROVE  (Serving(c) => Serving(c)') /\ (Unrefused(c) => Unrefused(c)')
<1>1. UNCHANGED <<pc, found, todo, cur, outcome, work, options>>
  BY DEF passVars
<1>2. (Accounted(c) => Accounted(c)') /\ (Unrefused(c) => Unrefused(c)')
  BY <1>1 DEF Accounted, Unrefused, Passes!Uncrossed, Passes!Source, Passes!Other, Passes!Eyes
<1>3. Matched(c) => Matched(c)'
  BY <1>1 DEF Matched, Passes!Cached, Passes!State, Passes!Key
<1> QED  BY <1>2, <1>3, PassesStutter DEF Serving

LEMMA TriedHere ==
    ASSUME NEW c, Serving(c)', Passes(c)!Next
    PROVE  Passes(c)!Tried
<1>1. pc' = "done" => \A s \in c.sessions : found'[s] # None => outcome'[s] # None
  BY DEF Serving, Accounted, InSession
<1> QED  BY <1>1, Stranding DEF Passes!Tried

(* "One bad session must not strand the rest of the card" (main.py:5341), for    *)
(* every configuration of the passes: a pass that ends by itself has answered   *)
(* for every session it found, unless a file was opened and cannot be read.     *)
THEOREM PassesTry ==
    ASSUME NEW c, Passes(c)!PipelineConstants
    PROVE  Passes(c)!Spec => [][Passes(c)!Tried]_(Passes(c)!vars)
<1>1. Passes(c)!Init => Serving(c)
  BY ServingStarts
<1>2. Serving(c) /\ [Passes(c)!Next]_(Passes(c)!vars) => Serving(c)'
  <2>1. UNCHANGED Passes(c)!vars => UNCHANGED passVars
    BY DEF Passes!vars, passVars
  <2> QED  BY <2>1, ServingKept, ServingStutters
<1>3. Serving(c)' /\ [Passes(c)!Next]_(Passes(c)!vars) => [Passes(c)!Tried]_(Passes(c)!vars)
  BY TriedHere
<1> QED  BY <1>1, <1>2, <1>3, PTL DEF Passes!Spec

(* With several segments per eye and one version of ffmpeg no session is refused *)
(* for what earlier passes left (main.py:4816), however they ended: only one of  *)
(* two cameras that were turned is, whatever was left.                         *)
THEOREM PassesRetry ==
    ASSUME NEW c, Passes(c)!PipelineConstants, c.concat, NEW t, c.tools = {t}
    PROVE  Passes(c)!Spec => []Passes(c)!RetryPublishes
<1>1. Passes(c)!Init => Serving(c) /\ Unrefused(c)
  BY ServingStarts
<1>2. Serving(c) /\ Unrefused(c) /\ [Passes(c)!Next]_(Passes(c)!vars)
          => Serving(c)' /\ Unrefused(c)'
  <2>1. UNCHANGED Passes(c)!vars => UNCHANGED passVars
    BY DEF Passes!vars, passVars
  <2> QED  BY <2>1, ServingKept, UnrefusedKept, ServingStutters DEF Serving
<1>3. Unrefused(c) => Passes(c)!RetryPublishes
  BY DEF Unrefused, Passes!RetryPublishes
<1> QED  BY <1>1, <1>2, <1>3, PTL DEF Passes!Spec

Serves == IF job = "wide" THEN Serving(Wide) ELSE Serving(Long) /\ Unrefused(Long)

(* No session is left out because another one failed, and none is refused for   *)
(* what an earlier pass left of it: the passes of both kinds of the run.  Only   *)
(* two cameras that were turned are refused.                                   *)
THEOREM MainServed == Spec => Served
<1>0. /\ Passes(Long)!PipelineConstants /\ Passes(Wide)!PipelineConstants
      /\ Long.concat /\ Long.tools = {t1}
  BY MCMainAssumption DEF Long
<1>1. Init => Serves
  BY <1>0, ServingStarts DEF Init, Serves
<1>2. Serves /\ [Next]_vars =>
          /\ Serves'
          /\ [IF job = "wide" THEN Passes(Wide)!Tried ELSE Passes(Long)!Tried]_vars
  <2> SUFFICES ASSUME Serves, [Next]_vars
               PROVE  /\ Serves'
                      /\ \/ UNCHANGED vars
                         \/ IF job = "wide" THEN Passes(Wide)!Tried ELSE Passes(Long)!Tried
    OBVIOUS
  <2>1. job' = job
    BY DEF Next, ReadStrictly, ReadTolerantly, vars
  <2>2. \/ job = "long" /\ Passes(Long)!Next
        \/ job = "wide" /\ Passes(Wide)!Next
        \/ UNCHANGED passVars
    BY DEF Next, ReadStrictly, ReadTolerantly, vars
  <2>3. CASE job = "long" /\ Passes(Long)!Next
    <3>1. Serving(Long)' /\ Unrefused(Long)'
      BY <1>0, <2>3, ServingKept, UnrefusedKept DEF Serves, Serving
    <3>2. Passes(Long)!Tried
      BY <2>3, <3>1, TriedHere
    <3> QED  BY <2>1, <2>3, <3>1, <3>2 DEF Serves
  <2>4. CASE job = "wide" /\ Passes(Wide)!Next
    <3>1. Serving(Wide)'
      BY <1>0, <2>4, ServingKept DEF Serves
    <3>2. Passes(Wide)!Tried
      BY <2>4, <3>1, TriedHere
    <3> QED  BY <2>1, <2>4, <3>1, <3>2 DEF Serves
  <2>5. CASE UNCHANGED passVars
    <3>1. /\ Serving(Long) => Serving(Long)'
          /\ Serving(Wide) => Serving(Wide)'
          /\ Unrefused(Long) => Unrefused(Long)'
      BY <2>5, ServingStutters
    <3>2. Serves'
      BY <2>1, <3>1 DEF Serves
    <3>3. pc' = pc /\ found' = found /\ outcome' = outcome
      BY <2>5 DEF passVars
    <3>5. (job = "wide" => Passes(Wide)!Tried) /\ (job # "wide" => Passes(Long)!Tried)
      BY <2>1, <3>2, <3>3 DEF Passes!Tried, Serves, Serving, Accounted, InSession
    <3> QED  BY <3>2, <3>5
  <2> QED  BY <2>2, <2>3, <2>4, <2>5
<1>3. Serves => (job = "long" => Passes(Long)!RetryPublishes)
  BY DEF Serves, Unrefused, Passes!RetryPublishes
<1> QED  BY <1>1, <1>2, <1>3, PTL DEF Spec, Served

-----------------------------------------------------------------------------
(* Takes of a card *)

(* Sets of sessions that a card may hold; no identifier is None. *)
Corpus(S) == IsFiniteSet(S) /\ \A s \in S : s.id # None

LEMMA CorporaAre == \A S \in Corpora : Corpus(S)
<1> SUFFICES ASSUME NEW S \in Corpora PROVE Corpus(S)
  OBVIOUS
<1>0. N \in Nat \ {0} /\ None \notin 1..N
  BY MCMainAssumption
<1> DEFINE Of(last, take, seq, pred, odd, early) ==
               {Session(d, IF d = N THEN last[1] ELSE d, IF d = N THEN last[2] ELSE d,
                        take[d], seq[d], pred[d],
                        IF d = 1 THEN odd ELSE 2, IF d = N THEN early ELSE d) : d \in 1..N}
<1>7. Corpora = {Of(last, take, seq, pred, odd, early) :
                    last \in {<<N, N>>, <<1, N>>, <<N, 1>>},
                    take \in {f \in [1..N -> {1, 2}] : f[1] = 1},
                    seq \in [1..N -> 1..N], pred \in [1..N -> Ids \cup {None}],
                    odd \in {1, 2}, early \in {1, N}}
  BY DEF Corpora
<1>8. \E last, take, seq, pred, odd, early :
         last \in {<<N, N>>, <<1, N>>, <<N, 1>>} /\ S = Of(last, take, seq, pred, odd, early)
  <2> HIDE DEF Of
  <2> QED  BY <1>7
<1>1. PICK last, take, seq, pred, odd, early :
         last \in {<<N, N>>, <<1, N>>, <<N, 1>>} /\ S = Of(last, take, seq, pred, odd, early)
  BY <1>8
<1> DEFINE f(d) == Session(d, IF d = N THEN last[1] ELSE d, IF d = N THEN last[2] ELSE d,
                     take[d], seq[d], pred[d],
                     IF d = 1 THEN odd ELSE 2, IF d = N THEN early ELSE d)
           g == [d \in 1..N |-> f(d)]
<1>2. IsFiniteSet(1..N)
  BY <1>0, FS_Interval
<1>3. S = {g[d] : d \in 1..N}
  BY <1>1
<1>4. g \in Surjection(1..N, S)
  BY <1>3 DEF Surjection
<1>5. IsFiniteSet(S)
  <2> HIDE DEF g
  <2> QED  BY <1>2, <1>4, FS_Surjection
<1>6. ASSUME NEW s \in S PROVE s.id # None
  <2>1. PICK d \in 1..N : s = f(d)
    BY <1>1
  <2>2. s.id = IF d = N THEN last[1] ELSE d
    BY <2>1 DEF Session
  <2>3. last[1] \in 1..N
    <3>1. last = <<N, N>> \/ last = <<1, N>> \/ last = <<N, 1>>
      BY <1>1
    <3> QED  BY <1>0, <3>1
  <2>4. s.id \in 1..N
    BY <2>2, <2>3
  <2> QED  BY <1>0, <2>4
<1> QED  BY <1>5, <1>6 DEF Corpus

(* A take whose numbers are 1 to their count has one session for each. *)
LEMMA NumbersApart ==
    ASSUME NEW M, IsFiniteSet(M), Numbered(M)
    PROVE  /\ \A r, s \in M : r.seq = s.seq => r = s
           /\ \A s \in M : s.seq \in 1..Cardinality(M)
           /\ \A i \in 1..Cardinality(M) : \E s \in M : s.seq = i
<1> DEFINE n == Cardinality(M)
           g == [s \in M |-> s.seq]
<1>1. n \in Nat
  BY FS_CardinalityType
<1>2. {s.seq : s \in M} = 1..n
  BY DEF Numbered, Cardinality, Cardinality
<1>3. IsFiniteSet(1..n) /\ Cardinality(1..n) = n
  BY <1>1, FS_Interval
<1>4. g \in Surjection(M, 1..n)
  BY <1>2 DEF Surjection
<1>5. g \in Injection(M, 1..n)
  BY <1>3, <1>4, FS_SurjSameCardinalityImpliesInj
<1>6. \A r, s \in M : r.seq = s.seq => r = s
  <2>1. \A r, s \in M : g[r] = g[s] => r = s
    BY <1>5 DEF Injection, IsInjective
  <2> QED  BY <2>1
<1> QED  BY <1>2, <1>6

(* The checks along the links leave a chain: the session numbered i continues    *)
(* the one numbered i - 1.                                                    *)
LEMMA AcceptedIsChain ==
    ASSUME NEW S, Corpus(S), Accepts(S), NEW t \in Takes(S)
    PROVE  IsChain(Take(S, t))
<1> DEFINE M == Take(S, t)
           n == Cardinality(M)
           f == [i \in 1..n |-> CHOOSE s \in M : s.seq = i]
<1>1. /\ \A s \in M : s \in S /\ s.take = t
      /\ \A s \in S : s.take = t => s \in M
  BY DEF Take
<1>2. /\ Numbered(M) /\ Unique(S)
      /\ \A s \in M : s.seq = 1 => s.pred = None
      /\ \A s \in M : s.seq # 1 => Continues(S, s)
  BY DEF Accepts
<1>3. IsFiniteSet(M)
  BY <1>1, FS_Subset DEF Corpus
<1> HIDE DEF M
<1>4. /\ n \in Nat
      /\ \A r, s \in M : r.seq = s.seq => r = s
      /\ \A s \in M : s.seq \in 1..n
      /\ \A i \in 1..n : \E s \in M : s.seq = i
  BY <1>2, <1>3, NumbersApart, FS_CardinalityType
<1>5. /\ f \in [1..n -> M] /\ \A i \in 1..n : f[i].seq = i
  BY <1>4
<1>6. \A s \in M : s.seq \in 1..n /\ f[s.seq] = s
  BY <1>4, <1>5
<1> HIDE DEF f, n
<1>7. ASSUME NEW i \in 1..n
      PROVE  /\ f[i].pred = IF i = 1 THEN None ELSE f[i - 1].id
             /\ i > 1 => /\ f[i].device = f[i - 1].device
                         /\ f[i - 1].sealed <= f[i].captured
  <2>1. f[i] \in M /\ f[i].seq = i
    BY <1>5
  <2>2. CASE i = 1
    BY <1>2, <2>1, <2>2
  <2>3. CASE i # 1
    <3>1. PICK p \in ById(S, f[i].pred) :
             /\ p.take = f[i].take /\ p.seq + 1 = f[i].seq
             /\ p.device = f[i].device /\ p.sealed <= f[i].captured
      BY <1>2, <2>1, <2>3 DEF Continues
    <3>2. p \in M /\ p.id = f[i].pred
      BY <1>1, <2>1, <3>1 DEF ById
    <3>3. p.seq \in 1..n /\ p.seq = i - 1
      BY <1>4, <2>1, <3>1, <3>2
    <3>4. f[i - 1] = p
      BY <1>6, <3>2, <3>3
    <3> QED  BY <2>3, <3>1, <3>2, <3>4
  <2> QED  BY <2>2, <2>3
<1>8. /\ f \in [1..n -> M]
      /\ \A s \in M : \E i \in DOMAIN f : f[i] = s
      /\ \A i \in DOMAIN f :
            /\ f[i].seq = i
            /\ f[i].pred = IF i = 1 THEN None ELSE f[i - 1].id
            /\ i > 1 => /\ f[i].device = f[i - 1].device
                        /\ f[i - 1].sealed <= f[i].captured
  BY <1>5, <1>6, <1>7
<1>9. n = Cardinality(M)
  BY DEF n, Cardinality, Cardinality
<1>10. IsChain(M)
  BY <1>8, <1>9 DEF IsChain
<1> QED  BY <1>10 DEF M

-----------------------------------------------------------------------------
(* The walk over predecessors *)

(* A set of numbers that has 0 and every successor has them all. *)
LEMMA NumbersByInduction ==
    ASSUME NEW S, 0 \in S, \A n \in Nat : n \in S => n + 1 \in S
    PROVE  Nat \subseteq S
<1> DEFINE R == {ss \in Nat \X Nat : ss[1] < ss[2]}
<1>1. IsWellFoundedOn(R, Nat)
  BY NatLessThanWellFounded DEF OpToRel
<1>2. \A n \in Nat : <<n, n + 1>> \in R
  OBVIOUS
<1> HIDE DEF R
<1>3. SUFFICES ASSUME Nat \ S # {} PROVE FALSE
  OBVIOUS
<1>4. PICK x \in Nat \ S : \A y \in Nat \ S : <<y, x>> \notin R
  BY <1>1, <1>3, WFMin
<1>5. x - 1 \in Nat /\ (x - 1) + 1 = x
  BY <1>4
<1>6. x - 1 \notin S
  BY <1>5
<1> QED  BY <1>2, <1>4, <1>5, <1>6

(* What is met after k links, for k up to n. *)
Onward(S, X) == X \cup UNION {Step(S, i) \ {None} : i \in X}
Walk(f, S, A, n) ==
    f = [k \in 0..n |-> IF k = 0 THEN A ELSE Onward(S, f[k - 1])]

LEMMA WalkIs ==
    ASSUME NEW f, NEW S, NEW A, NEW n \in Nat
    PROVE  Walk(f, S, A, n) <=>
               /\ f = [k \in 0..n |-> f[k]] /\ f[0] = A
               /\ \A k \in 1..n : f[k] = Onward(S, f[k - 1])
<1> DEFINE Is(k) == IF k = 0 THEN A ELSE Onward(S, f[k - 1])
           g == [k \in 0..n |-> Is(k)]
<1>1. Walk(f, S, A, n) <=> f = g
  BY DEF Walk
<1>2. /\ g = [k \in 0..n |-> g[k]]
      /\ \A k \in 0..n : g[k] = Is(k)
  OBVIOUS
<1> HIDE DEF g
<1>3. f = g <=> f = [k \in 0..n |-> f[k]] /\ \A k \in 0..n : f[k] = Is(k)
  BY <1>2
<1>4. (\A k \in 0..n : f[k] = Is(k)) <=>
          f[0] = A /\ \A k \in 1..n : f[k] = Onward(S, f[k - 1])
  <2>1. Is(0) = A /\ \A k \in 1..n : Is(k) = Onward(S, f[k - 1])
    OBVIOUS
  <2>2. 0..n = {0} \cup 1..n
    OBVIOUS
  <2> HIDE DEF Is
  <2> QED  BY <2>1, <2>2
<1> HIDE DEF Is
<1> QED  BY <1>1, <1>3, <1>4

LEMMA WalkExists ==
    ASSUME NEW S, NEW A
    PROVE  \A n \in Nat : \E f : Walk(f, S, A, n)
<1> DEFINE T == {n \in Nat : \E f : Walk(f, S, A, n)}
<1>1. 0 \in T
  <2>1. Walk([k \in 0..0 |-> A], S, A, 0)
    BY WalkIs, SMTT(40)
  <2> QED  BY <2>1
<1>2. ASSUME NEW n \in Nat, n \in T PROVE n + 1 \in T
  <2>1. PICK f : Walk(f, S, A, n)
    BY <1>2
  <2>2. f[0] = A /\ \A k \in 1..n : f[k] = Onward(S, f[k - 1])
    BY <2>1, WalkIs
  <2> DEFINE g == [k \in 0..(n + 1) |-> IF k \in 0..n THEN f[k] ELSE Onward(S, f[n])]
  <2>3. /\ g = [k \in 0..(n + 1) |-> g[k]]
        /\ \A k \in 0..n : g[k] = f[k]
        /\ g[n + 1] = Onward(S, f[n])
    OBVIOUS
  <2> HIDE DEF g
  <2>4. ASSUME NEW k \in 1..(n + 1) PROVE g[k] = Onward(S, g[k - 1])
    <3>1. CASE k \in 1..n
      <4>1. k - 1 \in 0..n /\ k \in 0..n
        BY <3>1
      <4> QED  BY <2>2, <2>3, <3>1, <4>1
    <3>2. CASE k = n + 1
      <4>1. k - 1 = n /\ n \in 0..n
        BY <3>2
      <4> QED  BY <2>3, <3>2, <4>1
    <3> QED  BY <3>1, <3>2
  <2>5. g[0] = A
    <3>1. 0 \in 0..n
      OBVIOUS
    <3> QED  BY <2>2, <2>3, <3>1
  <2>6. Walk(g, S, A, n + 1)
    <3>1. n + 1 \in Nat /\ \A k \in 1..(n + 1) : g[k] = Onward(S, g[k - 1])
      BY <2>4
    <3> QED  BY <2>3, <2>5, <3>1, WalkIs
  <2> QED  BY <2>6
<1>3. Nat \subseteq T
  <2> HIDE DEF T
  <2> QED  BY <1>1, <1>2, NumbersByInduction
<1> QED  BY <1>3

LEMMA WalkUnique ==
    ASSUME NEW S, NEW A, NEW f, NEW g, NEW m \in Nat, NEW n \in Nat,
           Walk(f, S, A, m), Walk(g, S, A, n)
    PROVE  \A k \in Nat : k <= m /\ k <= n => f[k] = g[k]
<1> DEFINE T == {k \in Nat : k <= m /\ k <= n => f[k] = g[k]}
<1>0. /\ f[0] = A /\ \A k \in 1..m : f[k] = Onward(S, f[k - 1])
      /\ g[0] = A /\ \A k \in 1..n : g[k] = Onward(S, g[k - 1])
  BY WalkIs
<1>1. 0 \in T
  BY <1>0
<1>2. ASSUME NEW k \in Nat, k \in T PROVE k + 1 \in T
  <2> SUFFICES ASSUME k + 1 <= m, k + 1 <= n PROVE f[k + 1] = g[k + 1]
    OBVIOUS
  <2>1. f[k] = g[k]
    BY <1>2
  <2>2. k + 1 \in 1..m /\ k + 1 \in 1..n /\ (k + 1) - 1 = k
    OBVIOUS
  <2>3. f[k + 1] = Onward(S, f[k]) /\ g[k + 1] = Onward(S, g[k])
    BY <1>0, <2>2
  <2> QED  BY <2>1, <2>3
<1>3. Nat \subseteq T
  <2> HIDE DEF T
  <2> QED  BY <1>1, <1>2, NumbersByInduction
<1> QED  BY <1>3

AllWalks(met, S, A) ==
    met = [n \in Nat |-> IF n = 0 THEN A ELSE Onward(S, met[n - 1])]

(* The recursion has a solution. *)
LEMMA WalkDefined ==
    ASSUME NEW S, NEW A
    PROVE  \E met : AllWalks(met, S, A)
<1> DEFINE W(n) == CHOOSE f : Walk(f, S, A, n)
           met == [n \in Nat |-> W(n)[n]]
<1>1. \A n \in Nat : Walk(W(n), S, A, n)
  BY WalkExists
<1> HIDE DEF W
<1>2. met[0] = A
  BY <1>1, WalkIs
<1>3. ASSUME NEW n \in Nat, n # 0 PROVE met[n] = Onward(S, met[n - 1])
  <2>1. n - 1 \in Nat /\ n \in 1..n
    BY <1>3
  <2>2. W(n)[n] = Onward(S, W(n)[n - 1])
    BY <1>1, <2>1, WalkIs
  <2>3. W(n)[n - 1] = W(n - 1)[n - 1]
    <3>1. Walk(W(n), S, A, n) /\ Walk(W(n - 1), S, A, n - 1)
      BY <1>1, <2>1
    <3>2. n - 1 <= n /\ n - 1 <= n - 1
      BY <2>1
    <3> QED  BY <2>1, <3>1, <3>2, WalkUnique
  <2> QED  BY <2>1, <2>2, <2>3
<1>4. met = [n \in Nat |-> met[n]]
  OBVIOUS
<1> HIDE DEF met
<1>5. AllWalks(met, S, A)
  <2>1. \A n \in Nat : met[n] = IF n = 0 THEN A ELSE Onward(S, met[n - 1])
    BY <1>2, <1>3
  <2> QED  BY <1>4, <2>1 DEF AllWalks
<1> QED  BY <1>5

(* The walk stays in every set that has what it starts from and what follows.  *)
LEMMA MetWithin ==
    ASSUME NEW S, IsFiniteSet(S), NEW s, NEW P, {s.pred} \ {None} \subseteq P,
           \A i \in P : Step(S, i) \ {None} \subseteq P
    PROVE  Met(S, s) \subseteq P
<1> DEFINE A == {s.pred} \ {None}
           Is(m) == AllWalks(m, S, A)
           met == CHOOSE m : Is(m)
<1>1. Met(S, s) = met[Cardinality(S)]
  BY DEF AllWalks, Met, Onward, Cardinality, Cardinality
<1>2. Is(met)
  <2>1. \E m : Is(m)
    BY WalkDefined
  <2> HIDE DEF Is
  <2> QED  BY <2>1
<1> HIDE DEF A, met
<1>3. met[0] = A /\ \A n \in Nat : met[n + 1] = Onward(S, met[n])
  <2> DEFINE g == [n \in Nat |-> IF n = 0 THEN A ELSE Onward(S, met[n - 1])]
  <2>1. met = g
    BY <1>2 DEF AllWalks
  <2>2. g[0] = A /\ \A n \in Nat : g[n + 1] = Onward(S, met[n])
    <3>1. \A n \in Nat : n + 1 \in Nat /\ n + 1 # 0 /\ (n + 1) - 1 = n
      OBVIOUS
    <3> QED  BY <3>1
  <2> HIDE DEF g
  <2> QED  BY <2>1, <2>2
<1> HIDE DEF Is
<1> DEFINE T == {n \in Nat : met[n] \subseteq P}
<1>4. 0 \in T
  BY <1>3 DEF A
<1>5. \A n \in Nat : n \in T => n + 1 \in T
  BY <1>3 DEF Onward
<1>6. Nat \subseteq T
  <2> HIDE DEF T
  <2> QED  BY <1>4, <1>5, NumbersByInduction
<1>7. Cardinality(S) \in Nat
  BY FS_CardinalityType
<1> QED  BY <1>1, <1>6, <1>7

-----------------------------------------------------------------------------
(* Chains are accepted *)

(* f puts the sessions of M in the order of a chain. *)
Chained(f, n, M) ==
    /\ f \in [1..n -> M]
    /\ \A s \in M : \E i \in 1..n : f[i] = s
    /\ \A i \in 1..n :
        /\ f[i].seq = i
        /\ f[i].pred = IF i = 1 THEN None ELSE f[i - 1].id
        /\ i > 1 => /\ f[i].device = f[i - 1].device
                    /\ f[i - 1].sealed <= f[i].captured

LEMMA ChainOrder ==
    ASSUME NEW M, IsChain(M)
    PROVE  \E f : Chained(f, Cardinality(M), M)
<1>1. PICK f \in [1..Cardinality(M) -> M] :
        /\ \A s \in M : \E i \in DOMAIN f : f[i] = s
        /\ \A i \in DOMAIN f :
            /\ f[i].seq = i
            /\ f[i].pred = IF i = 1 THEN None ELSE f[i - 1].id
            /\ i > 1 => /\ f[i].device = f[i - 1].device
                        /\ f[i - 1].sealed <= f[i].captured
  BY DEF IsChain, Cardinality, Cardinality
<1>2. DOMAIN f = 1..Cardinality(M)
  OBVIOUS
<1>3. Chained(f, Cardinality(M), M)
  BY <1>1, <1>2 DEF Chained
<1> QED  BY <1>3

(* The walk from a session of a chain goes down the chain and ends. *)
LEMMA ChainWalks ==
    ASSUME NEW S, Corpus(S), Unique(S), NEW M, M \subseteq S,
           NEW n \in Nat, NEW f, Chained(f, n, M), NEW s \in M
    PROVE  Walks(S, s)
<1>1. PICK i \in 1..n : f[i] = s
  BY DEF Chained
<1> DEFINE P == {f[k].id : k \in 1..(i - 1)}
<1>2. \A k \in 1..n : f[k] \in S /\ f[k].id # None
  BY DEF Chained, Corpus
<1>3. \A r, q \in S : r.id = q.id => r = q
  BY DEF Unique, Single
<1>4. {s.pred} \ {None} \subseteq P
  <2>1. CASE i = 1
    BY <1>1, <2>1 DEF Chained
  <2>2. CASE i # 1
    <3>1. i - 1 \in 1..(i - 1) /\ s.pred = f[i - 1].id
      BY <1>1, <2>2 DEF Chained
    <3> QED  BY <3>1
  <2> QED  BY <2>1, <2>2
<1>5. ASSUME NEW x \in P PROVE Step(S, x) \ {None} \subseteq P
  <2>1. PICK k \in 1..(i - 1) : x = f[k].id
    OBVIOUS
  <2>2. k \in 1..n
    BY <1>1, <2>1
  <2>3. Step(S, x) \subseteq {f[k].pred}
    <3>1. ById(S, x) = {f[k]}
      BY <1>2, <1>3, <2>1, <2>2 DEF ById
    <3> QED  BY <3>1 DEF Step
  <2>4. CASE k = 1
    BY <2>2, <2>3, <2>4 DEF Chained
  <2>5. CASE k # 1
    <3>1. k - 1 \in 1..(i - 1) /\ f[k].pred = f[k - 1].id
      BY <2>1, <2>2, <2>5 DEF Chained
    <3> QED  BY <2>3, <3>1
  <2> QED  BY <2>4, <2>5
<1>6. Met(S, s) \subseteq P
  <2> HIDE DEF P
  <2> QED  BY <1>4, <1>5, MetWithin DEF Corpus
<1>7. ASSUME NEW x \in Met(S, s) PROVE ById(S, x) # {} /\ x # s.id
  <2>1. PICK k \in 1..(i - 1) : x = f[k].id
    BY <1>6
  <2>2. k \in 1..n /\ k # i
    BY <1>1, <2>1
  <2>3. f[k] \in ById(S, x)
    BY <1>2, <2>1, <2>2 DEF ById
  <2>4. f[k] # s
    <3>1. f[k].seq = k /\ f[i].seq = i
      BY <1>1, <2>2 DEF Chained
    <3> QED  BY <1>1, <2>2, <3>1
  <2>5. s \in S
    OBVIOUS
  <2> QED  BY <1>2, <1>3, <2>1, <2>2, <2>3, <2>4, <2>5
<1> QED  BY <1>7 DEF Walks

LEMMA ChainsAccepted ==
    ASSUME NEW S, Corpus(S), Chains(S)
    PROVE  Accepts(S)
<1>1. Unique(S)
  BY DEF Chains
<1>2. \A r, q \in S : r.id = q.id => r = q
  BY <1>1 DEF Unique, Single
<1>3. ASSUME NEW s \in S PROVE Walks(S, s)
  <2> DEFINE M == Take(S, s.take)
  <2>1. s \in M /\ M \subseteq S /\ s.take \in Takes(S)
    BY DEF Take, Takes
  <2>2. IsChain(M)
    BY <2>1 DEF Chains
  <2>3. Cardinality(M) \in Nat
    BY <2>1, FS_Subset, FS_CardinalityType DEF Corpus
  <2> HIDE DEF M
  <2>4. PICK f : Chained(f, Cardinality(M), M)
    BY <2>2, ChainOrder
  <2> QED  BY <1>1, <2>1, <2>3, <2>4, ChainWalks
<1>4. ASSUME NEW t \in Takes(S)
      PROVE  LET M == Take(S, t) IN
             /\ Numbered(M)
             /\ \A s \in M : IF s.seq = 1 THEN s.pred = None ELSE Continues(S, s)
             /\ Unbranched(M)
  <2> DEFINE M == Take(S, t)
             n == Cardinality(M)
  <2>1. M \subseteq S /\ \A s \in M : s.take = t
    BY DEF Take
  <2>2. IsChain(M)
    BY DEF Chains
  <2>3. n \in Nat
    BY <2>1, FS_Subset, FS_CardinalityType DEF Corpus
  <2>4. PICK f : Chained(f, n, M)
    BY <2>2, ChainOrder
  <2>5. Numbered(M)
    <3>1. {s.seq : s \in M} = 1..n
      BY <2>4 DEF Chained
    <3> QED  BY <3>1 DEF Numbered, Cardinality, Cardinality
  <2> HIDE DEF M, n
  <2>6. ASSUME NEW s \in M
        PROVE  IF s.seq = 1 THEN s.pred = None ELSE Continues(S, s)
    <3>1. PICK i \in 1..n : f[i] = s
      BY <2>4 DEF Chained
    <3>2. s.seq = i
      BY <2>4, <3>1 DEF Chained
    <3>3. CASE i = 1
      BY <2>4, <3>1, <3>2, <3>3 DEF Chained
    <3>4. CASE i # 1
      <4>1. i - 1 \in 1..n /\ i > 1
        BY <2>3, <3>1, <3>4
      <4>2. /\ s.pred = f[i - 1].id /\ f[i - 1].seq = i - 1 /\ f[i - 1] \in M
            /\ s.device = f[i - 1].device /\ f[i - 1].sealed <= s.captured
        BY <2>4, <3>1, <4>1 DEF Chained
      <4>3. f[i - 1] \in ById(S, s.pred)
        BY <2>1, <4>2 DEF ById
      <4>4. f[i - 1].take = s.take /\ f[i - 1].seq + 1 = s.seq
        BY <2>1, <3>2, <4>2
      <4>5. Continues(S, s)
        BY <4>2, <4>3, <4>4 DEF Continues
      <4> QED  BY <3>2, <3>4, <4>5
    <3> QED  BY <3>3, <3>4
  <2>7. ASSUME NEW r \in M, NEW s \in M, r.pred = s.pred PROVE r = s
    <3>1. PICK i \in 1..n : f[i] = r
      BY <2>4 DEF Chained
    <3>2. PICK j \in 1..n : f[j] = s
      BY <2>4 DEF Chained
    <3>3. \A k \in 1..n : f[k].id # None /\ f[k] \in S
      BY <2>1, <2>4 DEF Chained, Corpus
    <3>4. CASE i = 1 /\ j = 1
      BY <3>1, <3>2, <3>4
    <3>5. CASE i = 1 /\ j # 1
      <4>1. j - 1 \in 1..n /\ s.pred = f[j - 1].id /\ r.pred = None
        BY <2>3, <2>4, <3>1, <3>2, <3>5 DEF Chained
      <4> QED  BY <2>7, <3>3, <4>1
    <3>6. CASE i # 1 /\ j = 1
      <4>1. i - 1 \in 1..n /\ r.pred = f[i - 1].id /\ s.pred = None
        BY <2>3, <2>4, <3>1, <3>2, <3>6 DEF Chained
      <4> QED  BY <2>7, <3>3, <4>1
    <3>7. CASE i # 1 /\ j # 1
      <4>1. /\ i - 1 \in 1..n /\ j - 1 \in 1..n
            /\ r.pred = f[i - 1].id /\ s.pred = f[j - 1].id
        BY <2>3, <2>4, <3>1, <3>2, <3>7 DEF Chained
      <4>2. f[i - 1] = f[j - 1]
        BY <1>2, <2>7, <3>3, <4>1
      <4>3. f[i - 1].seq = i - 1 /\ f[j - 1].seq = j - 1
        BY <2>4, <4>1 DEF Chained
      <4>4. i = j
        BY <4>2, <4>3
      <4> QED  BY <3>1, <3>2, <4>4
    <3> QED  BY <3>4, <3>5, <3>6, <3>7
  <2>8. Unbranched(M)
    BY <2>7 DEF Unbranched
  <2> QED  BY <2>5, <2>6, <2>8 DEF M
<1> QED  BY <1>1, <1>3, <1>4 DEF Accepts

(* The walk, the numbering and the checks along the links (main.py,             *)
(* _validate_closed_device_session_take_graph) accept exactly the cards whose    *)
(* takes are chains and share nothing, however many sessions they have.         *)
THEOREM AcceptsExactlyChains ==
    ASSUME NEW S, Corpus(S)
    PROVE  Accepts(S) <=> Chains(S)
<1>1. Accepts(S) => Unique(S)
  BY DEF Accepts
<1> QED  BY <1>1, AcceptedIsChain, ChainsAccepted DEF Chains

(* The tolerant reader keeps the takes it would accept alone and that share     *)
(* nothing with another.                                                      *)
LEMMA ReadableIs ==
    ASSUME NEW S, Corpus(S)
    PROVE  /\ Chains(Readable(S))
           /\ \A t \in Takes(S) :
                LET M == Take(S, t) IN
                M \subseteq Readable(S) <=>
                    IsChain(M) /\ \A s \in M : Single(S, s)
<1> DEFINE K == Readable(S)
           Of(t) == Take(S, t)
           Alone(t) == \A s \in Of(t) : Single(S, s)
<1>1. \A s, t : s \in Of(t) <=> s \in S /\ s.take = t
  BY DEF Take
<1>2. \A s : s \in K <=> \E t \in Takes(S) :
                             s \in Of(t) /\ Alone(t) /\ Accepts(Of(t))
  BY DEF Readable
<1>3. ASSUME NEW t \in Takes(S), Alone(t)
      PROVE  Accepts(Of(t)) <=> IsChain(Of(t))
  <2> DEFINE M == Of(t)
  <2>1. M \subseteq S /\ Takes(M) = {t} /\ Take(M, t) = M
    BY DEF Take, Takes
  <2>2. Corpus(M)
    BY <2>1, FS_Subset DEF Corpus
  <2>3. Unique(M)
    BY <1>3, <2>1 DEF Unique, Single
  <2> HIDE DEF M
  <2>4. Chains(M) <=> IsChain(M)
    BY <2>1, <2>3 DEF Chains
  <2>5. Accepts(M) <=> IsChain(M)
    BY <2>2, <2>4, AcceptsExactlyChains
  <2> QED  BY <2>5 DEF M
<1> HIDE DEF K, Of
<1>4. ASSUME NEW t \in Takes(S)
      PROVE  Of(t) \subseteq K <=> IsChain(Of(t)) /\ Alone(t)
  <2>1. \E s \in S : s \in Of(t)
    BY <1>1 DEF Takes
  <2>2. Of(t) \subseteq K <=> Alone(t) /\ Accepts(Of(t))
    <3>1. \A s \in Of(t) : s \in K <=> Alone(t) /\ Accepts(Of(t))
      BY <1>1, <1>2
    <3> QED  BY <2>1, <3>1
  <2> QED  BY <1>3, <2>2
<1>5. Chains(K)
  <2>1. K \subseteq S /\ \A s \in K : Single(S, s)
    BY <1>1, <1>2
  <2>2. Unique(K)
    BY <2>1 DEF Unique, Single
  <2>3. ASSUME NEW t \in Takes(K) PROVE IsChain(Take(K, t))
    <3>1. PICK s \in K : s.take = t
      BY DEF Takes
    <3>2. t \in Takes(S) /\ Alone(t) /\ Accepts(Of(t))
      BY <1>1, <1>2, <3>1
    <3>3. Take(K, t) = Of(t)
      <4>1. \A r \in Of(t) : r \in K /\ r.take = t
        BY <1>1, <1>2, <3>2
      <4>2. \A r \in K : r.take = t => r \in Of(t)
        BY <1>1, <2>1
      <4> QED  BY <4>1, <4>2 DEF Take
    <3> QED  BY <1>3, <3>2, <3>3
  <2> QED  BY <2>2, <2>3 DEF Chains
<1> QED  BY <1>4, <1>5 DEF K, Of

(* What a reader answers is a function of the corpus it was given: the strict    *)
(* one accepts it as it is, the tolerant one keeps its readable takes.          *)
Answered ==
    /\ job = "read" => corpus \in Corpora
    /\ mode # "card" => job = "read"
    /\ mode = "strict" => (accepted <=> Accepts(corpus))
    /\ mode = "tolerant" => kept = Readable(corpus)

(* The strict reader accepts exactly the cards whose takes are chains, and the   *)
(* tolerant one keeps exactly the takes that are chains and share nothing       *)
(* (main.py, read_sessions), for every number of sessions of a card.            *)
THEOREM TakesRead == Spec => []TakesExact
<1>1. Init => Answered
  BY DEF Init, Answered
<1>2. Answered /\ [Next]_vars => Answered'
  <2> SUFFICES ASSUME Answered, [Next]_vars PROVE Answered'
    OBVIOUS
  <2>1. CASE ReadStrictly
    BY <2>1 DEF ReadStrictly, Answered
  <2>2. CASE ReadTolerantly
    BY <2>2 DEF ReadTolerantly, Answered
  <2>3. CASE UNCHANGED <<job, readVars>>
    BY <2>3 DEF readVars, Answered
  <2> QED  BY <2>1, <2>2, <2>3 DEF Next, vars
<1>3. Answered => TakesExact
  <2> SUFFICES ASSUME Answered PROVE TakesExact
    OBVIOUS
  <2>1. CASE mode = "strict"
    <3>1. Corpus(corpus) /\ (accepted <=> Accepts(corpus))
      BY <2>1, CorporaAre DEF Answered
    <3>2. accepted <=> Chains(corpus)
      BY <3>1, AcceptsExactlyChains
    <3> QED  BY <2>1, <3>2 DEF TakesExact
  <2>2. CASE mode = "tolerant"
    <3>1. Corpus(corpus) /\ kept = Readable(corpus)
      BY <2>2, CorporaAre DEF Answered
    <3> QED  BY <2>2, <3>1, ReadableIs DEF TakesExact
  <2> QED  BY <2>1, <2>2 DEF TakesExact
<1> QED  BY <1>1, <1>2, <1>3, PTL DEF Spec

-----------------------------------------------------------------------------
(* Calls of discover and list_sessions *)

CallSteps == {"idle", "browse", "probe", "select", "read"}
CallTyped(c) ==
    /\ call \in [step : CallSteps, list : BOOLEAN, refresh : BOOLEAN,
                 source : Calls(c)!AllSources \cup {None}]
    /\ there \in [Places -> c.devices \cup {None}]
    /\ pending \subseteq Places
    /\ probed \subseteq Calls(c)!AllSources /\ answered \subseteq Calls(c)!AllSources
    /\ sources = None \/ sources \in (SUBSET Calls(c)!AllSources) \ {{}}
    /\ DOMAIN cards \subseteq Places /\ DOMAIN current = Places

(* How far a discovery has come; once it has ended, the sources are those that  *)
(* were probed.                                                               *)
Stages(c) ==
    /\ sources # None => sources = probed
    /\ call.step \in {"browse", "probe"} => sources = None
    /\ call.step \in {"select", "read"} => sources # None
    /\ call.step # "idle" => result.kind = "none"
    /\ {s.device : s \in probed} = {s.device : s \in answered}

(* No place, and on the LAN no device, is probed for two sources. *)
Apart(c) ==
    /\ \A r, s \in probed : r.at = s.at => r = s
    /\ ~c.cards => \A r, s \in probed : r.device = s.device => r = s
    /\ call.step = "probe" => \A s \in probed : s.at \notin pending

(* The history follows what can be seen, and the caches follow the history. *)
Follows(c) ==
    /\ sources # None \/ call.step \in {"browse", "probe"} =>
           \A p \in Places : Calls(c)!Shown(p) \subseteq current[p]
    /\ \A s \in DOMAIN cache : cache[s] \in current[s.at] \cup {Calls(c)!Empty}
    /\ \A p \in DOMAIN cards : cards[p] \in current[p]
    /\ DOMAIN cache \subseteq (IF sources = None THEN {} ELSE sources)
    /\ ~c.cards => /\ DOMAIN cards = {}
                   /\ \A s \in DOMAIN cache : cache[s].device \in {s.device, None}

(* What is chosen, and what was answered. *)
Choice(c) ==
    /\ call.step = "read" => Calls(c)!Candidates = {call.source}
    /\ Calls(c)!OnlyChoice
    /\ ~c.cards => Calls(c)!RightDevice

FindInv(c) == CallTyped(c) /\ Stages(c) /\ Apart(c) /\ Follows(c) /\ Choice(c)

LEMMA FindStarts ==
    ASSUME NEW c, Calls(c)!DiscoveryConstants, Calls(c)!Init
    PROVE  FindInv(c)
BY DEF Calls!DiscoveryConstants, Calls!Init, FindInv, CallTyped, Stages, Apart, Follows,
    Choice, Calls!Idle, Calls!Nothing, Calls!OnlyChoice, Calls!RightDevice, CallSteps

(* What does not change keeps what is said of it. *)
LEMMA SameChoice ==
    ASSUME NEW c, sources' = sources
    PROVE  Calls(c)!Candidates' = Calls(c)!Candidates
BY DEF Calls!Candidates, Calls!Matches

LEMMA SameSources ==
    ASSUME NEW c
    PROVE  Calls(c)!AllSources' = Calls(c)!AllSources
BY DEF Calls!AllSources, Calls!Source

LEMMA SameWorld ==
    ASSUME NEW c, there' = there, has' = has
    PROVE  \A p \in Places : Calls(c)!Shown(p)' = Calls(c)!Shown(p)
BY DEF Calls!Shown, Calls!Content, Calls!Empty

LEMMA FollowsKept ==
    ASSUME NEW c, Follows(c), there' = there, has' = has,
           UNCHANGED <<sources, cache, cards, current>>,
           call'.step \in {"browse", "probe"} => call.step \in {"browse", "probe"}
    PROVE  Follows(c)'
<1>1. \A p \in Places : Calls(c)!Shown(p)' = Calls(c)!Shown(p)  BY SameWorld
<1> QED  BY <1>1 DEF Follows, Calls!Empty

LEMMA ChoiceKept ==
    ASSUME NEW c, Choice(c), sources' = sources, result' = result,
           call'.step = "read" => call' = call
    PROVE  Choice(c)'
<1>1. Calls(c)!Candidates' = Calls(c)!Candidates  BY SameChoice
<1> QED  BY <1>1 DEF Choice, Calls!OnlyChoice, Calls!RightDevice, Calls!Matches

(* A call that begins: on what is cached, or with a new discovery. *)
LEMMA BeginKeeps ==
    ASSUME NEW c, FindInv(c),
           NEW g \in [step : CallSteps, list : BOOLEAN, refresh : BOOLEAN,
                     source : Calls(c)!AllSources \cup {None}], Calls(c)!Begin(g)
    PROVE  FindInv(c)'
<1> USE DEF FindInv
<1> DEFINE Goal == [step : CallSteps, list : BOOLEAN, refresh : BOOLEAN,
                    source : Calls(c)!AllSources \cup {None}]
<1>1. Calls(c)!Idle \in Goal /\ Calls(c)!Idle.step = "idle"
  BY DEF Calls!Idle, CallSteps
<1>2. /\ UNCHANGED <<there, has, probed, answered>> /\ result' = Calls(c)!Nothing
      /\ call.step = "idle" /\ result'.kind = "none"
  BY DEF Calls!Begin, Calls!world, Calls!Nothing
<1>4. CASE sources = None \/ (g.refresh /\ ~g.list)
  <2>1. /\ call' = [g EXCEPT !.step = "browse"] /\ Calls(c)!Forget
        /\ pending' = (IF c.cards THEN Places ELSE {})
    BY <1>4 DEF Calls!Begin
  <2>2. call' \in Goal /\ call'.step = "browse"
    BY <1>1, <2>1 DEF CallSteps
  <2>3. /\ sources' = None /\ DOMAIN cache' = {} /\ DOMAIN cards' = {}
        /\ current' = Calls(c)!Since
    BY <2>1 DEF Calls!Forget
  <2>4. CallTyped(c)'
    BY <1>2, <2>1, <2>2, <2>3, SameSources DEF CallTyped, Calls!Since
  <2>5. Stages(c)' /\ Apart(c)'  BY <1>2, <2>2, <2>3 DEF Stages, Apart
  <2>6. \A p \in Places : Calls(c)!Shown(p)' = Calls(c)!Shown(p)  BY <1>2, SameWorld
  <2>7. Follows(c)'  BY <2>3, <2>6 DEF Follows, Calls!Since
  <2>8. Choice(c)'
    BY <1>2, <2>2 DEF Choice, Calls!OnlyChoice, Calls!RightDevice
  <2> QED  BY <2>4, <2>5, <2>7, <2>8
<1>5. CASE ~(sources = None \/ (g.refresh /\ ~g.list))
  <2>1. /\ call' = (IF g.list THEN [g EXCEPT !.step = "select"] ELSE Calls(c)!Idle)
        /\ UNCHANGED <<sources, cache, cards, pending, current>> /\ sources # None
    BY <1>5 DEF Calls!Begin
  <2>2. call' \in Goal /\ call'.step \in {"select", "idle"}
    BY <1>1, <2>1 DEF CallSteps
  <2>4. CallTyped(c)'  BY <1>2, <2>1, <2>2, SameSources DEF CallTyped
  <2>5. Stages(c)' /\ Apart(c)'  BY <1>2, <2>1, <2>2 DEF Stages, Apart
  <2>7. Follows(c)'  BY <1>2, <2>1, <2>2, FollowsKept
  <2>8. Choice(c)'
    BY <1>2, <2>2 DEF Choice, Calls!OnlyChoice, Calls!RightDevice
  <2> QED  BY <2>4, <2>5, <2>7, <2>8
<1> QED  BY <1>4, <1>5

LEMMA AnnounceKeeps ==
    ASSUME NEW c, FindInv(c), NEW p \in Places, Calls(c)!Announce(p)
    PROVE  FindInv(c)'
<1> USE DEF FindInv, Calls!Announce, Calls!world
<1>1. CallTyped(c)'  BY SameSources DEF CallTyped
<1>2. Stages(c)' /\ Apart(c)'  BY DEF Stages, Apart
<1>3. Follows(c)' /\ Choice(c)'  BY FollowsKept, ChoiceKept
<1> QED  BY <1>1, <1>2, <1>3

(* A call that ends with an error. *)
LEMMA Erring ==
    ASSUME NEW c, CallTyped(c), NEW k, k \notin {"list", "multiple"},
           Calls(c)!Finish(Calls(c)!Error(k))
    PROVE  /\ call' = Calls(c)!Idle /\ call'.step = "idle" /\ result'.kind = k
           /\ Calls(c)!OnlyChoice' /\ Calls(c)!RightDevice'
           /\ call' \in [step : CallSteps, list : BOOLEAN, refresh : BOOLEAN,
                         source : Calls(c)!AllSources \cup {None}]
BY DEF Calls!Finish, Calls!Error, Calls!Nothing, Calls!Idle, Calls!OnlyChoice,
    Calls!RightDevice, CallSteps

LEMMA BrowsedKeeps ==
    ASSUME NEW c, FindInv(c), Calls(c)!Browsed
    PROVE  FindInv(c)'
<1> USE DEF FindInv
<1>1. /\ sources = None /\ sources' = None /\ UNCHANGED <<there, has, cache, cards, pending, current>>
      /\ probed' = {} /\ answered' = {}
  BY DEF Calls!Browsed, Calls!world, Stages
<1>2. CASE pending = {}
  <2>1. Calls(c)!Finish(Calls(c)!Error("nothing"))  BY <1>2 DEF Calls!Browsed
  <2>2. /\ call' = Calls(c)!Idle /\ call'.step = "idle" /\ result'.kind = "nothing"
        /\ Calls(c)!OnlyChoice' /\ Calls(c)!RightDevice'
        /\ call' \in [step : CallSteps, list : BOOLEAN, refresh : BOOLEAN,
                         source : Calls(c)!AllSources \cup {None}]
    BY <2>1, Erring
  <2>3. CallTyped(c)'  BY <1>1, <2>2, SameSources DEF CallTyped
  <2>4. Stages(c)' /\ Apart(c)' /\ Choice(c)'  BY <1>1, <2>2 DEF Stages, Apart, Choice
  <2>5. Follows(c)'  BY <1>1, <2>2, FollowsKept
  <2> QED  BY <2>3, <2>4, <2>5
<1>3. CASE pending # {}
  <2>1. call.step = "browse" /\ call' = [call EXCEPT !.step = "probe"] /\ result' = result
    BY <1>3 DEF Calls!Browsed
  <2>2a. call' \in [step : CallSteps, list : BOOLEAN, refresh : BOOLEAN,
                    source : Calls(c)!AllSources \cup {None}]
    BY <2>1 DEF CallTyped, CallSteps
  <2>2. CallTyped(c)'
    BY <1>1, <2>1, <2>2a, SameSources DEF CallTyped
  <2>3. call'.step = "probe"  BY <2>1 DEF CallTyped
  <2>4. Stages(c)' /\ Apart(c)'  BY <1>1, <2>1, <2>3 DEF Stages, Apart
  <2>5. Follows(c)' /\ Choice(c)'  BY <1>1, <2>1, <2>3, FollowsKept, ChoiceKept
  <2> QED  BY <2>2, <2>4, <2>5
<1> QED  BY <1>2, <1>3
(* The first address of a device to answer is its source, and the only one. *)
LEMMA AnswersKeeps ==
    ASSUME NEW c, FindInv(c), NEW p \in Places, Calls(c)!Answers(p)
    PROVE  FindInv(c)'
<1> USE DEF FindInv
<1> DEFINE s == Calls(c)!Source(there[p], p)
<1>1. /\ call.step = "probe" /\ p \in pending /\ there[p] # None
      /\ pending' = pending \ {p} /\ answered' = answered \cup {s}
      /\ UNCHANGED <<there, has, sources, cache, call, result, current>>
      /\ cards' = (IF c.cards THEN Calls(c)!With(cards, p, Calls(c)!Content(there[p]))
                   ELSE cards)
  BY DEF Calls!Answers, Calls!world
<1>2. s \in Calls(c)!AllSources /\ s.device = there[p] /\ s.at = p
  BY <1>1 DEF CallTyped, Calls!AllSources, Calls!Source
<1>3. probed' = IF ~c.cards /\ (\E r \in probed : r.device = there[p]) THEN probed
                ELSE probed \cup {s}
  BY DEF Calls!Answers, Calls!Keep
<1> HIDE DEF s
<1>4. CallTyped(c)'
  <2>1. DOMAIN cards' \subseteq Places  BY <1>1 DEF CallTyped, Calls!With
  <2> QED  BY <1>1, <1>2, <1>3, <2>1, SameSources DEF CallTyped
<1>5. Stages(c)'  BY <1>1, <1>2, <1>3 DEF Stages
<1>6. Apart(c)'  BY <1>1, <1>2, <1>3 DEF Apart
<1>7. Follows(c)'
  <2>1. \A q \in Places : Calls(c)!Shown(q)' = Calls(c)!Shown(q)  BY <1>1, SameWorld
  <2>2. Calls(c)!Content(there[p]) \in current[p]
    BY <1>1 DEF Follows, Calls!Shown
  <2>3. /\ \A q \in DOMAIN cards' : cards'[q] \in current'[q]
        /\ ~c.cards => DOMAIN cards' = {}
    BY <1>1, <2>2 DEF Follows, Calls!With
  <2> QED  BY <1>1, <2>1, <2>3 DEF Follows, Calls!Empty
<1>8. Choice(c)'  BY <1>1, ChoiceKept
<1> QED  BY <1>4, <1>5, <1>6, <1>7, <1>8

LEMMA FailsKeeps ==
    ASSUME NEW c, FindInv(c), NEW p \in Places, Calls(c)!Fails(p)
    PROVE  FindInv(c)'
<1> USE DEF FindInv
<1>1. /\ pending' = pending \ {p}
      /\ UNCHANGED <<there, has, sources, cache, cards, call, probed, result, answered,
                     current>>
  BY DEF Calls!Fails, Calls!world
<1>2. CallTyped(c)'  BY <1>1, SameSources DEF CallTyped
<1>3. Stages(c)' /\ Apart(c)'  BY <1>1 DEF Stages, Apart
<1>4. Follows(c)' /\ Choice(c)'  BY <1>1, FollowsKept, ChoiceKept
<1> QED  BY <1>2, <1>3, <1>4

LEMMA ProbedKeeps ==
    ASSUME NEW c, Calls(c)!DiscoveryConstants, FindInv(c), Calls(c)!Probed
    PROVE  FindInv(c)'
<1> USE DEF FindInv
<1>1. /\ call.step = "probe" /\ pending = {} /\ sources = None
      /\ UNCHANGED <<there, has, cache, cards, pending, probed, answered, current>>
  BY DEF Calls!Probed, Calls!world, Calls!probing, Stages
<1>2. result.kind = "none"  BY <1>1 DEF Stages
<1>3. DOMAIN cache = {}  BY <1>1 DEF Follows
<1>4. CASE probed = {}
  <2>1. Calls(c)!Finish(Calls(c)!Error("nothing")) /\ sources' = None
    BY <1>1, <1>4 DEF Calls!Probed
  <2>2. /\ call' = Calls(c)!Idle /\ call'.step = "idle" /\ result'.kind = "nothing"
        /\ Calls(c)!OnlyChoice' /\ Calls(c)!RightDevice'
        /\ call' \in [step : CallSteps, list : BOOLEAN, refresh : BOOLEAN,
                      source : Calls(c)!AllSources \cup {None}]
    BY <2>1, Erring
  <2>3. CallTyped(c)'  BY <1>1, <2>1, <2>2, SameSources DEF CallTyped
  <2>4. Stages(c)' /\ Apart(c)' /\ Choice(c)'
    BY <1>1, <2>1, <2>2 DEF Stages, Apart, Choice
  <2>5. Follows(c)'  BY <1>1, <2>1, <2>2, FollowsKept
  <2> QED  BY <2>3, <2>4, <2>5
<1>5. CASE probed # {}
  <2>1. /\ sources' = probed
        /\ IF call.list THEN call' = [call EXCEPT !.step = "select"] /\ result' = result
           ELSE Calls(c)!Finish([Calls(c)!Nothing EXCEPT !.kind = "sources"])
    BY <1>1, <1>5 DEF Calls!Probed
  <2>2. sources' # None /\ sources' \in (SUBSET Calls(c)!AllSources) \ {{}}
    BY <1>5, <2>1, probed \in SUBSET Calls(c)!AllSources DEF Calls!DiscoveryConstants, CallTyped
  <2>3. /\ call' \in [step : CallSteps, list : BOOLEAN, refresh : BOOLEAN,
                      source : Calls(c)!AllSources \cup {None}]
        /\ \/ call'.step = "select" /\ result'.kind = "none"
           \/ call'.step = "idle" /\ result'.kind = "sources"
    <3>1. CASE call.list
      BY <1>2, <2>1, <3>1 DEF CallTyped, CallSteps
    <3>2. CASE ~call.list
      <4>1. call' = Calls(c)!Idle /\ result' = [Calls(c)!Nothing EXCEPT !.kind = "sources"]
        BY <2>1, <3>2 DEF Calls!Finish
      <4> QED  BY <4>1 DEF Calls!Nothing, Calls!Idle, CallSteps
    <3> QED  BY <3>1, <3>2
  <2>4. CallTyped(c)'  BY <1>1, <2>2, <2>3, SameSources DEF CallTyped
  <2>5. Stages(c)' /\ Apart(c)'  BY <1>1, <2>1, <2>2, <2>3 DEF Stages, Apart
  <2>6. Choice(c)'  BY <2>3 DEF Choice, Calls!OnlyChoice, Calls!RightDevice
  <2>7. \A q \in Places : Calls(c)!Shown(q)' = Calls(c)!Shown(q)  BY <1>1, SameWorld
  <2>8. Follows(c)'  BY <1>1, <1>3, <2>7 DEF Follows, Calls!Empty
  <2> QED  BY <2>4, <2>5, <2>6, <2>8
<1> QED  BY <1>4, <1>5

(* Several sources fit the selector only if they are of several devices. *)
LEMMA SelectNoneKeeps ==
    ASSUME NEW c, FindInv(c), Calls(c)!SelectNone
    PROVE  FindInv(c)'
<1> USE DEF FindInv
<1> DEFINE k == IF Calls(c)!Candidates = {} THEN "no match" ELSE "multiple"
<1>0. Calls(c)!Cardinality(Calls(c)!Candidates) = Cardinality(Calls(c)!Candidates)
  BY DEF Calls!Cardinality, Cardinality
<1>1. /\ call.step = "select" /\ Cardinality(Calls(c)!Candidates) # 1
      /\ UNCHANGED <<there, has, sources, cache, cards, pending, probed, answered, current>>
      /\ Calls(c)!Finish(Calls(c)!Error(k))
  BY <1>0 DEF Calls!SelectNone, Calls!world, Calls!probing
<1>2. call' = Calls(c)!Idle /\ result' = Calls(c)!Error(k)
  BY <1>1 DEF Calls!Finish
<1>3. /\ call' \in [step : CallSteps, list : BOOLEAN, refresh : BOOLEAN,
                    source : Calls(c)!AllSources \cup {None}]
      /\ call'.step = "idle"
  BY <1>2 DEF Calls!Idle, CallSteps
<1>4. result'.kind = k /\ k \in {"no match", "multiple"}
  BY <1>2 DEF Calls!Error, Calls!Nothing
<1>5. CallTyped(c)'  BY <1>1, <1>3, SameSources DEF CallTyped
<1>6. Stages(c)' /\ Apart(c)'  BY <1>1, <1>3 DEF Stages, Apart
<1>7. Follows(c)'  BY <1>1, <1>3, FollowsKept
<1>8. ASSUME k = "multiple", ~c.cards
      PROVE  \E r, s \in sources : Calls(c)!Matches(r) /\ Calls(c)!Matches(s)
                                   /\ r.device # s.device
  <2>1. PICK r \in Calls(c)!Candidates : TRUE  BY <1>8
  <2>2. PICK s \in Calls(c)!Candidates : s # r
    <3>1. SUFFICES ASSUME \A s \in Calls(c)!Candidates : s = r PROVE FALSE  OBVIOUS
    <3>2. Calls(c)!Candidates = {r}  BY <2>1, <3>1
    <3> QED  BY <1>1, <3>2, FS_Singleton
  <2>3. r.device # s.device  BY <1>1, <1>8, <2>2 DEF Calls!Candidates, Stages, Apart
  <2> QED  BY <2>1, <2>2, <2>3 DEF Calls!Candidates
<1>9. Choice(c)'
  <2>1. Calls(c)!OnlyChoice'
    BY <1>1, <1>4, <1>8 DEF Calls!OnlyChoice, Calls!Matches
  <2> QED  BY <1>3, <1>4, <2>1 DEF Choice, Calls!RightDevice
<1> QED  BY <1>5, <1>6, <1>7, <1>9
LEMMA SelectKeeps ==
    ASSUME NEW c, FindInv(c), NEW s, Calls(c)!Select(s)
    PROVE  FindInv(c)'
<1> USE DEF FindInv
<1>1. /\ call.step = "select" /\ Calls(c)!Candidates = {s} /\ sources # None
      /\ UNCHANGED <<there, has, sources, pending, probed, answered>>
  BY DEF Calls!Select, Calls!world, Calls!probing, Stages
<1>2. s \in sources /\ s \in Calls(c)!AllSources /\ s.at \in Places
  BY <1>1 DEF Calls!Candidates, CallTyped, Stages, Calls!AllSources, Calls!Source
<1>3. Calls(c)!Candidates' = Calls(c)!Candidates  BY <1>1, SameChoice
<1>4. sources = probed  BY <1>1 DEF Stages
<1>5. CASE s \in DOMAIN cache /\ ~call.refresh
  <2>1. /\ call' = Calls(c)!Idle
        /\ result' = [kind |-> "list", source |-> s, content |-> cache[s]]
        /\ UNCHANGED <<cache, cards, current>>
    BY <1>5 DEF Calls!Select, Calls!Cached, Calls!Finish
  <2>2. call' \in [step : CallSteps, list : BOOLEAN, refresh : BOOLEAN,
                   source : Calls(c)!AllSources \cup {None}] /\ call'.step = "idle"
    BY <2>1 DEF Calls!Idle, CallSteps
  <2>3. CallTyped(c)'  BY <1>1, <2>1, <2>2, SameSources DEF CallTyped
  <2>4. Stages(c)' /\ Apart(c)'  BY <1>1, <2>2 DEF Stages, Apart
  <2>5. Follows(c)'  BY <1>1, <2>1, <2>2, FollowsKept
  <2>6. Choice(c)'
    BY <1>1, <1>3, <1>5, <2>1, <2>2 DEF Choice, Calls!OnlyChoice, Calls!RightDevice, Follows
  <2> QED  BY <2>3, <2>4, <2>5, <2>6
<1>6. CASE ~(s \in DOMAIN cache /\ ~call.refresh)
  <2>1. /\ call' = [call EXCEPT !.step = "read", !.source = s]
        /\ cache' = Calls(c)!Without(cache, s)
        /\ cards' = (IF call.refresh THEN Calls(c)!Without(cards, s.at) ELSE cards)
        /\ current' = (IF call.refresh
                       THEN [current EXCEPT ![s.at] = Calls(c)!Shown(s.at)] ELSE current)
        /\ result' = result
    BY <1>6 DEF Calls!Select, Calls!Cached
  <2>2. /\ call' \in [step : CallSteps, list : BOOLEAN, refresh : BOOLEAN,
                      source : Calls(c)!AllSources \cup {None}]
        /\ call'.step = "read" /\ call'.source = s
    BY <1>2, <2>1 DEF CallTyped, CallSteps
  <2>3. CallTyped(c)'
    <3>1. DOMAIN cards' \subseteq Places /\ DOMAIN current' = Places
      BY <2>1 DEF CallTyped, Calls!Without
    <3> QED  BY <1>1, <2>2, <3>1, SameSources DEF CallTyped
  <2>4. Stages(c)' /\ Apart(c)'  BY <1>1, <2>1, <2>2 DEF Stages, Apart
  <2>5. Choice(c)'
    BY <1>1, <1>3, <2>1, <2>2 DEF Choice, Calls!OnlyChoice, Calls!RightDevice, Stages
  <2>6. Follows(c)'
    <3>1. \A q \in Places : Calls(c)!Shown(q)' = Calls(c)!Shown(q)  BY <1>1, SameWorld
    <3>2. \A q \in Places : current'[q] = IF call.refresh /\ q = s.at
                                          THEN Calls(c)!Shown(q) ELSE current[q]
      BY <2>1 DEF CallTyped
    <3>3. \A q \in Places : Calls(c)!Shown(q)' \subseteq current'[q]
      BY <1>1, <3>1, <3>2 DEF Follows
    <3>4. \A r \in DOMAIN cache' : r \in DOMAIN cache /\ r # s /\ cache'[r] = cache[r]
      BY <2>1 DEF Calls!Without
    <3>5. \A r \in DOMAIN cache : r \in sources /\ r.at \in Places
      BY <1>1, <1>4 DEF Follows, CallTyped, Calls!AllSources, Calls!Source
    <3>6. \A r \in DOMAIN cache' : r.at # s.at
      BY <1>2, <1>4, <3>4, <3>5 DEF Apart
    <3>7. \A r \in DOMAIN cache' : cache'[r] \in current'[r.at] \cup {Calls(c)!Empty}
      BY <3>2, <3>4, <3>5, <3>6 DEF Follows
    <3>8. \A q \in DOMAIN cards' : q \in DOMAIN cards /\ q \in Places /\ cards'[q] = cards[q]
                                   /\ (call.refresh => q # s.at)
      BY <2>1 DEF Calls!Without, CallTyped
    <3>9. \A q \in DOMAIN cards' : cards'[q] \in current'[q]
      BY <3>2, <3>8 DEF Follows
    <3>10. Calls(c)!Empty' = Calls(c)!Empty  BY DEF Calls!Empty
    <3>11. ~c.cards => DOMAIN cards' = {}  BY <3>8 DEF Follows
    <3>12. DOMAIN cache' \subseteq sources  BY <3>4, <3>5
    <3>13. ~c.cards => \A r \in DOMAIN cache' : cache'[r].device \in {r.device, None}
      BY <3>4 DEF Follows
    <3> QED  BY <1>1, <3>3, <3>7, <3>9, <3>10, <3>11, <3>12, <3>13 DEF Follows
  <2> QED  BY <2>3, <2>4, <2>5, <2>6
<1> QED  BY <1>5, <1>6

(* A list that is read is cached as what it is. *)
LEMMA GotKeeps ==
    ASSUME NEW c, FindInv(c), call.step = "read", NEW v,
           v \in current[call.source.at],
           ~c.cards => v.device \in {call.source.device, None},
           Calls(c)!Got(call.source, v),
           UNCHANGED <<there, has, sources, pending, probed, answered, current>>
    PROVE  FindInv(c)'
<1> USE DEF FindInv
<1> DEFINE s == call.source
<1>1. sources # None /\ sources = probed /\ Calls(c)!Candidates = {s}
  BY DEF Stages, Choice
<1>2. s \in sources /\ s \in Calls(c)!AllSources /\ s.at \in Places
  BY <1>1 DEF Calls!Candidates, CallTyped, Stages, Calls!AllSources, Calls!Source
<1>3. Calls(c)!Candidates' = Calls(c)!Candidates  BY SameChoice
<1>4. /\ call' = Calls(c)!Idle /\ result' = [kind |-> "list", source |-> s, content |-> v]
      /\ cache' = Calls(c)!With(cache, s, v)
      /\ cards' = (IF c.cards THEN Calls(c)!With(cards, s.at, v) ELSE cards)
  BY DEF Calls!Got, Calls!Finish
<1> HIDE DEF s
<1>5. call' \in [step : CallSteps, list : BOOLEAN, refresh : BOOLEAN,
                 source : Calls(c)!AllSources \cup {None}] /\ call'.step = "idle"
  BY <1>4 DEF Calls!Idle, CallSteps
<1>6. DOMAIN cache' = DOMAIN cache \cup {s}
      /\ \A r \in DOMAIN cache' : cache'[r] = IF r = s THEN v ELSE cache[r]
  BY <1>4 DEF Calls!With
<1>7. /\ c.cards => DOMAIN cards' = DOMAIN cards \cup {s.at}
                    /\ \A q \in DOMAIN cards' : cards'[q] = IF q = s.at THEN v ELSE cards[q]
      /\ ~c.cards => cards' = cards
  BY <1>4 DEF Calls!With
<1>8. CallTyped(c)'  BY <1>2, <1>5, <1>7, SameSources DEF CallTyped
<1>9. Stages(c)' /\ Apart(c)'  BY <1>1, <1>5 DEF Stages, Apart
<1>10. Choice(c)'
  BY <1>1, <1>3, <1>4, <1>5 DEF Choice, Calls!OnlyChoice, Calls!RightDevice, s
<1>11. Follows(c)'
  <2>1. \A q \in Places : Calls(c)!Shown(q)' = Calls(c)!Shown(q)  BY SameWorld
  <2>2. \A r \in DOMAIN cache' : cache'[r] \in current'[r.at] \cup {Calls(c)!Empty}
    BY <1>6 DEF Follows, s
  <2>3. \A q \in DOMAIN cards' : cards'[q] \in current'[q]  BY <1>7 DEF Follows, s
  <2>4. Calls(c)!Empty' = Calls(c)!Empty  BY DEF Calls!Empty
  <2>5. DOMAIN cache' \subseteq sources  BY <1>1, <1>2, <1>6 DEF Follows
  <2>6. ~c.cards => DOMAIN cards' = {}
                    /\ \A r \in DOMAIN cache' : cache'[r].device \in {r.device, None}
    BY <1>6, <1>7 DEF Follows, s
  <2> QED  BY <1>1, <2>1, <2>2, <2>3, <2>4, <2>5, <2>6 DEF Follows
<1> QED  BY <1>8, <1>9, <1>10, <1>11

LEMMA ReadCardKeeps ==
    ASSUME NEW c, FindInv(c), Calls(c)!ReadCard
    PROVE  FindInv(c)'
<1> DEFINE v == cards[call.source.at]
<1>1. /\ call.step = "read" /\ call.source.at \in DOMAIN cards
      /\ Calls(c)!Got(call.source, v)
      /\ UNCHANGED <<there, has, sources, pending, probed, answered, current>>
  BY DEF Calls!ReadCard, Calls!Reading, Calls!world, Calls!probing
<1>2. v \in current[call.source.at] /\ c.cards  BY <1>1 DEF FindInv, Follows
<1> QED  BY <1>1, <1>2, GotKeeps

(* A call that fails changes nothing else. *)
LEMMA ErringKeeps ==
    ASSUME NEW c, FindInv(c), Calls(c)!Finish(Calls(c)!Error("failed")),
           UNCHANGED <<there, has, sources, cache, cards, pending, probed, answered, current>>
    PROVE  FindInv(c)'
<1>1. /\ call'.step = "idle" /\ result'.kind = "failed"
      /\ Calls(c)!OnlyChoice' /\ Calls(c)!RightDevice'
      /\ call' \in [step : CallSteps, list : BOOLEAN, refresh : BOOLEAN,
                    source : Calls(c)!AllSources \cup {None}]
  BY Erring DEF FindInv
<1>2. CallTyped(c)'  BY <1>1, SameSources DEF FindInv, CallTyped
<1>3. Stages(c)' /\ Apart(c)' /\ Choice(c)'
  BY <1>1 DEF FindInv, Stages, Apart, Choice
<1>4. Follows(c)'  BY <1>1, FollowsKept DEF FindInv
<1> QED  BY <1>2, <1>3, <1>4 DEF FindInv

LEMMA ReadKeeps ==
    ASSUME NEW c, FindInv(c), Calls(c)!Read
    PROVE  FindInv(c)'
<1> DEFINE p == call.source.at
           v == Calls(c)!Content(there[p])
<1>1. /\ call.step = "read" /\ there[p] # None
      /\ UNCHANGED <<there, has, sources, pending, probed, answered, current>>
      /\ IF Calls(c)!Accepted(call.source, v) THEN Calls(c)!Got(call.source, v)
         ELSE Calls(c)!Finish(Calls(c)!Error("failed")) /\ UNCHANGED <<cache, cards>>
  BY DEF Calls!Read, Calls!Reading, Calls!world, Calls!probing
<1>2. CASE Calls(c)!Accepted(call.source, v)
  <2>1. call.source \in Calls(c)!AllSources /\ sources # None
    BY <1>1 DEF FindInv, Choice, Calls!Candidates, Stages, CallTyped
  <2>2. p \in Places  BY <2>1 DEF Calls!AllSources, Calls!Source
  <2>3. v \in current[p]  BY <1>1, <2>1, <2>2 DEF FindInv, Follows, Calls!Shown
  <2>4. ~c.cards => v.device \in {call.source.device, None}
    BY <1>2 DEF Calls!Accepted
  <2> QED  BY <1>1, <1>2, <2>3, <2>4, GotKeeps
<1>3. CASE ~Calls(c)!Accepted(call.source, v)
  BY <1>1, <1>3, ErringKeeps
<1> QED  BY <1>2, <1>3

LEMMA ReadFailsKeeps ==
    ASSUME NEW c, FindInv(c), Calls(c)!ReadFails
    PROVE  FindInv(c)'
BY ErringKeeps DEF Calls!ReadFails, Calls!world, Calls!probing

(* Whatever happens to the devices, the history has seen it. *)
LEMMA MovesKeep ==
    ASSUME NEW c, FindInv(c), Calls(c)!Outside,
           there' \in [Places -> c.devices \cup {None}]
    PROVE  FindInv(c)'
<1> USE DEF FindInv
<1>1. /\ UNCHANGED <<sources, cache, cards, call, pending, probed, answered, result>>
      /\ current' = [p \in Places |-> current[p] \cup Calls(c)!Shown(p)']
  BY DEF Calls!Outside, Calls!Seen, Calls!probing
<1>2. CallTyped(c)'  BY <1>1, SameSources DEF CallTyped
<1>3. Stages(c)' /\ Apart(c)'  BY <1>1 DEF Stages, Apart
<1>4. Choice(c)'  BY <1>1, ChoiceKept
<1>5. Follows(c)'
  <2>1. \A p \in Places : current[p] \subseteq current'[p]
                          /\ Calls(c)!Shown(p)' \subseteq current'[p]
    BY <1>1
  <2>2. \A s \in DOMAIN cache : s.at \in Places
    BY DEF CallTyped, Follows, Calls!AllSources, Calls!Source
  <2>3. Calls(c)!Empty' = Calls(c)!Empty  BY DEF Calls!Empty
  <2> QED  BY <1>1, <2>1, <2>2, <2>3 DEF Follows, CallTyped
<1> QED  BY <1>2, <1>3, <1>4, <1>5

LEMMA CallsKeep ==
    ASSUME NEW c, Calls(c)!DiscoveryConstants, FindInv(c), Calls(c)!Next
    PROVE  FindInv(c)'
<1>1. ASSUME NEW refresh \in BOOLEAN, Calls(c)!Discover(refresh) \/ Calls(c)!List(refresh)
      PROVE  FindInv(c)'
  <2> DEFINE Goal == [step : CallSteps, list : BOOLEAN, refresh : BOOLEAN,
                      source : Calls(c)!AllSources \cup {None}]
  <2>1. /\ [Calls(c)!Idle EXCEPT !.refresh = refresh] \in Goal
        /\ [Calls(c)!Idle EXCEPT !.list = TRUE, !.refresh = refresh] \in Goal
    BY DEF Calls!Idle, CallSteps
  <2> QED  BY <1>1, <2>1, BeginKeeps DEF Calls!Discover, Calls!List
<1>2. ASSUME Calls(c)!Client PROVE FindInv(c)'
  BY <1>2, BrowsedKeeps, ProbedKeeps, SelectNoneKeeps, ReadCardKeeps, ReadKeeps,
     ReadFailsKeeps, AnnounceKeeps, AnswersKeeps, FailsKeeps, SelectKeeps DEF Calls!Client
<1>3. ASSUME NEW p \in Places, NEW d \in c.devices \cup {None}, Calls(c)!Moves(p, d)
      PROVE  FindInv(c)'
  BY <1>3, MovesKeep DEF Calls!Moves, FindInv, CallTyped
<1>4. ASSUME NEW d \in c.devices, Calls(c)!Records(d)
      PROVE  FindInv(c)'
  BY <1>4, MovesKeep DEF Calls!Records, FindInv, CallTyped
<1> QED  BY <1>1, <1>2, <1>3, <1>4 DEF Calls!Next

LEMMA CallsStutter ==
    ASSUME NEW c, FindInv(c), UNCHANGED sourceVars
    PROVE  FindInv(c)'
<1>1. UNCHANGED <<there, has, sources, cache, cards, call, pending, probed, result,
                  answered, current>>
  BY DEF sourceVars
<1>2. CallTyped(c)'  BY <1>1, SameSources DEF FindInv, CallTyped
<1>3. Stages(c)' /\ Apart(c)'  BY <1>1 DEF FindInv, Stages, Apart
<1>4. Follows(c)' /\ Choice(c)'  BY <1>1, FollowsKept, ChoiceKept DEF FindInv
<1> QED  BY <1>2, <1>3, <1>4 DEF FindInv

(* The four properties of one use of the object. *)
Found(c) ==
    Calls(c)!TypeOK /\ Calls(c)!NoneHidden /\ Calls(c)!CacheCurrent /\ Calls(c)!OnlyChoice

LEMMA FindInvFinds ==
    ASSUME NEW c, FindInv(c)
    PROVE  Found(c) /\ (~c.cards => Calls(c)!RightDevice)
<1> USE DEF FindInv
<1>1. Calls(c)!TypeOK  BY DEF Calls!TypeOK, CallTyped, Follows, CallSteps
<1>2. Calls(c)!NoneHidden /\ Calls(c)!CacheCurrent
  BY DEF Calls!NoneHidden, Calls!CacheCurrent, Stages, Follows
<1> QED  BY <1>1, <1>2 DEF Found, Choice
(* Whatever devices, labels and places there are, which source is selected and  *)
(* for how long it goes on: every device that answered is found, once; lists    *)
(* are of the only source that fits and hold what it had since the last         *)
(* discovery and refresh; on the LAN, they are of its device.                  *)
THEOREM CallsFind ==
    ASSUME NEW c, Calls(c)!DiscoveryConstants
    PROVE  Calls(c)!Init /\ [][Calls(c)!Next]_sourceVars
               => [](Found(c) /\ (~c.cards => Calls(c)!RightDevice))
<1>1. Calls(c)!Init => FindInv(c)  BY FindStarts
<1>2. FindInv(c) /\ [Calls(c)!Next]_sourceVars => FindInv(c)'
  BY CallsKeep, CallsStutter
<1>3. FindInv(c) => Found(c) /\ (~c.cards => Calls(c)!RightDevice)  BY FindInvFinds
<1> QED  BY <1>1, <1>2, <1>3, PTL

LEMMA Uses ==
    /\ Lan.devices = Cards.devices /\ Lan.cards = FALSE /\ Cards.cards = TRUE
    /\ Calls(Lan)!DiscoveryConstants /\ Calls(Cards)!DiscoveryConstants
BY MCSdkAssumption DEF Lan, Cards

(* The state of the calls in a run of the object: of the parts in which nothing *)
(* is found, the first state.                                                 *)
Finding == IF use = "cards" THEN FindInv(Cards) ELSE FindInv(Lan)

LEMMA FindingDiscovers == Finding => Discoveries
<1> SUFFICES ASSUME Finding PROVE Discoveries  OBVIOUS
<1>1. CASE use = "cards"
  <2>1. Found(Cards)  BY <1>1, FindInvFinds DEF Finding
  <2>2. Calls(Lan)!TypeOK /\ Calls(Lan)!NoneHidden /\ Calls(Lan)!CacheCurrent
    BY <2>1, Uses, SMTT(40) DEF Found, Calls!TypeOK, Calls!NoneHidden, Calls!CacheCurrent,
       Calls!AllSources, Calls!Source, Calls!Empty
  <2> QED  BY <1>1, <2>1, <2>2 DEF Found, Discoveries
<1>2. CASE use # "cards"
  BY <1>2, FindInvFinds, Uses DEF Finding, Found, Discoveries
<1> QED  BY <1>1, <1>2

(* What a discovery finds and a list shows in the run (Discoveries), for any     *)
(* places, numbers of calls and events.                                       *)
THEOREM SdkDiscovers == SdkSpec => []Discoveries
<1>1. SdkInit => Finding
  <2>1. Calls(Cards)!Init <=> Calls(Lan)!Init
    BY Uses DEF Calls!Init, Calls!Idle, Calls!Nothing
  <2> QED  BY <2>1, FindStarts, Uses DEF SdkInit, Finding
<1>2. Finding /\ [SdkNext]_sdkVars => Finding'
  <2> SUFFICES ASSUME Finding, [SdkNext]_sdkVars PROVE Finding'  OBVIOUS
  <2>1. CASE use = "lan" /\ Calls(Lan)!Next /\ OnlySources
    BY <2>1, CallsKeep, Uses DEF Finding, OnlySources
  <2>2. CASE use = "cards" /\ Calls(Cards)!Next /\ OnlySources
    BY <2>2, CallsKeep, Uses DEF Finding, OnlySources
  <2>3. CASE UNCHANGED <<use, sourceVars>>
    BY <2>3, CallsStutter DEF Finding
  <2> QED  BY <2>1, <2>2, <2>3 DEF SdkNext, Export, OnlyBatch, OnlyCard, OnlyRender, sdkVars
<1> QED  BY <1>1, <1>2, FindingDiscovers, PTL DEF SdkSpec

-----------------------------------------------------------------------------
(* Sequences in an order *)

Members(q) == {q[i] : i \in DOMAIN q}

(* R orders the elements of S one after the other. *)
Ranks(R, S) ==
    /\ \A a \in S : <<a, a>> \notin R
    /\ \A a, b, d \in S : <<a, b>> \in R /\ <<b, d>> \in R => <<a, d>> \in R
    /\ \A a, b \in S : a = b \/ <<a, b>> \in R \/ <<b, a>> \in R
Lines(q, n, R, S) ==
    /\ q \in [1..n -> S]
    /\ \A i, j \in 1..n : i < j => <<q[i], q[j]>> \in R

(* A finite set can be put in any such order: each element at one more than    *)
(* the number of those before it.                                             *)
LEMMA Sortable ==
    ASSUME NEW S, IsFiniteSet(S), NEW R, Ranks(R, S)
    PROVE  \E q : Lines(q, Cardinality(S), R, S)
<1> DEFINE n == Cardinality(S)
           Below(a) == {b \in S : <<b, a>> \in R}
           rank == [a \in S |-> Cardinality(Below(a)) + 1]
<1>1. n \in Nat  BY FS_CardinalityType
<1>2. \A a \in S : IsFiniteSet(Below(a)) /\ Cardinality(Below(a)) \in Nat
  <2> TAKE a \in S
  <2>1. IsFiniteSet(Below(a))  BY FS_Subset
  <2> QED  BY <2>1, FS_CardinalityType
<1>3. ASSUME NEW a \in S, NEW b \in S, <<a, b>> \in R
      PROVE  rank[a] < rank[b]
  <2>1. a \notin Below(a)  BY DEF Ranks
  <2>2. Below(a) \cup {a} \subseteq Below(b)  BY <1>3 DEF Ranks
  <2>3. /\ Cardinality(Below(a) \cup {a}) = Cardinality(Below(a)) + 1
        /\ IsFiniteSet(Below(a) \cup {a})
    <3> HIDE DEF Below
    <3> QED  BY <1>2, <2>1, FS_AddElement
  <2>4. Cardinality(Below(a) \cup {a}) <= Cardinality(Below(b))
    <3> HIDE DEF Below
    <3> QED  BY <1>2, <2>2, FS_Subset
  <2>5. rank[a] = Cardinality(Below(a)) + 1 /\ rank[b] = Cardinality(Below(b)) + 1
    OBVIOUS
  <2> HIDE DEF rank, Below
  <2> QED  BY <1>2, <2>3, <2>4, <2>5
<1>4. \A a \in S : rank[a] \in 1..n
  <2> TAKE a \in S
  <2>1. IsFiniteSet(S \ {a}) /\ Cardinality(S \ {a}) = n - 1  BY FS_RemoveElement
  <2>2. Below(a) \in SUBSET (S \ {a})  BY DEF Ranks
  <2>3. Cardinality(Below(a)) <= n - 1
    <3> HIDE DEF Below
    <3> QED  BY <2>1, <2>2, FS_Subset
  <2>4. rank[a] = Cardinality(Below(a)) + 1  OBVIOUS
  <2> HIDE DEF rank, Below
  <2> QED  BY <1>1, <1>2, <2>3, <2>4
<1>5. rank \in [S -> 1..n]  BY <1>4
<1> HIDE DEF rank, Below
<1>6. \A a, b \in S : rank[a] = rank[b] => a = b
  <2> SUFFICES ASSUME NEW a \in S, NEW b \in S, rank[a] = rank[b], a # b PROVE FALSE
    OBVIOUS
  <2>1. <<a, b>> \in R \/ <<b, a>> \in R  BY DEF Ranks
  <2> QED  BY <1>1, <1>3, <1>4, <2>1
<1>7. \A i \in 1..n : \E a \in S : rank[a] = i
  <2>1. IsFiniteSet(1..n) /\ Cardinality(1..n) = n  BY <1>1, FS_Interval
  <2>2. rank \in Injection(S, 1..n)  BY <1>5, <1>6 DEF Injection, IsInjective
  <2>3. rank \in Surjection(S, 1..n)  BY <2>1, <2>2, FS_Injection
  <2> QED  BY <2>3 DEF Surjection
<1> DEFINE q == [i \in 1..n |-> CHOOSE a \in S : rank[a] = i]
<1>8. \A i \in 1..n : q[i] \in S /\ rank[q[i]] = i  BY <1>7
<1>9. q \in [1..n -> S]  BY <1>8
<1> HIDE DEF q
<1>10. ASSUME NEW i \in 1..n, NEW j \in 1..n, i < j
       PROVE  <<q[i], q[j]>> \in R
  <2>1. q[i] # q[j]  BY <1>8, <1>10
  <2>2. <<q[j], q[i]>> \notin R  BY <1>1, <1>3, <1>8, <1>10
  <2> QED  BY <1>8, <2>1, <2>2 DEF Ranks
<1>11. Lines(q, n, R, S)  BY <1>9, <1>10 DEF Lines
<1> QED  BY <1>11

(* Such a sequence has every element once. *)
LEMMA LinesAll ==
    ASSUME NEW S, IsFiniteSet(S), NEW R, Ranks(R, S), NEW q, Lines(q, Cardinality(S), R, S)
    PROVE  Members(q) = S /\ IsInjective(q) /\ q \in Seq(S) /\ Len(q) = Cardinality(S)
<1> DEFINE n == Cardinality(S)
<1>1. n \in Nat /\ q \in [1..n -> S]  BY FS_CardinalityType DEF Lines
<1>2. \A i, j \in 1..n : q[i] = q[j] => i = j
  <2> SUFFICES ASSUME NEW i \in 1..n, NEW j \in 1..n, q[i] = q[j], i < j PROVE FALSE
    BY <1>1
  <2> QED  BY <1>1 DEF Lines, Ranks
<1>3. q \in Injection(1..n, S)  BY <1>1, <1>2 DEF Injection, IsInjective
<1>4. IsFiniteSet(1..n) /\ Cardinality(1..n) = n  BY <1>1, FS_Interval
<1>5. q \in Surjection(1..n, S)  BY <1>3, <1>4, FS_Injection
<1>6. Members(q) = S  BY <1>1, <1>5 DEF Surjection, Members
<1>7. q \in Seq(S) /\ Len(q) = n  BY <1>1
<1> QED  BY <1>1, <1>2, <1>6, <1>7 DEF IsInjective

(* Numbers in ascending order. *)
LEMMA AscendingIs ==
    ASSUME NEW S \in SUBSET Nat, IsFiniteSet(S)
    PROVE  LET q == Batch!Ascending(S) IN
           /\ q \in Seq(S) /\ Members(q) = S /\ IsInjective(q)
           /\ \A i, j \in DOMAIN q : i < j => q[i] < q[j]
<1> DEFINE R == {p \in S \X S : p[1] < p[2]}
           n == Cardinality(S)
           Rises(q) == q \in [1..n -> S] /\ \A i, j \in DOMAIN q : i < j => q[i] < q[j]
<1>1. Ranks(R, S)  BY DEF Ranks
<1>2. \A q : Rises(q) <=> Lines(q, n, R, S)  BY DEF Lines
<1>3. \E q : Rises(q)  BY <1>1, <1>2, Sortable
<1>4. Batch!Ascending(S) = CHOOSE q \in [1..n -> S] : \A i, j \in DOMAIN q : i < j => q[i] < q[j]
  BY DEF Batch!Ascending, Batch!Cardinality, Cardinality
<1>5. Rises(Batch!Ascending(S))  BY <1>3, <1>4
<1> HIDE DEF R
<1> QED  BY <1>1, <1>2, <1>5, LinesAll

(* A sequence of numbers is reported in the order of the list, whole. *)
LEMMA PrecedesIs ==
    \A r, s, t \in Nat :
        /\ ~Batch!Precedes(r, r)
        /\ Batch!Precedes(r, s) /\ Batch!Precedes(s, t) => Batch!Precedes(r, t)
        /\ r = s \/ Batch!Precedes(r, s) \/ Batch!Precedes(s, r)
        /\ r \in Batch!Listed /\ s \in Batch!Listed => (Batch!Precedes(r, s) <=> r < s)
<1>1. \A r \in Nat : Batch!Place(r) \in Nat  BY DEF Batch!Place
<1>2. \A r \in Batch!Listed : Batch!Place(r) = r  BY DEF Batch!Place
<1> QED  BY <1>1, <1>2 DEF Batch!Precedes

LEMMA InOrderIs ==
    ASSUME NEW q \in Seq(Nat), IsInjective(q)
    PROVE  LET o == Batch!InOrder(q) IN
           /\ DOMAIN o = DOMAIN q /\ Members(o) = Members(q)
           /\ \A S : q \in Seq(S) => o \in Seq(S)
           /\ IsInjective(o)
           /\ \A i, j \in DOMAIN o : i < j => Batch!Precedes(o[i], o[j])
<1> DEFINE D == DOMAIN q
           n == Len(q)
           R == {p \in D \X D : Batch!Precedes(q[p[1]], q[p[2]])}
           Sorts(f) == /\ IsInjective(f)
                       /\ \A i, j \in D : i < j => ~Batch!Precedes(q[f[j]], q[f[i]])
           p == CHOOSE f \in [D -> D] : Sorts(f)
           o == [i \in D |-> q[p[i]]]
<1>1. n \in Nat /\ D = 1..n /\ \A i \in D : q[i] \in Nat  OBVIOUS
<1>2. IsFiniteSet(D) /\ Cardinality(D) = n
  <2> HIDE DEF D, n
  <2> QED  BY <1>1, FS_Interval
<1>3. \A i, j \in D : <<i, j>> \in R <=> Batch!Precedes(q[i], q[j])
  OBVIOUS
<1>4. \A i, j \in D : q[i] = q[j] => i = j  BY <1>1 DEF IsInjective
<1>5. Batch!InOrder(q) = o
  BY DEF Batch!InOrder, Batch!IsInjective, IsInjective
<1> HIDE DEF R, D, n
<1>6. Ranks(R, D)
  <2>1. \A a \in D : <<a, a>> \notin R  BY <1>1, <1>3, PrecedesIs
  <2>2. ASSUME NEW a \in D, NEW b \in D, NEW d \in D,
               <<a, b>> \in R, <<b, d>> \in R
        PROVE  <<a, d>> \in R
    <3>1. Batch!Precedes(q[a], q[b]) /\ Batch!Precedes(q[b], q[d])  BY <1>3, <2>2
    <3>2. q[a] \in Nat /\ q[b] \in Nat /\ q[d] \in Nat  BY <1>1
    <3>3. Batch!Precedes(q[a], q[d])  BY <3>1, <3>2, PrecedesIs
    <3> QED  BY <1>3, <3>3
  <2>3. ASSUME NEW a \in D, NEW b \in D
        PROVE  a = b \/ <<a, b>> \in R \/ <<b, a>> \in R
    <3>1. q[a] \in Nat /\ q[b] \in Nat  BY <1>1
    <3>2. q[a] = q[b] \/ Batch!Precedes(q[a], q[b]) \/ Batch!Precedes(q[b], q[a])
      BY <3>1, PrecedesIs
    <3> QED  BY <1>3, <1>4, <3>2
  <2> QED  BY <2>1, <2>2, <2>3 DEF Ranks
<1>7. p \in [D -> D] /\ Sorts(p)
  <2>1. PICK f : Lines(f, n, R, D)  BY <1>2, <1>6, Sortable
  <2>2. f \in [D -> D] /\ IsInjective(f)
    BY <1>1, <1>2, <1>6, <2>1, LinesAll DEF Lines
  <2>3. ASSUME NEW i \in D, NEW j \in D, i < j, Batch!Precedes(q[f[j]], q[f[i]])
        PROVE FALSE
    <3>1. f[i] \in D /\ f[j] \in D  BY <2>2
    <3>2. Batch!Precedes(q[f[i]], q[f[j]])  BY <1>1, <1>3, <2>1, <2>3, <3>1 DEF Lines
    <3>3. q[f[i]] \in Nat /\ q[f[j]] \in Nat  BY <1>1, <3>1
    <3>4. Batch!Precedes(q[f[i]], q[f[i]])  BY <2>3, <3>2, <3>3, PrecedesIs
    <3> QED  BY <3>3, <3>4, PrecedesIs
  <2> HIDE DEF Sorts
  <2>4. Sorts(f)  BY <2>2, <2>3 DEF Sorts
  <2> QED  BY <2>2, <2>4
<1> HIDE DEF p
<1>8. /\ \A i \in D : p[i] \in D /\ o[i] = q[p[i]]
      /\ \A i, j \in D : p[i] = p[j] => i = j
      /\ \A i, j \in D : i < j => ~Batch!Precedes(q[p[j]], q[p[i]])
      /\ DOMAIN o = D
  BY <1>7 DEF IsInjective
<1>9. \A k \in D : \E i \in D : p[i] = k
  <2>1. p \in Injection(D, D)  BY <1>7 DEF Injection
  <2>2. p \in Surjection(D, D)  BY <1>2, <2>1, FS_Injection
  <2> QED  BY <2>2 DEF Surjection
<1>10. \A S : q \in Seq(S) => o \in Seq(S)  BY <1>1, <1>8 DEF D
<1> HIDE DEF o
<1>11. Members(o) = Members(q)
  <2>1. Members(o) = {o[i] : i \in D} /\ Members(q) = {q[i] : i \in D}
    BY <1>8 DEF Members, D
  <2>2. \A i \in D : o[i] \in Members(q)  BY <1>8, <2>1
  <2>3. \A k \in D : q[k] \in Members(o)  BY <1>8, <1>9, <2>1
  <2> QED  BY <2>1, <2>2, <2>3
<1>12. IsInjective(o)  BY <1>4, <1>8 DEF IsInjective
<1>13. ASSUME NEW i \in D, NEW j \in D, i < j
       PROVE  Batch!Precedes(o[i], o[j])
  <2>1. p[i] \in D /\ p[j] \in D /\ p[i] # p[j]  BY <1>1, <1>8, <1>13
  <2>2. q[p[i]] # q[p[j]] /\ q[p[i]] \in Nat /\ q[p[j]] \in Nat  BY <1>1, <1>4, <2>1
  <2>3. ~Batch!Precedes(q[p[j]], q[p[i]])  BY <1>8, <1>13
  <2>4. Batch!Precedes(q[p[i]], q[p[j]])  BY <2>2, <2>3, PrecedesIs
  <2> QED  BY <1>8, <2>4
<1> QED  BY <1>5, <1>8, <1>10, <1>11, <1>12, <1>13 DEF D

(* Taking the first of a sequence, and putting one behind it. *)
LEMMA SeqWider ==
    ASSUME NEW S, NEW T, S \subseteq T, NEW q \in Seq(S)
    PROVE  q \in Seq(T)
<1>1. /\ DOMAIN q = 1..Len(q) /\ Len(q) \in Nat /\ \A i \in 1..Len(q) : q[i] \in T
      /\ q = [i \in 1..Len(q) |-> q[i]]
  OBVIOUS
<1> QED  BY <1>1

LEMMA TailIs ==
    ASSUME NEW S, NEW q \in Seq(S), q # <<>>, IsInjective(q)
    PROVE  /\ Head(q) \in S /\ Tail(q) \in Seq(S) /\ IsInjective(Tail(q))
           /\ Members(q) = {Head(q)} \cup Members(Tail(q))
           /\ Head(q) \notin Members(Tail(q))
           /\ Head(q) = q[1]
           /\ \A i \in DOMAIN Tail(q) : i + 1 \in DOMAIN q /\ Tail(q)[i] = q[i + 1]
<1>1. /\ Head(q) = q[1] /\ Head(q) \in S /\ Tail(q) \in Seq(S)
      /\ Len(Tail(q)) = Len(q) - 1 /\ Len(q) \in Nat /\ Len(q) >= 1
      /\ DOMAIN q = 1..Len(q) /\ DOMAIN Tail(q) = 1..(Len(q) - 1)
      /\ \A i \in 1..(Len(q) - 1) : Tail(q)[i] = q[i + 1]
  OBVIOUS
<1>2. \A i, j \in DOMAIN q : q[i] = q[j] => i = j  BY DEF IsInjective
<1>3. \A i \in DOMAIN Tail(q) : i + 1 \in DOMAIN q /\ Tail(q)[i] = q[i + 1]  BY <1>1
<1>4. IsInjective(Tail(q))
  <2> SUFFICES ASSUME NEW i \in DOMAIN Tail(q), NEW j \in DOMAIN Tail(q),
                      Tail(q)[i] = Tail(q)[j] PROVE i = j
    BY DEF IsInjective
  <2>1. q[i + 1] = q[j + 1] /\ i + 1 \in DOMAIN q /\ j + 1 \in DOMAIN q  BY <1>3
  <2>2. i + 1 = j + 1  BY <1>2, <2>1
  <2> QED  BY <1>1, <2>2
<1>5. Members(q) = {Head(q)} \cup Members(Tail(q))
  <2>1. \A i \in DOMAIN q : i = 1 \/ (i - 1 \in DOMAIN Tail(q) /\ Tail(q)[i - 1] = q[i])
    BY <1>1
  <2>2. 1 \in DOMAIN q /\ q[1] = Head(q)  BY <1>1
  <2>3. ASSUME NEW x PROVE x \in Members(q) <=> x = Head(q) \/ x \in Members(Tail(q))
    <3>1. x \in Members(q) <=> \E i \in DOMAIN q : q[i] = x  BY DEF Members
    <3>2. x \in Members(Tail(q)) <=> \E i \in DOMAIN Tail(q) : Tail(q)[i] = x
      BY DEF Members
    <3> QED  BY ONLY <1>3, <2>1, <2>2, <3>1, <3>2
  <2> QED  BY <2>3
<1>6. Head(q) \notin Members(Tail(q))
  <2> SUFFICES ASSUME NEW i \in DOMAIN Tail(q), Tail(q)[i] = Head(q) PROVE FALSE
    BY DEF Members
  <2>1. q[i + 1] = q[1] /\ i + 1 \in DOMAIN q /\ 1 \in DOMAIN q  BY <1>1
  <2>2. i + 1 = 1  BY <1>2, <2>1
  <2> QED  BY <1>1, <2>2
<1> QED  BY <1>1, <1>3, <1>4, <1>5, <1>6

LEMMA AppendIs ==
    ASSUME NEW S, NEW q \in Seq(S), NEW x \in S, IsInjective(q), x \notin Members(q)
    PROVE  /\ Append(q, x) \in Seq(S) /\ IsInjective(Append(q, x))
           /\ Members(Append(q, x)) = Members(q) \cup {x}
<1> DEFINE r == Append(q, x)
           n == Len(q)
<1>1. /\ r \in Seq(S) /\ n \in Nat /\ DOMAIN q = 1..n /\ DOMAIN r = 1..n + 1
      /\ \A i \in 1..n : r[i] = q[i] /\ q[i] \in Members(q)
      /\ r[n + 1] = x
  BY DEF Members
<1> HIDE DEF r, n
<1>2. \A i \in 1..n + 1 : i \in 1..n \/ i = n + 1  BY <1>1
<1>3. IsInjective(r)
  BY <1>1, <1>2 DEF IsInjective
<1>4. Members(r) = Members(q) \cup {x}
  <2>1. n + 1 \in DOMAIN r /\ \A i \in 1..n : i \in DOMAIN r  BY <1>1
  <2> QED  BY <1>1, <1>2, <2>1 DEF Members
<1> QED  BY <1>1, <1>3, <1>4 DEF r

LEMMA JoinIs ==
    ASSUME NEW S, NEW q \in Seq(S), NEW r \in Seq(S), IsInjective(q), IsInjective(r),
           Members(q) \cap Members(r) = {}
    PROVE  /\ q \o r \in Seq(S) /\ IsInjective(q \o r)
           /\ Members(q \o r) = Members(q) \cup Members(r)
<1> DEFINE n == Len(q)
           m == Len(r)
           t == q \o r
<1>1. /\ t \in Seq(S) /\ n \in Nat /\ m \in Nat /\ DOMAIN q = 1..n /\ DOMAIN r = 1..m
      /\ DOMAIN t = 1..n + m
      /\ \A i \in 1..n : t[i] = q[i]
      /\ \A i \in 1..n + m : i > n => t[i] = r[i - n]
  OBVIOUS
<1> HIDE DEF t, n, m
<1>2. \A i \in 1..n + m : \/ i \in 1..n /\ t[i] = q[i] /\ t[i] \in Members(q)
                          \/ i \notin 1..n /\ i - n \in 1..m /\ t[i] = r[i - n] /\ t[i] \in Members(r)
  <2> TAKE i \in 1..n + m
  <2>1. CASE i <= n
    <3>1. i \in 1..n  BY <1>1, <2>1
    <3> QED  BY <1>1, <3>1 DEF Members
  <2>2. CASE i > n
    <3>1. i \notin 1..n /\ i - n \in 1..m /\ t[i] = r[i - n]  BY <1>1, <2>2
    <3> QED  BY <1>1, <3>1 DEF Members
  <2> QED  BY <1>1, <2>1, <2>2
<1>3. IsInjective(t)
  <2> SUFFICES ASSUME NEW i \in 1..n + m, NEW j \in 1..n + m, t[i] = t[j] PROVE i = j
    BY <1>1 DEF IsInjective
  <2>1. CASE i \in 1..n /\ j \in 1..n
    BY <1>1, <2>1 DEF IsInjective
  <2>2. CASE i \notin 1..n /\ j \notin 1..n
    <3>1. i - n \in 1..m /\ j - n \in 1..m /\ r[i - n] = r[j - n]  BY <1>2, <2>2
    <3>2. i - n = j - n  BY <1>1, <3>1 DEF IsInjective
    <3> QED  BY <1>1, <3>2
  <2>3. CASE (i \in 1..n /\ j \notin 1..n) \/ (i \notin 1..n /\ j \in 1..n)
    <3>1. t[i] \in Members(q) \cap Members(r)  BY <1>2, <2>3
    <3> QED  BY <3>1
  <2> QED  BY <2>1, <2>2, <2>3
<1>4. Members(t) = Members(q) \cup Members(r)
  <2>1. \A i \in 1..n : i \in DOMAIN t  BY <1>1
  <2>2. \A i \in 1..m : i + n \in DOMAIN t /\ t[i + n] = r[i]  BY <1>1
  <2>3. \A x : x \in Members(t) <=> \E i \in 1..n + m : t[i] = x  BY <1>1 DEF Members
  <2>4. \A x : x \in Members(q) <=> \E i \in 1..n : q[i] = x  BY <1>1 DEF Members
  <2>5. \A x : x \in Members(r) <=> \E i \in 1..m : r[i] = x  BY <1>1 DEF Members
  <2>6. \A x : x \in Members(t) => x \in Members(q) \cup Members(r)  BY <1>2, <2>3
  <2>7. \A x : x \in Members(q) => x \in Members(t)  BY <1>1, <2>1, <2>3, <2>4
  <2>8. \A x : x \in Members(r) => x \in Members(t)  BY <1>1, <2>2, <2>3, <2>5
  <2> QED  BY <2>6, <2>7, <2>8
<1> QED  BY <1>1, <1>3, <1>4 DEF t

-----------------------------------------------------------------------------
(* Batches of exports *)

Pcs == {"list", "export", "leave", "raised", "returned"}
Ways == {"ok", "failed", "broken"}
BatchTyped ==
    /\ requested \in {All} \cup SUBSET (Batch!Listed \cup Unknown)
    /\ exportable \subseteq Batch!Listed /\ continue \in BOOLEAN /\ batch \in Pcs
    /\ remaining \in Seq(Batch!Listed) /\ IsInjective(remaining)
    /\ exported \in Seq(Batch!Listed) /\ IsInjective(exported)
    /\ failures \in Seq(Batch!Listed \cup Unknown) /\ IsInjective(failures)
    /\ active \subseteq Batch!Listed /\ running \subseteq active
    /\ Cardinality(active) <= MaxWorkers
    /\ ended \in [Batch!Listed -> {""} \cup Ways]

(* Every chosen recording waits, is in the window or was collected, and only    *)
(* what was submitted has ended.                                              *)
Windowed ==
    batch \in {"export", "leave", "returned"} =>
        /\ active \cup Members(remaining) \subseteq Batch!Chosen
        /\ active \cap Members(remaining) = {}
        /\ \A s \in Batch!Listed :
               ended[s] = "" <=> \/ s \notin Batch!Chosen
                                 \/ s \in Members(remaining) \/ s \in running

(* What was collected is told as what it is. *)
Collected == Batch!Chosen \ (Members(remaining) \cup active)
Told ==
    batch \in {"export", "returned"} =>
        /\ \A s \in Collected : ended[s] = "ok" \/ (ended[s] = "failed" /\ continue)
        /\ Members(exported) = {s \in Collected : ended[s] = "ok"}
        /\ Members(failures) = Batch!UnknownIds \cup Batch!Unavailable
                               \cup {s \in Collected : ended[s] = "failed"}

(* One after the other, where there is only one worker for them. *)
InTurn ==
    batch = "export" /\ ~Batch!Parallel =>
        /\ \A r, s \in active : r = s
        /\ \A r \in Members(exported), s \in active \cup Members(remaining) : r < s
        /\ \A r \in active, s \in Members(remaining) : r < s
        /\ \A i, j \in DOMAIN remaining : i < j => remaining[i] < remaining[j]
        /\ \A i, j \in DOMAIN exported : i < j => exported[i] < exported[j]

Over ==
    /\ batch = "list" => /\ remaining = <<>> /\ active = {} /\ exported = <<>>
                         /\ failures = <<>> /\ ended = [s \in Batch!Listed |-> ""]
    /\ batch \in {"returned", "raised"} => running = {}
    /\ batch = "returned" => remaining = <<>> /\ active = {} /\ Batch!Sorted

BatchInv == BatchTyped /\ Windowed /\ Told /\ InTurn /\ Over

LEMMA BatchFacts ==
    /\ Count \in Nat /\ MaxWorkers \in 1..8 /\ Batch!Listed = 1..Count
    /\ IsFiniteSet(Batch!Listed) /\ IsFiniteSet(Unknown) /\ Unknown \subseteq Nat
    /\ Unknown \cap Batch!Listed = {} /\ Batch!Listed \subseteq Nat
<1>1. Count \in Nat /\ Batch!Listed = 1..Count  BY MCSdkAssumption DEF Batch!BatchConstants, Batch!Listed
<1>2. IsFiniteSet(1..Count)  BY <1>1, FS_Interval
<1>3. /\ MaxWorkers \in 1..8 /\ Unknown \subseteq Nat /\ Unknown \cap Batch!Listed = {}
      /\ IsFiniteSet(Unknown)
  BY MCSdkAssumption DEF Batch!BatchConstants, Batch!IsFiniteSet, IsFiniteSet
<1>4. Batch!Listed \subseteq Nat  BY <1>1
<1> QED  BY <1>1, <1>2, <1>3, <1>4

LEMMA NoMembers ==
    Members(<<>>) = {} /\ IsInjective(<<>>) /\ \A S : <<>> \in Seq(S)
BY DEF Members, IsInjective

(* The input stays, and so does what is made of it. *)
LEMMA SameInput ==
    ASSUME UNCHANGED <<requested, exportable, continue>>
    PROVE  /\ Batch!Chosen' = Batch!Chosen /\ Batch!UnknownIds' = Batch!UnknownIds
           /\ Batch!Unavailable' = Batch!Unavailable /\ Batch!Parallel' = Batch!Parallel
BY DEF Batch!Chosen, Batch!Wanted, Batch!UnknownIds, Batch!Unavailable, Batch!Parallel

LEMMA InputIs ==
    ASSUME BatchTyped
    PROVE  /\ Batch!Chosen \subseteq Batch!Listed /\ Batch!UnknownIds \subseteq Unknown
           /\ Batch!Unavailable \subseteq Batch!Listed
           /\ Batch!Unavailable \cap Batch!Chosen = {}
           /\ IsFiniteSet(Batch!Chosen) /\ IsFiniteSet(Batch!UnknownIds)
           /\ IsFiniteSet(Batch!Unavailable)
<1>1. /\ Batch!Chosen \subseteq Batch!Listed /\ Batch!UnknownIds \subseteq Unknown
      /\ Batch!Unavailable \subseteq Batch!Listed
      /\ Batch!Unavailable \cap Batch!Chosen = {}
  BY DEF BatchTyped, Batch!Chosen, Batch!UnknownIds, Batch!Unavailable, Batch!Wanted
<1> QED  BY <1>1, BatchFacts, FS_Subset

LEMMA BatchStarts == ASSUME Batch!Init PROVE BatchInv
<1>1. /\ batch = "list" /\ remaining = <<>> /\ active = {} /\ running = {}
      /\ ended = [s \in Batch!Listed |-> ""] /\ exported = <<>> /\ failures = <<>>
      /\ requested \in {All} \cup SUBSET (Batch!Listed \cup Unknown)
      /\ exportable \subseteq Batch!Listed /\ continue \in BOOLEAN
  BY DEF Batch!Init
<1>2. Cardinality({}) <= MaxWorkers  BY BatchFacts, FS_EmptySet
<1>3. BatchTyped  BY <1>1, <1>2, NoMembers DEF BatchTyped, Pcs, Ways
<1> QED  BY <1>1, <1>3 DEF BatchInv, Windowed, Told, InTurn, Over

LEMMA ListKeeps == ASSUME BatchInv, Batch!List PROVE BatchInv'
<1>1. /\ batch = "list" /\ UNCHANGED <<requested, exportable, continue>>
      /\ UNCHANGED <<active, running, ended, exported>>
      /\ remaining = <<>> /\ active = {} /\ exported = <<>> /\ failures = <<>>
      /\ ended = [s \in Batch!Listed |-> ""] /\ running = {}
  BY DEF Batch!List, Batch!input, BatchInv, BatchTyped, Over
<1>2. CASE batch' = "raised" /\ UNCHANGED <<remaining, failures>>
  <2>1. BatchTyped'  BY <1>1, <1>2 DEF BatchInv, BatchTyped, Pcs
  <2> QED  BY <1>1, <1>2, <2>1 DEF BatchInv, Windowed, Told, InTurn, Over
<1>3. CASE /\ batch' = "export" /\ remaining' = Batch!Ascending(Batch!Chosen)
           /\ failures' = Batch!Ascending(Batch!UnknownIds) \o Batch!Ascending(Batch!Unavailable)
  <2> DEFINE u == Batch!Ascending(Batch!UnknownIds)
             v == Batch!Ascending(Batch!Unavailable)
  <2>0. BatchTyped  BY DEF BatchInv
  <2>1. /\ remaining' \in Seq(Batch!Chosen) /\ Members(remaining') = Batch!Chosen
        /\ IsInjective(remaining')
        /\ \A i, j \in DOMAIN remaining' : i < j => remaining'[i] < remaining'[j]
    <3>1. Batch!Chosen \in SUBSET Nat  BY <2>0, InputIs, BatchFacts
    <3> QED  BY <1>3, <2>0, <3>1, InputIs, AscendingIs
  <2>2. u \in Seq(Batch!UnknownIds) /\ Members(u) = Batch!UnknownIds /\ IsInjective(u)
    <3>1. Batch!UnknownIds \in SUBSET Nat  BY <2>0, InputIs, BatchFacts
    <3> QED  BY <2>0, <3>1, InputIs, AscendingIs
  <2>3. v \in Seq(Batch!Unavailable) /\ Members(v) = Batch!Unavailable /\ IsInjective(v)
    <3>1. Batch!Unavailable \in SUBSET Nat  BY <2>0, InputIs, BatchFacts
    <3> QED  BY <2>0, <3>1, InputIs, AscendingIs
  <2>4. /\ failures' \in Seq(Batch!Listed \cup Unknown) /\ IsInjective(failures')
        /\ Members(failures') = Batch!UnknownIds \cup Batch!Unavailable
    <3>1. /\ u \in Seq(Batch!Listed \cup Unknown) /\ v \in Seq(Batch!Listed \cup Unknown)
          /\ Members(u) \cap Members(v) = {}
      BY <2>0, <2>2, <2>3, InputIs, BatchFacts
    <3> HIDE DEF u, v
    <3>2. failures' = u \o v  BY <1>3 DEF u, v
    <3> QED  BY <2>2, <2>3, <3>1, <3>2, JoinIs
  <2>5. BatchTyped'
    <3>1. remaining' \in Seq(Batch!Listed)  BY <2>0, <2>1, InputIs
    <3> QED  BY <1>1, <1>3, <2>0, <2>1, <2>4, <3>1 DEF BatchTyped, Pcs
  <2>6. Members(exported') = {}  BY <1>1, NoMembers
  <2>7. Collected' = {}  BY <1>1, <2>1, SameInput DEF Collected
  <2>8. Windowed'  BY <1>1, <2>1, SameInput DEF Windowed
  <2>9. Told'  BY <1>1, <2>4, <2>6, <2>7, SameInput DEF Told
  <2>10. InTurn'
    <3>1. active' = {} /\ exported' = <<>>  BY <1>1
    <3>2. DOMAIN exported' = {}  BY ONLY <3>1
    <3> QED  BY ONLY <2>1, <2>6, <3>1, <3>2 DEF InTurn
  <2>11. Over'  BY <1>3 DEF Over
  <2> QED  BY <2>5, <2>8, <2>9, <2>10, <2>11 DEF BatchInv
<1> QED  BY <1>2, <1>3 DEF Batch!List

LEMMA ListFailsKeeps == ASSUME BatchInv, Batch!ListFails PROVE BatchInv'
<1>1. /\ batch = "list" /\ batch' = "raised" /\ running = {}
      /\ UNCHANGED <<requested, exportable, continue, active, running, ended, exported,
                     remaining, failures>>
  BY DEF Batch!ListFails, Batch!input, BatchInv, BatchTyped, Over
<1>2. BatchTyped'  BY <1>1 DEF BatchInv, BatchTyped, Pcs
<1> QED  BY <1>1, <1>2 DEF BatchInv, Windowed, Told, InTurn, Over

LEMMA SubmitKeeps == ASSUME BatchInv, Batch!Submit PROVE BatchInv'
<1> DEFINE h == Head(remaining)
<1>0. BatchTyped /\ Windowed /\ Told /\ InTurn  BY DEF BatchInv
<1>1. /\ batch = "export" /\ batch' = "export" /\ remaining # <<>>
      /\ active' = active \cup {h} /\ running' = running \cup {h}
      /\ remaining' = Tail(remaining)
      /\ UNCHANGED <<requested, exportable, continue, ended, exported, failures>>
  BY DEF Batch!Submit, Batch!input
<1>2. Cardinality(active) < (IF Batch!Parallel THEN MaxWorkers ELSE 1)
  BY DEF Batch!Submit, Batch!Room, Batch!Cardinality, Cardinality
<1>3. remaining \in Seq(Batch!Listed) /\ IsInjective(remaining) /\ active \subseteq Batch!Listed
  BY <1>0 DEF BatchTyped
<1>4. /\ h \in Batch!Listed /\ remaining' \in Seq(Batch!Listed) /\ IsInjective(remaining')
      /\ Members(remaining) = {h} \cup Members(remaining') /\ h \notin Members(remaining')
      /\ h = remaining[1]
      /\ \A i \in DOMAIN remaining' :
             i + 1 \in DOMAIN remaining /\ remaining'[i] = remaining[i + 1]
  BY <1>1, <1>3, TailIs
<1>5. IsFiniteSet(active) /\ Cardinality(active) \in Nat
  BY <1>3, BatchFacts, FS_Subset, FS_CardinalityType
<1>6. Cardinality(active') <= MaxWorkers
  <2>1. Cardinality(active') <= Cardinality(active) + 1  BY <1>1, <1>5, FS_AddElement
  <2>2. MaxWorkers \in Nat /\ MaxWorkers >= 1  BY BatchFacts
  <2>3. Cardinality(active') \in Nat
    BY <1>1, <1>5, FS_AddElement, FS_CardinalityType
  <2> QED  BY <1>2, <1>5, <2>1, <2>2, <2>3
<1> HIDE DEF h
<1>7. BatchTyped'  BY <1>0, <1>1, <1>4, <1>6 DEF BatchTyped, Pcs
<1>8. Collected' = Collected  BY <1>1, <1>4, SameInput DEF Collected
<1>9. Windowed'  BY <1>0, <1>1, <1>4, SameInput, ZenonT(60) DEF Windowed
<1>10. Told'  BY <1>0, <1>1, <1>8, SameInput DEF Told
<1>11. InTurn'
  <2> SUFFICES ASSUME ~Batch!Parallel PROVE InTurn'
    BY <1>1, SameInput DEF InTurn
  <2>1. active = {}
    BY <1>2, <1>5, FS_EmptySet
  <2>2. \A i \in DOMAIN remaining' : h < remaining'[i]
    <3>1. \A i, j \in DOMAIN remaining : i < j => remaining[i] < remaining[j]
      BY <1>0, <1>1 DEF InTurn
    <3> QED  BY <1>1, <1>3, <1>4, <3>1
  <2>3. \A s \in Members(remaining') : h < s  BY <2>2 DEF Members
  <2>4. \A i, j \in DOMAIN remaining' : i < j => remaining'[i] < remaining'[j]
    <3>1. \A i, j \in DOMAIN remaining : i < j => remaining[i] < remaining[j]
      BY <1>0, <1>1 DEF InTurn
    <3>2. DOMAIN remaining' \subseteq Nat  BY <1>4
    <3> QED  BY <1>4, <3>1, <3>2
  <2>5. /\ \A r \in Members(exported), s \in active \cup Members(remaining) : r < s
        /\ \A i, j \in DOMAIN exported : i < j => exported[i] < exported[j]
    BY <1>0, <1>1 DEF InTurn
  <2>6. active' = {h} /\ exported' = exported  BY <1>1, <2>1
  <2>7. \A r \in Members(exported'), s \in active' \cup Members(remaining') : r < s
    BY <1>4, <2>5, <2>6
  <2>8. /\ \A r \in active', s \in Members(remaining') : r < s
        /\ \A r, s \in active' : r = s
    BY <2>3, <2>6
  <2>9. \A i, j \in DOMAIN exported' : i < j => exported'[i] < exported'[j]
    BY <2>5, <2>6
  <2> QED  BY ONLY <2>4, <2>7, <2>8, <2>9 DEF InTurn
<1>12. Over'  BY <1>1 DEF Over
<1> QED  BY <1>7, <1>9, <1>10, <1>11, <1>12 DEF BatchInv

LEMMA WorkKeeps ==
    ASSUME BatchInv, NEW s \in Batch!Listed, NEW how \in Ways, Batch!Work(s, how)
    PROVE  BatchInv'
<1>0. BatchTyped /\ Windowed /\ Told /\ InTurn /\ Over  BY DEF BatchInv
<1>1. /\ s \in running /\ running' = running \ {s}
      /\ ended' = [ended EXCEPT ![s] = how]
      /\ UNCHANGED <<requested, exportable, continue, batch, remaining, active, exported,
                     failures>>
  BY DEF Batch!Work, Batch!input
<1>2. s \in active /\ s \notin Collected  BY <1>0, <1>1 DEF BatchTyped, Collected
<1>3. \A r \in Batch!Listed : ended'[r] = IF r = s THEN how ELSE ended[r]
  BY <1>0, <1>1 DEF BatchTyped
<1>4. BatchTyped'  BY <1>0, <1>1 DEF BatchTyped
<1>5. Windowed'
  <2> SUFFICES ASSUME batch \in {"export", "leave", "returned"} PROVE Windowed'
    BY <1>1 DEF Windowed
  <2>1. s \in Batch!Chosen /\ s \notin Members(remaining)  BY <1>0, <1>2 DEF Windowed
  <2>2. how # ""  BY DEF Ways
  <2>3. \A r \in Batch!Listed :
            ended'[r] = "" <=> \/ r \notin Batch!Chosen
                               \/ r \in Members(remaining) \/ r \in running'
    BY <1>0, <1>1, <1>3, <2>1, <2>2 DEF Windowed
  <2> QED  BY <1>0, <1>1, <2>3, SameInput DEF Windowed
<1>6. Told'
  <2>1. Collected' = Collected  BY <1>1, SameInput DEF Collected
  <2>2. \A r \in Collected : ended'[r] = ended[r]
    BY <1>0, <1>2, <1>3, InputIs DEF Collected
  <2> QED  BY <1>0, <1>1, <2>1, <2>2, SameInput DEF Told
<1>7. InTurn'  BY <1>0, <1>1, SameInput DEF InTurn
<1>8. Over'
  <2>1. batch \notin {"list", "returned", "raised"}
    BY <1>0, <1>1, <1>2 DEF Over
  <2> QED  BY <1>1, <2>1 DEF Over
<1> QED  BY <1>4, <1>5, <1>6, <1>7, <1>8 DEF BatchInv

LEMMA CollectKeeps ==
    ASSUME BatchInv, NEW s \in Batch!Listed, Batch!Collect(s)
    PROVE  BatchInv'
<1>0. BatchTyped /\ Windowed /\ Told /\ InTurn  BY DEF BatchInv
<1>1. /\ batch = "export" /\ s \in active /\ s \notin running /\ active' = active \ {s}
      /\ exported' = (IF ended[s] = "ok" THEN Append(exported, s) ELSE exported)
      /\ failures' = (IF ended[s] = "failed" /\ continue THEN Append(failures, s)
                      ELSE failures)
      /\ batch' = (IF ended[s] = "broken" \/ (ended[s] = "failed" /\ ~continue)
                   THEN "leave" ELSE batch)
      /\ UNCHANGED <<requested, exportable, continue, remaining, running, ended>>
  BY DEF Batch!Collect, Batch!input
<1>2. /\ s \in Batch!Chosen /\ s \notin Members(remaining) /\ s \notin Collected
      /\ ended[s] \in Ways
  BY <1>0, <1>1 DEF Windowed, BatchTyped, Collected
<1>3. /\ s \notin Members(exported) /\ s \notin Members(failures)
      /\ s \notin Unknown
  BY <1>0, <1>1, <1>2, InputIs, BatchFacts DEF Told
<1>4. Collected' = Collected \cup {s}  BY <1>1, <1>2, SameInput DEF Collected
<1>5. /\ exported \in Seq(Batch!Listed) /\ IsInjective(exported)
      /\ failures \in Seq(Batch!Listed \cup Unknown) /\ IsInjective(failures)
  BY <1>0 DEF BatchTyped
<1>6. /\ exported' \in Seq(Batch!Listed) /\ IsInjective(exported')
      /\ Members(exported') = Members(exported) \cup {r \in {s} : ended[r] = "ok"}
  BY <1>1, <1>3, <1>5, AppendIs
<1>7. /\ failures' \in Seq(Batch!Listed \cup Unknown) /\ IsInjective(failures')
      /\ Members(failures') =
             Members(failures) \cup {r \in {s} : ended[r] = "failed" /\ continue}
  BY <1>1, <1>3, <1>5, AppendIs
<1>8. BatchTyped'
  <2>1. IsFiniteSet(active)  BY <1>0, BatchFacts, FS_Subset DEF BatchTyped
  <2>2. Cardinality(active') <= Cardinality(active)
    BY <1>1, <2>1, FS_Subset
  <2>3. Cardinality(active') \in Nat /\ Cardinality(active) \in Nat
    BY <1>1, <2>1, FS_Subset, FS_CardinalityType
  <2>4. Cardinality(active') <= MaxWorkers
    <3>1. MaxWorkers \in Nat  BY BatchFacts
    <3>2. Cardinality(active) <= MaxWorkers  BY <1>0 DEF BatchTyped
    <3> QED  BY ONLY <2>2, <2>3, <3>1, <3>2
  <2> QED  BY <1>0, <1>1, <1>6, <1>7, <2>4 DEF BatchTyped, Pcs
<1>9. Windowed'  BY <1>0, <1>1, SameInput DEF Windowed
<1>10. Told'
  <2> SUFFICES ASSUME batch' \in {"export", "returned"} PROVE Told'  BY DEF Told
  <2>1. ended[s] = "ok" \/ (ended[s] = "failed" /\ continue)
    BY <1>1, <1>2 DEF Ways
  <2>2. /\ \A r \in Collected : ended[r] = "ok" \/ (ended[r] = "failed" /\ continue)
        /\ Members(exported) = {r \in Collected : ended[r] = "ok"}
        /\ Members(failures) = Batch!UnknownIds \cup Batch!Unavailable
                               \cup {r \in Collected : ended[r] = "failed"}
    BY <1>0, <1>1 DEF Told
  <2>3. /\ \A r \in Collected' : ended[r] = "ok" \/ (ended[r] = "failed" /\ continue)
        /\ Members(exported') = {r \in Collected' : ended[r] = "ok"}
        /\ Members(failures') = Batch!UnknownIds \cup Batch!Unavailable
                                \cup {r \in Collected' : ended[r] = "failed"}
    BY <1>4, <1>6, <1>7, <2>1, <2>2
  <2> QED  BY <1>1, <2>3, SameInput DEF Told
<1>11. InTurn'
  <2> SUFFICES ASSUME ~Batch!Parallel PROVE InTurn'
    BY <1>1, SameInput DEF InTurn
  <2>1. /\ \A q, r \in active : q = r
        /\ \A q \in Members(exported), r \in active \cup Members(remaining) : q < r
        /\ \A q \in active, r \in Members(remaining) : q < r
        /\ \A i, j \in DOMAIN remaining : i < j => remaining[i] < remaining[j]
        /\ \A i, j \in DOMAIN exported : i < j => exported[i] < exported[j]
    BY <1>0, <1>1 DEF InTurn
  <2>2. active' = {}  BY <1>1, <2>1
  <2>3. \A q \in Members(exported'), r \in Members(remaining) : q < r
    BY <1>1, <1>6, <2>1
  <2>4. \A i, j \in DOMAIN exported' : i < j => exported'[i] < exported'[j]
    <3>1. CASE ended[s] = "ok"
      <4> DEFINE n == Len(exported)
      <4>1. /\ exported' = Append(exported, s) /\ n \in Nat /\ DOMAIN exported = 1..n
            /\ DOMAIN exported' = 1..n + 1 /\ exported'[n + 1] = s
            /\ \A i \in 1..n : exported'[i] = exported[i] /\ exported[i] \in Members(exported)
        BY <1>1, <1>5, <3>1 DEF Members
      <4>2. \A i \in 1..n : exported[i] < s  BY <1>1, <2>1, <4>1
      <4> HIDE DEF n
      <4> QED  BY <2>1, <4>1, <4>2
    <3>2. CASE ended[s] # "ok"
      BY <1>1, <2>1, <3>2
    <3> QED  BY <3>1, <3>2
  <2>5. remaining' = remaining  BY <1>1
  <2> QED  BY ONLY <2>1, <2>2, <2>3, <2>4, <2>5 DEF InTurn
<1>12. Over'
  <2>1. batch' \in {"export", "leave"}  BY <1>1
  <2> QED  BY <2>1 DEF Over
<1> QED  BY <1>8, <1>9, <1>10, <1>11, <1>12 DEF BatchInv

LEMMA ReturnKeeps == ASSUME BatchInv, Batch!Return PROVE BatchInv'
<1>0. BatchTyped /\ Windowed /\ Told /\ InTurn  BY DEF BatchInv
<1>1. /\ batch = "export" /\ batch' = "returned" /\ remaining = <<>> /\ active = {}
      /\ UNCHANGED <<requested, exportable, continue, remaining, active, running, ended>>
      /\ IF Batch!Parallel
         THEN exported' = Batch!InOrder(exported) /\ failures' = Batch!InOrder(failures)
         ELSE UNCHANGED <<exported, failures>>
  BY DEF Batch!Return, Batch!input
<1>2. /\ exported \in Seq(Batch!Listed) /\ IsInjective(exported)
      /\ failures \in Seq(Batch!Listed \cup Unknown) /\ IsInjective(failures)
  BY <1>0 DEF BatchTyped
<1>3. exported \in Seq(Nat) /\ failures \in Seq(Nat)
  <2>1. Batch!Listed \cup Unknown \subseteq Nat  BY BatchFacts
  <2> QED  BY <1>2, <2>1, BatchFacts, SeqWider
<1>4. /\ exported' \in Seq(Batch!Listed) /\ IsInjective(exported')
      /\ Members(exported') = Members(exported)
  BY <1>1, <1>2, <1>3, InOrderIs
<1>5. /\ failures' \in Seq(Batch!Listed \cup Unknown) /\ IsInjective(failures')
      /\ Members(failures') = Members(failures)
  BY <1>1, <1>2, <1>3, InOrderIs
<1>6. BatchTyped'  BY <1>0, <1>1, <1>4, <1>5 DEF BatchTyped, Pcs
<1>7. Windowed'  BY <1>0, <1>1, SameInput DEF Windowed
<1>8. Told'
  <2>1. Collected' = Collected  BY <1>1, SameInput DEF Collected
  <2> QED  BY <1>0, <1>1, <1>4, <1>5, <2>1, SameInput DEF Told
<1>9. InTurn'  BY <1>1 DEF InTurn
<1>10. \A i, j \in DOMAIN exported' : i < j => exported'[i] < exported'[j]
  <2>1. CASE Batch!Parallel
    <3>1. \A i, j \in DOMAIN exported' : i < j => Batch!Precedes(exported'[i], exported'[j])
      BY <1>1, <1>2, <1>3, <2>1, InOrderIs
    <3>2. \A i \in DOMAIN exported' : exported'[i] \in Batch!Listed  BY <1>4
    <3> QED  BY <3>1, <3>2, PrecedesIs, BatchFacts
  <2>2. CASE ~Batch!Parallel
    BY <1>0, <1>1, <2>2 DEF InTurn
  <2> QED  BY <2>1, <2>2
<1>11. Over'
  <2>1. Batch!Sorted'
    <3>1. DOMAIN exported' = 1..Len(exported')  BY <1>4
    <3> QED  BY <1>10, <3>1 DEF Batch!Sorted
  <2>2. running' = {}  BY <1>0, <1>1 DEF BatchTyped
  <2> QED  BY <1>1, <2>1, <2>2 DEF Over
<1> QED  BY <1>6, <1>7, <1>8, <1>9, <1>11 DEF BatchInv

LEMMA RaiseKeeps == ASSUME BatchInv, Batch!Raise PROVE BatchInv'
<1>1. /\ batch = "leave" /\ running = {} /\ batch' = "raised"
      /\ UNCHANGED <<requested, exportable, continue, active, running, ended, exported,
                     remaining, failures>>
  BY DEF Batch!Raise, Batch!input
<1>2. BatchTyped'  BY <1>1 DEF BatchInv, BatchTyped, Pcs
<1> QED  BY <1>1, <1>2 DEF BatchInv, Windowed, Told, InTurn, Over

LEMMA BatchKeeps == ASSUME BatchInv, Batch!Next PROVE BatchInv'
BY ListKeeps, ListFailsKeeps, SubmitKeeps, ReturnKeeps, RaiseKeeps, CollectKeeps, WorkKeeps
   DEF Batch!Next, Ways

LEMMA BatchStutter == ASSUME BatchInv, UNCHANGED batchVars PROVE BatchInv'
<1>1. UNCHANGED <<requested, exportable, continue, batch, remaining, active, running, ended,
                  exported, failures>>
  BY DEF batchVars
<1>2. BatchTyped'  BY <1>1 DEF BatchInv, BatchTyped
<1>3. Windowed'  BY <1>1, SameInput DEF BatchInv, Windowed
<1>4. Told'
  <2>1. Collected' = Collected  BY <1>1, SameInput DEF Collected
  <2> QED  BY <1>1, <2>1, SameInput DEF BatchInv, Told
<1>5. InTurn'  BY <1>1, SameInput DEF BatchInv, InTurn
<1>6. Over'  BY <1>1 DEF BatchInv, Over, Batch!Sorted
<1> QED  BY <1>2, <1>3, <1>4, <1>5, <1>6 DEF BatchInv

(* What the invariant says of a batch that has ended, and of its next step. *)
LEMMA BatchInvTells ==
    ASSUME BatchInv
    PROVE  Batch!TypeOK /\ Batch!EachOnce /\ Batch!Sorted /\ Batch!Quiet
<1> USE DEF BatchInv
<1>1. Batch!TypeOK
  BY DEF BatchTyped, Pcs, Ways, Batch!TypeOK, Batch!Cardinality, Cardinality
<1>2. Batch!Sorted /\ Batch!Quiet  BY DEF Over, Batch!Sorted, Batch!Quiet
<1>3. ASSUME batch = "returned" PROVE Batch!EachOnce
  <2>1. remaining = <<>> /\ active = {} /\ running = {}  BY <1>3 DEF Over
  <2>2. Members(remaining) = {}  BY <2>1, NoMembers
  <2>3. Collected = Batch!Chosen  BY <2>1, <2>2 DEF Collected
  <2>4. \A s \in Batch!Listed : ended[s] # "" <=> s \in Batch!Chosen
    BY <1>3, <2>1, <2>2 DEF Windowed
  <2>5. /\ \A s \in Batch!Chosen : ended[s] = "ok" \/ (ended[s] = "failed" /\ continue)
        /\ Members(exported) = {s \in Batch!Chosen : ended[s] = "ok"}
        /\ Members(failures) = Batch!UnknownIds \cup Batch!Unavailable
                               \cup {s \in Batch!Chosen : ended[s] = "failed"}
    BY <1>3, <2>3 DEF Told
  <2>6. /\ exported \in Seq(Batch!Listed \cup Unknown) /\ IsInjective(exported)
        /\ failures \in Seq(Batch!Listed \cup Unknown) /\ IsInjective(failures)
    BY SeqWider DEF BatchTyped
  <2>7. Members(exported) \cap Members(failures) = {}
    BY <2>5, InputIs, BatchFacts
  <2>8. Batch!IsInjective(exported \o failures)
    BY <2>6, <2>7, JoinIs DEF Batch!IsInjective, IsInjective
  <2>9. Members(exported) = {s \in Batch!Listed : ended[s] = "ok"}
    BY <2>4, <2>5, InputIs
  <2>10. Members(exported) \cup Members(failures) =
             Batch!Chosen \cup Batch!UnknownIds \cup Batch!Unavailable
    BY <2>5
  <2> QED  BY <2>8, <2>9, <2>10 DEF Batch!EachOnce, Batch!ToSet, Members
<1> QED  BY <1>1, <1>2, <1>3 DEF Batch!EachOnce

LEMMA BatchStops ==
    ASSUME BatchInv, Batch!Next, ~continue,
           \E s \in Batch!Listed : ended[s] \in {"failed", "broken"}
    PROVE  running' \subseteq running
<1>1. ~Batch!Submit
  <2> SUFFICES ASSUME Batch!Submit PROVE FALSE  OBVIOUS
  <2>1. batch = "export" /\ Cardinality(active) < 1
    BY DEF Batch!Submit, Batch!Room, Batch!Parallel, Batch!Cardinality, Cardinality
  <2>2. active = {}
    <3>1. IsFiniteSet(active)  BY BatchFacts, FS_Subset DEF BatchInv, BatchTyped
    <3> QED  BY <2>1, <3>1, FS_EmptySet, FS_CardinalityType
  <2>3. PICK s \in Batch!Listed : ended[s] \in {"failed", "broken"}  OBVIOUS
  <2>4. s \in Collected
    BY <2>1, <2>2, <2>3 DEF BatchInv, Windowed, Collected
  <2> QED  BY <2>1, <2>3, <2>4 DEF BatchInv, Told
<1> QED
  BY <1>1 DEF Batch!Next, Batch!List, Batch!ListFails, Batch!Return, Batch!Raise,
     Batch!Collect, Batch!Work

(* However many recordings are exported by however many workers, a batch that    *)
(* returns tells of each one once, as it ended and in the order of the list; no  *)
(* export is running once the call has ended; and where the first error stops it *)
(* none starts after one failed (Batches).                                     *)
THEOREM SdkBatches == SdkSpec => Batches
<1>1. SdkInit => BatchInv  BY BatchStarts DEF SdkInit
<1>2. BatchInv /\ [SdkNext]_sdkVars => BatchInv'
  <2> SUFFICES ASSUME BatchInv, [SdkNext]_sdkVars PROVE BatchInv'  OBVIOUS
  <2>1. CASE Export
    BY <2>1, BatchKeeps DEF Export
  <2>2. CASE UNCHANGED batchVars
    BY <2>2, BatchStutter
  <2> QED  BY <2>1, <2>2 DEF SdkNext, OnlySources, OnlyCard, OnlyRender, sdkVars
<1>3. BatchInv => Batch!TypeOK /\ Batch!EachOnce /\ Batch!Sorted /\ Batch!Quiet
  BY BatchInvTells
<1>4. BatchInv /\ [SdkNext]_sdkVars =>
          [~continue /\ (\E s \in Batch!Listed : ended[s] \in {"failed", "broken"})
               => running' \subseteq running]_(Batch!vars)
  <2> SUFFICES ASSUME BatchInv, [SdkNext]_sdkVars, ~continue,
                      \E s \in Batch!Listed : ended[s] \in {"failed", "broken"}
               PROVE  running' \subseteq running
    OBVIOUS
  <2>1. CASE Export
    BY <2>1, BatchStops DEF Export
  <2>2. CASE UNCHANGED batchVars
    BY <2>2 DEF batchVars
  <2> QED  BY <2>1, <2>2 DEF SdkNext, OnlySources, OnlyCard, OnlyRender, sdkVars
<1> QED  BY <1>1, <1>2, <1>3, <1>4, PTL DEF SdkSpec, Batches, Batch!StopsAtFirst

-----------------------------------------------------------------------------
(* Deletions on a card *)

(* The recording that take n has at place q. *)
Nth(n, q) == Card!Session(n, q)

LEMMA RecordingsAre ==
    /\ \A r : r \in Card!Recordings <=> \E n \in Lengths : \E q \in 1..n : r = Nth(n, q)
    /\ Lengths \subseteq Nat \ {0}
    /\ \A n, q : /\ Nth(n, q).take = n /\ Nth(n, q).seq = q /\ Nth(n, q).id = <<n, q>>
                 /\ Nth(n, q).manifest = <<n, q>> /\ Nth(n, q).device = 1
                 /\ Nth(n, q).captured = q /\ Nth(n, q).sealed = q
                 /\ Nth(n, q).pred = IF q = 1 THEN None ELSE <<n, q - 1>>
    /\ IsFiniteSet(Card!Recordings)
    /\ \A r \in Card!Recordings : r.id # None
<1>1. /\ Lengths \subseteq Nat \ {0} /\ IsFiniteSet(Lengths)
      /\ \A r \in Card!Recordings : r.id # None
  BY MCSdkAssumption DEF Card!CardConstants, Card!IsFiniteSet, IsFiniteSet
<1>2. \A r : r \in Card!Recordings <=> \E n \in Lengths : \E q \in 1..n : r = Nth(n, q)
  BY DEF Card!Recordings, Nth
<1>3. \A n, q : /\ Nth(n, q).take = n /\ Nth(n, q).seq = q /\ Nth(n, q).id = <<n, q>>
                /\ Nth(n, q).manifest = <<n, q>> /\ Nth(n, q).device = 1
                /\ Nth(n, q).captured = q /\ Nth(n, q).sealed = q
                /\ Nth(n, q).pred = IF q = 1 THEN None ELSE <<n, q - 1>>
  BY DEF Nth, Card!Session
<1>4. IsFiniteSet(Card!Recordings)
  <2> DEFINE Of(n) == {Nth(n, q) : q \in 1..n}
             all == {Of(n) : n \in Lengths}
             f == [n \in Lengths |-> Of(n)]
  <2>1. f \in Surjection(Lengths, all)  BY DEF Surjection
  <2>2. IsFiniteSet(all)
    <3> HIDE DEF f, all
    <3> QED  BY <1>1, <2>1, FS_Surjection
  <2>3. ASSUME NEW T \in all PROVE IsFiniteSet(T)
    <3>1. PICK n \in Lengths : T = Of(n)  OBVIOUS
    <3>2. IsFiniteSet(1..n)  BY <1>1, FS_Interval
    <3> DEFINE g == [q \in 1..n |-> Nth(n, q)]
    <3>3. g \in Surjection(1..n, T)  BY <3>1 DEF Surjection
    <3> HIDE DEF g
    <3> QED  BY <3>2, <3>3, FS_Surjection
  <2>4. IsFiniteSet(UNION all)
    <3> HIDE DEF all
    <3> QED  BY <2>2, <2>3, FS_UNION
  <2>5. Card!Recordings = UNION all  BY DEF Card!Recordings, Nth
  <2> QED  BY <2>4, <2>5
<1> QED  BY <1>1, <1>2, <1>3, <1>4

LEMMA RecordingIs ==
    \A r \in Card!Recordings :
        /\ r.take \in Lengths /\ r.take \in Nat /\ r.seq \in 1..r.take
        /\ r = Nth(r.take, r.seq)
<1> SUFFICES ASSUME NEW r \in Card!Recordings
             PROVE  /\ r.take \in Lengths /\ r.take \in Nat /\ r.seq \in 1..r.take
                    /\ r = Nth(r.take, r.seq)
  OBVIOUS
<1>1. PICK n \in Lengths : \E q \in 1..n : r = Nth(n, q)  BY RecordingsAre
<1>2. PICK q \in 1..n : r = Nth(n, q)  BY <1>1
<1> QED  BY <1>2, RecordingsAre

(* The operators of TakeGraph are the same on this card. *)
LEMMA SameGraph == \A S : Card!Readable(S) = Readable(S)
<1>1. \A S : Card!Cardinality(S) = Cardinality(S)  BY DEF Card!Cardinality, Cardinality
<1>2. \A S, i : Card!ById(S, i) = ById(S, i)  BY DEF Card!ById, ById
<1>3. \A S, t : Card!Take(S, t) = Take(S, t)  BY DEF Card!Take, Take
<1>4. \A S : Card!Takes(S) = Takes(S)  BY DEF Card!Takes, Takes
<1>5. \A S, s : Card!Single(S, s) <=> Single(S, s)  BY DEF Card!Single, Single
<1>6. \A S, s : Card!Met(S, s) = Met(S, s)
  BY <1>1, <1>2 DEF Card!Met, Met, Card!Step, Step, Card!ById, ById
<1>7. \A S : Card!Accepts(S) <=> Accepts(S)
  <2>1. \A S, s : Card!Walks(S, s) <=> Walks(S, s)
    BY <1>2, <1>6 DEF Card!Walks, Walks
  <2>2. \A S, s : Card!Continues(S, s) <=> Continues(S, s)
    BY <1>2 DEF Card!Continues, Continues
  <2>3. \A M : Card!Numbered(M) <=> Numbered(M)  BY <1>1 DEF Card!Numbered, Numbered
  <2>4. \A M : Card!Unbranched(M) <=> Unbranched(M)
    BY DEF Card!Unbranched, Unbranched
  <2>5. \A S : Card!Unique(S) <=> Unique(S)  BY <1>5 DEF Card!Unique, Unique
  <2> QED  BY <1>3, <1>4, <2>1, <2>2, <2>3, <2>4, <2>5 DEF Card!Accepts, Accepts
<1> QED  BY <1>3, <1>4, <1>5, <1>7 DEF Card!Readable, Readable

(* A card on which every recording still has the one it continues. *)
Linked(D) ==
    /\ D \subseteq Card!Recordings
    /\ \A r \in D : r.seq # 1 => Nth(r.take, r.seq - 1) \in D

(* What is left of a take is its first recordings. *)
LEMMA LinkedPrefix ==
    ASSUME NEW D, Linked(D), NEW n \in Lengths, \E q \in 1..n : Nth(n, q) \in D
    PROVE  \E m \in 1..n : \A q \in 1..n : Nth(n, q) \in D <=> q <= m
<1>1. n \in Nat  BY RecordingsAre
<1> DEFINE Back(k) == \A q \in 1..n : q <= k => (Nth(n, q) \notin D => \A r \in q..k : r <= n => Nth(n, r) \notin D)
           S == {k \in Nat : Back(k)}
<1>2. 0 \in S  BY <1>1
<1>3. ASSUME NEW k \in Nat, k \in S PROVE k + 1 \in S
  <2> SUFFICES ASSUME NEW q \in 1..n, q <= k + 1, Nth(n, q) \notin D,
                      NEW r \in q..(k + 1), r <= n
               PROVE  Nth(n, r) \notin D
    OBVIOUS
  <2>1. CASE r <= k
    BY <1>1, <1>3, <2>1
  <2>2. CASE r = k + 1 /\ q <= k
    <3>1. k \in q..k /\ k <= n  BY <1>1, <2>2
    <3>2. Nth(n, k) \notin D  BY <1>3, <2>2, <3>1
    <3>3. r - 1 = k /\ r # 1  BY <1>1, <2>2
    <3> QED  BY <3>2, <3>3, RecordingsAre DEF Linked
  <2>3. CASE r = k + 1 /\ q = k + 1
    BY <2>3
  <2> QED  BY <1>1, <2>1, <2>2, <2>3
<1>4. n \in S
  <2> HIDE DEF S
  <2> QED  BY <1>1, <1>2, <1>3, NumbersByInduction
<1>5. \A q, r \in 1..n : q <= r /\ Nth(n, r) \in D => Nth(n, q) \in D
  BY <1>1, <1>4
<1>6. \E k \in 1..n : Nth(n, k) \in D /\ \A q \in 1..n : Nth(n, q) \in D => q <= k
  <2>1. SUFFICES ASSUME ~\E k \in 1..n : Nth(n, k) \in D /\ \A q \in 1..n : Nth(n, q) \in D => q <= k
                 PROVE  FALSE
    OBVIOUS
  <2> DEFINE T == {k \in Nat : \A q \in 1..n : q > n - k => Nth(n, q) \notin D}
  <2>2. 0 \in T  BY <1>1
  <2>3. ASSUME NEW k \in Nat, k \in T PROVE k + 1 \in T
    <3> SUFFICES ASSUME NEW q \in 1..n, q > n - (k + 1), Nth(n, q) \in D PROVE FALSE
      OBVIOUS
    <3>1. q = n - k  BY <1>1, <2>3
    <3>2. \A p \in 1..n : Nth(n, p) \in D => p <= q  BY <1>1, <2>3, <3>1
    <3> QED  BY <2>1, <3>2
  <2>4. n \in T
    <3> HIDE DEF T
    <3> QED  BY <1>1, <2>2, <2>3, NumbersByInduction
  <2> QED  BY <1>1, <2>4
<1> QED  BY <1>1, <1>5, <1>6

(* Such a card is read whole. *)
LEMMA LinkedReadable ==
    ASSUME NEW D, Linked(D)
    PROVE  Readable(D) = D
<1>1. Corpus(D)
  BY RecordingsAre, FS_Subset DEF Corpus, Linked
<1>2. \A s \in D : Single(D, s)
  BY RecordingsAre DEF Linked, Single
<1>3. ASSUME NEW t \in Takes(D) PROVE IsChain(Take(D, t))
  <2> DEFINE M == Take(D, t)
  <2>1. PICK r \in D : r.take = t  BY DEF Takes
  <2>2. t \in Lengths /\ \E q \in 1..t : Nth(t, q) \in D
    BY <2>1, RecordingsAre DEF Linked
  <2>3. PICK m \in 1..t : \A q \in 1..t : Nth(t, q) \in D <=> q <= m
    BY <2>2, LinkedPrefix
  <2>4. t \in Nat /\ m \in Nat /\ m >= 1  BY <2>2, RecordingsAre
  <2>5. \A s : s \in M <=> \E q \in 1..m : s = Nth(t, q)
    <3>1. ASSUME NEW s \in M PROVE \E q \in 1..m : s = Nth(t, q)
      <4>1. s \in D /\ s.take = t  BY DEF Take
      <4>2. PICK q \in 1..t : s = Nth(t, q)  BY <4>1, RecordingsAre DEF Linked
      <4>3. q <= m  BY <2>3, <4>1, <4>2
      <4> QED  BY <2>4, <4>2, <4>3
    <3>2. ASSUME NEW q \in 1..m PROVE Nth(t, q) \in M
      <4>1. q \in 1..t /\ q <= m  BY <2>4
      <4> QED  BY <2>3, <4>1, RecordingsAre DEF Take
    <3> QED  BY <3>1, <3>2
  <2> DEFINE f == [i \in 1..m |-> Nth(t, i)]
  <2>6. f \in Bijection(1..m, M)
    <3>1. f \in [1..m -> M] /\ \A s \in M : \E i \in 1..m : f[i] = s  BY <2>5
    <3>2. \A i, j \in 1..m : f[i] = f[j] => i = j
      <4> SUFFICES ASSUME NEW i \in 1..m, NEW j \in 1..m, f[i] = f[j] PROVE i = j  OBVIOUS
      <4>1. Nth(t, i).seq = Nth(t, j).seq  OBVIOUS
      <4> QED  BY <4>1, RecordingsAre
    <3> HIDE DEF f, M
    <3> QED  BY <3>1, <3>2 DEF Bijection, Injection, Surjection, IsInjective
  <2>7. Cardinality(M) = m
    <3>1. IsFiniteSet(1..m) /\ Cardinality(1..m) = m  BY <2>4, FS_Interval
    <3>2. ExistsBijection(1..m, M)
      <4> HIDE DEF f, M
      <4> QED  BY <2>6 DEF ExistsBijection
    <3> HIDE DEF M
    <3> QED  BY <3>1, <3>2, FS_Bijection
  <2>8. /\ f \in [1..m -> M] /\ \A s \in M : \E i \in DOMAIN f : f[i] = s
        /\ \A i \in DOMAIN f :
            /\ f[i].seq = i
            /\ f[i].pred = IF i = 1 THEN None ELSE f[i - 1].id
            /\ i > 1 => /\ f[i].device = f[i - 1].device
                        /\ f[i - 1].sealed <= f[i].captured
    <3>1. f \in [1..m -> M] /\ \A s \in M : \E i \in DOMAIN f : f[i] = s  BY <2>5
    <3>2. \A i \in 1..m : i = 1 \/ (i > 1 /\ i - 1 \in 1..m)  BY <2>4
    <3>3. \A i \in 1..m : f[i] = Nth(t, i)  OBVIOUS
    <3>4. DOMAIN f = 1..m  OBVIOUS
    <3> HIDE DEF f
    <3>5. ASSUME NEW i \in 1..m
          PROVE  /\ f[i].seq = i
                 /\ f[i].pred = IF i = 1 THEN None ELSE f[i - 1].id
                 /\ i > 1 => /\ f[i].device = f[i - 1].device
                             /\ f[i - 1].sealed <= f[i].captured
      <4>1. /\ f[i].seq = i /\ f[i].device = 1 /\ f[i].captured = i
            /\ f[i].pred = IF i = 1 THEN None ELSE <<t, i - 1>>
        BY <3>3, RecordingsAre
      <4>2. i > 1 => /\ f[i - 1].id = <<t, i - 1>> /\ f[i - 1].device = 1
                     /\ f[i - 1].sealed = i - 1
        BY <2>4, <3>2, <3>3, RecordingsAre
      <4>3. i > 1 => i - 1 <= i  BY <2>4
      <4> QED  BY <3>2, <4>1, <4>2, <4>3
    <3> QED  BY <3>1, <3>4, <3>5
  <2> HIDE DEF f, M
  <2> QED  BY <2>7, <2>8 DEF IsChain, M
<1>4. \A t \in Takes(D) : Take(D, t) \subseteq Readable(D)
  BY <1>1, <1>2, <1>3, ReadableIs DEF Take
<1>5. D \subseteq Readable(D)
  BY <1>4 DEF Take, Takes
<1>6. Readable(D) \subseteq D
  BY DEF Readable, Take
<1> QED  BY <1>5, <1>6

(* What a deletion may not yet have lost. *)
Here == Card!Described(files)
CardTyped ==
    /\ files \in [Card!Recordings -> {"whole", "partial", "torn", "gone"}]
    /\ step \in {"idle", "check", "remove", "told"}
    /\ inventory \subseteq Card!Recordings /\ chosen \subseteq Card!Recordings
    /\ queue \in Seq(chosen) /\ IsInjective(queue)
    /\ deleted \subseteq chosen /\ failed \subseteq chosen

(* What is still to be removed is there, with all that continues it, and in the  *)
(* queue nothing comes behind what it continues.                               *)
Planned ==
    /\ step = "check" => inventory = Here /\ deleted = {} /\ failed = {}
    /\ step # "remove" => queue = <<>>
    /\ step = "remove" /\ queue # <<>> => failed = {}
    /\ Members(queue) \subseteq Here
    /\ \A r \in Members(queue), s \in Here : s.pred = r.id => s \in Members(queue)
    /\ \A i, j \in DOMAIN queue : i < j => Card!Before(queue[i], queue[j])

(* Every chosen recording is in the queue or told, and told as it is. *)
Accountable ==
    step = "remove" \/ (step = "told" /\ deleted \cup failed # {}) =>
        /\ deleted \cup failed \cup Members(queue) = chosen
        /\ deleted \cap failed = {} /\ Members(queue) \cap (deleted \cup failed) = {}
        /\ \A s \in chosen : s \in deleted <=> files[s] = "gone"

CardInv == CardTyped /\ Linked(Here) /\ Planned /\ Accountable

LEMMA CardStarts == ASSUME Card!Init PROVE CardInv
<1>1. /\ files = [s \in Card!Recordings |-> "whole"] /\ step = "idle"
      /\ inventory = {} /\ chosen = {} /\ queue = <<>> /\ deleted = {} /\ failed = {}
  BY DEF Card!Init
<1>2. CardTyped  BY <1>1, NoMembers DEF CardTyped
<1>3. Here = Card!Recordings  BY <1>1 DEF Here, Card!Described
<1>4. Linked(Here)
  <2> SUFFICES ASSUME NEW r \in Card!Recordings, r.seq # 1
               PROVE  Nth(r.take, r.seq - 1) \in Card!Recordings
    BY <1>3 DEF Linked
  <2>1. r.take \in Lengths /\ r.take \in Nat /\ r.seq \in 1..r.take  BY RecordingIs
  <2>2. r.seq - 1 \in 1..r.take  BY <2>1
  <2> QED  BY <2>1, <2>2, RecordingsAre
<1>5. Planned /\ Accountable
  <2>1. Members(queue) = {} /\ DOMAIN queue = {}  BY <1>1, NoMembers
  <2> QED  BY <1>1, <2>1 DEF Planned, Accountable
<1> QED  BY <1>2, <1>4, <1>5 DEF CardInv

(* What remains readable. *)
LEMMA HereIs ==
    ASSUME CardTyped
    PROVE  /\ Here \subseteq Card!Recordings
           /\ \A s \in Card!Recordings : s \in Here <=> files[s] \in {"whole", "partial"}
           /\ \A s \in Here : files[s] # "gone"
BY DEF Here, Card!Described, CardTyped

LEMMA InventoryKeeps ==
    ASSUME CardInv, NEW c \in SUBSET Card!Recordings, NEW bad \in Card!Unreadable,
           Card!Inventory(c, bad)
    PROVE  CardInv'
<1>1. bad = {}  BY DEF Card!Unreadable
<1>2. /\ step \in {"idle", "told"} /\ chosen' = c /\ step' = "check"
      /\ deleted' = {} /\ failed' = {} /\ files' = files /\ queue' = queue
      /\ inventory' = Readable(Here)
  BY <1>1, SameGraph, Card!Described(files) \ {} = Card!Described(files)
     DEF Card!Inventory, Here
<1>3. Here' = Here  BY <1>2 DEF Here, Card!Described
<1>4. inventory' = Here  BY <1>2, LinkedReadable DEF CardInv
<1>5. queue = <<>>  BY <1>2 DEF CardInv, Planned
<1>6. CardTyped'
  BY <1>2, <1>4, <1>5, NoMembers, HereIs DEF CardInv, CardTyped
<1>7. Linked(Here')  BY <1>3 DEF CardInv
<1>8. Planned'  BY <1>2, <1>3, <1>4, <1>5 DEF CardInv, Planned
<1>9. Accountable'  BY <1>2 DEF Accountable
<1> QED  BY <1>6, <1>7, <1>8, <1>9 DEF CardInv

(* The last continuations come first. *)
LEMMA LastFirstIs ==
    ASSUME NEW S \in SUBSET Card!Recordings
    PROVE  LET q == Card!LastFirst(S) IN
           /\ q \in Seq(S) /\ Members(q) = S /\ IsInjective(q)
           /\ \A i, j \in DOMAIN q : i < j => Card!Before(q[i], q[j])
<1> DEFINE R == {p \in S \X S : Card!Before(p[1], p[2])}
           n == Cardinality(S)
           Last(q) == q \in [1..n -> S]
                      /\ \A i, j \in DOMAIN q : i < j => Card!Before(q[i], q[j])
<1>1. IsFiniteSet(S)  BY RecordingsAre, FS_Subset
<1>2. \A s \in S : /\ s.take \in Nat /\ s.seq \in Nat /\ s = Nth(s.take, s.seq)
  BY RecordingIs
<1>3. \A r, s \in S : r = s \/ r.take # s.take \/ r.seq # s.seq
  BY <1>2
<1>4. Ranks(R, S)
  <2>1. \A r, s \in S : <<r, s>> \in R
                        <=> r.seq > s.seq \/ (r.seq = s.seq /\ r.take > s.take)
    BY DEF Card!Before
  <2> HIDE DEF R
  <2>2. \A a \in S : <<a, a>> \notin R  BY <1>2, <2>1
  <2>3. \A a, b, d \in S : <<a, b>> \in R /\ <<b, d>> \in R => <<a, d>> \in R
    BY <1>2, <2>1
  <2>4. \A a, b \in S : a = b \/ <<a, b>> \in R \/ <<b, a>> \in R
    <3> SUFFICES ASSUME NEW a \in S, NEW b \in S, a # b
                 PROVE  <<a, b>> \in R \/ <<b, a>> \in R
      OBVIOUS
    <3>1. /\ a.take # b.take \/ a.seq # b.seq
          /\ a.take \in Nat /\ b.take \in Nat /\ a.seq \in Nat /\ b.seq \in Nat
      BY <1>2, <1>3
    <3> QED  BY <2>1, <3>1
  <2> QED  BY <2>2, <2>3, <2>4 DEF Ranks
<1>5. \A q : Last(q) <=> Lines(q, n, R, S)  BY DEF Lines
<1>6. \E q : Last(q)  BY <1>1, <1>4, <1>5, Sortable
<1>7. Card!LastFirst(S) =
          CHOOSE q \in [1..n -> S] : \A i, j \in DOMAIN q : i < j => Card!Before(q[i], q[j])
  BY DEF Card!LastFirst, Card!Cardinality, Cardinality
<1>8. Last(Card!LastFirst(S))  BY <1>6, <1>7
<1> HIDE DEF R
<1> QED  BY <1>1, <1>4, <1>5, <1>8, LinesAll

LEMMA CheckKeeps == ASSUME CardInv, Card!Check PROVE CardInv'
<1>0. CardTyped /\ Linked(Here) /\ Planned  BY DEF CardInv
<1>1. /\ step = "check" /\ UNCHANGED <<files, inventory, chosen, deleted, failed>>
      /\ inventory = Here /\ deleted = {} /\ failed = {} /\ queue = <<>>
  BY <1>0 DEF Card!Check, Planned
<1>2. Here' = Here  BY <1>1 DEF Here, Card!Described
<1>3. CASE /\ Card!Closed(chosen) /\ step' = "remove"
           /\ queue' = Card!LastFirst(chosen)
  <2>1. chosen \in SUBSET Card!Recordings  BY <1>0 DEF CardTyped
  <2>2. /\ queue' \in Seq(chosen) /\ Members(queue') = chosen /\ IsInjective(queue')
        /\ \A i, j \in DOMAIN queue' : i < j => Card!Before(queue'[i], queue'[j])
    BY <1>3, <2>1, LastFirstIs
  <2>3. chosen \subseteq Here /\ \A s \in Here : (\E d \in chosen : s.pred = d.id) => s \in chosen
    BY <1>1, <1>3 DEF Card!Closed
  <2>4. CardTyped'  BY <1>0, <1>1, <1>3, <2>2 DEF CardTyped
  <2>5. Planned'
    <3>1. \A i, j \in DOMAIN queue' : i < j => Card!Before(queue'[i], queue'[j])
      BY <2>2
    <3>2. /\ Members(queue') \subseteq Here'
          /\ \A r \in Members(queue'), s \in Here' : s.pred = r.id => s \in Members(queue')
      BY <1>2, <2>2, <2>3
    <3>3. failed' = {}  BY <1>1
    <3> QED  BY <1>3, <3>1, <3>2, <3>3 DEF Planned, Card!Before
  <2>6. Accountable'
    BY <1>0, <1>1, <2>2, <2>3, HereIs DEF Accountable
  <2> QED  BY <1>0, <1>2, <2>4, <2>5, <2>6 DEF CardInv
<1>4. CASE step' = "told" /\ queue' = queue
  <2>1. CardTyped'  BY <1>0, <1>1, <1>4 DEF CardTyped
  <2>2. Planned'  BY <1>0, <1>1, <1>2, <1>4 DEF Planned, Card!Before
  <2>3. Accountable'  BY <1>1, <1>4 DEF Accountable
  <2> QED  BY <1>0, <1>2, <2>1, <2>2, <2>3 DEF CardInv
<1> QED  BY <1>3, <1>4 DEF Card!Check

(* The head of the queue is continued by nothing that is still there. *)
LEMMA HeadIsLast ==
    ASSUME CardInv, step = "remove", queue # <<>>
    PROVE  /\ Head(queue) \in Here /\ Head(queue) \in chosen
           /\ Head(queue) \in Members(queue)
           /\ \A s \in Here : s.pred # Head(queue).id
           /\ Linked(Here \ {Head(queue)})
<1> DEFINE h == Head(queue)
<1>0. CardTyped /\ Linked(Here) /\ Planned  BY DEF CardInv
<1>1. /\ queue \in Seq(chosen) /\ IsInjective(queue)  BY <1>0 DEF CardTyped
<1>2. /\ h \in chosen /\ Members(queue) = {h} \cup Members(Tail(queue)) /\ h = queue[1]
  BY <1>1, TailIs
<1>3. h \in Here  BY <1>0, <1>2 DEF Planned
<1> HIDE DEF h
<1>4. ASSUME NEW s \in Here, s.pred = h.id PROVE FALSE
  <2>1. s \in Members(queue)  BY <1>0, <1>2, <1>4 DEF Planned
  <2>2. PICK j \in DOMAIN queue : queue[j] = s  BY <2>1 DEF Members
  <2>3. j = 1 \/ 1 < j  BY <1>1
  <2>4. s = h \/ Card!Before(h, s)
    <3>1. 1 \in DOMAIN queue  BY <1>1, <2>2
    <3> QED  BY <1>0, <1>2, <2>2, <2>3, <3>1 DEF Planned
  <2> DEFINE n == s.take
             q == s.seq
             m == h.take
             p == h.seq
  <2>5. s = Nth(n, q) /\ n \in Nat /\ q \in 1..n
    BY <1>0, RecordingIs DEF Linked
  <2>6. h = Nth(m, p) /\ m \in Nat /\ p \in 1..m
    BY <1>0, <1>3, RecordingIs DEF Linked
  <2> HIDE DEF n, q, m, p
  <2>8. s.pred # None
    BY <1>0, <1>3, <1>4, RecordingsAre DEF Linked
  <2>9. /\ s.seq = q /\ s.pred = <<n, q - 1>> /\ h.id = <<m, p>> /\ h.seq = p
        /\ s.take = n /\ h.take = m
    BY <2>5, <2>6, <2>8, RecordingsAre, ZenonT(60)
  <2>10. p = q - 1
    <3>1. <<n, q - 1>> = <<m, p>>  BY <1>4, <2>9
    <3> QED  BY ONLY <3>1
  <2>11. s # h /\ ~(h.seq > s.seq) /\ h.seq # s.seq
    BY <2>5, <2>6, <2>9, <2>10
  <2> QED  BY <2>4, <2>11 DEF Card!Before
<1>5. Linked(Here \ {h})
  <2> SUFFICES ASSUME NEW r \in Here, r.seq # 1, r # h
               PROVE  Nth(r.take, r.seq - 1) \in Here /\ Nth(r.take, r.seq - 1) # h
    BY <1>0 DEF Linked
  <2>1. Nth(r.take, r.seq - 1) \in Here  BY <1>0 DEF Linked
  <2>2. r.pred = Nth(r.take, r.seq - 1).id
    <3> DEFINE n == r.take
               q == r.seq
    <3>1. r = Nth(n, q) /\ q # 1  BY <1>0, RecordingIs DEF Linked
    <3> HIDE DEF n, q
    <3>2. Nth(n, q).pred = <<n, q - 1>>
      <4>1. q # 1  BY <3>1
      <4> QED  BY ONLY <4>1, RecordingsAre
    <3>4. Nth(n, q - 1).id = <<n, q - 1>>  BY ONLY RecordingsAre
    <3>3. r.pred = Nth(n, q - 1).id  BY <3>1, <3>2, <3>4
    <3> QED  BY <3>3 DEF n, q
  <2> QED  BY <1>4, <2>1, <2>2
<1> QED  BY <1>2, <1>3, <1>4, <1>5 DEF h

(* A recording that is no longer described, or goes on being so. *)
LEMMA Removed ==
    ASSUME CardInv, step = "remove", queue # <<>>,
           NEW rest \in {"whole", "partial", "torn", "gone"},
           files' = [files EXCEPT ![Head(queue)] = rest]
    PROVE  /\ files' \in [Card!Recordings -> {"whole", "partial", "torn", "gone"}]
           /\ Here' = IF rest \in {"whole", "partial"} THEN Here
                      ELSE Here \ {Head(queue)}
           /\ Linked(Here')
           /\ \A s \in chosen : files'[s] = IF s = Head(queue) THEN rest ELSE files[s]
<1> DEFINE h == Head(queue)
<1>1. /\ files \in [Card!Recordings -> {"whole", "partial", "torn", "gone"}]
      /\ chosen \subseteq Card!Recordings
  BY DEF CardInv, CardTyped
<1>2. h \in Here /\ h \in chosen /\ Linked(Here \ {h})  BY HeadIsLast
<1> HIDE DEF h
<1>3. files' = [files EXCEPT ![h] = rest]  BY DEF h
<1>4. \A s \in Card!Recordings : files'[s] = IF s = h THEN rest ELSE files[s]
  BY <1>1, <1>3
<1>5. Here' = IF rest \in {"whole", "partial"} THEN Here ELSE Here \ {h}
  <2>1. Here' = {s \in Card!Recordings : files'[s] \in {"whole", "partial"}}
    BY DEF Here, Card!Described
  <2>2. Here = {s \in Card!Recordings : files[s] \in {"whole", "partial"}}
    BY DEF Here, Card!Described
  <2> QED  BY <1>2, <1>4, <2>1, <2>2
<1>6. Linked(Here')  BY <1>2, <1>5 DEF CardInv
<1> QED  BY <1>1, <1>3, <1>4, <1>5, <1>6 DEF h

LEMMA RemoveNextKeeps == ASSUME CardInv, Card!RemoveNext PROVE CardInv'
<1> DEFINE h == Head(queue)
<1>0. CardTyped /\ Planned /\ Accountable  BY DEF CardInv
<1>1. /\ step = "remove" /\ queue # <<>> /\ files' = [files EXCEPT ![h] = "gone"]
      /\ deleted' = deleted \cup {h} /\ queue' = Tail(queue)
      /\ UNCHANGED <<step, inventory, chosen, failed>>
  BY DEF Card!RemoveNext
<1>2. /\ h \in Here /\ h \in chosen /\ \A s \in Here : s.pred # h.id
  BY <1>1, HeadIsLast
<1>3. /\ files' \in [Card!Recordings -> {"whole", "partial", "torn", "gone"}]
      /\ Here' = Here \ {h} /\ Linked(Here')
      /\ \A s \in chosen : files'[s] = IF s = h THEN "gone" ELSE files[s]
  BY <1>1, Removed
<1>4. /\ queue' \in Seq(chosen) /\ IsInjective(queue')
      /\ Members(queue) = {h} \cup Members(queue') /\ h \notin Members(queue')
      /\ \A i \in DOMAIN queue' : i + 1 \in DOMAIN queue /\ queue'[i] = queue[i + 1]
  BY <1>0, <1>1, TailIs DEF CardTyped
<1> HIDE DEF h
<1>5. CardTyped'  BY <1>0, <1>1, <1>2, <1>3, <1>4 DEF CardTyped
<1>6. Planned'
  <2>1. /\ Members(queue') \subseteq Here'
        /\ \A r \in Members(queue'), s \in Here' : s.pred = r.id => s \in Members(queue')
    BY <1>0, <1>3, <1>4 DEF Planned
  <2>2. \A i, j \in DOMAIN queue' : i < j => Card!Before(queue'[i], queue'[j])
    <3>1. DOMAIN queue' \subseteq Nat  BY <1>4
    <3> QED  BY <1>0, <1>4, <3>1 DEF Planned
  <2>3. failed' = {} /\ step' = "remove"  BY <1>0, <1>1 DEF Planned
  <2> QED  BY <2>1, <2>2, <2>3 DEF Planned, Card!Before
<1>7. Accountable'
  <2>1. /\ deleted \cup failed \cup Members(queue) = chosen
        /\ deleted \cap failed = {} /\ Members(queue) \cap (deleted \cup failed) = {}
        /\ \A s \in chosen : s \in deleted <=> files[s] = "gone"
    BY <1>0, <1>1 DEF Accountable
  <2>2. /\ deleted' \cup failed' \cup Members(queue') = chosen
        /\ deleted' \cap failed' = {} /\ Members(queue') \cap (deleted' \cup failed') = {}
    BY <1>1, <1>4, <2>1
  <2>3. \A s \in chosen : s \in deleted' <=> files'[s] = "gone"
    BY <1>1, <1>3, <2>1
  <2> QED  BY <1>1, <2>2, <2>3 DEF Accountable
<1> QED  BY <1>3, <1>5, <1>6, <1>7 DEF CardInv

LEMMA RemoveFailsKeeps ==
    ASSUME CardInv, NEW rest \in {"whole", "partial", "torn"}, Card!RemoveFails(rest)
    PROVE  CardInv'
<1> DEFINE h == Head(queue)
<1>0. CardTyped /\ Planned /\ Accountable  BY DEF CardInv
<1>1. /\ step = "remove" /\ queue # <<>> /\ files' = [files EXCEPT ![h] = rest]
      /\ failed' = Members(queue) /\ queue' = <<>>
      /\ UNCHANGED <<step, inventory, chosen, deleted>>
  BY DEF Card!RemoveFails, Card!ToSet, Members
<1>2. h \in Here /\ h \in chosen /\ h \in Members(queue)  BY <1>1, HeadIsLast
<1>3. /\ files' \in [Card!Recordings -> {"whole", "partial", "torn", "gone"}]
      /\ Linked(Here')
      /\ \A s \in chosen : files'[s] = IF s = h THEN rest ELSE files[s]
  BY <1>1, Removed
<1> HIDE DEF h
<1>4. Members(queue') = {} /\ DOMAIN queue' = {} /\ IsInjective(queue')
      /\ queue' \in Seq(chosen)
  BY <1>1, NoMembers
<1>5. Members(queue) \subseteq chosen  BY <1>0 DEF CardTyped, Members
<1>6. CardTyped'  BY <1>0, <1>1, <1>3, <1>4, <1>5 DEF CardTyped
<1>7. Planned'  BY <1>1, <1>4 DEF Planned, Card!Before
<1>8. Accountable'
  <2>1. /\ deleted \cup failed \cup Members(queue) = chosen
        /\ deleted \cap failed = {} /\ Members(queue) \cap (deleted \cup failed) = {}
        /\ \A s \in chosen : s \in deleted <=> files[s] = "gone"
    BY <1>0, <1>1 DEF Accountable
  <2>2. failed = {}
    BY <1>0, <1>1 DEF Planned
  <2>3. /\ deleted' \cup failed' \cup Members(queue') = chosen
        /\ deleted' \cap failed' = {} /\ Members(queue') \cap (deleted' \cup failed') = {}
    BY <1>1, <1>4, <2>1, <2>2
  <2>4. \A s \in chosen : s \in deleted' <=> files'[s] = "gone"
    BY <1>1, <1>2, <1>3, <2>1
  <2> QED  BY <1>1, <2>3, <2>4 DEF Accountable
<1> QED  BY <1>3, <1>6, <1>7, <1>8 DEF CardInv

LEMMA TellKeeps == ASSUME CardInv, Card!Tell PROVE CardInv'
<1>1. /\ step = "remove" /\ queue = <<>> /\ step' = "told"
      /\ UNCHANGED <<files, inventory, chosen, queue, deleted, failed>>
  BY DEF Card!Tell
<1>2. Here' = Here  BY <1>1 DEF Here, Card!Described
<1>3. CardTyped'  BY <1>1 DEF CardInv, CardTyped
<1>4. Planned'  BY <1>1, <1>2 DEF CardInv, Planned, Card!Before
<1>5. Accountable'  BY <1>1 DEF CardInv, Accountable
<1> QED  BY <1>2, <1>3, <1>4, <1>5 DEF CardInv

LEMMA StopKeeps == ASSUME CardInv, Card!Stop PROVE CardInv'
<1>1. /\ step = "remove" /\ queue' = <<>> /\ step' = "idle"
      /\ UNCHANGED <<files, inventory, chosen, deleted, failed>>
  BY DEF Card!Stop
<1>2. Here' = Here  BY <1>1 DEF Here, Card!Described
<1>3. Members(queue') = {} /\ DOMAIN queue' = {} /\ IsInjective(queue')
      /\ queue' \in Seq(chosen)
  BY <1>1, NoMembers
<1>4. CardTyped'  BY <1>1, <1>3 DEF CardInv, CardTyped
<1>5. Planned'  BY <1>1, <1>3 DEF Planned, Card!Before
<1>6. Accountable'  BY <1>1 DEF Accountable
<1> QED  BY <1>2, <1>4, <1>5, <1>6 DEF CardInv

LEMMA CardKeeps == ASSUME CardInv, Card!Next PROVE CardInv'
<1>1. ASSUME NEW c \in SUBSET Card!Recordings, NEW bad \in Card!Unreadable,
             Card!Inventory(c, bad)
      PROVE  CardInv'
  BY <1>1, InventoryKeeps
<1>2. ASSUME NEW rest \in {"whole", "partial", "torn"}, Card!RemoveFails(rest)
      PROVE  CardInv'
  BY <1>2, RemoveFailsKeeps
<1> QED  BY <1>1, <1>2, CheckKeeps, RemoveNextKeeps, TellKeeps, StopKeeps DEF Card!Next

LEMMA CardStutter == ASSUME CardInv, UNCHANGED cardVars PROVE CardInv'
<1>1. UNCHANGED <<files, step, inventory, chosen, queue, deleted, failed>>
  BY DEF cardVars
<1>2. Here' = Here  BY <1>1 DEF Here, Card!Described
<1>3. CardTyped'  BY <1>1 DEF CardInv, CardTyped
<1>4. Planned'  BY <1>1, <1>2 DEF CardInv, Planned, Card!Before
<1>5. Accountable'  BY <1>1 DEF CardInv, Accountable
<1> QED  BY <1>2, <1>3, <1>4, <1>5 DEF CardInv

LEMMA CardInvTells ==
    ASSUME CardInv
    PROVE  Card!TypeOK /\ Card!StillChains /\ Card!Reported
<1>1. Card!TypeOK
  <2>1. Card!ToSet(queue) \subseteq chosen
    BY DEF CardInv, CardTyped, Card!ToSet
  <2> QED  BY <2>1 DEF CardInv, CardTyped, Card!TypeOK
<1>2. Card!StillChains
  BY SameGraph, LinkedReadable DEF Card!StillChains, CardInv, Here
<1>3. Card!Reported
  <2> SUFFICES ASSUME step = "told", deleted \cup failed # {}
               PROVE  /\ deleted \cup failed = chosen /\ deleted \cap failed = {}
                      /\ \A s \in chosen : s \in deleted <=> files[s] = "gone"
    BY DEF Card!Reported
  <2>1. queue = <<>>  BY DEF CardInv, Planned
  <2>2. Members(queue) = {}  BY <2>1, NoMembers
  <2> QED  BY <2>2 DEF CardInv, Accountable
<1> QED  BY <1>1, <1>2, <1>3

LEMMA CardTouches ==
    ASSUME CardInv, Card!Next, NEW s \in Card!Recordings, files'[s] # files[s]
    PROVE  s \in chosen
<1>0. files \in [Card!Recordings -> {"whole", "partial", "torn", "gone"}]
  BY DEF CardInv, CardTyped
<1>1. CASE Card!RemoveNext
  <2>1. /\ step = "remove" /\ queue # <<>>
        /\ files' = [files EXCEPT ![Head(queue)] = "gone"]
    BY <1>1 DEF Card!RemoveNext
  <2>2. s = Head(queue)  BY <1>0, <2>1
  <2> QED  BY <2>1, <2>2, HeadIsLast
<1>2. ASSUME NEW rest \in {"whole", "partial", "torn"}, Card!RemoveFails(rest)
      PROVE  s \in chosen
  <2>1. /\ step = "remove" /\ queue # <<>>
        /\ files' = [files EXCEPT ![Head(queue)] = rest]
    BY <1>2 DEF Card!RemoveFails
  <2>2. s = Head(queue)  BY <1>0, <2>1
  <2> QED  BY <2>1, <2>2, HeadIsLast
<1>3. CASE files' = files
  BY <1>3
<1> QED
  BY <1>1, <1>2, <1>3 DEF Card!Next, Card!Check, Card!Tell, Card!Stop, Card!Inventory

(* However long the takes of a card are, whatever fails and wherever a deletion  *)
(* is cut short: the recordings left are whole takes, every chosen recording is  *)
(* reported once and as it ended, and nothing else is touched (Deletions).      *)
THEOREM SdkDeletes == SdkSpec => Deletions
<1>1. SdkInit => CardInv  BY CardStarts DEF SdkInit
<1>2. CardInv /\ [SdkNext]_sdkVars => CardInv'
  <2> SUFFICES ASSUME CardInv, [SdkNext]_sdkVars PROVE CardInv'  OBVIOUS
  <2>1. CASE Card!Next
    BY <2>1, CardKeeps
  <2>2. CASE UNCHANGED cardVars
    BY <2>2, CardStutter
  <2> QED  BY <2>1, <2>2 DEF SdkNext, OnlySources, OnlyBatch, OnlyRender, sdkVars, Export
<1>3. CardInv => Card!TypeOK /\ Card!StillChains /\ Card!Reported
  BY CardInvTells
<1>4. CardInv /\ [SdkNext]_sdkVars =>
          [\A s \in Card!Recordings : files'[s] # files[s] => s \in chosen]_(Card!vars)
  <2> SUFFICES ASSUME CardInv, [SdkNext]_sdkVars,
                      NEW s \in Card!Recordings, files'[s] # files[s]
               PROVE  s \in chosen
    OBVIOUS
  <2>1. CASE Card!Next
    BY <2>1, CardTouches
  <2>2. CASE UNCHANGED cardVars
    BY <2>2 DEF cardVars
  <2> QED  BY <2>1, <2>2 DEF SdkNext, OnlySources, OnlyBatch, OnlyRender, sdkVars, Export
<1> QED  BY <1>1, <1>2, <1>3, <1>4, PTL DEF SdkSpec, Deletions, Card!Untouched

-----------------------------------------------------------------------------
(* Tables that are halved *)

(* For two places of A..Z, f takes from v what is at the place before the       *)
(* second that is found by halving: in the second half if it begins in L.      *)
Mid(p) == (p[1] + p[2]) \div 2
Halving(f, v, L, A, Z) ==
    f = [p \in (A..Z) \X (A..Z) |->
            IF p[2] - p[1] = 1 THEN v[p[1]]
            ELSE IF Mid(p) \notin L THEN f[<<p[1], Mid(p)>>] ELSE f[<<Mid(p), p[2]>>]]

LEMMA HalvingIs ==
    ASSUME NEW f, NEW v, NEW L, NEW A, NEW Z
    PROVE  Halving(f, v, L, A, Z) <=>
               /\ f = [p \in (A..Z) \X (A..Z) |-> f[p]]
               /\ \A p \in (A..Z) \X (A..Z) :
                    f[p] = IF p[2] - p[1] = 1 THEN v[p[1]]
                           ELSE IF Mid(p) \notin L THEN f[<<p[1], Mid(p)>>]
                                                   ELSE f[<<Mid(p), p[2]>>]
<1> DEFINE Is(p) == IF p[2] - p[1] = 1 THEN v[p[1]]
                    ELSE IF Mid(p) \notin L THEN f[<<p[1], Mid(p)>>] ELSE f[<<Mid(p), p[2]>>]
           g == [p \in (A..Z) \X (A..Z) |-> Is(p)]
<1>1. Halving(f, v, L, A, Z) <=> f = g  BY DEF Halving
<1>2. /\ g = [p \in (A..Z) \X (A..Z) |-> g[p]]
      /\ \A p \in (A..Z) \X (A..Z) : g[p] = Is(p)
  OBVIOUS
<1> HIDE DEF g
<1>3. f = g <=> f = [p \in (A..Z) \X (A..Z) |-> f[p]] /\ \A p \in (A..Z) \X (A..Z) : f[p] = Is(p)
  <2> HIDE DEF Is
  <2> QED  BY <1>2
<1> QED  BY <1>1, <1>3

(* L has the places up to b. *)
Lower(L, b, A, Z) == \A m \in A..Z : m \in L <=> m <= b

(* The last place below z that is in L, where L has all places up to b. *)
Placed(a, z, b) == IF b < a THEN a ELSE IF b < z THEN b ELSE z - 1

LEMMA HalvingDefined ==
    ASSUME NEW A \in Nat, NEW Z \in Nat,
           NEW v, NEW L, NEW b \in Int, Lower(L, b, A, Z)
    PROVE  \E f : Halving(f, v, L, A, Z)
<1> DEFINE Of(p) == IF p[1] < p[2] THEN v[Placed(p[1], p[2], b)] ELSE 0
           f == [p \in (A..Z) \X (A..Z) |-> Of(p)]
<1>1. f = [p \in (A..Z) \X (A..Z) |-> f[p]] /\ \A p \in (A..Z) \X (A..Z) : f[p] = Of(p)
  OBVIOUS
<1> HIDE DEF f
<1>2. ASSUME NEW x \in A..Z, NEW y \in A..Z
      PROVE  LET m == (x + y) \div 2 IN
             Of(<<x, y>>) = IF y - x = 1 THEN v[x]
                            ELSE IF m \notin L THEN Of(<<x, m>>) ELSE Of(<<m, y>>)
  <2> DEFINE m == (x + y) \div 2
  <2>1. m \in A..Z /\ 2 * m <= x + y /\ x + y <= 2 * m + 1  OBVIOUS
  <2>2. m \in L <=> m <= b  BY <2>1 DEF Lower
  <2> HIDE DEF m
  <2>3. CASE y <= x
    BY <2>1, <2>3
  <2>4. CASE y = x + 1
    <3>1. Placed(x, y, b) = x  BY <2>4 DEF Placed
    <3> QED  BY <2>4, <3>1
  <2>5. CASE x + 1 < y
    <3>1. x < m /\ m < y  BY <2>1, <2>5
    <3>2. m \notin L => Placed(x, y, b) = Placed(x, m, b)
      BY <2>1, <2>2, <3>1 DEF Placed
    <3>3. m \in L => Placed(x, y, b) = Placed(m, y, b)
      BY <2>1, <2>2, <3>1 DEF Placed
    <3> QED  BY <2>1, <2>5, <3>1, <3>2, <3>3
  <2> QED  BY <2>3, <2>4, <2>5 DEF m
<1>3. ASSUME NEW p \in (A..Z) \X (A..Z)
      PROVE  f[p] = IF p[2] - p[1] = 1 THEN v[p[1]]
                    ELSE IF Mid(p) \notin L THEN f[<<p[1], Mid(p)>>]
                                            ELSE f[<<Mid(p), p[2]>>]
  <2>1. PICK x \in A..Z, y \in A..Z : p = <<x, y>>  OBVIOUS
  <2>2. Mid(p) = (x + y) \div 2 /\ p[1] = x /\ p[2] = y  BY <2>1 DEF Mid
  <2>3. (x + y) \div 2 \in A..Z  OBVIOUS
  <2> HIDE DEF Of
  <2> QED  BY <1>1, <1>2, <2>1, <2>2, <2>3
<1> QED  BY <1>1, <1>3, HalvingIs

(* Whatever f is, it finds that place. *)
LEMMA Halves ==
    ASSUME NEW A \in Nat, NEW Z \in Nat,
           NEW v, NEW L, NEW b \in Int, Lower(L, b, A, Z),
           NEW f, Halving(f, v, L, A, Z)
    PROVE  \A a, z \in A..Z : a < z => f[<<a, z>>] = v[Placed(a, z, b)]
<1> DEFINE T == {k \in Nat : \A a, z \in A..Z :
                   a < z /\ z <= a + k => f[<<a, z>>] = v[Placed(a, z, b)]}
<1>1. 0 \in T  OBVIOUS
<1>2. ASSUME NEW k \in Nat, k \in T PROVE k + 1 \in T
  <2> SUFFICES ASSUME NEW a \in A..Z, NEW z \in A..Z, a < z, z <= a + (k + 1)
               PROVE  f[<<a, z>>] = v[Placed(a, z, b)]
    <3>1. k + 1 \in Nat  OBVIOUS
    <3> QED  BY <3>1
  <2> DEFINE m == (a + z) \div 2
  <2>1. m \in A..Z /\ 2 * m <= a + z /\ a + z <= 2 * m + 1  OBVIOUS
  <2>2. f[<<a, z>>] = IF z - a = 1 THEN v[a] ELSE IF m \notin L THEN f[<<a, m>>] ELSE f[<<m, z>>]
    <3>1. <<a, z>> \in (A..Z) \X (A..Z) /\ <<a, z>>[1] = a /\ <<a, z>>[2] = z /\ Mid(<<a, z>>) = m
      BY DEF Mid
    <3> HIDE DEF m
    <3> QED  BY <3>1, HalvingIs
  <2>3. m \in L <=> m <= b  BY <2>1 DEF Lower
  <2> HIDE DEF m
  <2>4. CASE z = a + 1
    <3>1. Placed(a, z, b) = a  BY <2>4 DEF Placed
    <3> QED  BY <2>2, <2>4, <3>1
  <2>5. CASE a + 1 < z
    <3>1. a < m /\ m < z /\ m <= a + k /\ z <= m + k  BY <2>1, <2>5
    <3>2. f[<<a, m>>] = v[Placed(a, m, b)] /\ f[<<m, z>>] = v[Placed(m, z, b)]
      BY <1>2, <2>1, <3>1
    <3>3. m \notin L => Placed(a, z, b) = Placed(a, m, b)
      BY <2>1, <2>3, <3>1 DEF Placed
    <3>4. m \in L => Placed(a, z, b) = Placed(m, z, b)
      BY <2>1, <2>3, <3>1 DEF Placed
    <3> QED  BY <2>2, <2>5, <3>2, <3>3, <3>4
  <2> QED  BY <2>4, <2>5
<1>3. Nat \subseteq T
  <2> HIDE DEF T
  <2> QED  BY <1>1, <1>2, NumbersByInduction
<1> SUFFICES ASSUME NEW a \in A..Z, NEW z \in A..Z, a < z PROVE f[<<a, z>>] = v[Placed(a, z, b)]
  OBVIOUS
<1>4. z - a \in T /\ z <= a + (z - a)
  <2>1. z - a \in Nat  OBVIOUS
  <2> HIDE DEF T
  <2> QED  BY <1>3, <2>1
<1> QED  BY <1>4

-----------------------------------------------------------------------------
(* A frame index that is complete is found by halving as it is. *)
LEMMA LookupFinds ==
    ASSUME NEW S, NEW values \in Seq(S), NEW n \in 0..Len(values) - 1
    PROVE  Render!Lookup(values, n) = values[n + 1]
<1> DEFINE Is(f) == f = [p \in (0..Len(values)) \X (0..Len(values)) |->
               LET mid == (p[1] + p[2]) \div 2 IN
               IF p[2] - p[1] = 1 THEN values[p[1] + 1]
               ELSE IF n < mid THEN f[<<p[1], mid>>] ELSE f[<<mid, p[2]>>]]
           v == [s \in Nat |-> values[s + 1]]
           L == {m \in Nat : m <= n}
           piece == CHOOSE f : Is(f)
<1>1. Render!Lookup(values, n) = piece[<<0, Len(values)>>]  BY DEF Render!Lookup
<1>2. \A f : Is(f) <=> Halving(f, v, L, 0, Len(values))
  <2> TAKE f
  <2> DEFINE This(p) == LET mid == (p[1] + p[2]) \div 2 IN
                       IF p[2] - p[1] = 1 THEN values[p[1] + 1]
                       ELSE IF n < mid THEN f[<<p[1], mid>>] ELSE f[<<mid, p[2]>>]
             Other(p) == IF p[2] - p[1] = 1 THEN v[p[1]]
                         ELSE IF Mid(p) \notin L THEN f[<<p[1], Mid(p)>>] ELSE f[<<Mid(p), p[2]>>]
  <2>1. ASSUME NEW p \in (0..Len(values)) \X (0..Len(values)) PROVE This(p) = Other(p)
    <3>1. (p[1] + p[2]) \div 2 \in Nat /\ p[1] \in Nat  OBVIOUS
    <3>2. (p[1] + p[2]) \div 2 \notin L <=> n < (p[1] + p[2]) \div 2  BY <3>1
    <3>3. v[p[1]] = values[p[1] + 1]  BY <3>1
    <3> HIDE DEF v, L
    <3> QED  BY <3>2, <3>3 DEF Mid
  <2>2. [p \in (0..Len(values)) \X (0..Len(values)) |-> This(p)] = [p \in (0..Len(values)) \X (0..Len(values)) |-> Other(p)]
    <3> HIDE DEF This, Other
    <3> QED  BY <2>1
  <2> QED  BY <2>2 DEF Halving
<1>3. Lower(L, n, 0, Len(values))  BY DEF Lower
<1>4. /\ n \in Int /\ 0 \in 0..Len(values) /\ Len(values) \in 0..Len(values)
      /\ 0 < Len(values) /\ Len(values) \in Nat /\ 0 \in Nat
  OBVIOUS
<1> HIDE DEF L, v, Is
<1>5. Halving(piece, v, L, 0, Len(values))  BY <1>2, <1>3, <1>4, HalvingDefined
<1> HIDE DEF piece
<1>6. piece[<<0, Len(values)>>] = v[Placed(0, Len(values), n)]
  <2>1. \A a, z \in 0..Len(values) : a < z => piece[<<a, z>>] = v[Placed(a, z, n)]
    BY <1>3, <1>4, <1>5, Halves
  <2> QED  BY <1>4, <2>1
<1>7. Placed(0, Len(values), n) = n /\ n \in Nat  BY <1>4 DEF Placed
<1> QED  BY <1>1, <1>6, <1>7 DEF v

-----------------------------------------------------------------------------
(* Sequences that are put together *)

Flat(f, q, m) == f = [i \in 1..m |-> IF i = 1 THEN q[i] ELSE f[i - 1] \o q[i]]

LEMMA FlatIs ==
    ASSUME NEW f, NEW q, NEW m \in Nat
    PROVE  Flat(f, q, m) <=>
               /\ f = [i \in 1..m |-> f[i]]
               /\ \A i \in 1..m : f[i] = IF i = 1 THEN q[i] ELSE f[i - 1] \o q[i]
<1> DEFINE Is(i) == IF i = 1 THEN q[i] ELSE f[i - 1] \o q[i]
           g == [i \in 1..m |-> Is(i)]
<1>1. Flat(f, q, m) <=> f = g  BY DEF Flat
<1>2. g = [i \in 1..m |-> g[i]] /\ \A i \in 1..m : g[i] = Is(i)  OBVIOUS
<1> HIDE DEF g
<1>3. f = g <=> f = [i \in 1..m |-> f[i]] /\ \A i \in 1..m : f[i] = Is(i)
  <2> HIDE DEF Is
  <2> QED  BY <1>2
<1> QED  BY <1>1, <1>3

LEMMA FlatExists ==
    ASSUME NEW q
    PROVE  \A m \in Nat : \E f : Flat(f, q, m)
<1> DEFINE T == {m \in Nat : \E f : Flat(f, q, m)}
<1>1. 0 \in T
  <2>1. Flat([i \in {} |-> q], q, 0)
    <3>1. 1..0 = {}  OBVIOUS
    <3> QED  BY <3>1 DEF Flat
  <2> QED  BY <2>1
<1>2. ASSUME NEW m \in Nat, m \in T PROVE m + 1 \in T
  <2>1. PICK f : Flat(f, q, m)  BY <1>2
  <2>2. \A i \in 1..m : f[i] = IF i = 1 THEN q[i] ELSE f[i - 1] \o q[i]  BY <2>1, FlatIs
  <2> DEFINE This(i) == IF i \in 1..m THEN f[i] ELSE IF i = 1 THEN q[i] ELSE f[m] \o q[i]
             g == [i \in 1..(m + 1) |-> This(i)]
  <2>3. /\ g = [i \in 1..(m + 1) |-> g[i]] /\ \A i \in 1..m : g[i] = f[i]
        /\ g[m + 1] = IF m + 1 = 1 THEN q[m + 1] ELSE f[m] \o q[m + 1]
    <3>1. /\ \A i \in 1..m : This(i) = f[i]
          /\ This(m + 1) = IF m + 1 = 1 THEN q[m + 1] ELSE f[m] \o q[m + 1]
      <4>1. m + 1 \notin 1..m  OBVIOUS
      <4> QED  BY <4>1
    <3>2. m + 1 \in 1..(m + 1) /\ \A i \in 1..m : i \in 1..(m + 1)  OBVIOUS
    <3> HIDE DEF This
    <3> QED  BY <3>1, <3>2
  <2> HIDE DEF g
  <2>4. ASSUME NEW i \in 1..(m + 1)
        PROVE  g[i] = IF i = 1 THEN q[i] ELSE g[i - 1] \o q[i]
    <3>1. CASE i \in 1..m
      <4>1. i # 1 => i - 1 \in 1..m  BY <3>1
      <4> QED  BY <2>2, <2>3, <3>1, <4>1
    <3>2. CASE i = m + 1
      <4>1. i # 1 => i - 1 = m /\ m \in 1..m  BY <3>2
      <4> QED  BY <2>3, <3>2, <4>1
    <3> QED  BY <3>1, <3>2
  <2>5. Flat(g, q, m + 1)
    <3>1. m + 1 \in Nat  OBVIOUS
    <3> QED  BY <2>3, <2>4, <3>1, FlatIs
  <2> QED  BY <2>5
<1>3. Nat \subseteq T
  <2> HIDE DEF T
  <2> QED  BY <1>1, <1>2, NumbersByInduction
<1> QED  BY <1>3

LEMMA Flattened ==
    ASSUME NEW S, NEW q \in Seq(S), q # <<>>
    PROVE  \E f : /\ Render!FlattenSeq(q) = f[Len(q)] /\ f[1] = q[1]
                  /\ \A i \in 2..Len(q) : f[i] = f[i - 1] \o q[i]
<1> DEFINE Is(f) == f = [i \in 1..Len(q) |-> IF i = 1 THEN q[i] ELSE f[i - 1] \o q[i]]
           flatten == CHOOSE f : Is(f)
<1>1. Len(q) \in Nat /\ Len(q) # 0  OBVIOUS
<1>2. Render!FlattenSeq(q) = flatten[Len(q)]  BY <1>1 DEF Render!FlattenSeq
<1>3. Is(flatten) <=> Flat(flatten, q, Len(q))  BY DEF Flat
<1>4. \E f : Is(f)  BY <1>1, FlatExists DEF Flat
<1>5. Is(flatten)
  <2> HIDE DEF Is
  <2> QED  BY <1>4
<1> HIDE DEF Is, flatten
<1>6. \A i \in 1..Len(q) :
          flatten[i] = IF i = 1 THEN q[i] ELSE flatten[i - 1] \o q[i]
  BY <1>1, <1>3, <1>5, FlatIs
<1>7. flatten[1] = q[1] /\ \A i \in 2..Len(q) : flatten[i] = flatten[i - 1] \o q[i]
  <2>1. 1 \in 1..Len(q) /\ \A i \in 2..Len(q) : i \in 1..Len(q) /\ i # 1  BY <1>1
  <2> QED  BY <1>6, <2>1
<1> QED  BY <1>2, <1>7

-----------------------------------------------------------------------------
(* The frames of an eye *)

LEMMA RenderFacts ==
    /\ \A s \in Filmed : /\ s.segments \in Seq(Render!Segments) /\ s.count \in Nat
                         /\ s.rows = None \/ s.rows \in Seq(Int)
    /\ \A a \in Heard \ {None} :
           /\ a.points \in Seq(Int \X Int) /\ a.count \in Nat
           /\ a.begin \in Int /\ a.end \in Int /\ a.sync \in Int
    /\ Micro \in Nat \ {0} /\ Slack \in Nat
BY MCSdkAssumption DEF Render!RenderConstants

LEMMA OrderedIs ==
    ASSUME NEW q \in Seq(Render!Segments), Render!Contiguous(q), NEW i \in 1..Len(q)
    PROVE  /\ Render!Ordered(q)[i] \in Render!Listed(q)
           /\ Render!Ordered(q)[i] \in Render!Segments
           /\ Render!Ordered(q)[i].index = i - 1
<1>1. i - 1 \in {s.index : s \in Render!Listed(q)}
  <2>1. {s.index : s \in Render!Listed(q)} = 0..Len(q) - 1  BY DEF Render!Contiguous
  <2>2. i - 1 \in 0..Len(q) - 1  OBVIOUS
  <2> QED  BY ONLY <2>1, <2>2
<1>2. \E s \in Render!Listed(q) : s.index = i - 1  BY <1>1
<1>3. Render!Ordered(q)[i] = CHOOSE s \in Render!Listed(q) : s.index = i - 1
  BY DEF Render!Ordered
<1>4. Render!Listed(q) \subseteq Render!Segments  BY DEF Render!Listed
<1> QED  BY <1>2, <1>3, <1>4

(* Frames of the first i segments, one after the other. *)
Frames(x, i) ==
    /\ x \in Seq(Nat \X Nat)
    /\ \A j \in 1..Len(x) : x[j][1] < i
    /\ \A j \in 1..Len(x) : j > 1 => Render!Later(x[j - 1], x[j])

LEMMA PartsOfJoin ==
    ASSUME NEW S, NEW x \in Seq(S), NEW y \in Seq(S)
    PROVE  /\ x \o y \in Seq(S) /\ Len(x \o y) = Len(x) + Len(y)
           /\ \A j \in 1..Len(x) : (x \o y)[j] = x[j]
           /\ \A j \in 1..Len(y) : (x \o y)[Len(x) + j] = y[j]
OBVIOUS

LEMMA FramesJoin ==
    ASSUME NEW x, NEW i \in Nat, Frames(x, i), NEW n \in Nat
    PROVE  Frames(x \o [k \in 1..n |-> <<i, k>>], i + 1)
<1> DEFINE y == [k \in 1..n |-> <<i, k>>]
           z == x \o y
<1>1. y \in Seq(Nat \X Nat) /\ Len(y) = n /\ \A k \in 1..n : y[k] = <<i, k>>  OBVIOUS
<1>2. x \in Seq(Nat \X Nat)  BY DEF Frames
<1> HIDE DEF y
<1>3. /\ z \in Seq(Nat \X Nat) /\ Len(z) = Len(x) + n
      /\ \A j \in 1..Len(x) : z[j] = x[j]
      /\ \A j \in 1..n : z[Len(x) + j] = y[j]
  <2> DEFINE U == Nat \X Nat
  <2>1. x \in Seq(U) /\ y \in Seq(U) /\ Len(y) = n  BY <1>1, <1>2
  <2> HIDE DEF U
  <2>2. /\ x \o y \in Seq(U) /\ Len(x \o y) = Len(x) + Len(y)
        /\ \A j \in 1..Len(x) : (x \o y)[j] = x[j]
        /\ \A j \in 1..Len(y) : (x \o y)[Len(x) + j] = y[j]
    BY ONLY <2>1
  <2> QED  BY ONLY <2>1, <2>2 DEF z, U
<1>4. Len(x) \in Nat  BY <1>2
<1> HIDE DEF z
<1>5. ASSUME NEW j \in 1..Len(z) PROVE z[j][1] < i + 1
  <2>1. CASE j <= Len(x)
    <3>1. j \in 1..Len(x) /\ x[j][1] \in Nat  BY <1>2, <1>4, <2>1
    <3>2. x[j][1] < i  BY <3>1 DEF Frames
    <3> QED  BY <1>3, <3>1, <3>2, SMTT(40)
  <2>2. CASE j > Len(x)
    <3>1. j - Len(x) \in 1..n /\ j = Len(x) + (j - Len(x))  BY <1>3, <1>4, <2>2
    <3>2. z[j] = <<i, j - Len(x)>>  BY <1>1, <1>3, <3>1
    <3> QED  BY <3>2
  <2> QED  BY <1>3, <1>4, <2>1, <2>2
<1>6. ASSUME NEW j \in 1..Len(z), j > 1 PROVE Render!Later(z[j - 1], z[j])
  <2>1. CASE j <= Len(x)
    <3>1. j \in 1..Len(x) /\ j - 1 \in 1..Len(x)  BY <1>4, <1>6, <2>1
    <3>2. Render!Later(x[j - 1], x[j])  BY <1>6, <3>1 DEF Frames
    <3> QED  BY <1>3, <3>1, <3>2
  <2>2. CASE j = Len(x) + 1
    <3>1. j - 1 \in 1..Len(x) /\ 1 \in 1..n /\ j = Len(x) + 1  BY <1>3, <1>4, <1>6, <2>2
    <3>2. z[j - 1] = x[j - 1] /\ z[j] = <<i, 1>>  BY <1>1, <1>3, <3>1
    <3>3. x[j - 1][1] < i  BY <3>1 DEF Frames
    <3>4. <<i, 1>>[1] = i  OBVIOUS
    <3> QED  BY <3>2, <3>3, <3>4 DEF Render!Later
  <2>3. CASE j > Len(x) + 1
    <3> DEFINE k == j - Len(x)
    <3>1. k \in 1..n /\ k - 1 \in 1..n /\ j = Len(x) + k /\ j - 1 = Len(x) + (k - 1)
      <4>1. j \in Nat /\ j <= Len(x) + n  BY <1>3, <1>4
      <4> QED  BY <1>4, <2>3, <4>1
    <3> HIDE DEF k
    <3>2. z[j] = <<i, k>> /\ z[j - 1] = <<i, k - 1>>  BY <1>1, <1>3, <3>1
    <3>3. /\ <<i, k>>[1] = i /\ <<i, k - 1>>[1] = i
          /\ <<i, k - 1>>[2] < <<i, k>>[2]
      BY <3>1
    <3> QED  BY <3>2, <3>3 DEF Render!Later
  <2> QED  BY <1>3, <1>4, <2>1, <2>2, <2>3, SMTT(40)
<1> QED  BY <1>3, <1>5, <1>6 DEF Frames, z, y

(* The files of an eye yield its frames in the order of capture. *)
LEMMA EyeInOrder ==
    ASSUME source.segments \in Seq(Render!Segments), Render!Contiguous(source.segments),
           NEW eye \in {"left", "right"}
    PROVE  Frames(Render!Eye(eye), Len(source.segments))
<1> DEFINE q == source.segments
           Part(i) == [k \in 1..Render!Ordered(q)[i][eye] |-> <<Render!Ordered(q)[i].index, k>>]
           parts == [i \in DOMAIN q |-> Part(i)]
<1>1. Render!Eye(eye) = Render!FlattenSeq(parts)  BY DEF Render!Eye
<1>2. /\ Len(q) \in Nat /\ Len(q) # 0 /\ DOMAIN q = 1..Len(q)  BY DEF Render!Contiguous
<1>3. ASSUME NEW i \in 1..Len(q)
      PROVE  \E n \in Nat : Part(i) = [k \in 1..n |-> <<i - 1, k>>]
  <2>1. Render!Ordered(q)[i] \in Render!Segments /\ Render!Ordered(q)[i].index = i - 1
    BY <1>3, OrderedIs
  <2>2. Render!Ordered(q)[i][eye] \in Nat  BY <2>1 DEF Render!Segments
  <2> QED  BY <2>1, <2>2
<1>4. parts \in Seq(Seq(Nat \X Nat)) /\ Len(parts) = Len(q) /\ parts # <<>>
  <2>1. \A i \in 1..Len(q) : Part(i) \in Seq(Nat \X Nat)
    <3> TAKE i \in 1..Len(q)
    <3>1. PICK n \in Nat : Part(i) = [k \in 1..n |-> <<i - 1, k>>]  BY <1>3
    <3>2. i - 1 \in Nat  BY <1>2
    <3> HIDE DEF Part
    <3> QED  BY <3>1, <3>2
  <2> HIDE DEF Part
  <2>2. parts \in [1..Len(q) -> Seq(Nat \X Nat)]  BY <1>2, <2>1
  <2> HIDE DEF parts
  <2> QED  BY <1>2, <2>2
<1>5. PICK f : /\ Render!FlattenSeq(parts) = f[Len(parts)] /\ f[1] = parts[1]
               /\ \A i \in 2..Len(parts) : f[i] = f[i - 1] \o parts[i]
  <2> HIDE DEF parts
  <2> QED  BY <1>4, Flattened
<1>6. \A i \in 1..Len(q) : parts[i] = Part(i)  BY <1>2
<1> HIDE DEF parts, Part
<1> DEFINE T == {i \in Nat : i + 1 <= Len(q) => Frames(f[i + 1], i + 1)}
<1>7. 0 \in T
  <2>1. 1 \in 1..Len(q)  BY <1>2
  <2>2. PICK n \in Nat : Part(1) = [k \in 1..n |-> <<1 - 1, k>>]  BY <1>3, <2>1
  <2>3. f[1] = [k \in 1..n |-> <<0, k>>]
    <3>1. 1 - 1 = 0  OBVIOUS
    <3>2. Part(1) = [k \in 1..n |-> <<0, k>>]  BY ONLY <2>2, <3>1
    <3> QED  BY <1>5, <1>6, <2>1, <3>2
  <2>4. Frames(<<>>, 0)  BY DEF Frames
  <2>5. Frames(<<>> \o [k \in 1..n |-> <<0, k>>], 0 + 1)  BY <2>4, FramesJoin
  <2>6. <<>> \o [k \in 1..n |-> <<0, k>>] = [k \in 1..n |-> <<0, k>>]
    <3>1. [k \in 1..n |-> <<0, k>>] \in Seq(Nat \X Nat)  OBVIOUS
    <3> QED  BY <3>1
  <2> QED  BY <2>3, <2>5, <2>6
<1>8. ASSUME NEW i \in Nat, i \in T PROVE i + 1 \in T
  <2> SUFFICES ASSUME (i + 1) + 1 <= Len(q) PROVE Frames(f[(i + 1) + 1], (i + 1) + 1)
    OBVIOUS
  <2>1. Frames(f[i + 1], i + 1)  BY <1>2, <1>8
  <2>2. /\ (i + 1) + 1 \in 1..Len(q) /\ (i + 1) + 1 \in 2..Len(parts)
        /\ ((i + 1) + 1) - 1 = i + 1 /\ i + 1 \in Nat
    BY <1>2, <1>4
  <2>3. PICK n \in Nat : Part((i + 1) + 1) = [k \in 1..n |-> <<i + 1, k>>]
    <3>1. \E n \in Nat : Part((i + 1) + 1) = [k \in 1..n |-> <<((i + 1) + 1) - 1, k>>]
      BY <1>3, <2>2
    <3> QED  BY <2>2, <3>1
  <2>4. f[(i + 1) + 1] = f[i + 1] \o [k \in 1..n |-> <<i + 1, k>>]
    BY <1>5, <1>6, <2>2, <2>3
  <2> QED  BY <2>1, <2>2, <2>4, FramesJoin
<1>9. Nat \subseteq T
  <2> HIDE DEF T
  <2> QED  BY <1>7, <1>8, NumbersByInduction
<1>10. Len(q) - 1 \in T /\ (Len(q) - 1) + 1 = Len(q)
  <2>1. Len(q) - 1 \in Nat /\ (Len(q) - 1) + 1 = Len(q)  BY <1>2
  <2> HIDE DEF T
  <2> QED  BY <1>9, <2>1
<1> QED  BY <1>1, <1>2, <1>4, <1>5, <1>10

(* Files with as many frames of either eye. *)
LEMMA EyesAlike ==
    ASSUME source.segments \in Seq(Render!Segments), Render!Contiguous(source.segments),
           \A s \in Render!Listed(source.segments) : s.left = s.right
    PROVE  Render!Eye("left") = Render!Eye("right")
<1> DEFINE q == source.segments
           Part(eye, i) == LET s == Render!Ordered(q)[i] IN [k \in 1..s[eye] |-> <<s.index, k>>]
<1>1. \A i \in DOMAIN q : Part("left", i) = Part("right", i)
  <2> TAKE i \in DOMAIN q
  <2>1. i \in 1..Len(q)  OBVIOUS
  <2>2. Render!Ordered(q)[i].left = Render!Ordered(q)[i].right  BY <2>1, OrderedIs
  <2> QED  BY <2>2
<1>2. [i \in DOMAIN q |-> Part("left", i)] = [i \in DOMAIN q |-> Part("right", i)]
  <2> HIDE DEF Part
  <2> QED  BY <1>1
<1> QED  BY <1>2 DEF Render!Eye

-----------------------------------------------------------------------------
(* Clock points and the lines between them *)

LEMMA LeastOf ==
    ASSUME NEW C \in SUBSET Nat, C # {}
    PROVE  \E c \in C : \A d \in C : c <= d
<1> DEFINE S == {n \in Nat : \A d \in C : n <= d}
<1> SUFFICES ASSUME \A c \in C : \E d \in C : ~(c <= d) PROVE FALSE
  OBVIOUS
<1>1. 0 \in S  OBVIOUS
<1>2. ASSUME NEW n \in Nat, n \in S PROVE n + 1 \in S
  <2>1. n \notin C  BY <1>2
  <2>2. \A d \in C : n <= d /\ n # d /\ d \in Nat  BY <1>2, <2>1
  <2> QED  BY <2>2
<1>3. Nat \subseteq S
  <2> HIDE DEF S
  <2> QED  BY <1>1, <1>2, NumbersByInduction
<1>4. PICK d \in C : TRUE  OBVIOUS
<1>5. d + 1 \in S  BY <1>3
<1> QED  BY <1>4, <1>5

(* What rises from each to the next rises from each to every later one. *)
Rises(f, m) == \A i, j \in 1..m : i < j => f[i] < f[j]
LEMMA RisesFar ==
    ASSUME NEW m \in Nat, NEW f, \A i \in 1..m : f[i] \in Int,
           \A i \in 1..m - 1 : f[i] < f[i + 1]
    PROVE  Rises(f, m)
<1> DEFINE T == {d \in Nat : \A i \in 1..m : i + (d + 1) <= m => f[i] < f[i + (d + 1)]}
<1>1. 0 \in T  OBVIOUS
<1>2. ASSUME NEW d \in Nat, d \in T PROVE d + 1 \in T
  <2> SUFFICES ASSUME NEW i \in 1..m, i + ((d + 1) + 1) <= m PROVE f[i] < f[i + ((d + 1) + 1)]
    <3>1. d + 1 \in Nat  OBVIOUS
    <3> QED  BY <3>1
  <2> DEFINE k == i + (d + 1)
  <2>1. k \in 1..m - 1 /\ k \in 1..m /\ k + 1 \in 1..m /\ i + ((d + 1) + 1) = k + 1  OBVIOUS
  <2>2. f[i] < f[k]  BY <1>2, <2>1
  <2> HIDE DEF k
  <2>3. f[k] < f[k + 1] /\ f[i] \in Int /\ f[k] \in Int /\ f[k + 1] \in Int  BY <2>1
  <2> QED  BY <2>1, <2>2, <2>3
<1>3. Nat \subseteq T
  <2> HIDE DEF T
  <2> QED  BY <1>1, <1>2, NumbersByInduction
<1>4. ASSUME NEW i \in 1..m, NEW j \in 1..m, i < j PROVE f[i] < f[j]
  <2>1. j - i - 1 \in Nat /\ i + ((j - i - 1) + 1) = j  BY <1>4
  <2>2. j - i - 1 \in T  BY <1>3, <2>1
  <2> QED  BY <2>1, <2>2
<1> QED  BY <1>4 DEF Rises

(* The clock points of a track: time rises with the samples. *)
Clocked(q) ==
    /\ q \in Seq(Int \X Int) /\ Len(q) >= 2
    /\ \A i, j \in 1..Len(q) : i < j => q[i][1] < q[j][1]
    /\ \A i \in 1..Len(q) : q[i][1] \in Int /\ q[i][2] \in Int

LEMMA TrackClocked ==
    ASSUME NEW a \in Heard, a # None, Render!TrackGood(a)
    PROVE  Clocked(a.points)
<1> DEFINE q == a.points
           f == [i \in 1..Len(q) |-> q[i][1]]
<1>1. q \in Seq(Int \X Int)  BY RenderFacts
<1>2. /\ Len(q) >= 2 /\ Len(q) \in Nat
      /\ \A i \in 1..Len(q) - 1 : q[i][1] < q[i + 1][1]
  <2>1. Len(q) \in Nat  BY <1>1
  <2>2. Len(q) >= 2  BY DEF Render!TrackGood
  <2>3. \A i \in 1..Len(q) - 1 : q[i][1] < q[i + 1][1]  BY ONLY Render!TrackGood(a) DEF Render!TrackGood
  <2> QED  BY <2>1, <2>2, <2>3
<1>3. \A i \in 1..Len(q) : q[i][1] \in Int /\ q[i][2] \in Int
  <2> HIDE DEF q
  <2> QED  BY <1>1
<1> HIDE DEF q
<1>4. \A i \in 1..Len(q) : f[i] = q[i][1]  OBVIOUS
<1> HIDE DEF f
<1>5. \A i \in 1..Len(q) - 1 : i \in 1..Len(q) /\ i + 1 \in 1..Len(q)  BY <1>2
<1>6. Rises(f, Len(q))  BY <1>2, <1>3, <1>4, <1>5, RisesFar
<1>7. \A i, j \in 1..Len(q) : i < j => q[i][1] < q[j][1]  BY <1>4, <1>6 DEF Rises
<1> QED  BY <1>1, <1>2, <1>3, <1>7 DEF Clocked, q

(* The first b points are those up to sample n. *)
Upto(q, n, b) == b \in 0..Len(q) /\ \A i \in 1..Len(q) : q[i][1] <= n <=> i <= b

LEMMA UptoOne ==
    ASSUME NEW q, Clocked(q), NEW n \in Int
    PROVE  \E b : Upto(q, n, b)
<1> DEFINE C == {i \in 1..Len(q) : n < q[i][1]}
<1>0. Len(q) \in Nat /\ \A i \in 1..Len(q) : q[i][1] \in Int  BY DEF Clocked
<1>1. CASE C = {}
  <2>1. \A i \in 1..Len(q) : q[i][1] <= n  BY <1>0, <1>1
  <2>2. Upto(q, n, Len(q))  BY <1>0, <2>1 DEF Upto
  <2> QED  BY <2>2
<1>2. CASE C # {}
  <2>1. C \in SUBSET Nat  BY <1>0
  <2> HIDE DEF C
  <2>2. PICK c \in C : \A d \in C : c <= d  BY <1>2, <2>1, LeastOf
  <2> USE DEF C
  <2>3. c \in 1..Len(q) /\ n < q[c][1]  BY <2>2
  <2>4. ASSUME NEW i \in 1..Len(q) PROVE q[i][1] <= n <=> i <= c - 1
    <3>1. CASE i < c
      <4>1. i \notin C  BY <1>0, <2>2, <2>3, <3>1
      <4> QED  BY <1>0, <2>3, <3>1, <4>1
    <3>2. CASE i >= c
      <4>1. i = c \/ q[c][1] < q[i][1]  BY <1>0, <2>3, <3>2 DEF Clocked
      <4> QED  BY <1>0, <2>3, <3>2, <4>1
    <3> QED  BY <1>0, <2>3, <3>1, <3>2
  <2>5. c - 1 \in 0..Len(q)  BY <1>0, <2>3
  <2>6. Upto(q, n, c - 1)  BY <2>4, <2>5 DEF Upto
  <2> QED  BY <2>6
<1> QED  BY <1>1, <1>2

(* The line that a sample's time is read from, by the number of points before. *)
Line(q, b) == IF b < 1 THEN 1 ELSE IF b >= Len(q) THEN Len(q) - 1 ELSE b
OnLine(q, k, n) == Render!Between(q[k], q[k + 1], n)

LEMMA SampleTimeIs ==
    ASSUME NEW q, Clocked(q), NEW n \in Int, NEW b, Upto(q, n, b)
    PROVE  /\ Render!SampleTime(q, n) = OnLine(q, Line(q, b), n)
           /\ Line(q, b) \in 1..Len(q) - 1
<1> DEFINE B == {i \in DOMAIN q : q[i][1] <= n}
<1>1. Len(q) \in Nat /\ Len(q) >= 2 /\ DOMAIN q = 1..Len(q) /\ b \in 0..Len(q)
  BY DEF Clocked, Upto
<1>2. B = 1..b  BY <1>1 DEF Upto
<1>3. Cardinality(B) = b
  <2>1. b \in Nat /\ b - 1 + 1 = b  BY <1>1
  <2>2. Cardinality(1..b) = b  BY <2>1, FS_Interval
  <2> HIDE DEF B
  <2> QED  BY <1>2, <2>2
<1>4. Render!Cardinality(B) = Cardinality(B)  BY DEF Render!Cardinality, Cardinality
<1>5. Render!SampleTime(q, n) = OnLine(q, Line(q, b), n)
  <2>1. Render!Cardinality(B) = b  BY <1>3, <1>4
  <2> QED  BY <2>1 DEF Render!SampleTime, OnLine, Line
<1> QED  BY <1>1, <1>5 DEF Line

-----------------------------------------------------------------------------
(* Times that are near each other, as fractions *)

(* P / D and Num / E differ by S at most. *)
Fit(P, D, Num, E, S) ==
    /\ P * E - Num * D <= (S * D) * E
    /\ -(P * E - Num * D) <= (S * D) * E

LEMMA NearIs ==
    ASSUME NEW P, NEW D, NEW Num, NEW E, NEW S
    PROVE  Render!Near(<<P, D>>, <<Num, E>>, S) <=> Fit(P, D, Num, E, S)
BY DEF Render!Near, Fit

LEMMA Widen ==
    ASSUME NEW a \in Int, NEW b \in Int, NEW k \in Nat, a <= b
    PROVE  k * a <= k * b
OBVIOUS

(* Between two times that are near a line, what is interpolated is near it. *)
LEMMA FitBetween ==
    ASSUME NEW x \in Int, NEW n \in Int, NEW z \in Int, x <= n, n <= z,
           NEW u \in Int, NEW w \in Int,
           NEW t \in Int, NEW c \in Int, NEW R \in Int, NEW E \in Int, NEW S \in Int,
           Fit(u, 1, t * E + (x - c) * R, E, S), Fit(w, 1, t * E + (z - c) * R, E, S)
    PROVE  Fit(u * (z - x) + (n - x) * (w - u), z - x, t * E + (n - c) * R, E, S)
<1> DEFINE i == n - x
           j == z - n
           d == u * E - (t * E + (x - c) * R)
           e == w * E - (t * E + (z - c) * R)
           g == S * E
           off == (u * (z - x) + (n - x) * (w - u)) * E - (t * E + (n - c) * R) * (z - x)
<1>1. i \in Nat /\ j \in Nat /\ d \in Int /\ e \in Int /\ g \in Int /\ off \in Int  OBVIOUS
<1>2. d <= g /\ -d <= g /\ e <= g /\ -e <= g  BY DEF Fit
<1>3. off = j * d + i * e  OBVIOUS
<1>4. (S * (z - x)) * E = j * g + i * g  OBVIOUS
<1> HIDE DEF i, j, d, e, g
<1>5. /\ j * d <= j * g /\ i * e <= i * g
      /\ j * (-d) <= j * g /\ i * (-e) <= i * g
  BY <1>1, <1>2, Widen
<1>6. /\ j * (-d) = -(j * d) /\ i * (-e) = -(i * e)
      /\ j * d \in Int /\ i * e \in Int /\ j * g \in Int /\ i * g \in Int
  BY <1>1
<1>7. off <= j * g + i * g /\ -off <= j * g + i * g
  <2> HIDE DEF off
  <2> QED  BY <1>1, <1>3, <1>5, <1>6
<1> QED  BY <1>4, <1>7 DEF Fit

(* A recorded time near the first one moves all by as little. *)
LEMMA FitMoved ==
    ASSUME NEW P \in Int, NEW D \in Nat, NEW Num \in Int, NEW E \in Nat, NEW S \in Nat,
           Fit(P, D, Num, E, S), NEW y \in Int, NEW z \in Int, Fit(y, 1, z, 1, S)
    PROVE  Fit(y * D + (P - z * D), D, Num, E, 2 * S)
<1> DEFINE m == D * E
           off == P * E - Num * D
<1>1. m \in Nat /\ off \in Int  OBVIOUS
<1>2. y - z <= S /\ -(y - z) <= S  BY DEF Fit
<1>3. off <= m * S /\ -off <= m * S
  <2>1. (S * D) * E = m * S  OBVIOUS
  <2> QED  BY <2>1 DEF Fit
<1>4. (y * D + (P - z * D)) * E - Num * D = off + m * (y - z)  OBVIOUS
<1>5. ((2 * S) * D) * E = m * S + m * S  OBVIOUS
<1> HIDE DEF m, off
<1>6. m * (y - z) <= m * S /\ m * (-(y - z)) <= m * S  BY <1>1, <1>2, Widen
<1>7. m * (-(y - z)) = -(m * (y - z)) /\ m * (y - z) \in Int /\ m * S \in Int  BY <1>1
<1> QED  BY <1>1, <1>3, <1>4, <1>5, <1>6, <1>7 DEF Fit

LEMMA FitPoint ==
    ASSUME NEW t \in Int, NEW E \in Nat, NEW S \in Nat
    PROVE  Fit(t, 1, t * E, E, S)
<1>1. t * E - (t * E) * 1 = 0 /\ (S * 1) * E \in Nat  OBVIOUS
<1> QED  BY <1>1 DEF Fit

LEMMA FitSame ==
    ASSUME NEW y \in Int, NEW t \in Int, NEW E \in Nat \ {0}, NEW F \in Nat, NEW S \in Nat,
           Fit(y, 1, t * E, E, S)
    PROVE  Fit(y, 1, t * F, F, S)
<1> DEFINE d == y - t
<1>1. d \in Int /\ -d \in Int  OBVIOUS
<1>2. E * d <= E * S /\ E * (-d) <= E * S
  <2>1. y * E - (t * E) * 1 = E * d /\ -(y * E - (t * E) * 1) = E * (-d) /\ (S * 1) * E = E * S
    OBVIOUS
  <2> QED  BY <2>1 DEF Fit
<1>3. y * F - (t * F) * 1 = F * d /\ -(y * F - (t * F) * 1) = F * (-d) /\ (S * 1) * F = F * S
  OBVIOUS
<1> HIDE DEF d
<1>4. ASSUME NEW e \in Int, E * e <= E * S PROVE e <= S
  <2> SUFFICES ASSUME S + 1 <= e PROVE FALSE
    BY <1>4
  <2>1. E * (S + 1) <= E * e  BY Widen
  <2>2. E * (S + 1) = E * S + E /\ E * S \in Int /\ E * e \in Int  OBVIOUS
  <2> QED  BY <1>4, <2>1, <2>2
<1>5. d <= S /\ -d <= S  BY <1>1, <1>2, <1>4
<1>6. F * d <= F * S /\ F * (-d) <= F * S  BY <1>1, <1>5, Widen
<1> QED  BY <1>3, <1>6 DEF Fit

LEMMA FitScaled ==
    ASSUME NEW y \in Int, NEW Num \in Int, NEW E \in Nat, NEW S \in Nat, NEW D \in Nat,
           Fit(y, 1, Num, E, S)
    PROVE  Fit(y * D, D, Num, E, S)
<1> DEFINE d == y * E - Num
           g == S * E
<1>1. d \in Int /\ -d \in Int /\ g \in Int  OBVIOUS
<1>2. d <= g /\ -d <= g  BY DEF Fit
<1>3. (y * D) * E - Num * D = D * d /\ -((y * D) * E - Num * D) = D * (-d) /\ (S * D) * E = D * g
  OBVIOUS
<1> HIDE DEF d, g
<1>4. D * d <= D * g /\ D * (-d) <= D * g  BY <1>1, <1>2, Widen
<1> QED  BY <1>3, <1>4 DEF Fit

(* A line goes through the two points it is drawn from. *)
LEMMA LineIs ==
    ASSUME NEW q, Clocked(q), NEW k \in 1..Len(q) - 1
    PROVE  /\ q[k + 1][1] - q[k][1] \in Nat \ {0}
           /\ q[k][1] \in Int /\ q[k][2] \in Int /\ q[k + 1][2] \in Int
           /\ \A n \in Int :
                OnLine(q, k, n) =
                  <<q[k][2] * (q[k + 1][1] - q[k][1])
                        + (n - q[k][1]) * (q[k + 1][2] - q[k][2]),
                    q[k + 1][1] - q[k][1]>>
           /\ \A r \in {k, k + 1} :
                OnLine(q, k, q[r][1]) =
                  <<q[r][2] * (q[k + 1][1] - q[k][1]), q[k + 1][1] - q[k][1]>>
<1>1. /\ k \in 1..Len(q) /\ k + 1 \in 1..Len(q) /\ k < k + 1
  BY DEF Clocked
<1>2. /\ q[k][1] \in Int /\ q[k][2] \in Int /\ q[k + 1][1] \in Int /\ q[k + 1][2] \in Int
      /\ q[k][1] < q[k + 1][1]
  BY <1>1 DEF Clocked
<1>3. \A n \in Int :
        OnLine(q, k, n) =
          <<q[k][2] * (q[k + 1][1] - q[k][1]) + (n - q[k][1]) * (q[k + 1][2] - q[k][2]),
            q[k + 1][1] - q[k][1]>>
  BY DEF OnLine, Render!Between
<1>5. OnLine(q, k, q[k][1]) = <<q[k][2] * (q[k + 1][1] - q[k][1]), q[k + 1][1] - q[k][1]>>
  <2>1. q[k][2] * (q[k + 1][1] - q[k][1]) + (q[k][1] - q[k][1]) * (q[k + 1][2] - q[k][2])
            = q[k][2] * (q[k + 1][1] - q[k][1])
    <3>1. PICK a \in Int, t \in Int, b \in Int, v \in Int :
              a = q[k][1] /\ t = q[k][2] /\ b = q[k + 1][1] /\ v = q[k + 1][2]
      BY <1>2
    <3>2. t * (b - a) + (a - a) * (v - t) = t * (b - a)  OBVIOUS
    <3> QED  BY ONLY <3>1, <3>2
  <2> QED  BY <1>2, <1>3, <2>1
<1>6. OnLine(q, k, q[k + 1][1]) =
          <<q[k + 1][2] * (q[k + 1][1] - q[k][1]), q[k + 1][1] - q[k][1]>>
  <2>1. q[k][2] * (q[k + 1][1] - q[k][1]) + (q[k + 1][1] - q[k][1]) * (q[k + 1][2] - q[k][2])
            = q[k + 1][2] * (q[k + 1][1] - q[k][1])
    <3>1. PICK a \in Int, t \in Int, b \in Int, v \in Int :
              a = q[k][1] /\ t = q[k][2] /\ b = q[k + 1][1] /\ v = q[k + 1][2]
      BY <1>2
    <3>2. t * (b - a) + (b - a) * (v - t) = v * (b - a)  OBVIOUS
    <3> QED  BY ONLY <3>1, <3>2
  <2> QED  BY <1>2, <1>3, <2>1
<1>7. \A r \in {k, k + 1} :
        OnLine(q, k, q[r][1]) = <<q[r][2] * (q[k + 1][1] - q[k][1]), q[k + 1][1] - q[k][1]>>
  BY ONLY <1>5, <1>6
<1>8. q[k + 1][1] - q[k][1] \in Nat \ {0}  BY <1>2
<1> QED  BY ONLY <1>2, <1>3, <1>7, <1>8

-----------------------------------------------------------------------------
(* The timeline of a track: its first and last sample, and between them the     *)
(* points there are.                                                          *)
Entries(l, a) ==
    /\ l \in Seq(Int \X Int) /\ Len(l) \in Nat /\ Len(l) >= 2
    /\ \A i \in 1..Len(l) : l[i][1] \in Int /\ l[i][2] \in Int
    /\ l[1] = <<0, a.begin>> /\ l[Len(l)] = <<a.count, a.end>>
    /\ \A i \in 2..Len(l) - 1 : \E r \in 1..Len(a.points) : l[i] = a.points[r]
    /\ \A r \in 1..Len(a.points) : 0 < a.points[r][1] /\ a.points[r][1] < a.count =>
           \E i \in 2..Len(l) - 1 : l[i] = a.points[r]

LEMMA TimelineIs ==
    ASSUME NEW a \in Heard, a # None, Clocked(a.points)
    PROVE  Entries(Render!Timeline(a), a)
<1> DEFINE q == a.points
           S == {i \in DOMAIN q : 0 < q[i][1] /\ q[i][1] < a.count}
           within == Render!Ascending(S)
           mid == [j \in DOMAIN within |-> q[within[j]]]
           start == <<0, a.begin>>
           stop == <<a.count, a.end>>
           l == <<start>> \o mid \o <<stop>>
<1>1. /\ a.begin \in Int /\ a.end \in Int /\ a.count \in Nat
      /\ Len(q) \in Nat /\ DOMAIN q = 1..Len(q) /\ q \in Seq(Int \X Int)
      /\ \A i \in 1..Len(q) : q[i][1] \in Int /\ q[i][2] \in Int
  BY RenderFacts DEF Clocked
<1>2. S \in SUBSET Nat /\ IsFiniteSet(S)
  <2>1. S \subseteq 1..Len(q)  BY <1>1
  <2>2. IsFiniteSet(1..Len(q))  BY <1>1, FS_Interval
  <2> HIDE DEF S
  <2>3. IsFiniteSet(S)  BY <2>1, <2>2, FS_Subset
  <2>4. 1..Len(q) \subseteq Nat  OBVIOUS
  <2> QED  BY <2>1, <2>3, <2>4
<1>3. within = Batch!Ascending(S)
  BY DEF Render!Ascending, Batch!Ascending, Render!Cardinality, Batch!Cardinality
<1>4. within \in Seq(S) /\ Members(within) = S
  <2> HIDE DEF S, within
  <2> QED  BY <1>2, <1>3, AscendingIs
<1>5. /\ Len(within) \in Nat /\ DOMAIN within = 1..Len(within)
      /\ \A j \in 1..Len(within) : within[j] \in S
      /\ \A r \in S : \E j \in 1..Len(within) : within[j] = r
  <2> HIDE DEF S, within
  <2> QED  BY <1>4 DEF Members
<1>6. \A r \in S : r \in 1..Len(q)  BY <1>1
<1>7. \A r \in 1..Len(q) : 0 < q[r][1] /\ q[r][1] < a.count => r \in S  BY <1>1
<1> HIDE DEF S, within
<1>8. /\ mid \in Seq(Int \X Int) /\ Len(mid) = Len(within)
      /\ \A j \in 1..Len(within) : mid[j] = q[within[j]]
  <2>1. \A j \in 1..Len(within) : q[within[j]] \in Int \X Int
    <3> TAKE j \in 1..Len(within)
    <3>1. within[j] \in 1..Len(q)  BY <1>5, <1>6
    <3> HIDE DEF q
    <3> QED  BY <1>1, <3>1
  <2> HIDE DEF q
  <2> QED  BY <1>5, <2>1
<1>9. start \in Int \X Int /\ stop \in Int \X Int  BY <1>1
<1> HIDE DEF mid, start, stop
<1>10. /\ l \in Seq(Int \X Int) /\ Len(l) = Len(within) + 2
       /\ l[1] = start /\ l[Len(l)] = stop
       /\ \A j \in 1..Len(within) : l[j + 1] = mid[j]
  <2> DEFINE U == Int \X Int
  <2>1. mid \in Seq(U) /\ start \in U /\ stop \in U /\ Len(mid) = Len(within) /\ Len(within) \in Nat
    BY <1>5, <1>8, <1>9
  <2> HIDE DEF U
  <2>2. /\ l \in Seq(U) /\ Len(l) = Len(within) + 2
        /\ l[1] = start /\ l[Len(within) + 2] = stop
        /\ \A j \in 1..Len(within) : l[j + 1] = mid[j]
    BY ONLY <2>1
  <2> HIDE DEF l
  <2> QED  BY <2>2 DEF U
<1>11. Render!Timeline(a) = l
  BY DEF Render!Timeline, l, mid, start, stop, within, S
<1> HIDE DEF l
<1>12. \A i \in 1..Len(l) : l[i][1] \in Int /\ l[i][2] \in Int
  BY <1>10
<1>13. ASSUME NEW i \in 2..Len(l) - 1 PROVE \E r \in 1..Len(q) : l[i] = q[r]
  <2>1. i - 1 \in 1..Len(within) /\ (i - 1) + 1 = i  BY <1>5, <1>10, <1>13
  <2>2. l[i] = q[within[i - 1]]  BY <1>8, <1>10, <2>1
  <2>3. within[i - 1] \in 1..Len(q)  BY <1>5, <1>6, <2>1
  <2> QED  BY <2>2, <2>3
<1>14. ASSUME NEW r \in 1..Len(q), 0 < q[r][1], q[r][1] < a.count
       PROVE  \E i \in 2..Len(l) - 1 : l[i] = q[r]
  <2>1. PICK j \in 1..Len(within) : within[j] = r  BY <1>5, <1>7, <1>14
  <2>2. l[j + 1] = q[r]  BY <1>8, <1>10, <2>1
  <2>3. j + 1 \in 2..Len(l) - 1  BY <1>5, <1>10
  <2> QED  BY <2>2, <2>3
<1>15. Len(l) \in Nat /\ Len(l) >= 2  BY <1>5, <1>10
<1>16. l[1] = <<0, a.begin>> /\ l[Len(l)] = <<a.count, a.end>>  BY <1>10 DEF start, stop
<1>17. Entries(l, a)
  BY <1>10, <1>12, <1>13, <1>14, <1>15, <1>16 DEF Entries
<1> QED  BY <1>11, <1>17

(* It rises from entry to entry, and no point lies between two of them. *)
LEMMA TimelineRises ==
    ASSUME NEW l, NEW a, Entries(l, a), Render!TimelineGood(l), Clocked(a.points)
    PROVE  /\ \A i, j \in 1..Len(l) : i < j => l[i][1] < l[j][1]
           /\ \A r \in 1..Len(a.points), i \in 1..Len(l) - 1 :
                ~(l[i][1] < a.points[r][1] /\ a.points[r][1] < l[i + 1][1])
<1> DEFINE f == [i \in 1..Len(l) |-> l[i][1]]
<1>1. Len(l) \in Nat /\ Len(l) >= 2 /\ \A i \in 1..Len(l) : l[i][1] \in Int  BY DEF Entries
<1>2. \A i \in 1..Len(l) - 1 : l[i][1] < l[i + 1][1]
  BY ONLY Render!TimelineGood(l) DEF Render!TimelineGood
<1>3. \A i \in 1..Len(l) : f[i] = l[i][1]  OBVIOUS
<1> HIDE DEF f
<1>4. \A i \in 1..Len(l) - 1 : i \in 1..Len(l) /\ i + 1 \in 1..Len(l)  BY <1>1
<1>5. Rises(f, Len(l))  BY <1>1, <1>2, <1>3, <1>4, RisesFar
<1>6. \A i, j \in 1..Len(l) : i < j => l[i][1] < l[j][1]  BY <1>3, <1>5 DEF Rises
<1>7. ASSUME NEW r \in 1..Len(a.points), NEW i \in 1..Len(l) - 1,
             l[i][1] < a.points[r][1], a.points[r][1] < l[i + 1][1]
      PROVE  FALSE
  <2> DEFINE x == a.points[r][1]
  <2>1. x \in Int  BY DEF Clocked
  <2>2. i \in 1..Len(l) /\ i + 1 \in 1..Len(l) /\ 1 \in 1..Len(l) /\ Len(l) \in 1..Len(l)
    BY <1>1
  <2>3. l[1][1] = 0 /\ l[Len(l)][1] = a.count
    <3>1. l[1] = <<0, a.begin>> /\ l[Len(l)] = <<a.count, a.end>>  BY DEF Entries
    <3> QED  BY <3>1
  <2>4. i = 1 \/ l[1][1] < l[i][1]  BY <1>1, <1>6, <2>2
  <2>5. i + 1 = Len(l) \/ l[i + 1][1] < l[Len(l)][1]  BY <1>1, <1>6, <2>2
  <2>6. l[i][1] \in Int /\ l[i + 1][1] \in Int /\ l[1][1] \in Int /\ l[Len(l)][1] \in Int
    BY <1>1, <2>2
  <2>7. 0 < x /\ x < a.count  BY <1>7, <2>1, <2>3, <2>4, <2>5, <2>6, SMTT(40)
  <2>8. PICK j \in 2..Len(l) - 1 : l[j] = a.points[r]  BY <2>7 DEF Entries
  <2>9. j \in 1..Len(l) /\ l[j][1] = x  BY <1>1, <2>8
  <2>10. ~(j <= i)
    <3>1. j <= i => j = i \/ l[j][1] < l[i][1]  BY <1>1, <1>6, <2>2, <2>9
    <3> QED  BY <1>7, <2>1, <2>6, <2>9, <3>1, SMTT(40)
  <2>11. ~(i + 1 <= j)
    <3>1. i + 1 <= j => j = i + 1 \/ l[i + 1][1] < l[j][1]  BY <1>1, <1>6, <2>2, <2>9
    <3> QED  BY <1>7, <2>1, <2>6, <2>9, <3>1, SMTT(40)
  <2> QED  BY <1>1, <2>8, <2>10, <2>11
<1> QED  BY <1>6, <1>7

(* What FFmpeg finds by halving is the piece around the sample. *)
LEMMA PlaceIs ==
    ASSUME NEW l, Len(l) \in Nat, Len(l) >= 2, NEW n \in Int,
           \A i \in 1..Len(l) : l[i][1] \in Int,
           \A i, j \in 1..Len(l) : i < j => l[i][1] < l[j][1],
           NEW k \in 1..Len(l) - 1, l[k][1] <= n, k = Len(l) - 1 \/ n < l[k + 1][1]
    PROVE  LET at == Render!Between(l[k], l[k + 1], n) IN
           Render!Place(l, n) = <<at[1] - l[1][2] * at[2], at[2]>>
<1> DEFINE Z == Len(l)
           Is(f) == f = [p \in (1..Z) \X (1..Z) |->
               LET mid == (p[1] + p[2]) \div 2 IN
               IF p[2] - p[1] = 1 THEN Render!Between(l[p[1]], l[p[2]], n)
               ELSE IF n < l[mid][1] THEN f[<<p[1], mid>>] ELSE f[<<mid, p[2]>>]]
           v == [s \in 1..Z |-> Render!Between(l[s], l[s + 1], n)]
           L == {m \in 1..Z : l[m][1] <= n}
           b == IF k = Z - 1 /\ l[Z][1] <= n THEN Z ELSE k
           piece == CHOOSE f : Is(f)
<1>1. Render!Place(l, n) =
          <<piece[<<1, Z>>][1] - l[1][2] * piece[<<1, Z>>][2], piece[<<1, Z>>][2]>>
  BY DEF Render!Place
<1>2. \A f : Is(f) <=> Halving(f, v, L, 1, Z)
  <2> TAKE f
  <2> DEFINE This(p) == LET mid == (p[1] + p[2]) \div 2 IN
                       IF p[2] - p[1] = 1 THEN Render!Between(l[p[1]], l[p[2]], n)
                       ELSE IF n < l[mid][1] THEN f[<<p[1], mid>>] ELSE f[<<mid, p[2]>>]
             Other(p) == IF p[2] - p[1] = 1 THEN v[p[1]]
                         ELSE IF Mid(p) \notin L THEN f[<<p[1], Mid(p)>>] ELSE f[<<Mid(p), p[2]>>]
  <2>1. ASSUME NEW p \in (1..Z) \X (1..Z) PROVE This(p) = Other(p)
    <3>1. (p[1] + p[2]) \div 2 \in 1..Z /\ p[1] \in 1..Z /\ p[2] \in 1..Z  OBVIOUS
    <3>2. (p[1] + p[2]) \div 2 \notin L <=> n < l[(p[1] + p[2]) \div 2][1]  BY <3>1, SMTT(40)
    <3>3. p[2] - p[1] = 1 => v[p[1]] = Render!Between(l[p[1]], l[p[2]], n)
      <4>1. p[2] - p[1] = 1 => p[1] + 1 = p[2]  BY <3>1
      <4>2. v[p[1]] = Render!Between(l[p[1]], l[p[1] + 1], n)  BY <3>1
      <4> HIDE DEF v
      <4> QED  BY <4>1, <4>2
    <3> HIDE DEF v, L
    <3> QED  BY <3>2, <3>3 DEF Mid
  <2>2. [p \in (1..Z) \X (1..Z) |-> This(p)] = [p \in (1..Z) \X (1..Z) |-> Other(p)]
    <3> HIDE DEF This, Other
    <3> QED  BY <2>1
  <2> QED  BY <2>2 DEF Halving
<1>3. Lower(L, b, 1, Z)
  <2> SUFFICES ASSUME NEW m \in 1..Z PROVE l[m][1] <= n <=> m <= b
    BY DEF Lower
  <2>1. /\ k \in 1..Z /\ k + 1 \in 1..Z /\ l[k][1] \in Int /\ l[m][1] \in Int
        /\ l[k + 1][1] \in Int
    BY SMTT(40)
  <2>2. m <= k => l[m][1] <= n
    <3>1. m < k => l[m][1] < l[k][1]  BY <2>1
    <3> QED  BY <2>1, <3>1
  <2>3. k + 1 <= m => l[k + 1][1] <= l[m][1]
    <3>1. k + 1 < m => l[k + 1][1] < l[m][1]  BY <2>1
    <3> QED  BY <2>1, <3>1
  <2> QED  BY <2>1, <2>2, <2>3
<1>4. b \in Int /\ 1 \in 1..Z /\ Z \in 1..Z /\ 1 < Z /\ Z \in Nat /\ 1 \in Nat  OBVIOUS
<1>5. Placed(1, Z, b) = k  BY DEF Placed
<1>6. v[k] = Render!Between(l[k], l[k + 1], n)  OBVIOUS
<1> HIDE DEF L, v, Is, b, Z
<1>7. Halving(piece, v, L, 1, Z)  BY <1>2, <1>3, <1>4, HalvingDefined
<1> HIDE DEF piece
<1>8. piece[<<1, Z>>] = v[Placed(1, Z, b)]  BY <1>3, <1>4, <1>7, Halves
<1>9. piece[<<1, Z>>] = Render!Between(l[k], l[k + 1], n)  BY <1>5, <1>6, <1>8
<1> QED  BY <1>1, <1>9

-----------------------------------------------------------------------------
(* Samples are heard where the points have them *)

(* The last point before a sample and the first one after it are on its line.  *)
LEMMA LineMeets ==
    ASSUME NEW q, Clocked(q), NEW b \in 0..Len(q)
    PROVE  /\ Line(q, b) \in 1..Len(q) - 1
           /\ b >= 1 => b \in {Line(q, b), Line(q, b) + 1}
           /\ b < Len(q) => b + 1 \in {Line(q, b), Line(q, b) + 1}
BY DEF Clocked, Line

LEMMA TickIs ==
    ASSUME NEW y, NEW Num, NEW E, NEW S
    PROVE  Render!Near(Render!Tick(y), <<Num, E>>, S) <=> Fit(y, 1, Num, E, S)
BY NearIs DEF Render!Tick

(* Both entries around a sample are near the line it is read from. *)
LEMMA EntryNear ==
    ASSUME NEW a \in Heard, a # None, Render!TrackGood(a), Clocked(a.points),
           NEW l, Entries(l, a), Render!TimelineGood(l),
           NEW n \in Int, NEW k \in 1..Len(l) - 1, l[k][1] <= n, n < l[k + 1][1],
           NEW b, Upto(a.points, n, b), NEW i \in {k, k + 1}
    PROVE  Render!Near(Render!Tick(l[i][2]), OnLine(a.points, Line(a.points, b), l[i][1]), Slack)
<1> DEFINE q == a.points
           at == Line(q, b)
           E == q[at + 1][1] - q[at][1]
<1>1. /\ Len(q) \in Nat /\ Len(q) >= 2 /\ b \in 0..Len(q)
      /\ \A r, s \in 1..Len(q) : r < s => q[r][1] < q[s][1]
      /\ \A r \in 1..Len(q) : q[r][1] \in Int /\ q[r][2] \in Int
      /\ \A r \in 1..Len(q) : q[r][1] <= n <=> r <= b
  <2> HIDE DEF q
  <2>1. Clocked(q) /\ Upto(q, n, b)  BY DEF q
  <2>2. /\ Len(q) \in Nat /\ Len(q) >= 2
        /\ \A r, s \in 1..Len(q) : r < s => q[r][1] < q[s][1]
        /\ \A r \in 1..Len(q) : q[r][1] \in Int /\ q[r][2] \in Int
    <3>1. Len(q) >= 2 /\ q \in Seq(Int \X Int)  BY ONLY <2>1 DEF Clocked
    <3>2. Len(q) \in Nat  BY ONLY <3>1
    <3>3. \A r, s \in 1..Len(q) : r < s => q[r][1] < q[s][1]  BY ONLY <2>1 DEF Clocked
    <3>4. \A r \in 1..Len(q) : q[r][1] \in Int /\ q[r][2] \in Int  BY ONLY <2>1 DEF Clocked
    <3> QED  BY ONLY <3>1, <3>2, <3>3, <3>4
  <2>3. b \in 0..Len(q) /\ \A r \in 1..Len(q) : q[r][1] <= n <=> r <= b
    BY ONLY <2>1 DEF Upto
  <2> QED  BY ONLY <2>2, <2>3, SMTT(40)
<1>2. /\ Len(l) \in Nat /\ Len(l) >= 2 /\ k \in 1..Len(l) /\ k + 1 \in 1..Len(l)
      /\ l[k][1] \in Int /\ l[k + 1][1] \in Int /\ l[k][2] \in Int /\ l[k + 1][2] \in Int
      /\ l[1] = <<0, a.begin>> /\ l[Len(l)] = <<a.count, a.end>>
  <2>1. /\ Len(l) \in Nat /\ Len(l) >= 2
        /\ \A r \in 1..Len(l) : l[r][1] \in Int /\ l[r][2] \in Int
        /\ l[1] = <<0, a.begin>> /\ l[Len(l)] = <<a.count, a.end>>
    BY DEF Entries
  <2>2. k \in 1..Len(l) /\ k + 1 \in 1..Len(l)
    <3> DEFINE m == Len(l)
    <3>1. m \in Nat /\ k \in 1..m - 1  BY <2>1
    <3> HIDE DEF m
    <3>2. k \in 1..m /\ k + 1 \in 1..m  BY ONLY <3>1
    <3> QED  BY ONLY <3>2 DEF m
  <2>3. /\ l[k][1] \in Int /\ l[k][2] \in Int
        /\ l[k + 1][1] \in Int /\ l[k + 1][2] \in Int
    BY ONLY <2>1, <2>2
  <2> QED  BY ONLY <2>1, <2>2, <2>3
<1>3. \A r \in 1..Len(q) : ~(l[k][1] < q[r][1] /\ q[r][1] < l[k + 1][1])
  BY TimelineRises
<1>4. /\ \A r \in 1..Len(q) : r <= b => q[r][1] <= l[k][1]
      /\ \A r \in 1..Len(q) : r > b => q[r][1] >= l[k + 1][1]
  <2>1. ASSUME NEW r \in 1..Len(q)
        PROVE  (r <= b => q[r][1] <= l[k][1]) /\ (r > b => q[r][1] >= l[k + 1][1])
    <3>1. PICK x \in Int, y \in Int, z \in Int : x = q[r][1] /\ y = l[k][1] /\ z = l[k + 1][1]
      BY <1>1, <1>2, <2>1
    <3>2. x <= n <=> r <= b  BY <1>1, <2>1, <3>1
    <3>3. ~(y < x /\ x < z)  BY <1>3, <2>1, <3>1
    <3>4. y <= n /\ n < z  BY <3>1
    <3>5. b \in Int /\ r \in Int  BY <1>1, <2>1
    <3>6. (r <= b => x <= y) /\ (r > b => x >= z)  BY <3>2, <3>3, <3>4, <3>5, SMTT(40)
    <3> QED  BY <3>1, <3>6
  <2> QED  BY <2>1
<1>5. /\ at \in 1..Len(q) - 1 /\ Slack \in Nat
      /\ b >= 1 => b \in {at, at + 1}
      /\ b < Len(q) => b + 1 \in {at, at + 1}
  BY <1>1, LineMeets, RenderFacts
<1>6. /\ E \in Nat \ {0}
      /\ \A r \in {at, at + 1} : OnLine(q, at, q[r][1]) = <<q[r][2] * E, E>>
  BY <1>5, LineIs
<1> HIDE DEF E, at
(* A point is on the line. *)
<1>7. ASSUME NEW r \in {at, at + 1}, l[i] = q[r]
      PROVE  Render!Near(Render!Tick(l[i][2]), OnLine(q, at, l[i][1]), Slack)
  <2>1. r \in 1..Len(q)  BY <1>1, <1>5
  <2>2. q[r][2] \in Int /\ E \in Nat  BY <1>1, <1>6, <2>1
  <2>3. OnLine(q, at, q[r][1]) = <<q[r][2] * E, E>>  BY <1>6
  <2>4. Fit(q[r][2], 1, q[r][2] * E, E, Slack)  BY <1>5, <2>2, FitPoint
  <2> QED  BY <1>7, <2>3, <2>4, TickIs
<1>8. CASE i = k /\ k = 1
  <2>1. Upto(q, 0, b)
    <3>1. l[k][1] = 0  BY <1>2, <1>8
    <3>2. \A r \in 1..Len(q) : q[r][1] <= 0 <=> r <= b  BY <1>1, <1>2, <1>4, <3>1
    <3> QED  BY <1>1, <3>2 DEF Upto
  <2>2. Render!SampleTime(q, 0) = OnLine(q, at, 0)
    <3>1. 0 \in Int  OBVIOUS
    <3> QED  BY <2>1, <3>1, SampleTimeIs DEF at
  <2>3. Render!Near(Render!Tick(a.begin), Render!SampleTime(q, 0), Slack)
    BY DEF Render!TrackGood
  <2>4. l[i][1] = 0 /\ l[i][2] = a.begin  BY <1>2, <1>8
  <2> QED  BY <2>2, <2>3, <2>4 DEF at
<1>9. CASE i = k /\ k # 1
  <2>1. k \in 2..Len(l) - 1  BY <1>2, <1>9
  <2>2. PICK r \in 1..Len(q) : l[k] = q[r]  BY <2>1 DEF Entries
  <2>3. q[r][1] = l[k][1]  BY <2>2
  <2>4. r <= b  BY <1>1, <2>3
  <2>5. r = b
    <3> SUFFICES ASSUME r < b PROVE FALSE
      BY <1>1, <2>4
    <3>1. b \in 1..Len(q) /\ q[r][1] < q[b][1]  BY <1>1
    <3>2. q[b][1] <= l[k][1]  BY <1>1, <1>4, <3>1
    <3> QED  BY <1>1, <1>2, <2>3, <3>1, <3>2, SMTT(40)
  <2>6. r \in {at, at + 1}  BY <1>1, <1>5, <2>5
  <2> QED  BY <1>7, <1>9, <2>2, <2>6 DEF at
<1>10. CASE i = k + 1 /\ k + 1 # Len(l)
  <2>1. k + 1 \in 2..Len(l) - 1  BY <1>2, <1>10
  <2>2. PICK r \in 1..Len(q) : l[k + 1] = q[r]  BY <2>1 DEF Entries
  <2>3. q[r][1] = l[k + 1][1]  BY <2>2
  <2>4. r > b  BY <1>1, <1>2, <2>3, SMTT(40)
  <2>5. r = b + 1
    <3> SUFFICES ASSUME b + 1 < r PROVE FALSE
      BY <1>1, <2>4
    <3>1. b + 1 \in 1..Len(q) /\ q[b + 1][1] < q[r][1]  BY <1>1, SMTT(40)
    <3>2. q[b + 1][1] >= l[k + 1][1]  BY <1>1, <1>4, <3>1
    <3> QED  BY <1>1, <1>2, <2>3, <3>1, <3>2, SMTT(40)
  <2>6. r \in {at, at + 1}  BY <1>1, <1>5, <2>5
  <2> QED  BY <1>7, <1>10, <2>2, <2>6 DEF at
<1>11. CASE i = k + 1 /\ k + 1 = Len(l)
  <2>1. l[i][1] = a.count /\ l[i][2] = a.end /\ l[k + 1][1] = a.count  BY <1>2, <1>11
  <2>2. a.count \in Int /\ a.end \in Int  BY <1>2, <2>1, <1>11
  <2>3. PICK c : Upto(q, a.count, c)  BY <2>2, UptoOne
  <2>4. c \in 0..Len(q) /\ \A r \in 1..Len(q) : q[r][1] <= a.count <=> r <= c
    BY <2>3 DEF Upto
  <2>5. Render!SampleTime(q, a.count) = OnLine(q, Line(q, c), a.count)
    BY <2>2, <2>3, SampleTimeIs
  <2>6. Render!Near(Render!Tick(a.end), OnLine(q, Line(q, c), a.count), Slack)
    <3>1. Render!Near(Render!Tick(a.end), Render!SampleTime(q, a.count), Slack)
      BY DEF Render!TrackGood
    <3> QED  BY <2>5, <3>1
  <2>7. CASE c = b
    BY <2>1, <2>6, <2>7 DEF at
  <2>8. CASE c # b
    <3>1. c > b
      <4>1. c < b => b \in 1..Len(q)  BY <1>1, <2>4
      <4>2. c < b => q[b][1] <= n /\ n < a.count /\ q[b][1] \in Int  BY <1>1, <2>1, <4>1
      <4>3. c < b => b <= c  BY <2>2, <2>4, <4>1, <4>2
      <4> QED  BY <1>1, <2>4, <2>8, <4>3
    <3>2. b + 1 \in 1..Len(q) /\ c \in 1..Len(q)  BY <1>1, <2>4, <3>1
    <3>3. q[b + 1][1] = a.count
      <4>1. q[b + 1][1] >= a.count  BY <1>1, <1>4, <2>1, <3>2
      <4>2. q[b + 1][1] <= a.count  BY <1>1, <2>4, <3>1, <3>2
      <4> QED  BY <1>1, <2>2, <3>2, <4>1, <4>2, SMTT(40)
    <3>4. c = b + 1
      <4> SUFFICES ASSUME b + 1 < c PROVE FALSE
        BY <1>1, <2>4, <3>1
      <4>1. q[b + 1][1] < q[c][1]  BY <1>1, <3>2
      <4>2. q[c][1] <= a.count  BY <1>1, <2>4, <3>2
      <4> QED  BY <1>1, <2>2, <3>2, <3>3, <4>1, <4>2, SMTT(40)
    <3> DEFINE on == Line(q, c)
               F == q[on + 1][1] - q[on][1]
    <3>5. on \in 1..Len(q) - 1 /\ c \in {on, on + 1}  BY <2>4, <3>2, LineMeets
    <3>6. F \in Nat \ {0} /\ OnLine(q, on, q[c][1]) = <<q[c][2] * F, F>>
      <4> HIDE DEF on
      <4> QED  BY <3>5, LineIs
    <3>7. q[c][1] = a.count /\ q[c][2] \in Int  BY <1>1, <3>2, <3>3, <3>4
    <3> HIDE DEF on, F
    <3>8. Fit(a.end, 1, q[c][2] * F, F, Slack)
      <4>1. Render!Near(Render!Tick(a.end), <<q[c][2] * F, F>>, Slack)
        BY <2>6, <3>6, <3>7 DEF on
      <4> QED  BY <4>1, TickIs
    <3>9. Fit(a.end, 1, q[c][2] * E, E, Slack)
      <4>1. E \in Nat  BY <1>6
      <4> QED  BY <1>5, <2>2, <3>6, <3>7, <3>8, <4>1, FitSame
    <3>10. OnLine(q, at, a.count) = <<q[c][2] * E, E>>
      <4>1. b < Len(q)  BY <1>1, <3>2
      <4>2. c \in {at, at + 1}  BY <1>5, <3>4, <4>1
      <4> QED  BY <1>6, <3>7, <4>2
    <3>11. Render!Near(Render!Tick(a.end), <<q[c][2] * E, E>>, Slack)  BY <3>9, TickIs
    <3> QED  BY <2>1, <3>10, <3>11 DEF at
  <2> QED  BY <2>7, <2>8
<1> QED  BY <1>8, <1>9, <1>10, <1>11

-----------------------------------------------------------------------------
LineAt(A, m, t, E, c, R) == A = t * E + (m - c) * R
Mixed(P, D, x, z, u, w, n) == D = z - x /\ P = u * (z - x) + (n - x) * (w - u)
LEMMA FitMixed ==
    ASSUME NEW x \in Int, NEW n \in Int, NEW z \in Int, x <= n, n <= z,
           NEW u \in Int, NEW w \in Int,
           NEW t \in Int, NEW c \in Int, NEW R \in Int, NEW E \in Int, NEW S \in Int,
           NEW A, NEW B, NEW Num, LineAt(A, x, t, E, c, R), LineAt(B, z, t, E, c, R),
           LineAt(Num, n, t, E, c, R), Fit(u, 1, A, E, S), Fit(w, 1, B, E, S),
           NEW P, NEW D, Mixed(P, D, x, z, u, w, n)
    PROVE  Fit(P, D, Num, E, S)
<1>1. Fit(u, 1, t * E + (x - c) * R, E, S) /\ Fit(w, 1, t * E + (z - c) * R, E, S)
  BY DEF LineAt
<1>2. Fit(u * (z - x) + (n - x) * (w - u), z - x, t * E + (n - c) * R, E, S)
  BY <1>1, FitBetween
<1> QED  BY <1>2 DEF LineAt, Mixed

(* Every sample is heard where the points have it. *)
LEMMA AudioIs ==
    ASSUME NEW a \in Heard, a # None, Render!TrackGood(a),
           Render!TimelineGood(Render!Timeline(a)), NEW n \in 0..a.count
    PROVE  LET p == Render!Place(Render!Timeline(a), n) IN
           Render!Near(<<a.sync * p[2] + p[1], p[2]>>, Render!SampleTime(a.points, n), 2 * Slack)
<1> DEFINE l == Render!Timeline(a)
           q == a.points
<1>1. Clocked(q)  BY TrackClocked
<1>2. Entries(l, a)  BY <1>1, TimelineIs
<1>3. \A i, j \in 1..Len(l) : i < j => l[i][1] < l[j][1]  BY <1>1, <1>2, TimelineRises
<1>4. /\ Len(l) \in Nat /\ Len(l) >= 2
      /\ \A i \in 1..Len(l) : l[i][1] \in Int /\ l[i][2] \in Int
      /\ l \in Seq(Int \X Int)
      /\ l[1] = <<0, a.begin>> /\ l[Len(l)] = <<a.count, a.end>>
  <2> HIDE DEF l
  <2> QED  BY ONLY <1>2 DEF Entries
<1>5. /\ a.count \in Nat /\ a.begin \in Int /\ a.end \in Int /\ a.sync \in Int
      /\ Slack \in Nat /\ n \in Int
  BY RenderFacts
<1>6. Render!TimelineGood(l)  OBVIOUS
<1> HIDE DEF l
<1>7. l[1][1] = 0 /\ l[1][2] = a.begin /\ l[Len(l)][1] = a.count /\ l[Len(l)][2] = a.end
  BY ONLY <1>4
<1>8. Clocked(l)  BY ONLY <1>3, <1>4 DEF Clocked
<1>9. PICK b : Upto(q, n, b)  BY <1>1, <1>5, UptoOne
<1> DEFINE at == Line(q, b)
           E == q[at + 1][1] - q[at][1]
           c == q[at][1]
           t == q[at][2]
           R == q[at + 1][2] - q[at][2]
<1>10. /\ Render!SampleTime(q, n) = OnLine(q, at, n)
       /\ at \in 1..Len(q) - 1
  BY <1>1, <1>5, <1>9, SampleTimeIs
<1> HIDE DEF at
<1>11. /\ E \in Nat \ {0} /\ c \in Int /\ t \in Int /\ R \in Int
       /\ \A m \in Int : OnLine(q, at, m) = <<t * E + (m - c) * R, E>>
  <2>1. /\ E \in Nat \ {0}
        /\ q[at][1] \in Int /\ q[at][2] \in Int /\ q[at + 1][2] \in Int
        /\ \A m \in Int : OnLine(q, at, m) =
             <<q[at][2] * E + (m - q[at][1]) * (q[at + 1][2] - q[at][2]), E>>
    BY <1>1, <1>10, LineIs
  <2> HIDE DEF E
  <2>2. c \in Int /\ t \in Int /\ R \in Int  BY <2>1
  <2> QED  BY <2>1, <2>2
<1> HIDE DEF E, c, t, R
<1> DEFINE Num == t * E + (n - c) * R
(* The piece the sample is on. *)
<1>12. PICK k \in 1..Len(l) - 1 :
         /\ l[k][1] <= n /\ n <= l[k + 1][1]
         /\ k = Len(l) - 1 \/ n < l[k + 1][1]
         /\ n < a.count => n < l[k + 1][1]
         /\ n >= a.count => k = Len(l) - 1
  <2>1. CASE n < a.count
    <3>1. PICK k : Upto(l, n, k)  BY <1>5, <1>8, UptoOne
    <3>2. k \in 0..Len(l) /\ \A i \in 1..Len(l) : l[i][1] <= n <=> i <= k
      BY ONLY <3>1 DEF Upto
    <3>3. 1 \in 1..Len(l) /\ Len(l) \in 1..Len(l)  BY ONLY <1>4
    <3>4. 1 <= k  BY <1>7, <3>2, <3>3
    <3>5. ~(Len(l) <= k)  BY <1>5, <1>7, <2>1, <3>2, <3>3
    <3>6. /\ k \in 1..Len(l) - 1 /\ k \in 1..Len(l) /\ k + 1 \in 1..Len(l)
          /\ ~(k + 1 <= k)
      BY ONLY <1>4, <3>2, <3>4, <3>5
    <3>7. l[k][1] <= n /\ ~(l[k + 1][1] <= n) /\ l[k + 1][1] \in Int
      BY ONLY <1>4, <3>2, <3>6, SMTT(40)
    <3>8. n < l[k + 1][1] /\ n <= l[k + 1][1] /\ ~(n >= a.count)  BY ONLY <1>5, <2>1, <3>7
    <3> QED  BY ONLY <3>6, <3>7, <3>8
  <2>2. CASE n >= a.count
    <3> DEFINE k == Len(l) - 1
    <3>1. k \in 1..Len(l) - 1 /\ k \in 1..Len(l) /\ k + 1 = Len(l) /\ Len(l) \in 1..Len(l) /\ k < Len(l)
      BY ONLY <1>4, SMTT(40)
    <3>2. l[k][1] < l[Len(l)][1] /\ l[k][1] \in Int  BY <1>3, <1>4, <3>1
    <3>3. n = a.count  BY ONLY <1>5, <2>2, n \in 0..a.count
    <3>4. n = l[k + 1][1] /\ l[k][1] <= n /\ ~(n < a.count)  BY <1>5, <1>7, <3>1, <3>2, <3>3
    <3>5. n <= l[k + 1][1] /\ n >= a.count /\ k = Len(l) - 1  BY ONLY <1>5, <3>3, <3>4
    <3> HIDE DEF k
    <3> QED  BY ONLY <3>1, <3>4, <3>5
  <2> QED  BY <1>5, <2>1, <2>2
<1> DEFINE x == l[k][1]
           z == l[k + 1][1]
           u == l[k][2]
           w == l[k + 1][2]
           P == u * (z - x) + (n - x) * (w - u)
           D == z - x
<1>13. /\ x \in Int /\ z \in Int /\ u \in Int /\ w \in Int
       /\ P \in Int /\ D \in Nat \ {0}
       /\ OnLine(l, k, n) = <<P, D>>
  <2>1. /\ D \in Nat \ {0} /\ x \in Int /\ u \in Int /\ w \in Int /\ OnLine(l, k, n) = <<P, D>>
    BY <1>5, <1>8, LineIs
  <2>2. k + 1 \in 1..Len(l)  BY <1>4
  <2>3. z \in Int  BY <1>4, <2>2
  <2>4. P \in Int
    <3> HIDE DEF x, z, u, w
    <3> QED  BY ONLY <1>5, <2>1, <2>3 DEF P
  <2> QED  BY ONLY <2>1, <2>3, <2>4
(* What is heard of it is near the line between the points. *)
<1>14. Fit(P, D, Num, E, Slack)
  <2>1. CASE n < a.count
    <3>1. n < l[k + 1][1]  BY <1>12, <2>1
    <3>2. \A i \in {k, k + 1} :
            Render!Near(Render!Tick(l[i][2]), OnLine(q, at, l[i][1]), Slack)
      BY <1>1, <1>2, <1>5, <1>6, <1>9, <1>12, <3>1, EntryNear DEF at
    <3>3. /\ OnLine(q, at, x) = <<t * E + (x - c) * R, E>>
          /\ OnLine(q, at, z) = <<t * E + (z - c) * R, E>>
      BY <1>11, <1>13
    <3>4. /\ Fit(u, 1, t * E + (x - c) * R, E, Slack)
          /\ Fit(w, 1, t * E + (z - c) * R, E, Slack)
      BY <3>2, <3>3, TickIs
    <3>5. E \in Int /\ x <= n /\ n <= z  BY <1>11, <1>12
    <3> DEFINE A == t * E + (x - c) * R
               B == t * E + (z - c) * R
    <3>6. /\ LineAt(A, x, t, E, c, R) /\ LineAt(B, z, t, E, c, R) /\ LineAt(Num, n, t, E, c, R)
          /\ Mixed(P, D, x, z, u, w, n)
      BY DEF LineAt, Mixed
    <3>7. Fit(u, 1, A, E, Slack) /\ Fit(w, 1, B, E, Slack)  BY <3>4
    <3> HIDE DEF x, z, u, w, A, B, P, D, Num
    <3>8. Slack \in Int  BY <1>5
    <3> QED  BY ONLY <1>5, <1>11, <1>13, <3>5, <3>6, <3>7, <3>8, FitMixed
  <2>2. CASE n >= a.count
    <3>1. k + 1 = Len(l)  BY <1>4, <1>12, <2>2
    <3>2. z = n /\ w = a.end /\ n = a.count  BY <1>5, <1>7, <2>2, <3>1
    <3>3. Render!Near(Render!Tick(a.end), Render!SampleTime(q, a.count), Slack)
      BY DEF Render!TrackGood
    <3>4. Render!SampleTime(q, a.count) = <<Num, E>>  BY <1>5, <1>10, <1>11, <3>2
    <3>5. Fit(w, 1, Num, E, Slack)  BY <3>2, <3>3, <3>4, TickIs
    <3>6. P = w * D
      <4>1. P = u * (n - x) + (n - x) * (w - u) /\ D = n - x  BY <3>2
      <4> HIDE DEF u, w, x, z, P, D
      <4> QED  BY ONLY <1>5, <1>13, <4>1
    <3>7. Num \in Int /\ E \in Nat  BY <1>5, <1>11
    <3> HIDE DEF P, D, Num, w
    <3>8. Fit(w * D, D, Num, E, Slack)  BY ONLY <1>5, <1>13, <3>5, <3>7, FitScaled
    <3> QED  BY <3>6, <3>8
  <2> QED  BY <1>5, <2>1, <2>2
<1>15. Render!Place(l, n) = <<P - a.begin * D, D>>
  <2> HIDE DEF P, D
  <2>1. Render!Between(l[k], l[k + 1], n) = <<P, D>>  BY <1>13 DEF OnLine
  <2>2. \A i \in 1..Len(l) : l[i][1] \in Int  BY <1>4
  <2>3. l[k][1] <= n /\ (k = Len(l) - 1 \/ n < l[k + 1][1])  BY <1>12
  <2>4. Render!Place(l, n) = <<<<P, D>>[1] - l[1][2] * <<P, D>>[2], <<P, D>>[2]>>
    BY ONLY <1>3, <1>4, <1>5, <1>12, <2>1, <2>2, <2>3, PlaceIs, ZenonT(60)
  <2> QED  BY <1>7, <2>4
<1>16. Fit(a.sync * D + (P - a.begin * D), D, Num, E, 2 * Slack)
  <2>1. Fit(a.sync, 1, a.begin, 1, Slack)
    <3>1. Render!Near(Render!Tick(a.sync), Render!Tick(a.begin), Slack)
      BY DEF Render!TrackGood
    <3> QED  BY <3>1, TickIs DEF Render!Tick
  <2>2. Num \in Int /\ E \in Nat /\ D \in Nat /\ P \in Int  BY <1>5, <1>11, <1>13
  <2> HIDE DEF P, D, Num
  <2> QED  BY <1>5, <1>14, <2>1, <2>2, FitMoved
<1>17. Render!SampleTime(q, n) = <<Num, E>>  BY <1>5, <1>10, <1>11
<1> HIDE DEF P, D, Num
<1>18. LET p == Render!Place(l, n) IN p[1] = P - a.begin * D /\ p[2] = D
  BY <1>15
<1> QED  BY <1>16, <1>17, <1>18, NearIs DEF l

-----------------------------------------------------------------------------
(* Renderings *)

(* A video as it was checked: every frame of both eyes, at its microsecond. *)
Shown(v) ==
    /\ DOMAIN v = DOMAIN Render!Eye("left")
    /\ \A n \in DOMAIN v : /\ v[n].left = Render!Eye("left")[n]
                           /\ v[n].right = Render!Eye("right")[n]
    /\ Render!Indexed => [n \in DOMAIN v |-> v[n].at] = Render!Microseconds(source.rows)

Sound ==
    /\ Render!Contiguous(source.segments)
    /\ Render!Indexed => Render!ClockGood(source.rows)
    /\ track # None => Render!TrackGood(track)

RenderInv ==
    /\ source \in Filmed /\ track \in Heard /\ hardware \in BOOLEAN
    /\ phase \in {"plan", "measure", "encode", "check", "replace", "done", "failed"}
    /\ phase \in {"check", "replace"} <=> staged # {}
    /\ phase = "done" <=> target # {}
    /\ phase \notin {"plan", "failed"} => Sound
    /\ phase \in {"check", "replace", "done"} => Render!TimelinePossible
    /\ phase = "check" => staged \subseteq Render!Made
    /\ phase = "replace" => \A v \in staged : Shown(v)
    /\ \A v \in target : Shown(v)

(* What depends on the recording alone. *)
LEMMA RenderSteady ==
    ASSUME source' = source, track' = track
    PROVE  /\ Sound' <=> Sound
           /\ Render!TimelinePossible' <=> Render!TimelinePossible
           /\ Render!Made' = Render!Made
           /\ \A v : Shown(v)' <=> Shown(v)
<1>1. Render!Eye("left")' = Render!Eye("left") /\ Render!Eye("right")' = Render!Eye("right")
  BY DEF Render!Eye
<1>2. Render!Indexed' <=> Render!Indexed  BY DEF Render!Indexed
<1>3. Render!Asked' = Render!Asked  BY <1>1, <1>2 DEF Render!Asked
<1>4. Render!Made' = Render!Made  BY <1>3 DEF Render!Made
<1>5. \A v : Shown(v)' <=> Shown(v)  BY <1>1, <1>2 DEF Shown
<1>6. Sound' <=> Sound
  <2>1. Render!Contiguous(source.segments)' <=> Render!Contiguous(source.segments)
    BY Zenon
  <2>2. Render!ClockGood(source.rows)' <=> Render!ClockGood(source.rows)
    BY DEF Render!ClockGood
  <2>3. Render!TrackGood(track)' <=> Render!TrackGood(track)
    BY Zenon
  <2> QED  BY <1>2, <2>1, <2>2, <2>3, Zenon DEF Sound
<1>7. Render!TimelinePossible' <=> Render!TimelinePossible  BY DEF Render!TimelinePossible
<1> QED  BY <1>4, <1>5, <1>6, <1>7

LEMMA RenderStutter ==
    ASSUME RenderInv, UNCHANGED renderVars
    PROVE  RenderInv'
<1>1. /\ source' = source /\ track' = track /\ phase' = phase /\ hardware' = hardware
      /\ staged' = staged /\ target' = target
  BY DEF renderVars
<1>2. /\ Sound' <=> Sound
      /\ Render!TimelinePossible' <=> Render!TimelinePossible
      /\ Render!Made' = Render!Made
      /\ \A v : Shown(v)' <=> Shown(v)
  BY <1>1, RenderSteady
<1> QED  BY <1>1, <1>2 DEF RenderInv

LEMMA RenderStarts == SdkInit => RenderInv
<1> SUFFICES ASSUME SdkInit PROVE RenderInv  OBVIOUS
<1>1. /\ source \in Filmed /\ track \in Heard /\ phase = "plan" /\ hardware \in BOOLEAN
      /\ staged = {} /\ target = {}
  <2>1. CASE use = "render"
    BY <2>1 DEF SdkInit, Render!Init
  <2>2. CASE use # "render"
    BY <2>2 DEF SdkInit, Filmed, Heard
  <2> QED  BY <2>1, <2>2
<1> QED  BY <1>1 DEF RenderInv

(* This without a frame is too short. *)
LEMMA Shorter ==
    ASSUME NEW L \in Nat, NEW v, NEW S, v \in Seq(S), Len(v) = L, NEW n \in 1..L
    PROVE  Len(Render!RemoveAt(v, n)) = L - 1
BY DEF Render!RemoveAt

LEMMA MadeShown ==
    ASSUME source \in Filmed, Sound,
           NEW v \in Render!Made, Len(v) = Len(Render!Eye("left")),
           Render!Indexed => [n \in DOMAIN v |-> v[n].at] = Render!Microseconds(source.rows)
    PROVE  Shown(v)
<1> DEFINE x == Render!Eye("left")
           y == Render!Eye("right")
           At(n) == IF Render!Indexed
                    THEN Render!Lookup(Render!Microseconds(source.rows), n - 1) ELSE n - 1
           L == Len(x)
           S == {[left |-> x[n], right |-> y[n], at |-> At(n)] : n \in 1..L}
           asked == [n \in 1..L |-> [left |-> x[n], right |-> y[n], at |-> At(n)]]
<1>1. L \in Nat /\ DOMAIN x = 1..L
  <2>1. source.segments \in Seq(Render!Segments) /\ Render!Contiguous(source.segments)
    BY RenderFacts DEF Sound
  <2>2. x \in Seq(Nat \X Nat)  BY <2>1, EyeInOrder DEF Frames
  <2> HIDE DEF x
  <2> QED  BY <2>2
<1>2. Render!Asked = asked  BY <1>1 DEF Render!Asked
<1> HIDE DEF x, y, At, L
<1>3. asked \in Seq(S) /\ Len(asked) = L /\ DOMAIN asked = 1..L
  BY <1>1
<1>4. \A n \in 1..L : asked[n] = [left |-> x[n], right |-> y[n], at |-> At(n)]
  OBVIOUS
<1> HIDE DEF asked, S
<1>5. ASSUME NEW n \in 1..L, v = Render!RemoveAt(asked, n) PROVE FALSE
  <2>1. Len(v) = L - 1  BY <1>1, <1>3, <1>5, Shorter
  <2> QED  BY <1>1, <2>1 DEF L, x
<1>6. /\ DOMAIN v = 1..L
      /\ \A n \in 1..L : v[n].left = x[n] /\ v[n].right = y[n]
  <2>1. CASE v = asked
    BY <1>3, <1>4, <2>1
  <2>2. ASSUME NEW m \in 1..L, v = [asked EXCEPT ![m].at = @ + 1]
        PROVE  /\ DOMAIN v = 1..L
               /\ \A n \in 1..L : v[n].left = x[n] /\ v[n].right = y[n]
    <3>1. DOMAIN v = 1..L  BY <1>3, <2>2
    <3>2. ASSUME NEW n \in 1..L PROVE v[n].left = x[n] /\ v[n].right = y[n]
      <4>1. CASE n # m
        <5>1. v[n] = asked[n]  BY <1>3, <2>2, <4>1
        <5>2. asked[n] = [left |-> x[n], right |-> y[n], at |-> At(n)]  BY <1>4
        <5> QED  BY ONLY <5>1, <5>2
      <4>2. CASE n = m
        <5>1. v[n] = [asked[n] EXCEPT !.at = asked[n].at + 1]  BY <1>3, <2>2, <4>2
        <5>2. asked[n] = [left |-> x[n], right |-> y[n], at |-> At(n)]  BY <1>4
        <5>3. v[n].left = asked[n].left /\ v[n].right = asked[n].right  BY <5>1, <5>2
        <5> QED  BY <5>2, <5>3
      <4> QED  BY <4>1, <4>2
    <3> QED  BY <3>1, <3>2
  <2>3. \/ v = asked \/ \E n \in 1..L : v = Render!RemoveAt(asked, n)
        \/ \E n \in 1..L : v = [asked EXCEPT ![n].at = @ + 1]
    BY <1>2, <1>3 DEF Render!Made
  <2> QED  BY <1>5, <2>1, <2>2, <2>3
<1> QED  BY <1>1, <1>6 DEF Shown, x, y

-----------------------------------------------------------------------------
LEMMA RenderKeeps ==
    ASSUME RenderInv, Render!Next
    PROVE  RenderInv'
<1>1. source' = source /\ track' = track
  BY DEF Render!Next, Render!Plan, Render!Measure, Render!Encode, Render!FallBack, Render!Fail,
         Render!Check, Render!Replace, Render!Goes
<1>2. /\ Sound' <=> Sound
      /\ Render!TimelinePossible' <=> Render!TimelinePossible
      /\ Render!Made' = Render!Made
      /\ \A v : Shown(v)' <=> Shown(v)
  BY <1>1, RenderSteady
<1>3. CASE Render!Plan
  <2>1. /\ phase' \in {"measure", "failed"}
        /\ phase' = "measure" => Sound
        /\ hardware' = hardware /\ staged' = staged /\ target' = target /\ phase = "plan"
    BY <1>3 DEF Render!Plan, Render!Goes, Sound
  <2> QED  BY <1>1, <1>2, <2>1 DEF RenderInv
<1>4. CASE Render!Measure
  <2>1. /\ phase' \in {"encode", "failed"} /\ phase = "measure"
        /\ hardware' = hardware /\ staged' = staged /\ target' = target
    BY <1>4 DEF Render!Measure, Render!Goes
  <2> QED  BY <1>1, <1>2, <2>1 DEF RenderInv
<1>5. CASE Render!Encode
  <2>1. /\ phase' = "check" /\ phase = "encode" /\ Render!TimelinePossible
        /\ hardware' = hardware /\ target' = target
    BY <1>5 DEF Render!Encode, Render!Goes
  <2>2. PICK v \in Render!Made : staged' = {v}  BY <1>5 DEF Render!Encode
  <2> QED  BY <1>1, <1>2, <2>1, <2>2 DEF RenderInv
<1>6. CASE Render!FallBack
  <2>1. /\ phase' = "encode" /\ phase = "encode" /\ hardware' = FALSE /\ staged' = {}
        /\ target' = target
    BY <1>6 DEF Render!FallBack, Render!Goes
  <2> QED  BY <1>1, <1>2, <2>1 DEF RenderInv
<1>7. CASE Render!Fail
  <2>1. /\ phase' = "failed" /\ phase \in {"measure", "encode", "check", "replace"}
        /\ hardware' = hardware /\ staged' = {} /\ target' = target
    BY <1>7 DEF Render!Fail, Render!Goes
  <2> QED  BY <1>1, <1>2, <2>1 DEF RenderInv
<1>8. CASE Render!Check
  <2>1. /\ phase' = "replace" /\ phase = "check"
        /\ hardware' = hardware /\ staged' = staged /\ target' = target
    BY <1>8 DEF Render!Check, Render!Goes
  <2>2. ASSUME NEW v \in staged PROVE Shown(v)
    <3>1. /\ Len(v) = Len(Render!Eye("left"))
          /\ Render!Indexed => [n \in DOMAIN v |-> v[n].at] = Render!Microseconds(source.rows)
      BY <1>8 DEF Render!Check
    <3>2. v \in Render!Made /\ source \in Filmed /\ Sound  BY <2>1 DEF RenderInv
    <3> QED  BY <3>1, <3>2, MadeShown
  <2> QED  BY <1>1, <1>2, <2>1, <2>2 DEF RenderInv
<1>9. CASE Render!Replace
  <2>1. /\ phase' = "done" /\ phase = "replace" /\ hardware' = hardware
        /\ target' = staged /\ staged' = {}
    BY <1>9 DEF Render!Replace, Render!Goes
  <2> QED  BY <1>1, <1>2, <2>1 DEF RenderInv
<1> QED  BY <1>3, <1>4, <1>5, <1>6, <1>7, <1>8, <1>9 DEF Render!Next

(* The microsecond nearest to a time. *)
LEMMA Rounded ==
    ASSUME NEW M \in Nat \ {0}, NEW d \in Int, NEW q \in Int, q = (d + M \div 2) \div M
    PROVE  LET late == q * M - d IN 2 * late <= M /\ -(2 * late) <= M
<1> DEFINE h == M \div 2
           e == d + h
<1>1. h \in Nat /\ 2 * h <= M /\ M <= 2 * h + 1  OBVIOUS
<1>2. e \in Int /\ q = e \div M  BY <1>1
<1> HIDE DEF h, e
<1>3. M * q <= e /\ e < M * (q + 1)  BY <1>2
<1>4. M * q = q * M /\ M * (q + 1) = q * M + M /\ q * M \in Int  OBVIOUS
<1>5. d = e - h  BY <1>1, <1>2 DEF e
<1> QED  BY <1>1, <1>2, <1>3, <1>4, <1>5

(* What was checked is in order, and as near to its capture as can be. *)
LEMMA ShownTrue ==
    ASSUME source \in Filmed, Sound, NEW v, Shown(v)
    PROVE  /\ [n \in DOMAIN v |-> v[n].left] = Render!Eye("left")
           /\ \A n \in DOMAIN v : n > 1 => Render!Later(v[n - 1].left, v[n].left)
           /\ Render!Indexed => \A n \in DOMAIN v :
                LET late == v[n].at * Micro - (source.rows[n] - source.rows[1]) IN
                /\ 2 * late <= Micro /\ -(2 * late) <= Micro
                /\ n > 1 => v[n - 1].at < v[n].at
<1> DEFINE x == Render!Eye("left")
<1>1. source.segments \in Seq(Render!Segments) /\ Render!Contiguous(source.segments)
  BY RenderFacts DEF Sound
<1>2. Frames(x, Len(source.segments))  BY <1>1, EyeInOrder
<1>3. /\ x \in Seq(Nat \X Nat)
      /\ \A j \in 1..Len(x) : j > 1 => Render!Later(x[j - 1], x[j])
  <2> HIDE DEF x
  <2> QED  BY <1>2 DEF Frames
<1>4. /\ DOMAIN v = DOMAIN x
      /\ \A n \in DOMAIN v : v[n].left = x[n]
      /\ Render!Indexed => [n \in DOMAIN v |-> v[n].at] = Render!Microseconds(source.rows)
  BY DEF Shown
<1> HIDE DEF x
<1>5. Len(x) \in Nat /\ DOMAIN x = 1..Len(x) /\ x = [n \in 1..Len(x) |-> x[n]]  BY <1>3
<1>6. [n \in DOMAIN v |-> v[n].left] = x
  <2>1. [n \in DOMAIN v |-> v[n].left] = [n \in 1..Len(x) |-> x[n]]  BY <1>4, <1>5
  <2> QED  BY <1>5, <2>1
<1>7. ASSUME NEW n \in DOMAIN v, n > 1 PROVE Render!Later(v[n - 1].left, v[n].left)
  <2>1. n \in 1..Len(x) /\ n - 1 \in 1..Len(x)  BY <1>4, <1>5, <1>7
  <2> QED  BY <1>3, <1>4, <1>5, <1>7, <2>1
<1>8. ASSUME Render!Indexed, NEW n \in DOMAIN v
      PROVE  LET late == v[n].at * Micro - (source.rows[n] - source.rows[1]) IN
             /\ 2 * late <= Micro /\ -(2 * late) <= Micro
             /\ n > 1 => v[n - 1].at < v[n].at
  <2> DEFINE t == source.rows
             m == Render!Microseconds(t)
             ats == [k \in DOMAIN v |-> v[k].at]
  <2>1. t \in Seq(Int) /\ Micro \in Nat \ {0}  BY <1>8, RenderFacts DEF Render!Indexed
  <2>2. Render!Rising(m)  BY <1>8 DEF Sound, Render!ClockGood
  <2> HIDE DEF t
  <2>3. Len(t) \in Nat /\ DOMAIN t = 1..Len(t) /\ \A k \in 1..Len(t) : t[k] \in Int  BY <2>1
  <2>4. /\ DOMAIN m = 1..Len(t) /\ Len(m) = Len(t)
        /\ \A k \in 1..Len(t) : m[k] = (t[k] - t[1] + Micro \div 2) \div Micro
    <3>1. m = [k \in 1..Len(t) |-> (t[k] - t[1] + Micro \div 2) \div Micro]
      BY <2>3 DEF Render!Microseconds
    <3> HIDE DEF m
    <3> QED  BY <2>3, <3>1
  <2>5. ats = m  BY <1>4, <1>8 DEF t
  <2>6. DOMAIN ats = DOMAIN v /\ \A k \in DOMAIN v : ats[k] = v[k].at  OBVIOUS
  <2> HIDE DEF m, ats
  <2>7. DOMAIN v = 1..Len(t) /\ \A k \in 1..Len(t) : v[k].at = m[k]  BY <2>4, <2>5, <2>6
  <2>8. n \in 1..Len(t) /\ 1 \in 1..Len(t)  BY <2>3, <2>7
  <2>9. LET late == v[n].at * Micro - (t[n] - t[1]) IN 2 * late <= Micro /\ -(2 * late) <= Micro
    <3> DEFINE d == t[n] - t[1]
               q == v[n].at
    <3>1. d \in Int /\ q = (d + Micro \div 2) \div Micro  BY <2>3, <2>4, <2>7, <2>8
    <3> HIDE DEF d
    <3>2. q \in Int  BY <2>1, <3>1
    <3> HIDE DEF q
    <3>3. LET late == q * Micro - d IN 2 * late <= Micro /\ -(2 * late) <= Micro
      BY <2>1, <3>1, <3>2, Rounded
    <3> QED  BY <3>3 DEF d, q
  <2>10. ASSUME n > 1 PROVE v[n - 1].at < v[n].at
    <3>1. n - 1 \in 1..Len(m) - 1 /\ n - 1 \in 1..Len(t) /\ (n - 1) + 1 = n
      BY <2>3, <2>4, <2>8, <2>10
    <3>2. m[n - 1] < m[(n - 1) + 1]  BY <2>2, <3>1 DEF Render!Rising
    <3> QED  BY <2>7, <2>8, <3>1, <3>2
  <2> QED  BY <2>9, <2>10 DEF t
<1> QED  BY <1>6, <1>7, <1>8 DEF x

LEMMA RenderTells ==
    ASSUME RenderInv
    PROVE  Renderings
<1>1. /\ source \in Filmed /\ track \in Heard
      /\ target # {} => phase = "done"
      /\ phase = "done" => Sound /\ Render!TimelinePossible
      /\ \A v \in target : Shown(v)
  BY DEF RenderInv
<1>2. Render!TypeOK  BY DEF RenderInv, Render!TypeOK
<1>3. Render!FramesTrue
  <2> SUFFICES ASSUME NEW v \in target
               PROVE  /\ [n \in DOMAIN v |-> v[n].left] = Render!Eye("left")
                      /\ \A n \in DOMAIN v : n > 1 => Render!Later(v[n - 1].left, v[n].left)
                      /\ Render!Indexed => \A n \in DOMAIN v :
                           LET late == v[n].at * Micro - (source.rows[n] - source.rows[1]) IN
                           /\ 2 * late <= Micro /\ -(2 * late) <= Micro
                           /\ n > 1 => v[n - 1].at < v[n].at
    BY DEF Render!FramesTrue
  <2> QED  BY <1>1, ShownTrue
<1>4. Render!EyesPaired
  <2> SUFFICES ASSUME \A s \in Render!Listed(source.segments) : s.left = s.right,
                      NEW v \in target, NEW n \in DOMAIN v
               PROVE  v[n].left = v[n].right
    BY DEF Render!EyesPaired
  <2>1. source.segments \in Seq(Render!Segments) /\ Render!Contiguous(source.segments)
    BY <1>1, RenderFacts DEF Sound
  <2>2. Render!Eye("left") = Render!Eye("right")  BY <2>1, EyesAlike
  <2>3. v[n].left = Render!Eye("left")[n] /\ v[n].right = Render!Eye("right")[n]
    BY <1>1 DEF Shown
  <2> QED  BY <2>2, <2>3
<1>5. Render!AudioPlaced
  <2> SUFFICES ASSUME track # None, target # {}, NEW n \in 0..track.count
               PROVE  LET p == Render!Place(Render!Timeline(track), n) IN
                      Render!Near(<<track.sync * p[2] + p[1], p[2]>>,
                                  Render!SampleTime(track.points, n), 2 * Slack)
    BY DEF Render!AudioPlaced
  <2>1. Render!TrackGood(track) /\ Render!TimelineGood(Render!Timeline(track))
    BY <1>1 DEF Sound, Render!TimelinePossible
  <2> QED  BY <1>1, <2>1, AudioIs
<1> QED  BY <1>2, <1>3, <1>4, <1>5 DEF Renderings

(* A video that is kept has every frame of the recording in the order of its  *)
(* capture and, with a frame index, at the microsecond nearest to it; both eyes *)
(* of one moment; and its samples where the clock points have them: whatever   *)
(* the recording, and whatever the encoder has made of it.                    *)
THEOREM SdkRenders == SdkSpec => []Renderings
<1>1. SdkInit => RenderInv  BY RenderStarts
<1>2. RenderInv /\ [SdkNext]_sdkVars => RenderInv'
  <2> SUFFICES ASSUME RenderInv, [SdkNext]_sdkVars PROVE RenderInv'  OBVIOUS
  <2>1. CASE Render!Next
    BY <2>1, RenderKeeps
  <2>2. CASE UNCHANGED renderVars
    BY <2>2, RenderStutter
  <2> QED  BY <2>1, <2>2 DEF SdkNext, OnlySources, OnlyBatch, OnlyCard, sdkVars, Export
<1>3. RenderInv => Renderings  BY RenderTells
<1> QED  BY <1>1, <1>2, <1>3, PTL DEF SdkSpec

(* What FFmpeg is asked for passes the check: a lookup by halving puts every   *)
(* frame of a complete frame index at its own row.                            *)
THEOREM AskedPasses ==
    ASSUME source \in Filmed, Sound, Render!Indexed,
           Len(Render!Eye("left")) = Len(source.rows)
    PROVE  [n \in DOMAIN Render!Asked |-> Render!Asked[n].at] = Render!Microseconds(source.rows)
<1> DEFINE t == source.rows
           m == Render!Microseconds(t)
           D == DOMAIN Render!Eye("left")
           at == [n \in D |-> Render!Lookup(m, n - 1)]
<1>1. t \in Seq(Int) /\ Micro \in Nat \ {0}  BY RenderFacts DEF Render!Indexed
<1>2. D = 1..Len(t)
  <2> DEFINE x == Render!Eye("left")
  <2>1. source.segments \in Seq(Render!Segments) /\ Render!Contiguous(source.segments)
    BY RenderFacts DEF Sound
  <2>2. x \in Seq(Nat \X Nat)  BY <2>1, EyeInOrder DEF Frames
  <2>3. Len(x) = Len(t)  OBVIOUS
  <2>4. DOMAIN x = 1..Len(t)
    <3> HIDE DEF x, t
    <3> QED  BY <2>2, <2>3
  <2> HIDE DEF t
  <2> QED  BY <2>4
<1>3. /\ DOMAIN Render!Asked = D
      /\ \A n \in D : Render!Asked[n].at = Render!Lookup(m, n - 1)
  BY DEF Render!Asked
<1> HIDE DEF t, D
<1>4. m \in Seq(Int) /\ Len(m) = Len(t) /\ Len(t) \in Nat
  <2>1. \A i \in 1..Len(t) : (t[i] - t[1] + Micro \div 2) \div Micro \in Int
    <3> TAKE i \in 1..Len(t)
    <3>1. t[i] \in Int /\ t[1] \in Int  BY <1>1
    <3>2. t[i] - t[1] + Micro \div 2 \in Int  BY <1>1, <3>1
    <3> QED  BY <1>1, <3>2
  <2>2. DOMAIN t = 1..Len(t) /\ Len(t) \in Nat  BY <1>1
  <2> QED  BY <2>1, <2>2 DEF Render!Microseconds
<1> HIDE DEF m
<1>5. ASSUME NEW n \in D PROVE Render!Lookup(m, n - 1) = m[n]
  <2>1. n - 1 \in 0..Len(m) - 1 /\ (n - 1) + 1 = n  BY <1>2, <1>4
  <2> QED  BY <1>4, <2>1, LookupFinds
<1>6. [n \in DOMAIN Render!Asked |-> Render!Asked[n].at] = [n \in 1..Len(m) |-> m[n]]
  BY <1>2, <1>3, <1>4, <1>5
<1>7. m = [n \in 1..Len(m) |-> m[n]]  BY <1>4
<1> QED  BY <1>6, <1>7 DEF m, t
=============================================================================
