---------------------------- MODULE CardPipeline ----------------------------
(***************************************************************************)
(* One pass after another over a recording card with a kept work directory  *)
(* (src/main.py, main, process and normalize, --work): every session is     *)
(* verified on the card, copied, verified again, encoded to a left and a    *)
(* right video or taken from an earlier pass, and published.                *)
(*                                                                         *)
(* The card may change under the pass, a file of it may stop being          *)
(* readable, ffmpeg or the store may fail, the process may be killed at any *)
(* step, and ffmpeg may be another one in the next pass.  One pass works in *)
(* the directory at a time.  What the requests of an upload do is module    *)
(* BucketPublication; here it succeeds or fails.                            *)
(***************************************************************************)
EXTENDS Naturals, FiniteSets

CONSTANTS
    Sessions,       \* session directories of the card
    Versions,       \* recordings that may be found in them
    Odd,            \* those whose frames cannot be split in two
    Split,          \* are the eyes recorded apart, or side by side?
    Concat,         \* does an eye have several segments?
    Versioned,      \* sessions published with their normalization state
    Options,        \* options of a pass: preset, rotation, force, skip
    Tools,          \* versions of ffmpeg
    Unreadable,     \* may a file open and then not be readable?
    MaxChanges,     \* bound on changes of the card
    MaxPasses,      \* bound on passes
    None, Partial

Eyes == {"left", "right"}
Presets == {o.preset : o \in Options}
Videos == [eye : Eyes, bytes : Versions, rotation : {0, 180},
           preset : Presets, tool : Tools]
States == [key : [manifest : Versions, preset : Presets, rotation : {0, 180}],
           outputs : [Eyes -> Videos], arguments : Nat, tool : Tools]
Results == {"ok", "failed", "refused"}

PipelineConstants ==
    /\ Odd \subseteq Versions
    /\ {Split, Concat, Unreadable} \subseteq BOOLEAN
    /\ Versioned \subseteq Sessions
    /\ \A o \in Options : /\ o.rotation \in {0, 180}
                          /\ {o.force, o.skip} \subseteq BOOLEAN
    /\ {MaxChanges, MaxPasses} \subseteq Nat
    /\ {None, Partial} \cap (Versions \cup Tools) = {}
    /\ None \notin States /\ None \notin Results

Media == IF Split THEN Eyes ELSE {"stereo"}
Files == {"manifest"} \cup Media

(* What reading a file gives: bytes of one of the recordings, no file, or   *)
(* an error of the card in the middle.                                      *)
Bytes == Versions \cup {"gone"} \cup IF Unreadable THEN {"bad"} ELSE {}

VARIABLES
    card,       \* the bytes of each file of each session
    tool,       \* the version of ffmpeg
    pc, passes, options,
    found,      \* the recording discovery read in each manifest
    todo, cur,  \* sessions of the pass; the one in work
    left,       \* files of it still to be read
    snapshot,   \* the copies ffmpeg and the upload read
    work,       \* what the work directory holds for a session
    outcome,    \* what the pass said of each session
    published,  \* the last publication of each session
    changes

vars == <<card, tool, pc, passes, options, found, todo, cur, left, snapshot,
          work, outcome, published, changes>>

Other(eye) == IF eye = "left" THEN "right" ELSE "left"

(* The recording an eye is cut or copied from, and what ffmpeg is asked.    *)
Source(eye, rotation) ==
    IF ~Split THEN "stereo" ELSE IF rotation = 180 THEN Other(eye) ELSE eye

Frozen(file) == snapshot[file]

Encoding(eye) ==
    [eye |-> eye, bytes |-> Frozen(Source(eye, options.rotation)),
     rotation |-> options.rotation, preset |-> options.preset, tool |-> tool]

Key(s) ==
    [manifest |-> found[s], preset |-> options.preset,
     rotation |-> options.rotation]

State(s) == work[s].state

Cached(s) ==
    /\ State(s) # None
    /\ State(s).key = Key(s)
    /\ State(s).outputs = work[s].outputs

(* Wrong: the listing is written next to the copies. *)
ArgumentsFresh == passes

(* The argument list of a single segment names the copy made in its pass;   *)
(* several segments are named through one listing in the work directory.    *)
Arguments == IF Concat THEN 0 ELSE passes

(* Does each video come from the recording of its own eye?  Turning a rig of   *)
(* two cameras by 180 degrees exchanges them.                                 *)
Uncrossed ==
    Split => \A eye \in Eyes : Source(eye, options.rotation) = eye

(* Wrong: only the arguments are compared. *)
PublishableAnyTool(s) ==
    s \in Versioned => /\ Uncrossed /\ Cached(s)
                       /\ State(s).arguments = Arguments

Publishable(s) ==
    s \in Versioned => /\ Uncrossed /\ Cached(s)
                       /\ State(s).arguments = Arguments
                       /\ State(s).tool = tool

Running == pc \notin {"off", "done", "stranded"}

Init ==
    /\ \E v \in Versions : card = [s \in Sessions |-> [f \in Files |-> v]]
    /\ tool \in Tools /\ options \in Options
    /\ pc = "off" /\ passes = 0 /\ changes = 0
    /\ found = [s \in Sessions |-> None]
    /\ todo = {} /\ cur = None /\ left = {}
    /\ snapshot = [f \in Files |-> None]
    /\ work = [s \in Sessions |->
                  [outputs |-> [e \in Eyes |-> None], state |-> None]]
    /\ outcome = [s \in Sessions |-> None]
    /\ published = [s \in Sessions |-> None]

Pass == <<tool, passes, options, found>>

Start(o) ==
    /\ ~Running /\ passes < MaxPasses
    /\ passes' = passes + 1 /\ options' = o /\ pc' = "next"
    /\ found' = [s \in Sessions |-> IF card[s]["manifest"] \in Versions
                                    THEN card[s]["manifest"] ELSE None]
    /\ todo' = {s \in Sessions : found'[s] # None}
    /\ outcome' = [s \in Sessions |-> None]
    /\ cur' = None /\ left' = {}
    /\ UNCHANGED <<card, tool, snapshot, work, published, changes>>

Process(s) ==
    /\ pc = "next" /\ s \in todo
    /\ cur' = s /\ todo' = todo \ {s}
    /\ pc' = "verify" /\ left' = Files
    /\ UNCHANGED <<card, Pass, snapshot, work, outcome, published, changes>>

Done(result) ==
    /\ outcome' = [outcome EXCEPT ![cur] = result]
    /\ pc' = "next"

(* An exception that is no PipelineError leaves main with its loop. *)
Strand == pc' = "stranded" /\ UNCHANGED <<outcome, left>>

Fail == Done("failed") /\ UNCHANGED left

(* The manifest is read first.  All the others follow it in their order. *)
Due(f) == f \in left /\ (f = "manifest" \/ "manifest" \notin left)

Read(f, next) ==
    /\ left' = IF left = {f} THEN Files ELSE left \ {f}
    /\ pc' = IF left = {f} THEN next ELSE pc
    /\ UNCHANGED outcome

Verify(f) ==
    /\ pc = "verify" /\ Due(f)
    /\ IF card[cur][f] = found[cur] THEN Read(f, "copy")
       ELSE IF card[cur][f] = "bad" /\ f # "manifest" THEN Strand ELSE Fail
    /\ UNCHANGED <<card, Pass, todo, cur, snapshot, work, published, changes>>

Copy(f) ==
    /\ pc = "copy" /\ Due(f)
    /\ snapshot' = [snapshot EXCEPT ![f] = card[cur][f]]
    /\ IF snapshot'[f] = found[cur] THEN Read(f, "again") ELSE Fail
    /\ UNCHANGED <<card, Pass, todo, cur, work, published, changes>>

(* The second verification, of the copies nobody else writes. *)
VerifyCopy ==
    /\ pc = "again"
    /\ IF \A f \in Files : snapshot[f] = found[cur]
       THEN pc' = "normalize" /\ UNCHANGED <<outcome, left>>
       ELSE Fail
    /\ UNCHANGED <<card, Pass, todo, cur, snapshot, work, published, changes>>

(* Skipping the upload ends the session here. *)
Normalized ==
    IF options.skip
    THEN Done("ok") /\ UNCHANGED left
    ELSE pc' = "upload" /\ UNCHANGED <<outcome, left>>

Normalize ==
    /\ pc = "normalize"
    /\ IF ~options.force /\ Cached(cur) THEN Normalized
       ELSE IF found[cur] \in Odd THEN Fail
       ELSE pc' = "left" /\ UNCHANGED <<outcome, left>>
    /\ UNCHANGED <<card, Pass, todo, cur, snapshot, work, published, changes>>

Leaves(eye, video) == work' = [work EXCEPT ![cur].outputs[eye] = video]

(* ffmpeg writes over the video of an earlier pass. *)
Encode(eye) ==
    /\ pc = eye
    /\ Leaves(eye, Encoding(eye))
    /\ pc' = IF eye = "left" THEN "right" ELSE "record"
    /\ UNCHANGED <<card, Pass, todo, cur, left, snapshot, outcome, published,
                   changes>>

EncodeFails(eye) ==
    /\ pc = eye
    /\ Leaves(eye, Partial)
    /\ Fail
    /\ UNCHANGED <<card, Pass, todo, cur, snapshot, published, changes>>

Recorded ==
    work' = [work EXCEPT ![cur].state =
                [key |-> Key(cur), outputs |-> work[cur].outputs,
                 arguments |-> Arguments, tool |-> tool]]

Record ==
    /\ pc = "record"
    /\ Recorded
    /\ Normalized
    /\ UNCHANGED <<card, Pass, todo, cur, snapshot, published, changes>>

(* The state file is replaced as a whole or not at all. *)
RecordFails ==
    /\ pc = "record"
    /\ Recorded \/ UNCHANGED work
    /\ Fail
    /\ UNCHANGED <<card, Pass, todo, cur, snapshot, published, changes>>

Publication ==
    [manifest |-> found[cur], options |-> options, tool |-> tool,
     outputs |-> work[cur].outputs]

Upload ==
    /\ pc = "upload"
    /\ IF Publishable(cur)
       THEN /\ published' = [published EXCEPT ![cur] = Publication]
            /\ Done("ok")
       ELSE Done("refused") /\ UNCHANGED published
    /\ UNCHANGED <<card, Pass, todo, cur, left, snapshot, work, changes>>

UploadFails ==
    /\ pc = "upload" /\ Fail
    /\ UNCHANGED <<card, Pass, todo, cur, snapshot, work, published, changes>>

(* Every session has its answer. *)
Finish ==
    /\ pc = "next" /\ todo = {} /\ pc' = "done"
    /\ UNCHANGED <<card, Pass, todo, cur, left, snapshot, work, outcome,
                   published, changes>>

(* The process is killed, and ffmpeg with it. *)
Killed ==
    /\ Running /\ pc' = "off" /\ todo' = {}
    /\ UNCHANGED <<card, Pass, cur, left, snapshot, outcome, published, changes>>
    /\ \/ UNCHANGED work
       \/ pc \in Eyes /\ Leaves(pc, Partial)

CardChanges(s, f, b) ==
    /\ changes < MaxChanges /\ changes' = changes + 1
    /\ b # card[s][f] /\ ~(f = "manifest" /\ b = "bad")
    /\ card' = [card EXCEPT ![s][f] = b]
    /\ UNCHANGED <<pc, Pass, todo, cur, left, snapshot, work, outcome, published>>

Upgraded(t) ==
    /\ ~Running /\ t # tool /\ tool' = t
    /\ UNCHANGED <<card, pc, passes, options, found, todo, cur, left, snapshot,
                   work, outcome, published, changes>>

Next ==
    \/ \E o \in Options : Start(o)
    \/ \E s \in Sessions : Process(s)
    \/ \E f \in Files : Verify(f) \/ Copy(f)
    \/ VerifyCopy \/ Normalize \/ Record \/ RecordFails
    \/ \E e \in Eyes : Encode(e) \/ EncodeFails(e)
    \/ Upload \/ UploadFails \/ Finish \/ Killed
    \/ \E s \in Sessions, f \in Files, b \in Bytes : CardChanges(s, f, b)
    \/ \E t \in Tools : Upgraded(t)

Spec == Init /\ [][Next]_vars

-----------------------------------------------------------------------------
(* The work directory holds whole videos of one of the recordings, beginnings  *)
(* of videos, or nothing; a pass is at a step of process (main.py:5046).       *)
TypeOK ==
    /\ card \in [Sessions -> [Files -> Bytes]]
    /\ tool \in Tools /\ options \in Options
    /\ pc \in Eyes \cup {"off", "next", "verify", "copy", "again", "normalize",
                         "record", "upload", "done", "stranded"}
    /\ passes \in 0..MaxPasses /\ changes \in 0..MaxChanges
    /\ found \in [Sessions -> Versions \cup {None}]
    /\ todo \subseteq Sessions /\ cur \in Sessions \cup {None}
    /\ left \subseteq Files /\ snapshot \in [Files -> Bytes \cup {None}]
    /\ \A s \in Sessions :
          /\ work[s].outputs \in [Eyes -> Videos \cup {Partial, None}]
          /\ State(s) # None => State(s) \in States
          /\ published[s] # None => published[s].outputs \in [Eyes -> Videos]
    /\ outcome \in [Sessions -> Results \cup {None}]

(* Both eyes are videos of this recording, with one rotation and preset, made  *)
(* by one ffmpeg.                                                              *)
Pair(outputs, manifest, settings, by) ==
    outputs = [e \in Eyes |->
        [eye |-> e, bytes |-> manifest, rotation |-> settings.rotation,
         preset |-> settings.preset, tool |-> by]]

(* Whatever passes were killed or failed, over whatever videos, a state whose  *)
(* digests match the files (main.py:3009-3016) means a pair of videos made     *)
(* from the recording and with the options of its key.                         *)
CacheSound ==
    \A s \in Sessions :
        State(s) # None /\ State(s).outputs = work[s].outputs =>
            LET key == State(s).key IN
            Pair(work[s].outputs, key.manifest, key, State(s).tool)

(* What is published under a manifest are videos of the bytes it declares,     *)
(* made with the options the publication tells, however the card changed       *)
(* between discovery, verification, copy and encoding; where the publication   *)
(* tells the version of ffmpeg, it is the one that made them (main.py:4638).   *)
Faithful ==
    \A s \in Sessions : LET p == published[s] IN p # None =>
        \E by \in IF s \in Versioned THEN {p.tool} ELSE Tools :
            Pair(p.outputs, p.manifest, p.options, by)

(* "One bad session must not strand the rest of the card" (main.py:5341): a    *)
(* pass that was not killed has an answer for every session it found.  Only a  *)
(* file that was opened and cannot be read ends it before (README, 4).         *)
Tried ==
    /\ pc' = "done" => \A s \in Sessions : found'[s] # None => outcome'[s] # None
    /\ pc' = "stranded" =>
           pc = "stranded" \/ \E f \in left : card[cur][f] = "bad"

(* "On a retry, matching objects are retained and only missing or mismatched   *)
(* objects are transferred before the completion manifest is restored"         *)
(* (main.py:4816): no session that is not published yet is refused for what an  *)
(* earlier pass left of it.  Only what no pass can publish is refused: two      *)
(* cameras that were turned (README, 4).                                       *)
RetryPublishes ==
    \A s \in Sessions :
        outcome[s] = "refused" /\ published[s] = None => ~Uncrossed
=============================================================================
