----------------------------- MODULE MediaRender -----------------------------
(***************************************************************************)
(* render_session_video (_media.py): from the segments of two cameras and the *)
(* capture clocks in a verified recording to one video.  Every frame has to be *)
(* shown at the time it was captured, every sample to be heard at its own; the *)
(* encoder is external, and what it made is examined before it is kept.        *)
(*                                                                           *)
(* Times are whole ticks of the capture clock (nanoseconds); times between     *)
(* ticks are fractions <<numerator, denominator>>.  A raw side-by-side video is *)
(* one segment without a frame index.                                         *)
(***************************************************************************)
EXTENDS Integers, Orders, Sequences, SequencesExt

CONSTANTS
    Sources,    \* [segments, count, rows]: of the manifest and the frame index
    Tracks,     \* None or [points, count, begin, end, sync]: of its audio
    Micro,      \* ticks in a microsecond
    Slack,      \* ticks by which a recorded time may be off
    Rate, Period, Buffer,   \* samples: of a second, of the recorder's buffers
    None

Segments == [index : Nat, from : Int, to : Int, left : Nat, right : Nat]
RenderConstants ==
    /\ \A s \in Sources : /\ s.segments \in Seq(Segments) /\ s.count \in Nat
                          /\ s.rows = None \/ s.rows \in Seq(Int)
    /\ \A a \in Tracks \ {None} :
           /\ a.points \in Seq(Int \X Int) /\ a.count \in Nat
           /\ a.begin \in Int /\ a.end \in Int /\ a.sync \in Int
    /\ Micro \in Nat \ {0} /\ Slack \in Nat
    /\ Rate \in Nat /\ Period \in Nat /\ Buffer \in Nat

VARIABLES
    source, track,
    pc,
    hardware,   \* there is an NVIDIA encoder that has not failed yet
    staged,     \* what has been encoded, if anything: sequences of frames
    target      \* the video that is kept, if there is one
vars == <<source, track, pc, hardware, staged, target>>

-----------------------------------------------------------------------------
(* The segments by their indexes; manifests list them in any order.           *)
Listed(q) == {q[i] : i \in DOMAIN q}
Ordered(q) == [i \in DOMAIN q |-> CHOOSE s \in Listed(q) : s.index = i - 1]
Contiguous(q) ==
    /\ q # <<>>
    /\ \A s \in Listed(q) : s.from < s.to
    /\ {s.index : s \in Listed(q)} = 0..Len(q) - 1
    /\ \A i \in 1..Len(q) - 1 : Ordered(q)[i].to = Ordered(q)[i + 1].from

(* The frames an eye's files have in the order of the concat list.  A frame is *)
(* the segment and the place in it where the camera put it.                   *)
Eye(eye) ==
    FlattenSeq([i \in DOMAIN source.segments |->
        LET s == Ordered(source.segments)[i] IN
        [k \in 1..s[eye] |-> <<s.index, k>>]])

(* The frame index in microseconds, if it is complete, strictly increasing, and *)
(* still so in microseconds.                                                  *)
Microseconds(t) == [i \in DOMAIN t |-> (t[i] - t[1] + Micro \div 2) \div Micro]
Rising(t) == \A i \in 1..Len(t) - 1 : t[i] < t[i + 1]
Indexed == source.rows # None
ClockGood(t) ==
    /\ Len(t) = source.count /\ Len(t) >= 2
    /\ \A i \in DOMAIN t : t[i] > 0
    /\ Rising(t) /\ Rising(Microseconds(t))

(* What FFmpeg computes for frame n, counted from 0, out of a lookup that halves *)
(* the frames at each test.                                                   *)
Lookup(values, n) ==
    LET piece[p \in (0..Len(values)) \X (0..Len(values))] ==
            LET mid == (p[1] + p[2]) \div 2 IN
            IF p[2] - p[1] = 1 THEN values[p[1] + 1]
            ELSE IF n < mid THEN piece[<<p[1], mid>>] ELSE piece[<<mid, p[2]>>]
    IN piece[<<0, Len(values)>>]

-----------------------------------------------------------------------------
(* The time of a sample by the clock points around it, or the two at an end.   *)
Between(p, q, n) == <<p[2] * (q[1] - p[1]) + (n - p[1]) * (q[2] - p[2]), q[1] - p[1]>>
SampleTime(points, n) ==
    LET before == Cardinality({i \in DOMAIN points : points[i][1] <= n})
        at == IF before < 1 THEN 1
              ELSE IF before >= Len(points) THEN Len(points) - 1 ELSE before
    IN Between(points[at], points[at + 1], n)

Near(a, b, slack) ==
    LET d == a[1] * b[2] - b[1] * a[2] IN
    d <= slack * a[2] * b[2] /\ -d <= slack * a[2] * b[2]
Tick(t) == <<t, 1>>

(* raw_audio_clock_model and audio_clock_report: the points cover the samples   *)
(* without a gap, and what the recorder computed agrees with them.  How far its *)
(* rate may be off the nominal one is left out: any clock that rises is good.  *)
TrackGood(a) ==
    /\ Len(a.points) >= 2
    /\ \A i \in 1..Len(a.points) - 1 : LET p == a.points[i] q == a.points[i + 1] IN
           p[1] < q[1] /\ p[2] < q[2] /\ q[1] - p[1] <= Rate + Buffer
    /\ a.points[1][1] <= Buffer + Period
    /\ a.count <= Last(a.points)[1] /\ Last(a.points)[1] <= a.count + Buffer
    /\ a.begin >= 0
    /\ Near(Tick(a.begin), SampleTime(a.points, 0), Slack)
    /\ Near(Tick(a.end), SampleTime(a.points, a.count), Slack)
    /\ Near(Tick(a.sync), Tick(a.begin), Slack)

(* The sample timeline given to the renderer, and what FFmpeg computes of it   *)
(* for sample n, from the first one's time on.                                *)
Timeline(a) ==
    LET within == Ascending({i \in DOMAIN a.points :
                                 0 < a.points[i][1] /\ a.points[i][1] < a.count})
    IN <<<<0, a.begin>>>>
       \o [j \in DOMAIN within |-> a.points[within[j]]]
       \o <<<<a.count, a.end>>>>
TimelineGood(l) == \A i \in 1..Len(l) - 1 : l[i][1] < l[i + 1][1] /\ l[i][2] < l[i + 1][2]
Place(l, n) ==
    LET piece[p \in (1..Len(l)) \X (1..Len(l))] ==
            LET mid == (p[1] + p[2]) \div 2 IN
            IF p[2] - p[1] = 1 THEN Between(l[p[1]], l[p[2]], n)
            ELSE IF n < l[mid][1] THEN piece[<<p[1], mid>>] ELSE piece[<<mid, p[2]>>]
        at == piece[<<1, Len(l)>>]
    IN <<at[1] - l[1][2] * at[2], at[2]>>

-----------------------------------------------------------------------------
Init ==
    /\ source \in Sources /\ track \in Tracks
    /\ pc = "plan" /\ hardware \in BOOLEAN
    /\ staged = {} /\ target = {}

Goes(to) == pc' = to /\ UNCHANGED <<source, track>>

(* build_media_plan *)
Plan ==
    /\ pc = "plan"
    /\ Goes(IF /\ Contiguous(source.segments)
               /\ Indexed => ClockGood(source.rows)
               /\ track # None => TrackGood(track)
            THEN "measure" ELSE "failed")
    /\ UNCHANGED <<hardware, staged, target>>

(* _measure_video and the comparison with the frame index *)
Measure ==
    /\ pc = "measure"
    /\ Goes(IF /\ \A s \in Listed(source.segments) : s.left > 0 /\ s.right > 0
               /\ Len(Eye("left")) = Len(Eye("right"))
               /\ Indexed => Len(Eye("left")) = Len(source.rows)
            THEN "encode" ELSE "failed")
    /\ UNCHANGED <<hardware, staged, target>>

(* What FFmpeg is asked for: the eyes are stacked frame by frame, and frame n   *)
(* is put at the microsecond of its row, or in the n-th interval of the rate.   *)
Asked ==
    [n \in DOMAIN Eye("left") |->
        [left |-> Eye("left")[n], right |-> Eye("right")[n],
         at |-> IF Indexed THEN Lookup(Microseconds(source.rows), n - 1)
                           ELSE n - 1]]

(* FFmpeg makes it, or leaves a frame out, or moves one by a microsecond.      *)
Made ==
    {Asked} \cup {RemoveAt(Asked, n) : n \in DOMAIN Asked}
            \cup {[Asked EXCEPT ![n].at = @ + 1] : n \in DOMAIN Asked}

TimelinePossible == track # None => TimelineGood(Timeline(track))

Encode ==
    /\ pc = "encode" /\ TimelinePossible
    /\ \E v \in Made : staged' = {v}
    /\ Goes("check") /\ UNCHANGED <<hardware, target>>

(* The encoder of the graphics card fails: once more without it.              *)
FallBack ==
    /\ pc = "encode" /\ TimelinePossible /\ hardware
    /\ hardware' = FALSE /\ staged' = {}
    /\ Goes("encode") /\ UNCHANGED target

(* Any other error; the private directory and what is in it are removed.       *)
Fail ==
    /\ pc \in {"measure", "encode", "check", "replace"}
    /\ pc = "encode" => ~hardware \/ ~TimelinePossible
    /\ staged' = {} /\ Goes("failed") /\ UNCHANGED <<hardware, target>>

(* Wrong: the frames are only counted. *)
CheckCount ==
    /\ pc = "check" /\ \A v \in staged : Len(v) = Len(Eye("left"))
    /\ Goes("replace") /\ UNCHANGED <<hardware, staged, target>>

(* _validate_media, _validate_frame_pts or a count of the frames              *)
Check ==
    /\ pc = "check"
    /\ \A v \in staged :
           /\ Len(v) = Len(Eye("left"))
           /\ Indexed => [n \in DOMAIN v |-> v[n].at] = Microseconds(source.rows)
    /\ Goes("replace") /\ UNCHANGED <<hardware, staged, target>>

(* os.replace out of the private directory *)
Replace ==
    /\ pc = "replace"
    /\ target' = staged /\ staged' = {}
    /\ Goes("done") /\ UNCHANGED hardware

Next == Plan \/ Measure \/ Encode \/ FallBack \/ Fail \/ Check \/ Replace
Spec == Init /\ [][Next]_vars

-----------------------------------------------------------------------------
TypeOK ==
    /\ source \in Sources /\ track \in Tracks
    /\ pc \in {"plan", "measure", "encode", "check", "replace", "done", "failed"}
    /\ hardware \in BOOLEAN
    /\ pc \in {"check", "replace"} <=> staged # {}
    /\ pc = "done" <=> target # {}

(* Frame g was captured after frame f. *)
Later(f, g) == f[1] < g[1] \/ (f[1] = g[1] /\ f[2] < g[2])

(* Rendering is over when "frame-count verification, and timeline alignment all *)
(* pass" (README.md:303): a video that is kept has every frame of the recording *)
(* in the order of capture, and where there is a frame index, each is shown at  *)
(* the microsecond nearest to its capture, whatever the encoder did with it.   *)
FramesTrue == \A v \in target :
    /\ [n \in DOMAIN v |-> v[n].left] = Eye("left")
    /\ \A n \in DOMAIN v : n > 1 => Later(v[n - 1].left, v[n].left)
    /\ Indexed => \A n \in DOMAIN v :
        LET late == v[n].at * Micro - (source.rows[n] - source.rows[1]) IN
        /\ 2 * late <= Micro /\ -(2 * late) <= Micro
        /\ n > 1 => v[n - 1].at < v[n].at

(* Where every segment has as many frames of either eye, the two halves of a    *)
(* frame were captured together.                                             *)
EyesPaired ==
    (\A s \in Listed(source.segments) : s.left = s.right) =>
        \A v \in target : \A n \in DOMAIN v : v[n].left = v[n].right

(* Every sample of an accepted track is heard within the tolerances of the two  *)
(* recorded times from where the clock points have it: the halving of the      *)
(* timeline, its cut at the first and last sample and the extrapolation agree.  *)
AudioPlaced ==
    (track # None /\ target # {}) => \A n \in 0..track.count :
        LET p == Place(Timeline(track), n) IN
        Near(<<track.sync * p[2] + p[1], p[2]>>, SampleTime(track.points, n), 2 * Slack)

(* Not checked (README, 4): a segment with more frames of one eye and another    *)
(* with more of the other shift the eyes against each other.                  *)
AlwaysPaired ==
    \A v \in target : \A n \in DOMAIN v : v[n].left = v[n].right
=============================================================================
