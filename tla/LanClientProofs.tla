--------------------------- MODULE LanClientProofs ---------------------------
(***************************************************************************)
(* The calls of the LAN client (MCLanClient), for any number of attempts,    *)
(* waiting budget, artifact size, catalog and page size, and whatever the    *)
(* device answers.                                                          *)
(***************************************************************************)
EXTENDS MCLanClient, TLAPS, FiniteSetTheorems, NaturalsInduction

LEMMA Constants ==
    /\ MaxAttempts \in Nat \ {0} /\ MaxWait \in Nat
    /\ Size \in Nat /\ OtherSizes \subseteq Nat /\ Asks \subseteq Nat /\ MaxChanges \in Nat
BY MCLanClientAssumption DEF Download!RetryConstants, Download!DownloadConstants

(* What a retry waits for at least. *)
LEMMA PowerType == \A n \in Nat : 2 ^ n \in Nat
<1> SUFFICES ASSUME NEW n \in Nat PROVE 2 ^ n \in Nat
  OBVIOUS
<1>1. IsFiniteSet(1..n) /\ Cardinality(1..n) = n
  <2>1. 1 \in Int /\ n \in Int
    OBVIOUS
  <2> QED  BY <2>1, FS_Interval
<1>2. IsFiniteSet(SUBSET (1..n)) /\ Cardinality(SUBSET (1..n)) = 2 ^ n
  BY <1>1, FS_SUBSET
<1> QED  BY <1>2, FS_CardinalityType

-----------------------------------------------------------------------------
(* Downloads *)

Versions == Download!Versions
Run(n) == Download!Run("good", n)
Responses == [status : {0, 200, 206}, from : Nat, body : Seq(Versions), etag : Versions]

DownloadType == Download!TypeOK /\ resp \in Responses /\ serving \in Seq(Versions)

(* The file is there while the call works on it, and its own. *)
FileInv ==
    /\ step = "create" => ~mine /\ bytes = IF exists THEN <<"other">> ELSE <<>>
    /\ step \in {"ask", "read", "got", "done"} => exists /\ mine
    /\ step = "failed" => exists = ~mine
    /\ ~mine /\ step # "create" => bytes = <<"other">>

(* What an honest device has sent under the ETag of the manifest. *)
HonestInv ==
    /\ step \in {"ask", "read", "got", "done"} =>
           Len(bytes) <= Size /\ bytes = Run(Len(bytes))
    /\ step = "read" =>
           resp.body = Run(Len(resp.body)) /\ Len(bytes) + Len(resp.body) = Size
    /\ step \in {"got", "done"} => Len(bytes) = Size

DownloadInv ==
    /\ DownloadType /\ FileInv /\ Patient
    /\ call = "download" => HonestInv
    /\ call = "deceived" /\ step = "done" => bytes = Download!Good

LEMMA RunType == \A n \in Nat : Run(n) \in Seq(Versions) /\ Len(Run(n)) = n
BY DEF Run, Download!Run, Versions, Download!Versions

LEMMA RunGrows ==
    ASSUME NEW n \in Nat
    PROVE  /\ Append(Run(n), "good") = Run(n + 1)
           /\ n > 0 => Head(Run(n)) = "good" /\ Tail(Run(n)) = Run(n - 1)
           /\ \A m \in 0..n : SubSeq(Run(n), m + 1, n) = Run(n - m)
           /\ SubSeq(Run(n), 1, n) = Run(n)
BY DEF Run, Download!Run

LEMMA DownloadInit == Init => DownloadInv
<1> SUFFICES ASSUME Init PROVE DownloadInv
  OBVIOUS
<1>0. /\ step = "create" /\ exists \in BOOLEAN /\ mine = FALSE
      /\ bytes = IF exists THEN <<"other">> ELSE <<>>
      /\ resp = Download!NoResponse /\ failed = 0 /\ slept = 0 /\ notBefore = 0
      /\ serving = Download!Good /\ changes = 0
  BY DEF Init, Download!Init
<1>1. DownloadType
  <2>1. bytes \in Seq(Versions)
    <3>1. <<>> \in Seq(Versions) /\ <<"other">> \in Seq(Versions)
      BY DEF Versions, Download!Versions
    <3> QED  BY <1>0, <3>1
  <2>2. serving \in Seq(Versions)
    BY <1>0, RunType, Constants DEF Download!Good, Run
  <2>3. resp \in Responses
    BY <1>0 DEF Download!NoResponse, Responses, Versions, Download!Versions
  <2>4. failed \in Download!Attempts
    BY <1>0, Constants DEF Download!Attempts
  <2>5. changes \in 0..MaxChanges
    BY <1>0, Constants
  <2> QED
    BY <1>0, <2>1, <2>2, <2>3, <2>4, <2>5 DEF DownloadType, Download!TypeOK, Versions
<1>2. FileInv /\ Patient /\ HonestInv
  BY <1>0, Constants DEF FileInv, Patient, HonestInv, Download!NeverEarly, Download!InBudget
<1>3. call \in {"download", "deceived", "delete", "answered", "list"}
  BY DEF Init
<1> QED  BY <1>0, <1>1, <1>2, <1>3 DEF DownloadInv
LEMMA DelayType ==
    \A a \in Nat, asked \in Nat :
        Download!Delay(a, asked) \in Nat /\ Download!Delay(a, asked) >= asked
BY PowerType DEF Download!Delay

(* Asking again, or giving up: no other way out of a failed attempt. *)
LEMMA RetryStep ==
    ASSUME DownloadType, Patient, exists, mine, NEW asked \in Nat, Download!Retry(asked)
    PROVE  /\ failed' \in Download!Attempts /\ slept' \in Nat /\ notBefore' \in Nat
           /\ Patient' /\ UNCHANGED <<mine, bytes>>
           /\ \/ step' = "ask" /\ exists'
              \/ step' = "failed" /\ exists' = FALSE
<1> DEFINE delay == Download!Delay(failed, asked)
<1>1. failed \in Download!Attempts /\ failed \in Nat /\ slept \in Nat /\ notBefore \in Nat
  BY Constants DEF DownloadType, Download!TypeOK, Download!Attempts
<1>2. delay \in Nat /\ delay >= asked
  BY <1>1, DelayType
<1>3. CASE Download!MayRetry(failed, slept, asked)
  <2>1. /\ step' = "ask" /\ failed' = failed + 1 /\ slept' = slept + delay
        /\ notBefore' = slept + asked /\ UNCHANGED <<exists, mine, bytes>>
    BY <1>3 DEF Download!Retry, Download!file
  <2>2. failed < MaxAttempts - 1 /\ slept + delay <= MaxWait
    BY <1>3 DEF Download!MayRetry
  <2> HIDE DEF delay
  <2>3. failed' \in Download!Attempts /\ slept' \in Nat /\ notBefore' \in Nat
    BY <1>1, <1>2, <2>1, <2>2, Constants DEF Download!Attempts
  <2>4. Patient'
    BY <1>1, <1>2, <2>1, <2>2, Constants
       DEF Patient, Download!NeverEarly, Download!InBudget
  <2> QED  BY <2>1, <2>3, <2>4
<1>4. CASE ~Download!MayRetry(failed, slept, asked)
  <2>1. /\ step' = "failed" /\ exists' = FALSE
        /\ UNCHANGED <<mine, bytes, failed, slept, notBefore>>
    BY <1>4 DEF Download!Retry, Download!Give, Download!retry
  <2> QED
    BY <1>1, <2>1 DEF Patient, Download!NeverEarly, Download!InBudget
<1> QED  BY <1>3, <1>4

(* What no answer of the device is involved in; nothing of it depends on what  *)
(* the device may do, or on who checks the digest.                            *)
Common ==
    \/ Download!Create \/ Download!AlreadyThere \/ Download!Rejected
    \/ \E asked \in Asks \cup {0} : Download!Refused(asked)
    \/ Download!Chunk \/ Download!Cut \/ Download!Finish \/ Download!DiskFails
    \/ Download!Change

LEMMA ChunkStep ==
    ASSUME DownloadType, Download!Chunk
    PROVE  /\ bytes' \in Seq(Versions) /\ resp' \in Responses
           /\ resp.body # <<>> /\ Len(resp.body) \in Nat
           /\ bytes' = Append(bytes, Head(resp.body)) /\ resp'.body = Tail(resp.body)
           /\ Len(bytes') = Len(bytes) + 1 /\ Len(resp'.body) = Len(resp.body) - 1
<1>1. bytes \in Seq(Versions) /\ resp \in Responses /\ resp.body \in Seq(Versions)
  BY DEF DownloadType, Download!TypeOK, Versions, Responses
<1>2. /\ resp.body # <<>> /\ bytes' = Append(bytes, Head(resp.body))
      /\ resp' = [resp EXCEPT !.body = Tail(@)]
  BY DEF Download!Chunk
<1> DEFINE rest == resp.body
<1>3. Head(rest) \in Versions /\ Tail(rest) \in Seq(Versions) /\ Len(Tail(rest)) = Len(rest) - 1
  BY <1>1, <1>2
<1>4. resp' \in Responses /\ resp'.body = Tail(rest)
  BY <1>1, <1>2, <1>3 DEF Responses
<1> QED  BY <1>1, <1>2, <1>3, <1>4

LEMMA CommonStep ==
    ASSUME DownloadType, FileInv, Patient, Common
    PROVE  /\ DownloadType' /\ FileInv' /\ Patient'
           /\ step' = "done" => step = "done" /\ UNCHANGED bytes
<1>0. /\ step \in {"create", "ask", "read", "got", "done", "failed"}
      /\ exists \in BOOLEAN /\ mine \in BOOLEAN /\ bytes \in Seq(Versions)
      /\ failed \in Download!Attempts /\ slept \in Nat /\ notBefore \in Nat
      /\ changes \in 0..MaxChanges /\ resp \in Responses /\ serving \in Seq(Versions)
  BY DEF DownloadType, Download!TypeOK, Versions
<1> DEFINE Kept == UNCHANGED <<failed, slept, notBefore>>
<1>1. ASSUME Kept PROVE
         /\ Patient' /\ failed' \in Download!Attempts /\ slept' \in Nat /\ notBefore' \in Nat
  BY <1>0, <1>1 DEF Patient, Download!NeverEarly, Download!InBudget, Download!Attempts
<1>2. ASSUME step' \in {"create", "ask", "read", "got", "done", "failed"},
             exists' \in BOOLEAN, mine' \in BOOLEAN, bytes' \in Seq(Versions),
             failed' \in Download!Attempts, slept' \in Nat, notBefore' \in Nat,
             changes' \in 0..MaxChanges, resp' \in Responses, serving' \in Seq(Versions)
      PROVE  DownloadType'
  BY <1>2 DEF DownloadType, Download!TypeOK, Versions, Download!Attempts
<1> HIDE DEF Kept
<1>3. CASE Download!Create
  <2>1. /\ Kept /\ UNCHANGED <<resp, serving, changes, bytes>> /\ step = "create"
        /\ IF exists THEN step' = "failed" /\ UNCHANGED <<exists, mine>>
           ELSE step' = "ask" /\ exists' = TRUE /\ mine' = TRUE
    BY <1>3 DEF Download!Create, Download!retry, Download!device, Download!file, Kept
  <2>2. DownloadType'
    BY <1>0, <1>1, <1>2, <2>1
  <2>3. FileInv' /\ step' # "done"
    BY <1>0, <2>1 DEF FileInv
  <2> QED  BY <1>1, <2>1, <2>2, <2>3
<1>4. CASE Download!AlreadyThere \/ Download!Finish
  <2>1. /\ Kept /\ UNCHANGED <<exists, mine, bytes, resp, serving, changes>>
        /\ step' = "got" /\ step \in {"ask", "read"}
    BY <1>4 DEF Download!AlreadyThere, Download!Finish, Download!retry, Download!device,
       Download!file, Kept
  <2>2. DownloadType'
    BY <1>0, <1>1, <1>2, <2>1
  <2>3. FileInv' /\ step' # "done"
    BY <1>0, <2>1 DEF FileInv
  <2> QED  BY <1>1, <2>1, <2>2, <2>3
<1>5. CASE Download!Rejected \/ Download!DiskFails
  <2>1. /\ Kept /\ UNCHANGED <<mine, bytes, resp, serving, changes>> /\ exists' = FALSE
        /\ step' = "failed" /\ step \in {"ask", "read", "got"}
    BY <1>5 DEF Download!Rejected, Download!DiskFails, Download!Asking, Download!Give,
       Download!retry, Download!device, Kept
  <2>2. DownloadType'
    BY <1>0, <1>1, <1>2, <2>1
  <2>3. FileInv' /\ step' # "done"
    BY <1>0, <2>1 DEF FileInv
  <2> QED  BY <1>1, <2>1, <2>2, <2>3
<1>6. CASE Download!Cut \/ \E asked \in Asks \cup {0} : Download!Refused(asked)
  <2>1. PICK asked \in Nat : Download!Retry(asked)
    BY <1>6, Constants DEF Download!Cut, Download!Refused
  <2>2. step \in {"ask", "read"} /\ UNCHANGED <<resp, serving, changes>>
    BY <1>6 DEF Download!Cut, Download!Refused, Download!Asking, Download!device
  <2>3. exists /\ mine
    BY <2>2 DEF FileInv
  <2>4. /\ failed' \in Download!Attempts /\ slept' \in Nat /\ notBefore' \in Nat
        /\ Patient' /\ UNCHANGED <<mine, bytes>>
        /\ \/ step' = "ask" /\ exists'
           \/ step' = "failed" /\ exists' = FALSE
    BY <2>1, <2>3, RetryStep
  <2>5. DownloadType'
    BY <1>0, <1>2, <2>2, <2>4, <2>3
  <2>6. FileInv' /\ step' # "done"
    BY <1>0, <2>2, <2>3, <2>4 DEF FileInv
  <2> QED  BY <2>4, <2>5, <2>6
<1>7. CASE Download!Chunk
  <2>1. /\ Kept /\ UNCHANGED <<step, exists, mine, serving, changes>> /\ step = "read"
    BY <1>7 DEF Download!Chunk, Download!retry, Download!device, Kept
  <2>2. DownloadType'
    BY <1>0, <1>1, <1>2, <1>7, <2>1, ChunkStep
  <2>3. FileInv' /\ step' # "done"
    BY <1>0, <2>1 DEF FileInv
  <2> QED  BY <1>1, <2>1, <2>2, <2>3
<1>8. CASE Download!Change
  <2>1. /\ Kept /\ UNCHANGED <<step, exists, mine, bytes, resp>>
        /\ changes < MaxChanges /\ changes' = changes + 1
        /\ serving' \in {Download!Good} \cup {Download!Run("other", n) : n \in OtherSizes}
    BY <1>8 DEF Download!Change, Download!retry, Download!file, Kept
  <2>2. serving' \in Seq(Versions)
    BY <2>1, Constants DEF Download!Good, Download!Run, Versions, Download!Versions
  <2>3. DownloadType'
    BY <1>0, <1>1, <1>2, <2>1, <2>2, Constants
  <2>4. FileInv'
    BY <2>1 DEF FileInv
  <2> QED  BY <1>1, <2>1, <2>3, <2>4
<1> QED  BY <1>3, <1>4, <1>5, <1>6, <1>7, <1>8 DEF Common

LEMMA AnswersType ==
    ASSUME DownloadType
    PROVE  Download!Answers(Len(bytes)) \cup Deceived!Answers(Len(bytes)) \subseteq Responses
<1> DEFINE n == Len(bytes)
<1>1. n \in Nat /\ serving \in Seq(Versions) /\ Len(serving) \in Nat
  BY DEF DownloadType, Download!TypeOK, Versions
<1>2. \A m \in Nat : SubSeq(serving, m + 1, Len(serving)) \in Seq(Versions)
  BY <1>1
<1>3. Download!VersionOf(serving) \in Versions /\ "good" \in Versions
  BY DEF Download!VersionOf, Versions, Download!Versions
<1> HIDE DEF n
<1>4. \A m \in Nat : Download!Rest(m, serving) \in Responses
  BY <1>1, <1>2, <1>3 DEF Download!Rest, Responses
<1>5. Download!Whole(serving) \in Responses
  BY <1>1, <1>3 DEF Download!Whole, Responses
<1>6. Download!Answers(n) \subseteq Responses
  BY <1>1, <1>4, <1>5 DEF Download!Answers, Download!Deceptions
<1>7. \A r \in Responses : [r EXCEPT !.etag = "good"] \in Responses
  BY <1>3 DEF Responses
<1>8. Deceived!Deceptions(n) \subseteq Responses
  <2>1. Deceived!Deceptions(n) = {[r EXCEPT !.etag = "good"] :
            r \in {Download!Whole(serving), Download!Rest(n, serving), Download!Rest(0, serving)}}
    BY DEF Deceived!Deceptions, Deceived!Whole, Deceived!Rest, Download!Whole, Download!Rest,
       Deceived!VersionOf, Download!VersionOf, Deceived!Good, Download!Good, Deceived!Run,
       Download!Run
  <2> QED  BY <1>1, <1>4, <1>5, <1>7, <2>1
<1>9. Deceived!Answers(n) \subseteq Download!Answers(n) \cup Deceived!Deceptions(n)
  BY DEF Deceived!Answers, Download!Answers, Deceived!Whole, Deceived!Rest, Download!Whole,
     Download!Rest, Deceived!VersionOf, Download!VersionOf, Deceived!Good, Download!Good,
     Deceived!Run, Download!Run
<1> QED  BY <1>6, <1>8, <1>9 DEF n

(* What is kept of the file depends on the status and the range alone. *)
LEMMA AnsweredStep ==
    ASSUME DownloadType, FileInv, Patient, NEW r \in Responses, Download!Answered(r)
    PROVE  DownloadType' /\ FileInv' /\ Patient' /\ step' \in {"read", "failed"}
<1> DEFINE n == IF r.status = 206 THEN Len(bytes) ELSE 0
<1>0. /\ exists \in BOOLEAN /\ mine \in BOOLEAN /\ bytes \in Seq(Versions)
      /\ resp \in Responses /\ step = "ask" /\ exists /\ mine
  BY DEF DownloadType, Download!TypeOK, Versions, Download!Answered, Download!Asking, FileInv
<1>1. UNCHANGED <<failed, slept, notBefore, serving, changes>>
  BY DEF Download!Answered, Download!retry, Download!device
<1>2. \/ /\ step' = "read" /\ resp' = r /\ UNCHANGED <<exists, mine>>
         /\ bytes' = SubSeq(bytes, 1, n)
      \/ /\ step' = "failed" /\ exists' = FALSE /\ UNCHANGED <<resp, mine, bytes>>
  BY DEF Download!Answered, Download!Accept, Download!Give
<1>3. SubSeq(bytes, 1, n) \in Seq(Versions)
  BY <1>0
<1> HIDE DEF n
<1>4. bytes' \in Seq(Versions) /\ resp' \in Responses /\ mine' \in BOOLEAN
      /\ exists' \in BOOLEAN /\ step' \in {"read", "failed"}
  BY <1>0, <1>2, <1>3
<1>5. DownloadType'
  BY <1>1, <1>4 DEF DownloadType, Download!TypeOK, Versions, Download!Attempts
<1>6. FileInv'
  BY <1>0, <1>2 DEF FileInv
<1>7. Patient'
  BY <1>1 DEF Patient, Download!NeverEarly, Download!InBudget
<1> QED  BY <1>4, <1>5, <1>6, <1>7

LEMMA CloseStep ==
    ASSUME DownloadType, FileInv, Patient, Download!Close \/ Deceived!Close
    PROVE  /\ DownloadType' /\ FileInv' /\ Patient' /\ UNCHANGED bytes
           /\ step = "got" /\ step' \in {"done", "failed"}
           /\ Deceived!Close /\ step' = "done" => bytes' = Download!Good
<1>1. /\ step = "got" /\ UNCHANGED <<resp, failed, slept, notBefore, serving, changes>>
      /\ UNCHANGED <<mine, bytes>>
      /\ \/ step' = "done" /\ UNCHANGED exists
         \/ step' = "failed" /\ exists' = FALSE
  BY DEF Download!Close, Deceived!Close, Download!Give, Deceived!Give, Download!retry,
     Deceived!retry, Download!device, Deceived!device, Download!file, Deceived!file
<1>2. exists /\ mine
  BY <1>1 DEF FileInv
<1>3. DownloadType'
  BY <1>1, <1>2 DEF DownloadType, Download!TypeOK, Versions, Download!Attempts
<1>4. FileInv'
  BY <1>1, <1>2 DEF FileInv
<1>5. Patient'
  BY <1>1 DEF Patient, Download!NeverEarly, Download!InBudget
<1>6. Deceived!Close /\ step' = "done" => bytes' = Download!Good
  BY <1>1 DEF Deceived!Close, Deceived!Give, Deceived!Good, Download!Good, Deceived!Run,
     Download!Run
<1> QED  BY <1>1, <1>3, <1>4, <1>5, <1>6

-----------------------------------------------------------------------------
(* The honest device *)

(* Under the ETag of the manifest an honest device sends what the manifest     *)
(* names, from the place it says.                                            *)
LEMMA HonestAnswer ==
    ASSUME DownloadType, HonestInv, step = "ask",
           NEW r \in Download!Answers(Len(bytes)), Download!Answered(r)
    PROVE  HonestInv'
<1> DEFINE n == IF r.status = 206 THEN Len(bytes) ELSE 0
<1>0. bytes \in Seq(Versions) /\ Len(bytes) \in Nat /\ Len(bytes) <= Size
      /\ bytes = Run(Len(bytes)) /\ Size \in Nat
  BY Constants DEF DownloadType, Download!TypeOK, Versions, HonestInv
<1>1. CASE step' = "failed"
  BY <1>1 DEF HonestInv
<1>2. CASE step' # "failed"
  <2>1. /\ step' = "read" /\ resp' = r /\ bytes' = SubSeq(bytes, 1, n)
        /\ r.etag = "good" /\ n + Len(r.body) = Size
    BY <1>2 DEF Download!Answered, Download!Accept, Download!Give
  <2>2. CASE r = Download!Whole(serving)
    <3>1. r.status = 200 /\ r.body = serving /\ r.etag = Download!VersionOf(serving)
      BY <2>2 DEF Download!Whole
    <3>2. r.body = Run(Size) /\ n = 0
      BY <2>1, <3>1 DEF Download!VersionOf, Download!Good, Run
    <3>3. bytes' = Run(0)
      BY <1>0, <2>1, <3>2 DEF Run, Download!Run
    <3>4. Len(bytes') = 0 /\ Len(resp'.body) = Size
      BY <1>0, <2>1, <3>2, <3>3, RunType
    <3> QED  BY <1>0, <2>1, <3>2, <3>3, <3>4 DEF HonestInv
  <2>3. CASE r = Download!Rest(Len(bytes), serving) /\ serving = Download!Good
    <3>1. r.status = 206 /\ r.body = SubSeq(serving, Len(bytes) + 1, Len(serving))
      BY <2>3 DEF Download!Rest
    <3>2. serving = Run(Size) /\ Len(serving) = Size
      BY <1>0, <2>3, RunType DEF Download!Good, Run
    <3> DEFINE k == Len(bytes)
    <3>3. k \in 0..Size /\ Size - k \in Nat
      BY <1>0
    <3>4. r.body = SubSeq(Run(Size), k + 1, Size) /\ bytes' = SubSeq(Run(k), 1, k)
      BY <1>0, <2>1, <3>1, <3>2
    <3>5. bytes' = bytes
      BY <1>0, <3>4, RunGrows
    <3> HIDE DEF k
    <3>6. r.body = Run(Size - k)
      BY <1>0, <3>3, <3>4, RunGrows
    <3>7. Len(r.body) = Size - k
      BY <3>3, <3>6, RunType
    <3>8. Len(bytes') = k /\ k + (Size - k) = Size
      BY <1>0, <3>5 DEF k
    <3>9. resp'.body = Run(Len(resp'.body)) /\ Len(bytes') + Len(resp'.body) = Size
      BY <2>1, <3>6, <3>7, <3>8
    <3> QED  BY <1>0, <2>1, <3>5, <3>9 DEF HonestInv
  <2> QED  BY <2>2, <2>3 DEF Download!Answers, Download!Deceptions
<1> QED  BY <1>1, <1>2

LEMMA HonestStep ==
    ASSUME DownloadType, FileInv, Patient, HonestInv, Common
    PROVE  HonestInv'
<1>0. bytes \in Seq(Versions) /\ Len(bytes) \in Nat /\ resp \in Responses /\ Size \in Nat
  BY Constants DEF DownloadType, Download!TypeOK, Versions
<1>1. CASE Download!Create
  <2>1. UNCHANGED bytes /\ step = "create" /\ (step' = "ask" => ~exists) /\ step' \in {"ask", "failed"}
    BY <1>1 DEF Download!Create, Download!file
  <2>2. step' = "ask" => bytes' = <<>>
    BY <2>1 DEF FileInv
  <2>3. <<>> = Run(0) /\ Len(<<>>) = 0
    BY DEF Run, Download!Run
  <2> QED  BY <1>0, <2>1, <2>2, <2>3 DEF HonestInv
<1>2. CASE Download!AlreadyThere \/ Download!Finish
  <2>1. /\ UNCHANGED bytes /\ step' = "got" /\ step \in {"ask", "read"} /\ Len(bytes) = Size
    BY <1>2 DEF Download!AlreadyThere, Download!Finish, Download!file
  <2> QED  BY <1>0, <2>1 DEF HonestInv
<1>3. CASE Download!Rejected \/ Download!DiskFails
  <2>1. step' = "failed"
    BY <1>3 DEF Download!Rejected, Download!DiskFails, Download!Give
  <2> QED  BY <2>1 DEF HonestInv
<1>4. CASE Download!Cut \/ \E asked \in Asks \cup {0} : Download!Refused(asked)
  <2>1. step \in {"ask", "read"} /\ UNCHANGED bytes /\ step' \in {"ask", "failed"}
    BY <1>4 DEF Download!Cut, Download!Refused, Download!Asking, Download!Retry, Download!Give,
       Download!file
  <2> QED  BY <2>1 DEF HonestInv
<1>5. CASE Download!Chunk
  <2>1. UNCHANGED step /\ step = "read"
    BY <1>5 DEF Download!Chunk
  <2> DEFINE b == Len(bytes)  c == Len(resp.body)
  <2>2. /\ c \in Nat /\ c # 0 /\ bytes = Run(b) /\ resp.body = Run(c) /\ b + c = Size
        /\ bytes' = Append(bytes, Head(resp.body)) /\ resp'.body = Tail(resp.body)
        /\ Len(bytes') = b + 1 /\ Len(resp'.body) = c - 1
    <3>1. c \in Nat /\ (c = 0 => resp.body = <<>>)
      BY <1>0 DEF Responses
    <3> QED  BY <1>5, <2>1, <3>1, ChunkStep DEF HonestInv
  <2> HIDE DEF b, c
  <2>3. b \in Nat
    BY <1>0 DEF b
  <2>4. Head(resp.body) = "good" /\ resp'.body = Run(c - 1)
    BY <2>2, RunGrows
  <2>5. bytes' = Run(b + 1)
    BY <2>2, <2>3, <2>4, RunGrows
  <2>6. bytes' = Run(Len(bytes')) /\ resp'.body = Run(Len(resp'.body))
    BY <2>2, <2>4, <2>5
  <2>7. Len(bytes') <= Size /\ Len(bytes') + Len(resp'.body) = Size
    <3>1. c \in Nat /\ c # 0 /\ b \in Nat /\ b + c = Size
      BY <2>2, <2>3
    <3>2. b + 1 <= Size /\ (b + 1) + (c - 1) = Size
      BY ONLY <3>1
    <3> QED  BY <2>2, <3>2
  <2> QED  BY <2>1, <2>6, <2>7 DEF HonestInv
<1>6. CASE Download!Change
  <2>1. UNCHANGED <<step, bytes, resp>>
    BY <1>6 DEF Download!Change, Download!file
  <2> QED  BY <2>1 DEF HonestInv
<1> QED  BY <1>1, <1>2, <1>3, <1>4, <1>5, <1>6 DEF Common

(* The client does the same with a device that lies, but for the digest. *)
LEMMA DeceivedSteps ==
    ASSUME Deceived!Client \/ Deceived!Change
    PROVE  \/ Common \/ Deceived!Close
           \/ \E r \in Deceived!Answers(Len(bytes)) : Download!Answered(r)
<1>1. Deceived!Create \/ Deceived!AlreadyThere \/ Deceived!Rejected
          => Download!Create \/ Download!AlreadyThere \/ Download!Rejected
  BY DEF Deceived!Create, Download!Create, Deceived!AlreadyThere,
     Download!AlreadyThere, Deceived!Rejected, Download!Rejected, Deceived!Asking,
     Download!Asking, Deceived!Give, Download!Give, Deceived!file, Download!file,
     Deceived!retry, Download!retry, Deceived!device, Download!device
<1>2. Deceived!Chunk => Download!Chunk
  BY DEF Deceived!Chunk, Download!Chunk, Deceived!retry, Download!retry,
     Deceived!device, Download!device
<1>3. Deceived!Finish \/ Deceived!DiskFails => Download!Finish \/ Download!DiskFails
  BY DEF Deceived!Finish, Download!Finish, Deceived!DiskFails, Download!DiskFails,
     Deceived!Give, Download!Give, Deceived!file, Download!file, Deceived!retry,
     Download!retry, Deceived!device, Download!device
<1>4. Deceived!Cut => Download!Cut
  BY DEF Deceived!Cut, Download!Cut, Deceived!Retry, Download!Retry,
     Deceived!MayRetry, Download!MayRetry, Deceived!Delay, Download!Delay,
     Deceived!Give, Download!Give, Deceived!file, Download!file, Deceived!retry,
     Download!retry, Deceived!device, Download!device
<1>5. ASSUME NEW asked, Deceived!Refused(asked) PROVE Download!Refused(asked)
  BY <1>5 DEF Deceived!Refused, Download!Refused, Deceived!Asking, Download!Asking,
     Deceived!Retry, Download!Retry, Deceived!MayRetry, Download!MayRetry,
     Deceived!Delay, Download!Delay, Deceived!Give, Download!Give, Deceived!file,
     Download!file, Deceived!retry, Download!retry, Deceived!device, Download!device
<1>6. Deceived!Change => Download!Change
  BY DEF Deceived!Change, Download!Change, Deceived!Good, Download!Good,
     Deceived!Run, Download!Run, Deceived!file, Download!file, Deceived!retry,
     Download!retry
<1>7. ASSUME NEW r, Deceived!Answered(r) PROVE Download!Answered(r)
  BY <1>7 DEF Deceived!Answered, Download!Answered, Deceived!Accept, Download!Accept,
     Deceived!Asking, Download!Asking, Deceived!Give, Download!Give, Deceived!retry,
     Download!retry, Deceived!device, Download!device
<1> QED  BY <1>1, <1>2, <1>3, <1>4, <1>5, <1>6, <1>7 DEF Deceived!Client, Common

LEMMA DownloadNext == DownloadInv /\ [Next]_vars => DownloadInv'
<1> SUFFICES ASSUME DownloadInv, [Next]_vars PROVE DownloadInv'
  OBVIOUS
<1>0. DownloadType /\ FileInv /\ Patient
  BY DEF DownloadInv
<1>1. CASE UNCHANGED <<call, downloadVars>>
  <2>1. UNCHANGED <<call, step, exists, mine, bytes, resp, failed, slept, notBefore,
                    serving, changes>>
    BY <1>1 DEF downloadVars
  <2>2. DownloadType' /\ FileInv' /\ Patient' /\ UNCHANGED HonestInv
    BY <1>0, <2>1 DEF DownloadType, FileInv, Patient, HonestInv, Download!TypeOK,
       Download!NeverEarly, Download!InBudget, Download!Attempts
  <2> QED  BY <2>1, <2>2 DEF DownloadInv
<1>2. CASE call \in {"download", "deceived"} /\ UNCHANGED call /\ Common
  <2>1. /\ DownloadType' /\ FileInv' /\ Patient'
        /\ step' = "done" => step = "done" /\ UNCHANGED bytes
    BY <1>0, <1>2, CommonStep
  <2>2. call = "download" => HonestInv'
    BY <1>0, <1>2, HonestStep DEF DownloadInv
  <2>3. Download!Good' = Download!Good
    BY DEF Download!Good, Download!Run
  <2> QED  BY <1>2, <2>1, <2>2, <2>3 DEF DownloadInv
<1>3. CASE \E r \in Responses : UNCHANGED call /\ Download!Answered(r)
             /\ (call = "download" => r \in Download!Answers(Len(bytes)))
  <2>1. PICK r \in Responses : UNCHANGED call /\ Download!Answered(r)
             /\ (call = "download" => r \in Download!Answers(Len(bytes)))
    BY <1>3
  <2>2. DownloadType' /\ FileInv' /\ Patient' /\ step' \in {"read", "failed"}
    BY <1>0, <2>1, AnsweredStep
  <2>3. step = "ask"
    BY <2>1 DEF Download!Answered, Download!Asking
  <2>4. call = "download" => HonestInv'
    BY <1>0, <2>1, <2>3, HonestAnswer DEF DownloadInv
  <2> QED  BY <2>1, <2>2, <2>4 DEF DownloadInv
<1>4. CASE /\ UNCHANGED call
           /\ \/ call = "download" /\ Download!Close
              \/ call = "deceived" /\ Deceived!Close
  <2>1. /\ DownloadType' /\ FileInv' /\ Patient' /\ UNCHANGED bytes
        /\ step = "got" /\ step' \in {"done", "failed"}
        /\ Deceived!Close /\ step' = "done" => bytes' = Download!Good
    BY <1>0, <1>4, CloseStep
  <2>2. call = "download" => HonestInv'
    BY <2>1 DEF DownloadInv, HonestInv
  <2>3. Download!Good' = Download!Good
    BY DEF Download!Good, Download!Run
  <2> QED  BY <1>4, <2>1, <2>2, <2>3 DEF DownloadInv
<1>5. CASE /\ call = "download" /\ UNCHANGED call
           /\ Download!Client \/ Download!Change
  <2>1. Common \/ Download!Close \/ \E r \in Download!Answers(Len(bytes)) : Download!Answered(r)
    BY <1>5 DEF Download!Client, Common
  <2> QED  BY <1>0, <1>2, <1>3, <1>4, <1>5, <2>1, AnswersType
<1>6. CASE /\ call = "deceived" /\ UNCHANGED call
           /\ Deceived!Client \/ Deceived!Change
  <2>1. CASE Deceived!Close
    BY <1>4, <1>6, <2>1
  <2>2. CASE ~Deceived!Close
    <3>1. \/ Common
          \/ \E r \in Deceived!Answers(Len(bytes)) : Download!Answered(r)
      BY <1>6, <2>2, DeceivedSteps
    <3> QED  BY <1>0, <1>2, <1>3, <1>6, <3>1, AnswersType
  <2> QED  BY <2>1, <2>2
<1> QED
  BY <1>1, <1>5, <1>6
     DEF Next, Client, OnlyDownload, OnlyDelete, OnlyList, vars

(* No request is sent before the time the device asked for, and the waits of   *)
(* one call stay within its budget together, whatever delays the device asks   *)
(* for and however the attempts fail (_retry_request, _lan.py).               *)
THEOREM RetriesPatient == Spec => []Patient
<1>1. DownloadInv => Patient
  BY DEF DownloadInv
<1> QED
  BY DownloadInit, DownloadNext, <1>1, PTL DEF Spec

(* A download that returns leaves the whole artifact, one that fails leaves    *)
(* nothing of its own and what was there before it (_download_artifact).  With *)
(* a device that keeps its word the file is a prefix of the artifact all along; *)
(* with one that lies the digest is what the result rests on.                 *)
THEOREM DownloadsWhole == Spec => []Downloads
<1>1. DownloadInv => Downloads
  <2> SUFFICES ASSUME DownloadInv PROVE Downloads
    OBVIOUS
  <2>1. Download!TypeOK /\ FileInv
    BY DEF DownloadInv, DownloadType
  <2>2. ASSUME call = "download" PROVE Download!OneVersion /\ Download!Settled
    <3>1. HonestInv
      BY <2>2 DEF DownloadInv
    <3>2. mine /\ exists => step \in {"ask", "read", "got", "done"}
      BY <2>1 DEF FileInv, Download!TypeOK
    <3>3. Download!OneVersion
      BY <3>1, <3>2 DEF HonestInv, Download!OneVersion, Run
    <3>4. Download!Settled
      BY <2>1, <3>1 DEF HonestInv, FileInv, Download!Settled, Download!Good, Run
    <3> QED  BY <3>3, <3>4
  <2>3. call = "deceived" => Deceived!Settled
    BY <2>1 DEF DownloadInv, FileInv, Deceived!Settled, Deceived!Good, Download!Good,
       Deceived!Run, Download!Run
  <2> QED  BY <2>1, <2>2, <2>3 DEF Downloads
<1> QED
  BY DownloadInit, DownloadNext, <1>1, PTL DEF Spec

-----------------------------------------------------------------------------
(* Sequences in an order *)

Listed(s) == {s[i] : i \in DOMAIN s}

(* R orders the elements of S one after the other. *)
Ranks(R, S) ==
    /\ \A a \in S : <<a, a>> \notin R
    /\ \A a, b, d \in S : <<a, b>> \in R /\ <<b, d>> \in R => <<a, d>> \in R
    /\ \A a, b \in S : a = b \/ <<a, b>> \in R \/ <<b, a>> \in R
Lines(q, n, R, S) ==
    /\ q \in [1..n -> S]
    /\ \A i, j \in 1..n : i < j => <<q[i], q[j]>> \in R

(* A finite set can be put in any such order: each element at one more than    *)
(* the number of those before it.                                             *)
LEMMA Sortable ==
    ASSUME NEW S, IsFiniteSet(S), NEW R, Ranks(R, S)
    PROVE  \E q : Lines(q, Cardinality(S), R, S)
<1> DEFINE n == Cardinality(S)
           Below(a) == {b \in S : <<b, a>> \in R}
           rank == [a \in S |-> Cardinality(Below(a)) + 1]
<1>1. n \in Nat  BY FS_CardinalityType
<1>2. \A a \in S : IsFiniteSet(Below(a)) /\ Cardinality(Below(a)) \in Nat
  <2> TAKE a \in S
  <2>1. IsFiniteSet(Below(a))  BY FS_Subset
  <2> QED  BY <2>1, FS_CardinalityType
<1>3. ASSUME NEW a \in S, NEW b \in S, <<a, b>> \in R
      PROVE  rank[a] < rank[b]
  <2>1. a \notin Below(a)  BY DEF Ranks
  <2>2. Below(a) \cup {a} \subseteq Below(b)  BY <1>3 DEF Ranks
  <2>3. /\ Cardinality(Below(a) \cup {a}) = Cardinality(Below(a)) + 1
        /\ IsFiniteSet(Below(a) \cup {a})
    <3> HIDE DEF Below
    <3> QED  BY <1>2, <2>1, FS_AddElement
  <2>4. Cardinality(Below(a) \cup {a}) <= Cardinality(Below(b))
    <3> HIDE DEF Below
    <3> QED  BY <1>2, <2>2, FS_Subset
  <2>5. rank[a] = Cardinality(Below(a)) + 1 /\ rank[b] = Cardinality(Below(b)) + 1
    OBVIOUS
  <2> HIDE DEF rank, Below
  <2> QED  BY <1>2, <2>3, <2>4, <2>5
<1>4. \A a \in S : rank[a] \in 1..n
  <2> TAKE a \in S
  <2>1. IsFiniteSet(S \ {a}) /\ Cardinality(S \ {a}) = n - 1  BY FS_RemoveElement
  <2>2. Below(a) \in SUBSET (S \ {a})  BY DEF Ranks
  <2>3. Cardinality(Below(a)) <= n - 1
    <3> HIDE DEF Below
    <3> QED  BY <2>1, <2>2, FS_Subset
  <2>4. rank[a] = Cardinality(Below(a)) + 1  OBVIOUS
  <2> HIDE DEF rank, Below
  <2> QED  BY <1>1, <1>2, <2>3, <2>4
<1>5. rank \in [S -> 1..n]  BY <1>4
<1> HIDE DEF rank, Below
<1>6. \A a, b \in S : rank[a] = rank[b] => a = b
  <2> SUFFICES ASSUME NEW a \in S, NEW b \in S, rank[a] = rank[b], a # b PROVE FALSE
    OBVIOUS
  <2>1. <<a, b>> \in R \/ <<b, a>> \in R  BY DEF Ranks
  <2> QED  BY <1>1, <1>3, <1>4, <2>1
<1>7. \A i \in 1..n : \E a \in S : rank[a] = i
  <2>1. IsFiniteSet(1..n) /\ Cardinality(1..n) = n  BY <1>1, FS_Interval
  <2>2. rank \in Injection(S, 1..n)  BY <1>5, <1>6 DEF Injection, IsInjective
  <2>3. rank \in Surjection(S, 1..n)  BY <2>1, <2>2, FS_Injection
  <2> QED  BY <2>3 DEF Surjection
<1> DEFINE q == [i \in 1..n |-> CHOOSE a \in S : rank[a] = i]
<1>8. \A i \in 1..n : q[i] \in S /\ rank[q[i]] = i  BY <1>7
<1>9. q \in [1..n -> S]  BY <1>8
<1> HIDE DEF q
<1>10. ASSUME NEW i \in 1..n, NEW j \in 1..n, i < j
       PROVE  <<q[i], q[j]>> \in R
  <2>1. q[i] # q[j]  BY <1>8, <1>10
  <2>2. <<q[j], q[i]>> \notin R  BY <1>1, <1>3, <1>8, <1>10
  <2> QED  BY <1>8, <2>1, <2>2 DEF Ranks
<1>11. Lines(q, n, R, S)  BY <1>9, <1>10 DEF Lines
<1> QED  BY <1>11

(* Such a sequence has every element once. *)
LEMMA LinesAll ==
    ASSUME NEW S, IsFiniteSet(S), NEW R, Ranks(R, S), NEW q, Lines(q, Cardinality(S), R, S)
    PROVE  Listed(q) = S /\ IsInjective(q) /\ q \in Seq(S) /\ Len(q) = Cardinality(S)
<1> DEFINE n == Cardinality(S)
<1>1. n \in Nat /\ q \in [1..n -> S]  BY FS_CardinalityType DEF Lines
<1>2. \A i, j \in 1..n : q[i] = q[j] => i = j
  <2> SUFFICES ASSUME NEW i \in 1..n, NEW j \in 1..n, q[i] = q[j], i < j PROVE FALSE
    BY <1>1
  <2> QED  BY <1>1 DEF Lines, Ranks
<1>3. q \in Injection(1..n, S)  BY <1>1, <1>2 DEF Injection, IsInjective
<1>4. IsFiniteSet(1..n) /\ Cardinality(1..n) = n  BY <1>1, FS_Interval
<1>5. q \in Surjection(1..n, S)  BY <1>3, <1>4, FS_Injection
<1>6. Listed(q) = S  BY <1>1, <1>5 DEF Surjection, Listed
<1>7. q \in Seq(S) /\ Len(q) = n  BY <1>1
<1> QED  BY <1>1, <1>2, <1>6, <1>7 DEF IsInjective

-----------------------------------------------------------------------------
(* Listings *)

Ordered(c) == List!Ordered(c)
Length(c) == Len(Ordered(c))

LEMMA ListConstants ==
    /\ Catalogued \subseteq Nat /\ IsFiniteSet(Catalogued) /\ Pending \subseteq Catalogued
    /\ Started \in [Catalogued -> Nat]
    /\ PageSize \in Nat \ {0} /\ MaxAttempts \in Nat \ {0}
BY MCLanClientAssumption DEF List!CatalogConstants, List!IsFiniteSet, IsFiniteSet

LEMMA ListedIs == \A s : List!ToSet(s) = Listed(s)
BY DEF List!ToSet, Listed

LEMMA CountIs == \A s : List!Cardinality(s) = Cardinality(s)
BY DEF List!Cardinality, Cardinality

LEMMA OrdersRank ==
    Ranks(List!DeviceOrder, Catalogued) /\ Ranks(List!LatestFirst, Catalogued)
<1> DEFINE C == Catalogued
<1>1. \A a \in C : a \in Nat /\ Started[a] \in Nat
  BY ListConstants
<1>2. \A a, b \in C : <<a, b>> \in List!DeviceOrder <=> a < b
  BY DEF List!DeviceOrder
<1>3. \A a, b \in C : <<a, b>> \in List!LatestFirst <=>
          Started[a] > Started[b] \/ (Started[a] = Started[b] /\ a < b)
  BY <1>2 DEF List!LatestFirst
<1> HIDE DEF C
<1>4. Ranks(List!DeviceOrder, C)
  BY ONLY <1>1, <1>2 DEF Ranks
<1>5. Ranks(List!LatestFirst, C)
  BY ONLY <1>1, <1>3 DEF Ranks
<1> QED  BY <1>4, <1>5 DEF C

(* A catalog can be listed in the device's order and in that of the times.     *)
LEMMA ArrangedIs ==
    ASSUME NEW c \in SUBSET Catalogued, NEW R, Ranks(R, Catalogued)
    PROVE  /\ List!Lists(List!Arranged(c, R), c, R)
           /\ List!Arranged(c, R) \in [1..Cardinality(c) -> c]
<1> DEFINE n == Cardinality(c)
<1>1. IsFiniteSet(c) /\ n \in Nat
  BY ListConstants, FS_Subset, FS_CardinalityType
<1>2. Ranks(R, c)
  BY DEF Ranks
<1>3. PICK q : Lines(q, n, R, c)
  BY <1>1, <1>2, Sortable
<1>4. Listed(q) = c /\ q \in Seq(c) /\ Len(q) = n
  BY <1>1, <1>2, <1>3, LinesAll
<1>5. q \in [1..n -> c] /\ \A i, j \in DOMAIN q : i < j => <<q[i], q[j]>> \in R
  BY <1>3 DEF Lines
<1>6. List!Lists(q, c, R)
  BY <1>4, <1>5, ListedIs, CountIs DEF List!Lists
<1>7. \E s \in [1..n -> c] : List!Lists(s, c, R)
  BY <1>5, <1>6
<1>8. List!Arranged(c, R) = CHOOSE s \in [1..n -> c] : List!Lists(s, c, R)
  BY CountIs DEF List!Arranged
<1> QED  BY <1>7, <1>8

LEMMA OrderedType ==
    ASSUME NEW c \in SUBSET Catalogued
    PROVE  /\ Ordered(c) \in Seq(Catalogued) /\ Length(c) = Cardinality(c)
           /\ Cardinality(c) \in 0..Cardinality(Catalogued)
           /\ Listed(Ordered(c)) = c
<1>1. IsFiniteSet(c) /\ Cardinality(c) <= Cardinality(Catalogued)
  BY ListConstants, FS_Subset
<1>2. Cardinality(c) \in Nat /\ Cardinality(Catalogued) \in Nat
  BY <1>1, ListConstants, FS_CardinalityType
<1>3. List!Lists(Ordered(c), c, List!DeviceOrder) /\ Ordered(c) \in [1..Cardinality(c) -> c]
  BY OrdersRank, ArrangedIs DEF Ordered, List!Ordered
<1>4. Ordered(c) \in Seq(c) /\ Len(Ordered(c)) = Cardinality(c)
  BY <1>2, <1>3
<1> QED  BY <1>1, <1>2, <1>3, <1>4, ListedIs DEF Length, List!Lists

(* What is read is a part of some catalog. *)
Partly ==
    \E c \in SUBSET Catalogued : \E n \in 0..Length(c) : sessions = SubSeq(Ordered(c), 1, n)

ListType ==
    /\ device \in SUBSET Catalogued /\ good \in SUBSET Pending
    /\ at \in {"page", "resolve", "done", "error"} /\ tried \in 0..MaxAttempts - 1
    /\ unresolved \subseteq Pending /\ unusable \subseteq Pending
    /\ snapshots \subseteq SUBSET Catalogued /\ device \in snapshots
    /\ at # "done" => Partly

(* While pages are read: nothing, or a part of the catalog of one moment. *)
Reading(c) ==
    revision = {c} /\ cursor \in 0..Length(c) /\ sessions = SubSeq(Ordered(c), 1, cursor)
PagesInv == at = "page" =>
    \/ revision = {} /\ cursor = 0 /\ sessions = <<>>
    \/ \E c \in snapshots : Reading(c)

(* What is returned is a whole one, in its order. *)
Order(c) == IF c \cap Noted = {} THEN List!DeviceOrder ELSE List!LatestFirst
Returned(c) ==
    List!Lists(sessions, c, Order(c)) /\ sessions \in [1..Cardinality(c) -> c]

Complete ==
    /\ at = "resolve" => \E c \in snapshots : sessions = Ordered(c)
    /\ at = "done" => \E c \in snapshots : Returned(c)

(* Every recording that the catalog does not verify is looked at. *)
Looked ==
    /\ at = "page" => unusable = {}
    /\ at \in {"resolve", "done"} =>
           Listed(sessions) \cap Pending \subseteq unresolved \cup unusable \cup good
    /\ at = "done" => unresolved = {}

ListInv == ListType /\ PagesInv /\ Complete /\ Looked

LEMMA Parts ==
    ASSUME NEW S, NEW q \in Seq(S), NEW k \in 0..Len(q), NEW u \in k..Len(q)
    PROVE  /\ SubSeq(q, 1, k) \o SubSeq(q, k + 1, u) = SubSeq(q, 1, u)
           /\ Len(SubSeq(q, k + 1, u)) = u - k
           /\ SubSeq(q, 1, Len(q)) = q /\ SubSeq(q, 1, 0) = <<>>
OBVIOUS

LEMMA FrontPart ==
    ASSUME NEW S, NEW q \in Seq(S), NEW k \in 0..Len(q)
    PROVE  SubSeq(q, 1, k) \in [1..k -> S]
<1>1. SubSeq(q, 1, k) = [i \in 1..k |-> q[i]]
  OBVIOUS
<1>2. \A i \in 1..k : q[i] \in S
  OBVIOUS
<1> QED  BY <1>1, <1>2

LEMMA ListInit == Init => ListInv
<1> SUFFICES ASSUME Init PROVE ListInv
  OBVIOUS
<1>1. /\ device \in SUBSET Catalogued /\ good \in SUBSET Pending /\ snapshots = {device}
      /\ at = "page" /\ tried = 0 /\ cursor = 0 /\ revision = {} /\ sessions = <<>>
      /\ unresolved = {} /\ unusable = {}
  BY DEF Init, List!Init
<1>2. Partly
  <2>1. Ordered(device) \in Seq(Catalogued) /\ 0 \in 0..Length(device)
    BY <1>1, OrderedType
  <2>2. sessions = SubSeq(Ordered(device), 1, 0)
    BY <1>1, <2>1, Parts DEF Length
  <2> QED  BY <1>1, <2>1, <2>2 DEF Partly
<1>3. ListType
  BY <1>1, <1>2, ListConstants DEF ListType
<1> QED  BY <1>1, <1>3 DEF ListInv, PagesInv, Complete, Looked

(* The page after the part that has been read is the next part of it. *)
LEMMA ReadStep == ASSUME ListInv, List!Read PROVE ListInv'
<1> DEFINE all == Ordered(device)
           n == Len(all)
           upto == IF cursor + PageSize > n THEN n ELSE cursor + PageSize
           items == SubSeq(all, cursor + 1, upto)
<1>1. ListType /\ PagesInv /\ Looked /\ device \in SUBSET Catalogued /\ device \in snapshots
  BY DEF ListInv, ListType
<1>2. all \in Seq(Catalogued) /\ n \in Nat /\ n = Length(device)
  BY <1>1, OrderedType DEF Length
<1>3. /\ at = "page" /\ (revision = {} \/ revision = {device})
      /\ UNCHANGED <<device, good, snapshots, unusable>>
  BY DEF List!Read, List!SameRevision, List!device
<1>4. cursor \in 0..n /\ sessions = SubSeq(all, 1, cursor)
  <2>1. CASE revision = {} /\ cursor = 0 /\ sessions = <<>>
    BY <1>2, <2>1, Parts
  <2>2. CASE \E c \in snapshots : Reading(c)
    BY <1>2, <1>3, <2>2 DEF Reading
  <2> QED  BY <1>1, <1>3, <2>1, <2>2 DEF PagesInv
<1>5. List!Page = [items |-> items, more |-> upto < n]
  BY DEF List!Page, Ordered
<1> HIDE DEF all, n
<1>6. upto \in cursor..n /\ cursor \in Nat
  BY <1>2, <1>4, ListConstants
<1> HIDE DEF upto
<1>7. /\ sessions \o items = SubSeq(all, 1, upto) /\ cursor + Len(items) = upto
      /\ SubSeq(all, 1, n) = all
  <2>1. /\ SubSeq(all, 1, cursor) \o SubSeq(all, cursor + 1, upto) = SubSeq(all, 1, upto)
        /\ Len(SubSeq(all, cursor + 1, upto)) = upto - cursor /\ SubSeq(all, 1, n) = all
    BY <1>2, <1>4, <1>6, Parts DEF n
  <2> QED  BY <1>2, <1>4, <1>6, <2>1
<1> HIDE DEF items
<1>8. List!Page.items = items /\ (List!Page.more <=> upto < n)
  BY <1>5
<1>9. CASE at' = "error"
  <2>1. UNCHANGED <<tried, cursor, revision, sessions, unresolved>>
    BY <1>3, <1>9 DEF List!Read, List!pages
  <2>2. ListType'
    BY <1>1, <1>3, <1>9, <2>1 DEF ListType, Partly
  <2> QED  BY <1>9, <2>2 DEF ListInv, PagesInv, Complete, Looked
<1>10. CASE at' # "error"
  <2>1. /\ sessions' = sessions \o items /\ revision' = {device}
        /\ cursor' = cursor + Len(items) /\ UNCHANGED tried
        /\ at' = (IF upto < n THEN "page" ELSE "resolve")
        /\ unresolved' = IF upto < n THEN {} ELSE Listed(sessions') \cap Pending
    BY <1>8, <1>10, ListedIs DEF List!Read
  <2>2. sessions' = SubSeq(all, 1, upto) /\ cursor' = upto
    BY <1>7, <2>1
  <2>3. ListType'
    <3>1. upto \in 0..Length(device)
      BY <1>2, <1>4, <1>6
    <3>2. Partly'
      BY <1>1, <2>2, <3>1 DEF all, Partly
    <3> QED  BY <1>1, <1>3, <2>1, <3>2, ListConstants DEF ListType
  <2>4. PagesInv'
    <3>1. upto \in 0..Length(device)
      BY <1>2, <1>4, <1>6
    <3>2. Reading(device)'
      BY <1>3, <2>1, <2>2, <3>1 DEF Reading, all
    <3> QED  BY <1>1, <1>3, <3>2 DEF PagesInv
  <2>5. Complete'
    <3>1. at' # "done" /\ (at' = "resolve" => upto = n)
      BY <1>2, <1>4, <1>6, <2>1
    <3> QED  BY <1>1, <1>3, <1>7, <2>2, <3>1 DEF Complete, all
  <2>6. Looked'
    BY <1>1, <1>3, <2>1 DEF Looked
  <2> QED  BY <2>3, <2>4, <2>5, <2>6 DEF ListInv
<1> QED  BY <1>9, <1>10

LEMMA RestartStep == ASSUME ListInv, List!Restart PROVE ListInv'
<1>1. /\ at = "page" /\ UNCHANGED <<device, good, snapshots, unresolved, unusable>>
      /\ \/ /\ tried < MaxAttempts - 1 /\ tried' = tried + 1 /\ cursor' = 0
            /\ revision' = {} /\ sessions' = <<>> /\ UNCHANGED at
         \/ at' = "error" /\ UNCHANGED <<tried, cursor, revision, sessions>>
  BY DEF List!Restart, List!device, List!pages
<1>2. ListType /\ Looked
  BY DEF ListInv
<1>3. Partly'
  <2>1. CASE sessions' = <<>>
    <3>1. /\ device \in SUBSET Catalogued /\ Ordered(device) \in Seq(Catalogued)
          /\ Length(device) = Len(Ordered(device))
      BY <1>2, OrderedType DEF ListType, Length
    <3>2. 0 \in 0..Length(device) /\ SubSeq(Ordered(device), 1, 0) = <<>>
      BY <3>1, Parts
    <3> QED  BY <2>1, <3>1, <3>2 DEF Partly
  <2>2. CASE UNCHANGED sessions
    BY <1>1, <1>2, <2>2 DEF ListType, Partly
  <2> QED  BY <1>1, <2>1, <2>2
<1>4. ListType'
  BY <1>1, <1>2, <1>3, ListConstants DEF ListType
<1> QED  BY <1>1, <1>2, <1>4 DEF ListInv, PagesInv, Complete, Looked

(* The order of the list that was read, or that of its times.                  *)
LEMMA ReturnStep == ASSUME ListInv, List!Return PROVE ListInv'
<1>1. ListType /\ Complete /\ Looked
  BY DEF ListInv
<1>2. /\ at = "resolve" /\ unresolved = {} /\ at' = "done"
      /\ UNCHANGED <<device, good, snapshots, tried, cursor, revision, unresolved, unusable>>
      /\ sessions' = IF List!ToSet(sessions) \cap Noted = {} THEN sessions
                     ELSE List!Arranged(List!ToSet(sessions), List!LatestFirst)
  BY DEF List!Return, List!device
<1>3. PICK c \in snapshots : sessions = Ordered(c)
  BY <1>1, <1>2 DEF Complete
<1>4. c \in SUBSET Catalogued
  BY <1>1, <1>3 DEF ListType
<1>5. List!ToSet(sessions) = c
  BY <1>3, <1>4, ListedIs, OrderedType
<1>6. sessions' = List!Arranged(c, Order(c))
  BY <1>2, <1>3, <1>5 DEF Order, Ordered, List!Ordered
<1>7. List!Lists(sessions', c, Order(c)) /\ sessions' \in [1..Cardinality(c) -> c]
  BY <1>4, <1>6, OrdersRank, ArrangedIs DEF Order
<1>8. Returned(c)'
  BY <1>7 DEF Returned, List!Lists, Order, List!LatestFirst, List!DeviceOrder
<1>9. Complete'
  BY <1>2, <1>3, <1>8 DEF Complete
<1>10. Listed(sessions') = Listed(sessions)
  BY <1>5, <1>7, ListedIs DEF List!Lists
<1>11. ListType' /\ PagesInv' /\ Looked'
  BY <1>1, <1>2, <1>10 DEF ListType, PagesInv, Looked
<1> QED  BY <1>9, <1>11 DEF ListInv

LEMMA OtherListStep ==
    ASSUME ListInv,
           \/ List!Fail
           \/ \E s \in Catalogued : List!Resolve(s) \/ List!Unreadable(s)
           \/ \E c \in SUBSET Catalogued : List!Change(c)
    PROVE  ListInv'
<1>0. ListType /\ PagesInv /\ Complete /\ Looked
  BY DEF ListInv
<1>1. CASE List!Fail
  <2>1. /\ UNCHANGED <<device, good, snapshots, tried, cursor, revision, sessions,
                       unresolved, unusable>>
        /\ at' = "error" /\ at # "done"
    BY <1>1 DEF List!Fail, List!device, List!pages
  <2>2. ListType'
    BY <1>0, <2>1 DEF ListType, Partly
  <2>3. Complete' /\ Looked' /\ PagesInv'
    BY <1>0, <2>1 DEF Complete, Looked, PagesInv
  <2> QED  BY <2>2, <2>3 DEF ListInv
<1>2. CASE \E s \in Catalogued : List!Resolve(s) \/ List!Unreadable(s)
  <2>1. PICK s \in Catalogued : List!Resolve(s) \/ List!Unreadable(s)
    BY <1>2
  <2>2. /\ at = "resolve" /\ s \in unresolved /\ unresolved' = unresolved \ {s}
        /\ UNCHANGED <<device, good, snapshots, tried, cursor, revision, sessions, at>>
        /\ \/ s \in good /\ unusable' = unusable
           \/ unusable' = unusable \cup {s}
    BY <2>1 DEF List!Resolve, List!Unreadable, List!Usable, List!device, List!pages
  <2>3. ListType'
    BY <1>0, <2>2 DEF ListType, Partly
  <2>4. Complete' /\ Looked' /\ PagesInv'
    BY <1>0, <2>2 DEF Complete, Looked, PagesInv
  <2> QED  BY <2>3, <2>4 DEF ListInv
<1>3. CASE \E c \in SUBSET Catalogued : List!Change(c)
  <2>1. PICK c \in SUBSET Catalogued : List!Change(c)
    BY <1>3
  <2>2. /\ device' = c /\ snapshots' = snapshots \cup {c}
        /\ UNCHANGED <<good, tried, cursor, revision, sessions, at, unresolved, unusable>>
        /\ at \in {"page", "resolve"}
    BY <2>1 DEF List!Change, List!pages
  <2>3. ListType'
    BY <1>0, <2>2 DEF ListType, Partly
  <2>4. Complete' /\ Looked' /\ PagesInv'
    BY <1>0, <2>2 DEF Complete, Looked, PagesInv, Reading
  <2> QED  BY <2>3, <2>4 DEF ListInv
<1> QED  BY <1>1, <1>2, <1>3

LEMMA ListNext == ListInv /\ [Next]_vars => ListInv'
<1> SUFFICES ASSUME ListInv, [Next]_vars PROVE ListInv'
  OBVIOUS
<1>1. CASE UNCHANGED listVars
  <2>1. UNCHANGED <<device, good, snapshots, tried, cursor, revision, sessions, at,
                    unresolved, unusable>>
    BY <1>1 DEF listVars
  <2> QED
    BY <2>1 DEF ListInv, ListType, Partly, PagesInv, Complete, Looked, Reading,
       Returned, List!Lists
<1>2. CASE List!Client
  BY <1>2, RestartStep, ReadStep, ReturnStep, OtherListStep DEF List!Client
<1>3. CASE \E c \in SUBSET Catalogued : List!Change(c)
  BY <1>3, OtherListStep
<1> QED
  BY <1>1, <1>2, <1>3 DEF Next, Client, OnlyDownload, OnlyDelete, OnlyList, vars

(* A list that is returned is the catalog of one moment of the call, whole,     *)
(* however the catalog changes between its pages, in the device's order or with  *)
(* the latest first when the time of one recording is in doubt; and what the     *)
(* catalog did not verify is exportable only after its own manifest was found    *)
(* right (list_sessions, _lan.py).                                             *)
THEOREM ListsAreSnapshots == Spec => []Listings
<1>1. ListInv => Listings
  <2> SUFFICES ASSUME ListInv PROVE Listings
    OBVIOUS
  <2>0. ListType /\ Complete /\ Looked
    BY DEF ListInv
  <2>1. sessions \in List!SeqOf(Catalogued, List!Cardinality(Catalogued))
    <3>1. \E n \in 0..Cardinality(Catalogued) : sessions \in [1..n -> Catalogued]
      <4>1. CASE at # "done"
        <5>1. PICK c \in SUBSET Catalogued : \E n \in 0..Length(c) :
                  sessions = SubSeq(Ordered(c), 1, n)
          BY <2>0, <4>1 DEF ListType, Partly
        <5>2. PICK n \in 0..Length(c) : sessions = SubSeq(Ordered(c), 1, n)
          BY <5>1
        <5>3. /\ Ordered(c) \in Seq(Catalogued) /\ Len(Ordered(c)) = Cardinality(c)
              /\ Cardinality(c) \in 0..Cardinality(Catalogued)
              /\ n \in 0..Len(Ordered(c))
          BY <5>1, <5>2, OrderedType DEF Length
        <5>4. n \in 0..Cardinality(Catalogued)
          BY <5>3, ListConstants, FS_CardinalityType
        <5> QED  BY <5>2, <5>3, <5>4, FrontPart
      <4>2. CASE at = "done"
        <5>1. PICK c \in snapshots : Returned(c)
          BY <2>0, <4>2 DEF Complete
        <5>2. c \in SUBSET Catalogued
          BY <2>0, <5>1 DEF ListType
        <5> QED  BY <5>1, <5>2, OrderedType DEF Returned
      <4> QED  BY <4>1, <4>2
    <3> QED  BY <3>1, CountIs DEF List!SeqOf
  <2>2. List!TypeOK
    BY <2>0, <2>1 DEF ListType, List!TypeOK
  <2>3. List!Snapshot
    BY <2>0 DEF Complete, List!Snapshot, Returned, Order
  <2>4. List!Resolved
    BY <2>0, ListedIs DEF Looked, List!Resolved
  <2> QED  BY <2>2, <2>3, <2>4 DEF Listings
<1> QED
  BY ListInit, ListNext, <1>1, PTL DEF Spec

-----------------------------------------------------------------------------
(* Deletions *)

Manifests == Delete!Manifests
Lists == Delete!SeqOf(Recordings, Delete!Cardinality(Recordings))

LEMMA DeleteConstants ==
    /\ IsFiniteSet(Recordings) /\ MaxAttempts \in Nat \ {0} /\ MaxWait \in Nat
    /\ Asks \subseteq Nat
    /\ None \notin [Recordings -> Manifests] \cup [deleted : Lists, failed : Lists]
BY MCLanClientAssumption
   DEF Delete!DeleteConstants, Delete!RetryConstants, Delete!IsFiniteSet, IsFiniteSet,
       Delete!Answers, Lists, Manifests

LEMMA ListsAre == Lists = UNION {[1..n -> Recordings] : n \in 0..Cardinality(Recordings)}
<1>1. Delete!Cardinality(Recordings) = Cardinality(Recordings)
  BY DEF Delete!Cardinality, Cardinality
<1> QED  BY <1>1 DEF Lists, Delete!SeqOf

(* A finite set as a sequence: every member, and nothing else. *)
LEMMA SetAsSequence ==
    ASSUME NEW S \in SUBSET Recordings
    PROVE  Delete!SetToSeq(S) \in Lists /\ Listed(Delete!SetToSeq(S)) = S
<1> DEFINE f == Delete!SetToSeq(S)
<1>0. /\ IsFiniteSet(S) /\ Cardinality(S) \in Nat /\ ExistsBijection(1..Cardinality(S), S)
      /\ Cardinality(S) <= Cardinality(Recordings) /\ Cardinality(Recordings) \in Nat
  BY DeleteConstants, FS_Subset, FS_CardinalityType
<1>1. PICK g \in Bijection(1..Cardinality(S), S) : TRUE
  BY <1>0 DEF ExistsBijection
<1>2. g \in [1..Cardinality(S) -> S] /\ Delete!IsInjective(g)
  BY <1>1 DEF Bijection, Injection, Delete!IsInjective, IsInjective
<1>3. Delete!Cardinality(S) = Cardinality(S)
  BY DEF Delete!Cardinality, Cardinality
<1>4. f \in [1..Cardinality(S) -> S] /\ Delete!IsInjective(f)
  BY <1>2, <1>3 DEF Delete!SetToSeq
<1> HIDE DEF f
<1>5. f \in Injection(1..Cardinality(S), S)
  BY <1>4 DEF Injection, Delete!IsInjective, IsInjective
<1>6. IsFiniteSet(1..Cardinality(S)) /\ Cardinality(1..Cardinality(S)) = Cardinality(S)
  <2>1. 1 \in Int /\ Cardinality(S) \in Int
    BY <1>0
  <2> QED  BY <1>0, <2>1, FS_Interval
<1>7. f \in Surjection(1..Cardinality(S), S)
  BY <1>0, <1>5, <1>6, FS_Injection
<1>8. Listed(f) = S
  BY <1>4, <1>7 DEF Surjection, Listed
<1>9. f \in Lists
  <2>1. f \in [1..Cardinality(S) -> Recordings]
    BY <1>4
  <2>2. Cardinality(S) \in 0..Cardinality(Recordings)
    BY <1>0
  <2> QED  BY <2>1, <2>2, ListsAre
<1> QED  BY <1>8, <1>9 DEF f

LEMMA ListsAreSequences == Lists \subseteq Seq(Recordings)
BY ListsAre, DeleteConstants, FS_CardinalityType

(* Two lists without a repetition share nothing. *)
LEMMA ListsApart ==
    ASSUME NEW s \in Seq(Recordings), NEW t \in Seq(Recordings)
    PROVE  /\ Delete!Range(s \o t) = Listed(s) \cup Listed(t)
           /\ Delete!IsInjective(s \o t) => Listed(s) \cap Listed(t) = {}
<1>1. /\ Len(s) \in Nat /\ Len(t) \in Nat /\ DOMAIN (s \o t) = 1..Len(s) + Len(t)
      /\ \A i \in 1..Len(s) : (s \o t)[i] = s[i]
      /\ \A i \in 1..Len(t) : (s \o t)[Len(s) + i] = t[i]
  OBVIOUS
<1>2. DOMAIN s = 1..Len(s) /\ DOMAIN t = 1..Len(t)
  OBVIOUS
<1> DEFINE st == s \o t
<1> HIDE DEF st
<1>3. \A i \in DOMAIN st : i \in DOMAIN s \/ (i - Len(s) \in DOMAIN t /\ i = Len(s) + (i - Len(s)))
  BY <1>1, <1>2 DEF st
<1>4. \A i \in DOMAIN s : i \in DOMAIN st /\ st[i] = s[i]
  BY <1>1, <1>2 DEF st
<1>5. \A i \in DOMAIN t : Len(s) + i \in DOMAIN st /\ st[Len(s) + i] = t[i]
  BY <1>1, <1>2 DEF st
<1>6. {st[i] : i \in DOMAIN st} = Listed(s) \cup Listed(t)
  <2>1. \A x \in {st[i] : i \in DOMAIN st} : x \in Listed(s) \cup Listed(t)
    <3> SUFFICES ASSUME NEW i \in DOMAIN st PROVE st[i] \in Listed(s) \cup Listed(t)
      OBVIOUS
    <3> QED  BY <1>3, <1>4, <1>5 DEF Listed
  <2>2. Listed(s) \cup Listed(t) \subseteq {st[i] : i \in DOMAIN st}
    BY <1>4, <1>5 DEF Listed
  <2> QED  BY <2>1, <2>2
<1>7. Delete!IsInjective(st) => Listed(s) \cap Listed(t) = {}
  <2> SUFFICES ASSUME \A a, b \in DOMAIN st : st[a] = st[b] => a = b,
                      NEW i \in DOMAIN s, NEW j \in DOMAIN t, s[i] = t[j]
               PROVE  FALSE
    BY DEF Delete!IsInjective, Listed
  <2>1. i = Len(s) + j
    BY <1>4, <1>5
  <2> QED  BY <1>1, <1>2, <2>1
<1> QED  BY <1>6, <1>7 DEF st, Delete!Range

(* The answer the device has given tells what it has removed. *)
Given(r) ==
    /\ r \in [deleted : Lists, failed : Lists]
    /\ Listed(r.deleted) = removed /\ Listed(r.failed) = requested \ removed

DeleteType ==
    /\ Delete!TypeOK /\ requested \in SUBSET Recordings /\ removed \subseteq requested
    /\ DOMAIN answered = 1..MaxAttempts

Told ==
    /\ answered[1] = None => removed = {}
    /\ answered[1] # None => Given(answered[1])
    /\ call = "delete" /\ pc = "done" => Given(result)
    /\ pc = "done" => Listed(result.deleted) \cup Listed(result.failed) = requested
                      /\ Listed(result.deleted) \cap Listed(result.failed) = {}

(* The request names what was confirmed; the cached list ends with the call. *)
Confirmed ==
    /\ pc \in {"list", "check", "refused"} => removed = {} /\ answered[1] = None
    /\ pc = "check" => cache \in [Recordings -> Manifests]
    /\ pc = "ask" => \A s \in requested : body[s] = shown[s]
    /\ pc \in {"done", "raised"} => cache = None

DeleteInv == DeleteType /\ Told /\ Confirmed

OnlyShown ==
    \A s \in removed' \ removed : s \in requested /\ catalog[s] = shown[s]

LEMMA HandleStep ==
    ASSUME DeleteInv, pc = "ask", NEW gone \in SUBSET requested, Delete!Handle(gone)
    PROVE  /\ catalog' \in [Recordings -> Manifests] /\ removed' \subseteq requested
           /\ DOMAIN answered' = 1..MaxAttempts /\ answered'[1] # None
           /\ answered'[1] \in [deleted : Lists, failed : Lists]
           /\ Listed(answered'[1].deleted) = removed'
           /\ Listed(answered'[1].failed) = requested \ removed'
           /\ OnlyShown
<1>1. /\ catalog \in [Recordings -> Manifests] /\ requested \in SUBSET Recordings
      /\ removed \subseteq requested /\ DOMAIN answered = 1..MaxAttempts
  BY DEF DeleteInv, DeleteType, Delete!TypeOK, Manifests
<1>2. Delete!Key = 1 /\ 1 \in 1..MaxAttempts
  BY DeleteConstants DEF Delete!Key
<1>3. CASE answered[1] = None
  <2> DEFINE fresh == [deleted |-> Delete!SetToSeq(gone),
                       failed |-> Delete!SetToSeq(requested \ gone)]
  <2>1. /\ gone \subseteq Delete!Removable /\ answered' = [answered EXCEPT ![1] = fresh]
        /\ removed' = removed \cup gone
        /\ catalog' = [s \in Recordings |-> IF s \in gone THEN Gone ELSE catalog[s]]
    BY <1>2, <1>3 DEF Delete!Handle
  <2>2. /\ fresh \in [deleted : Lists, failed : Lists] /\ Listed(fresh.deleted) = gone
        /\ Listed(fresh.failed) = requested \ gone
    <3>1. gone \in SUBSET Recordings /\ requested \ gone \in SUBSET Recordings
      BY <1>1
    <3> QED  BY <3>1, SetAsSequence
  <2> HIDE DEF fresh
  <2>3. fresh # None
    BY <2>2, DeleteConstants
  <2>4. removed = {} /\ removed' = gone
    BY <1>3, <2>1 DEF DeleteInv, Told
  <2>5. answered'[1] = fresh /\ DOMAIN answered' = 1..MaxAttempts
    BY <1>1, <1>2, <2>1
  <2>6. \A s \in gone : s \in requested /\ catalog[s] = body[s] /\ body[s] = shown[s]
    BY <2>1 DEF Delete!Removable, DeleteInv, Confirmed
  <2>7. catalog' \in [Recordings -> Manifests]
    BY <1>1, <2>1 DEF Manifests, Delete!Manifests
  <2>8. OnlyShown
    BY <2>4, <2>6 DEF OnlyShown
  <2> QED  BY <1>1, <2>2, <2>3, <2>4, <2>5, <2>7, <2>8
<1>4. CASE answered[1] # None
  <2>1. UNCHANGED <<answered, removed, catalog>>
    BY <1>2, <1>4 DEF Delete!Handle
  <2>2. Given(answered[1])
    BY <1>4 DEF DeleteInv, Told
  <2> QED  BY <1>1, <1>4, <2>1, <2>2 DEF Given, OnlyShown
<1> QED  BY <1>3, <1>4

LEMMA AgainStep ==
    ASSUME DeleteType, NEW asked \in Nat, Delete!Again(asked)
    PROVE  /\ attempt' \in Delete!Attempts /\ waited' \in 0..MaxWait
           /\ \/ UNCHANGED <<pc, cache>>
              \/ pc' = "raised" /\ cache' = None
<1>1. attempt \in 0..MaxAttempts - 1 /\ waited \in 0..MaxWait
  BY DEF DeleteType, Delete!TypeOK, Delete!Attempts
<1> DEFINE delay == Delete!Delay(attempt, asked)
<1>2. delay \in Nat
  BY <1>1, PowerType DEF Delete!Delay
<1>3. \/ /\ attempt < MaxAttempts - 1 /\ waited + delay <= MaxWait
         /\ attempt' = attempt + 1 /\ waited' = waited + delay /\ UNCHANGED <<pc, cache>>
      \/ /\ pc' = "raised" /\ cache' = None /\ UNCHANGED <<attempt, waited>>
  BY DEF Delete!Again, Delete!MayRetry, Delete!End, Delete!retry
<1> HIDE DEF delay
<1> QED  BY <1>1, <1>2, <1>3, DeleteConstants DEF Delete!Attempts

LEMMA ReceiveStep ==
    ASSUME NEW r \in [deleted : Lists, failed : Lists], Delete!Receive(r)
    PROVE  /\ cache' = None /\ UNCHANGED <<shown, requested, body, attempt, waited>>
           /\ \/ pc' = "raised"
              \/ /\ pc' = "done" /\ result' = r
                 /\ Listed(r.deleted) \cup Listed(r.failed) = requested
                 /\ Listed(r.deleted) \cap Listed(r.failed) = {}
<1>1. r.deleted \in Seq(Recordings) /\ r.failed \in Seq(Recordings)
  BY ListsAreSequences
<1>2. Delete!Sound(r) => /\ Listed(r.deleted) \cup Listed(r.failed) = requested
                         /\ Listed(r.deleted) \cap Listed(r.failed) = {}
  BY <1>1, ListsApart DEF Delete!Sound
<1> QED  BY <1>2 DEF Delete!Receive, Delete!End, Delete!call, Delete!retry

(* The steps of a deletion, with either device; the second one may answer with *)
(* any lists.                                                               *)
DeleteStep ==
    \/ Delete!List \/ Delete!Check \/ Delete!Reject
    \/ \E asked \in Asks \cup {0} : Delete!LoseRequest(asked)
    \/ \E gone \in SUBSET requested : Delete!LoseAnswer(gone) \/ Delete!Answer(gone)
    \/ \E gone \in SUBSET requested : \E r \in [deleted : Lists, failed : Lists] :
           call # "delete" /\ pc = "ask" /\ Delete!Handle(gone) /\ Delete!Receive(r)
    \/ \E s \in Recordings : \E m \in {2, Gone} : Delete!Elsewhere(s, m)

LEMMA BeforeAsking ==
    ASSUME DeleteInv, UNCHANGED call, Delete!List \/ Delete!Check \/ Delete!Reject
    PROVE  DeleteInv' /\ OnlyShown
<1>0. DeleteType /\ Told /\ Confirmed
  BY DEF DeleteInv
<1>1. /\ UNCHANGED <<catalog, shown, requested, attempt, waited, answered, result, removed>>
      /\ \/ pc = "list" /\ pc' = "refused" /\ UNCHANGED cache
         \/ pc = "list" /\ pc' = "check" /\ cache' = IF cache = None THEN catalog ELSE cache
         \/ pc = "check" /\ pc' = "refused" /\ cache' \in {cache, None}
         \/ /\ pc = "check" /\ pc' = "ask" /\ UNCHANGED cache /\ body' = cache
            /\ \A s \in requested : cache[s] = shown[s]
         \/ pc = "ask" /\ pc' = "raised" /\ cache' = None
  BY DEF Delete!List, Delete!Check, Delete!Reject, Delete!End, Delete!AsShown, Delete!call,
     Delete!retry
<1>2. cache' \in {None} \cup [Recordings -> Manifests]
      /\ (pc' = "check" => cache' \in [Recordings -> Manifests])
  BY <1>0, <1>1 DEF DeleteType, Delete!TypeOK, Manifests, Delete!Manifests
<1>3. DeleteType'
  BY <1>0, <1>1, <1>2 DEF DeleteType, Delete!TypeOK, Manifests, Delete!Attempts,
     Delete!Manifests, Delete!Versions
<1>4. Told' /\ Confirmed'
  BY <1>0, <1>1, <1>2 DEF Told, Confirmed, Given, Manifests, Delete!Manifests
<1> QED  BY <1>1, <1>3, <1>4 DEF DeleteInv, OnlyShown

LEMMA WhileAsking ==
    ASSUME DeleteInv, UNCHANGED call,
           \/ \E asked \in Asks \cup {0} : Delete!LoseRequest(asked)
           \/ \E s \in Recordings : \E m \in {2, Gone} : Delete!Elsewhere(s, m)
    PROVE  DeleteInv' /\ OnlyShown
<1>0. DeleteType /\ Told /\ Confirmed
  BY DEF DeleteInv
<1>1. CASE \E asked \in Asks \cup {0} : Delete!LoseRequest(asked)
  <2>1. PICK asked \in Nat : Delete!LoseRequest(asked)
    BY <1>1, DeleteConstants
  <2>2. /\ pc = "ask" /\ Delete!Again(asked)
        /\ UNCHANGED <<catalog, shown, requested, body, answered, result, removed>>
    BY <2>1 DEF Delete!LoseRequest, Delete!call
  <2>3. /\ attempt' \in Delete!Attempts /\ waited' \in 0..MaxWait
        /\ \/ UNCHANGED <<pc, cache>>
           \/ pc' = "raised" /\ cache' = None
    BY <1>0, <2>2, AgainStep
  <2>4. DeleteType'
    BY <1>0, <2>2, <2>3 DEF DeleteType, Delete!TypeOK, Delete!Attempts, Delete!Manifests,
       Delete!Versions
  <2>5. Told' /\ Confirmed'
    BY <1>0, <2>2, <2>3 DEF Told, Confirmed, Given
  <2> QED  BY <2>2, <2>4, <2>5 DEF DeleteInv, OnlyShown
<1>2. CASE \E s \in Recordings : \E m \in {2, Gone} : Delete!Elsewhere(s, m)
  <2>1. PICK s \in Recordings, m \in {2, Gone} : Delete!Elsewhere(s, m)
    BY <1>2
  <2>2. /\ catalog' = [catalog EXCEPT ![s] = m]
        /\ UNCHANGED <<shown, requested, cache, pc, body, attempt, waited, answered, result,
                       removed>>
    BY <2>1 DEF Delete!Elsewhere, Delete!call, Delete!retry
  <2>3. DeleteType'
    BY <1>0, <2>1, <2>2 DEF DeleteType, Delete!TypeOK, Delete!Attempts, Delete!Manifests,
       Delete!Versions
  <2>4. Told' /\ Confirmed'
    BY <1>0, <2>2 DEF Told, Confirmed, Given
  <2> QED  BY <2>2, <2>3, <2>4 DEF DeleteInv, OnlyShown
<1> QED  BY <1>1, <1>2

LEMMA Answering ==
    ASSUME DeleteInv, UNCHANGED call, NEW gone \in SUBSET requested,
           \/ Delete!LoseAnswer(gone) \/ Delete!Answer(gone)
           \/ \E r \in [deleted : Lists, failed : Lists] :
                  call # "delete" /\ pc = "ask" /\ Delete!Handle(gone) /\ Delete!Receive(r)
    PROVE  DeleteInv' /\ OnlyShown
<1>0. DeleteType /\ Told /\ Confirmed
  BY DEF DeleteInv
<1>1. pc = "ask" /\ Delete!Handle(gone)
  BY DEF Delete!LoseAnswer, Delete!Answer
<1>2. /\ catalog' \in [Recordings -> Manifests] /\ removed' \subseteq requested
      /\ DOMAIN answered' = 1..MaxAttempts /\ answered'[1] # None
      /\ answered'[1] \in [deleted : Lists, failed : Lists]
      /\ Listed(answered'[1].deleted) = removed'
      /\ Listed(answered'[1].failed) = requested \ removed' /\ OnlyShown
  BY <1>1, HandleStep
<1>3. CASE Delete!LoseAnswer(gone)
  <2>1. Delete!Again(0) /\ UNCHANGED <<shown, requested, body, result>>
    BY <1>3 DEF Delete!LoseAnswer, Delete!call
  <2>2. /\ attempt' \in Delete!Attempts /\ waited' \in 0..MaxWait
        /\ \/ UNCHANGED <<pc, cache>>
           \/ pc' = "raised" /\ cache' = None
    BY <1>0, <2>1, AgainStep
  <2>3. DeleteType'
    BY <1>0, <1>2, <2>1, <2>2 DEF DeleteType, Delete!TypeOK, Delete!Attempts, Manifests,
       Delete!Manifests, Delete!Versions
  <2>4. Told' /\ Confirmed'
    BY <1>0, <1>1, <1>2, <2>1, <2>2 DEF Told, Confirmed, Given
  <2> QED  BY <1>2, <2>3, <2>4 DEF DeleteInv
<1>4. CASE \E r \in [deleted : Lists, failed : Lists] :
               Delete!Receive(r) /\ (call = "delete" => r = answered'[1])
  <2>1. PICK r \in [deleted : Lists, failed : Lists] :
               Delete!Receive(r) /\ (call = "delete" => r = answered'[1])
    BY <1>4
  <2>2. /\ cache' = None /\ UNCHANGED <<shown, requested, body, attempt, waited>>
        /\ \/ pc' = "raised"
           \/ /\ pc' = "done" /\ result' = r
              /\ Listed(r.deleted) \cup Listed(r.failed) = requested
              /\ Listed(r.deleted) \cap Listed(r.failed) = {}
    BY <2>1, ReceiveStep
  <2>3. DeleteType'
    BY <1>0, <1>2, <2>2 DEF DeleteType, Delete!TypeOK, Delete!Attempts, Manifests,
       Delete!Manifests, Delete!Versions
  <2>4. Told' /\ Confirmed'
    BY <1>0, <1>1, <1>2, <2>1, <2>2 DEF Told, Confirmed, Given
  <2> QED  BY <1>2, <2>3, <2>4 DEF DeleteInv
<1>5. Delete!Answer(gone) => Delete!Receive(answered'[1])
  BY DEF Delete!Answer, Delete!Key
<1> QED  BY <1>2, <1>3, <1>4, <1>5

(* The client does the same with a device that answers anything. *)
LEMMA AnsweredSteps == ASSUME call # "delete", Answered!Next PROVE DeleteStep
<1>1. Answered!List \/ Answered!Check \/ Answered!Reject
          => Delete!List \/ Delete!Check \/ Delete!Reject
  BY DEF Answered!List, Delete!List, Answered!Check, Delete!Check, Answered!Reject,
     Delete!Reject, Answered!AsShown, Delete!AsShown, Answered!Deletable,
     Delete!Deletable, Answered!Listed, Delete!Listed, Answered!Cardinality,
     Delete!Cardinality, Answered!End, Delete!End, Answered!call, Delete!call,
     Answered!retry, Delete!retry
<1>2. ASSUME NEW asked, Answered!LoseRequest(asked) PROVE Delete!LoseRequest(asked)
  BY <1>2 DEF Answered!LoseRequest, Delete!LoseRequest, Answered!Again, Delete!Again,
     Answered!MayRetry, Delete!MayRetry, Answered!Delay, Delete!Delay, Answered!End,
     Delete!End, Answered!retry, Delete!retry, Answered!call, Delete!call
<1>3. ASSUME NEW gone, Answered!Handle(gone) PROVE Delete!Handle(gone)
  BY <1>3 DEF Answered!Handle, Delete!Handle, Answered!Removable, Delete!Removable,
     Answered!Key, Delete!Key, Answered!SetToSeq, Delete!SetToSeq,
     Answered!IsInjective, Delete!IsInjective, Answered!Cardinality,
     Delete!Cardinality
<1>4. ASSUME NEW r, Answered!Receive(r) PROVE Delete!Receive(r)
  BY <1>4 DEF Answered!Receive, Delete!Receive, Answered!Sound, Delete!Sound,
     Answered!IsInjective, Delete!IsInjective, Answered!Range, Delete!Range,
     Answered!End, Delete!End, Answered!call, Delete!call, Answered!retry,
     Delete!retry
<1>5. ASSUME NEW gone, Answered!LoseAnswer(gone) PROVE Delete!LoseAnswer(gone)
  BY <1>3, <1>5 DEF Answered!LoseAnswer, Delete!LoseAnswer, Answered!Again, Delete!Again,
     Answered!MayRetry, Delete!MayRetry, Answered!Delay, Delete!Delay, Answered!End,
     Delete!End, Answered!retry, Delete!retry, Answered!call, Delete!call
<1>6. ASSUME NEW gone, Answered!Answer(gone) PROVE Delete!Answer(gone)
  BY <1>3, <1>4, <1>6 DEF Answered!Answer, Delete!Answer, Answered!Key, Delete!Key
<1>7. ASSUME NEW gone, NEW r, Answered!AnswerAnything(gone, r)
      PROVE  pc = "ask" /\ Delete!Handle(gone) /\ Delete!Receive(r)
  BY <1>3, <1>4, <1>7 DEF Answered!AnswerAnything
<1>8. Answered!Answers = [deleted : Lists, failed : Lists]
  BY DEF Answered!Answers, Answered!SeqOf, Delete!SeqOf, Lists, Answered!Cardinality,
     Delete!Cardinality
<1>9. ASSUME NEW s, NEW m, Answered!Elsewhere(s, m) PROVE Delete!Elsewhere(s, m)
  BY <1>9 DEF Answered!Elsewhere, Delete!Elsewhere, Answered!call, Delete!call,
     Answered!retry, Delete!retry
<1> QED
  BY <1>1, <1>2, <1>5, <1>6, <1>7, <1>8, <1>9 DEF Answered!Next, DeleteStep

LEMMA DeleteInit == Init => DeleteInv
<1> SUFFICES ASSUME Init PROVE DeleteInv
  OBVIOUS
<1>1. /\ catalog \in [Recordings -> Delete!Manifests]
      /\ shown \in [Recordings -> Delete!Versions] /\ requested \in SUBSET Recordings
      /\ cache \in {None} \cup [Recordings -> Delete!Manifests]
      /\ pc = "list" /\ attempt = 0 /\ waited = 0 /\ removed = {}
      /\ answered = [k \in 1..MaxAttempts |-> None]
  BY DEF Init, Delete!Init
<1>2. answered[1] = None /\ DOMAIN answered = 1..MaxAttempts
  BY <1>1, DeleteConstants
<1>3. DeleteType
  BY <1>1, <1>2, DeleteConstants DEF DeleteType, Delete!TypeOK, Delete!Attempts
<1> QED  BY <1>1, <1>2, <1>3 DEF DeleteInv, Told, Confirmed

LEMMA DeleteNext ==
    DeleteInv /\ [Next]_vars => DeleteInv' /\ (OnlyShown \/ UNCHANGED Delete!vars)
<1> SUFFICES ASSUME DeleteInv, [Next]_vars
             PROVE  DeleteInv' /\ (OnlyShown \/ UNCHANGED Delete!vars)
  OBVIOUS
<1>1. CASE UNCHANGED <<call, deleteVars>>
  <2>1. UNCHANGED <<call, pc, catalog, shown, requested, cache, body, attempt, waited,
                    answered, result, removed>>
    BY <1>1 DEF deleteVars
  <2>2. DeleteType'
    BY <2>1 DEF DeleteInv, DeleteType, Delete!TypeOK, Delete!Attempts, Delete!Manifests,
       Delete!Versions
  <2>3. Told' /\ Confirmed'
    BY <2>1 DEF DeleteInv, Told, Confirmed, Given
  <2> QED  BY <2>1, <2>2, <2>3 DEF DeleteInv, Delete!vars
<1>2. CASE UNCHANGED call /\ DeleteStep
  BY <1>2, BeforeAsking, WhileAsking, Answering DEF DeleteStep
<1>3. ASSUME call = "delete", Delete!Next PROVE DeleteStep
  <2>1. \A gone, r : ~Delete!AnswerAnything(gone, r)
    BY DEF Delete!AnswerAnything
  <2> QED  BY <1>3, <2>1 DEF Delete!Next, DeleteStep
<1> QED
  BY <1>1, <1>2, <1>3, AnsweredSteps
     DEF Next, Client, OnlyDownload, OnlyDelete, OnlyList, vars

(* What a deletion reports is what it did, however often an answer was lost and *)
(* the request repeated; it removes only what was confirmed as it was shown;    *)
(* its result accounts for every recording once, and its cache lists nothing it *)
(* removed, whatever the device answers (delete_sessions, _lan.py and client.py). *)
THEOREM DeletionsTrue == Spec => Deletions
<1> DEFINE Safe == /\ Delete!TypeOK /\ Delete!Accounted /\ Delete!CacheFresh
                   /\ call = "delete" => Delete!ReportTrue
           Step == \A s \in removed' \ removed : s \in requested /\ catalog[s] = shown[s]
<1>1. DeleteInv => Safe
  <2> SUFFICES ASSUME DeleteInv PROVE Safe
    OBVIOUS
  <2>1. Delete!TypeOK
    BY DEF DeleteInv, DeleteType
  <2>2. Delete!Accounted
    BY DEF DeleteInv, Told, Delete!Accounted, Delete!Range, Listed
  <2>3. Delete!CacheFresh
    BY DEF DeleteInv, Confirmed, Delete!CacheFresh
  <2>4. call = "delete" => Delete!ReportTrue
    BY DEF DeleteInv, Told, Given, Delete!ReportTrue, Delete!Range, Listed
  <2> QED  BY <2>1, <2>2, <2>3, <2>4
<1>2. DeleteInv /\ [Next]_vars => [Step]_(Delete!vars)
  BY DeleteNext DEF OnlyShown
<1> HIDE DEF Safe, Step
<1>3. Spec => []Safe /\ [][Step]_(Delete!vars)
  BY DeleteInit, DeleteNext, <1>1, <1>2, PTL DEF Spec
<1> QED  BY <1>3 DEF Deletions, Delete!OnlyConfirmed, Safe, Step
=============================================================================
