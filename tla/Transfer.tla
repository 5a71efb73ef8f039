------------------------------ MODULE Transfer ------------------------------
(***************************************************************************)
(* The copy pipeline of the desktop exporter                               *)
(* (src/desktop/exporter/internal/core/transfer.go): a coordinator copies   *)
(* one file at a time into one of two temporary files, one worker goroutine *)
(* reads back and checks what was written, and the coordinator renames a    *)
(* file into source/ once its check has come back.                         *)
(*                                                                         *)
(* The staging directory outlives a run: the next one finds the files that  *)
(* were renamed, and the temporary files as they were left.                *)
(***************************************************************************)
EXTENDS Naturals, Sequences

CONSTANTS
    List,       \* the inventory: a sequence of files
    Bytes,      \* the size of each file
    Budget,     \* bytes copied and not verified yet
    MaxFaults,  \* bound on I/O errors and bad writes
    MaxRuns,    \* bound on runs
    None

Files == {List[i] : i \in 1..Len(List)}
Slots == {0, 1}
Job == [file : Files, slot : Slots]
Body == [file : Files, part : {"some", "whole", "bad"}]

ASSUME TransferAssumption ==
    /\ List \in Seq(Files)
    /\ \A i, j \in 1..Len(List) : List[i] = List[j] => i = j
    /\ Bytes \in [Files -> Nat] /\ Budget \in Nat
    /\ MaxFaults \in Nat /\ MaxRuns \in Nat \ {0}
    /\ None \notin Job \cup Body

VARIABLES
    serial,     \* Options.Serial of this run
    pc,         \* the coordinator
    at,         \* the file of the loop, or the next one once it is sent
    slot,       \* the temporary file to use next
    temp,       \* what is in work/transfer-0 and work/transfer-1
    data,       \* what is in source/
    pending,    \* jobs sent and not finished, oldest first
    reserved,   \* their bytes
    received,   \* the files in the receipt
    jobs,       \* the channel to the worker
    worker,     \* the worker goroutine: "idle", "busy", "telling", "exited"
    job,        \* the job it has taken
    verdict,    \* what it found: "ok", "canceled" or "target"
    done,       \* the verdicts in the jobs' done channels, by slot
    workerErr,  \* its first error
    cause,      \* what cancelled the context first: an error, the "user"
    err,        \* what the coordinator returns
    answer,     \* what the caller gets
    faults, runs

store == <<temp, data>>
main == <<serial, pc, at, slot, pending, reserved, received, err, answer>>
side == <<worker, job, verdict, workerErr>>
vars == <<serial, pc, at, slot, temp, data, pending, reserved, received, jobs,
          worker, job, verdict, done, workerErr, cause, err, answer, faults,
          runs>>

Errors == {"canceled", "io", "target"}

Cancelled == cause # "none"
File == List[at]

(* cancel(e): the first cause stays. *)
CancelWith(e) == cause' = IF Cancelled THEN cause ELSE e

Init ==
    /\ serial \in BOOLEAN
    /\ pc = "next" /\ at = 1 /\ slot = 0
    /\ pending = <<>> /\ reserved = 0 /\ received = {} /\ jobs = <<>>
    /\ worker = "idle" /\ job = None /\ verdict = "none"
    /\ done = [s \in Slots |-> "none"]
    /\ workerErr = "none" /\ cause = "none" /\ err = "none" /\ answer = "none"
    /\ temp = [s \in Slots |-> None]
    /\ data \in [Files -> {"absent", "whole", "bad"}]
    /\ faults = 0 /\ runs = 1

-----------------------------------------------------------------------------
(* The coordinator.                                                        *)

(* return e: the deferred function cancels, closes the channel and waits. *)
Return(e) ==
    /\ pc' = "join" /\ err' = e
    /\ CancelWith(IF e = "none" THEN "canceled" ELSE e)
    /\ UNCHANGED <<serial, at, slot, pending, reserved, received, answer, jobs,
                   done, runs>> /\ UNCHANGED store /\ UNCHANGED side

Go(from, to) ==
    /\ pc = from /\ pc' = to
    /\ UNCHANGED <<serial, err, answer, cause, runs>> /\ UNCHANGED side

(* Wrong: the budget is not looked at. *)
MustFinishCount == pending # <<>> /\ (serial \/ Len(pending) = 2)

(* Reserve before opening: oversize files drain and run alone. *)
MustFinish ==
    /\ pending # <<>>
    /\ \/ serial \/ Len(pending) = 2 \/ Bytes[File] > Budget
       \/ reserved > Budget - Bytes[File]

(* Where the loop runs code of its own, not waiting for a job. *)
InLoop ==
    \/ pc \in {"next", "copy"}
    \/ pc = "reserve" /\ ~MustFinish
    \/ pc = "recover" /\ pending = <<>>

(* ctx.Err() at the head of the loop and inside copyContext. *)
SeeCancelled ==
    /\ InLoop
    /\ Cancelled /\ Return("canceled") /\ UNCHANGED faults

(* An unsafe path, an unreadable source, a source that differs from its     *)
(* manifest, a full target.                                                *)
Stumble ==
    /\ InLoop
    /\ faults < MaxFaults /\ faults' = faults + 1
    /\ Return("io")

(* for _, a := range files *)
NextFile ==
    /\ pc = "next" /\ at <= Len(List) /\ ~Cancelled
    /\ Go("next", IF data[File] = "absent" THEN "reserve" ELSE "recover")
    /\ UNCHANGED <<at, slot, pending, reserved, received, jobs, done, faults>>
    /\ UNCHANGED store

NoMoreFiles ==
    /\ at > Len(List)
    /\ Go("next", "end")
    /\ UNCHANGED <<at, slot, pending, reserved, received, jobs, done, faults>>
    /\ UNCHANGED store

(* Wrong: a file that is there already does not wait for those before it. *)
RecoverAhead ==
    /\ Go("recover", "next")
    /\ ~Cancelled /\ data[File] = "whole"
    /\ received' = received \cup {File} /\ at' = at + 1
    /\ UNCHANGED <<slot, pending, reserved, jobs, done, faults>>
    /\ UNCHANGED store

(* A file that is there already: drain, then compare it with the source. *)
Recover ==
    /\ Go("recover", "next")
    /\ pending = <<>> /\ ~Cancelled /\ data[File] = "whole"
    /\ received' = received \cup {File} /\ at' = at + 1
    /\ UNCHANGED <<slot, pending, reserved, jobs, done, faults>>
    /\ UNCHANGED store

RecoverBad ==
    /\ pc = "recover" /\ pending = <<>> /\ ~Cancelled /\ data[File] = "bad"
    /\ Return("io") /\ UNCHANGED faults

(* st.OpenFile(tmp, O_CREATE|O_TRUNC) of the slot whose turn it is. *)
Open ==
    /\ Go("reserve", "copy")
    /\ ~MustFinish /\ ~Cancelled
    /\ temp' = [temp EXCEPT ![slot] = [file |-> File, part |-> "some"]]
    /\ UNCHANGED <<at, slot, pending, reserved, received, jobs, done, data, faults>>

(* copyContext, size and digest of the source; what reached the target may  *)
(* be something else.                                                      *)
Copy ==
    /\ ~Cancelled
    /\ Go("copy", "send")
    /\ \/ temp' = [temp EXCEPT ![slot].part = "whole"] /\ UNCHANGED faults
       \/ /\ faults < MaxFaults /\ faults' = faults + 1
          /\ temp' = [temp EXCEPT ![slot].part = "bad"]
    /\ UNCHANGED <<at, slot, pending, reserved, received, jobs, done, data>>

(* Wrong: the slot does not alternate. *)
SendSameSlot ==
    /\ pc = "send" /\ Len(jobs) < 2
    /\ Go("send", IF serial \/ Bytes[File] > Budget THEN "settle" ELSE "next")
    /\ LET j == [file |-> File, slot |-> slot] IN
         pending' = Append(pending, j) /\ jobs' = Append(jobs, j)
    /\ reserved' = reserved + Bytes[File]
    /\ at' = at + 1
    /\ UNCHANGED <<slot, received, done, faults>> /\ UNCHANGED store

(* pending = append(pending, j); jobs <- j *)
Send ==
    /\ pc = "send" /\ Len(jobs) < 2
    /\ Go("send", IF serial \/ Bytes[File] > Budget THEN "settle" ELSE "next")
    /\ LET j == [file |-> File, slot |-> slot] IN
         pending' = Append(pending, j) /\ jobs' = Append(jobs, j)
    /\ reserved' = reserved + Bytes[File]
    /\ slot' = 1 - slot
    /\ at' = at + 1
    /\ UNCHANGED <<received, done, faults>> /\ UNCHANGED store

Settled ==
    /\ pending = <<>>
    /\ Go("settle", "next")
    /\ UNCHANGED <<at, slot, pending, reserved, received, jobs, done, faults>>
    /\ UNCHANGED store

End == pc = "end" /\ pending = <<>> /\ Return("none") /\ UNCHANGED faults

(* finish: the oldest job, where the loop needs room or drains. *)
Finishing ==
    /\ pending # <<>>
    /\ pc = "reserve" => MustFinish
    /\ pc \in {"recover", "settle", "end", "reserve"}
    /\ done[Head(pending).slot] # "none"

Finish ==
    /\ Finishing /\ ~Cancelled
    /\ LET j == Head(pending) IN
         /\ done[j.slot] = "ok"
         /\ data' = [data EXCEPT ![j.file] =
                IF temp[j.slot] = [file |-> j.file, part |-> "whole"]
                THEN "whole" ELSE "bad"]
         /\ temp' = [temp EXCEPT ![j.slot] = None]
         /\ done' = [done EXCEPT ![j.slot] = "none"]
         /\ received' = received \cup {j.file}
         /\ reserved' = reserved - Bytes[j.file]
    /\ pending' = Tail(pending)
    /\ UNCHANGED <<serial, pc, at, slot, jobs, err, answer, cause, runs, faults>>
    /\ UNCHANGED side

FinishError ==
    /\ Finishing
    /\ \/ /\ done[Head(pending).slot] # "ok" /\ UNCHANGED faults
          /\ Return(done[Head(pending).slot])
       \/ /\ done[Head(pending).slot] = "ok" /\ Cancelled /\ UNCHANGED faults
          /\ Return("canceled")
       \/ /\ done[Head(pending).slot] = "ok" /\ ~Cancelled
          /\ faults < MaxFaults /\ faults' = faults + 1 /\ Return("io")

(* Wrong: the coordinator's error as it is. *)
OutcomePlain == err

(* <-joined, and the choice of the error. *)
Outcome ==
    IF err # "canceled" THEN err
    ELSE IF workerErr \notin {"none", "canceled"} THEN workerErr
    ELSE IF cause = "user" THEN "canceled" ELSE cause

Join ==
    /\ pc = "join" /\ worker = "exited"
    /\ pc' = "done"
    /\ answer' = IF err = "none" THEN "ok" ELSE Outcome
    /\ UNCHANGED <<serial, at, slot, temp, data, pending, reserved, received,
                   jobs, worker, job, verdict, done, workerErr, cause, err,
                   faults, runs>>

-----------------------------------------------------------------------------
(* The worker goroutine.                                                   *)

Take ==
    /\ worker = "idle" /\ jobs # <<>>
    /\ worker' = "busy" /\ job' = Head(jobs) /\ jobs' = Tail(jobs)
    /\ UNCHANGED <<verdict, workerErr, done, cause, faults, runs>>
    /\ UNCHANGED store /\ UNCHANGED main

(* verifyTransfer, the first error, cancel(e). *)
Verify ==
    /\ worker = "busy" /\ worker' = "telling"
    /\ \/ /\ ~Cancelled /\ UNCHANGED faults
          /\ verdict' = IF temp[job.slot] = [file |-> job.file, part |-> "whole"]
                        THEN "ok" ELSE "target"
       \/ Cancelled /\ UNCHANGED faults /\ verdict' = "canceled"
       \/ faults < MaxFaults /\ faults' = faults + 1 /\ verdict' = "target"
    /\ workerErr' = IF workerErr = "none" /\ verdict' # "ok" THEN verdict'
                    ELSE workerErr
    /\ IF verdict' = "ok" THEN UNCHANGED cause ELSE CancelWith(verdict')
    /\ UNCHANGED <<job, jobs, done, runs>> /\ UNCHANGED store /\ UNCHANGED main

(* Wrong: after an error the worker goes on without telling. *)
TellGood ==
    /\ worker = "telling" /\ worker' = "idle"
    /\ done' = IF verdict = "ok" THEN [done EXCEPT ![job.slot] = verdict] ELSE done
    /\ job' = None /\ verdict' = "none"
    /\ UNCHANGED <<workerErr, jobs, cause, faults, runs>>
    /\ UNCHANGED store /\ UNCHANGED main

(* j.done <- e *)
Tell ==
    /\ worker = "telling" /\ worker' = "idle"
    /\ done' = [done EXCEPT ![job.slot] = verdict]
    /\ job' = None /\ verdict' = "none"
    /\ UNCHANGED <<workerErr, jobs, cause, faults, runs>>
    /\ UNCHANGED store /\ UNCHANGED main

(* The channel is closed and empty. *)
Exit ==
    /\ worker = "idle" /\ jobs = <<>> /\ pc = "join"
    /\ worker' = "exited"
    /\ UNCHANGED <<job, verdict, workerErr, jobs, done, cause, faults, runs>>
    /\ UNCHANGED store /\ UNCHANGED main

-----------------------------------------------------------------------------
(* Around it.                                                              *)

(* The user, or the other export of a batch, cancels the parent context. *)
Cancel ==
    /\ pc # "done" /\ ~Cancelled /\ cause' = "user"
    /\ UNCHANGED <<jobs, done, faults, runs>>
    /\ UNCHANGED store /\ UNCHANGED main /\ UNCHANGED side

(* The export is started again: after its end, or after the process died   *)
(* anywhere.                                                               *)
Restart ==
    /\ runs < MaxRuns /\ runs' = runs + 1
    /\ serial' \in BOOLEAN
    /\ pc' = "next" /\ at' = 1 /\ slot' = 0
    /\ pending' = <<>> /\ reserved' = 0 /\ received' = {} /\ jobs' = <<>>
    /\ worker' = "idle" /\ job' = None /\ verdict' = "none"
    /\ done' = [s \in Slots |-> "none"]
    /\ workerErr' = "none" /\ cause' = "none" /\ err' = "none"
    /\ answer' = "none"
    /\ UNCHANGED faults /\ UNCHANGED store

Coordinate ==
    \/ SeeCancelled \/ Stumble \/ NextFile \/ NoMoreFiles \/ Recover
    \/ RecoverBad \/ Open \/ Copy \/ Send \/ Settled \/ End \/ Finish
    \/ FinishError \/ Join

Work == Take \/ Verify \/ Tell \/ Exit

Next == Coordinate \/ Work \/ Cancel \/ Restart

Spec == Init /\ [][Next]_vars

(* Neither goroutine stops while it can go on. *)
FairSpec == Spec /\ WF_vars(Coordinate) /\ WF_vars(Work)
-----------------------------------------------------------------------------
TypeOK ==
    /\ serial \in BOOLEAN
    /\ pc \in {"next", "recover", "reserve", "copy", "send", "settle", "end",
              "join", "done"}
    /\ at \in 1..Len(List) + 1 /\ slot \in Slots
    /\ temp \in [Slots -> Body \cup {None}]
    /\ data \in [Files -> {"absent", "whole", "bad"}]
    /\ pending \in Seq(Job) /\ Len(pending) \in 0..2
    /\ jobs \in Seq(Job) /\ Len(jobs) \in 0..2
    /\ reserved \in Nat /\ received \subseteq Files
    /\ worker \in {"idle", "busy", "telling", "exited"}
    /\ job \in Job \cup {None}
    /\ verdict \in {"none", "ok", "canceled", "target"}
    /\ done \in [Slots -> {"none", "ok", "canceled", "target"}]
    /\ workerErr \in {"none", "canceled", "target"}
    /\ cause \in {"none", "user"} \cup Errors
    /\ err \in {"none"} \cup Errors
    /\ answer \in {"none", "ok"} \cup Errors
    /\ faults \in 0..MaxFaults /\ runs \in 1..MaxRuns

(* A temporary file that waits for its verdict is not written, truncated or *)
(* renamed by anything but the finish of its own job.                      *)
UnverifiedKept ==
    [][\A i \in 1..Len(pending) :
          temp'[pending[i].slot] # temp[pending[i].slot] =>
              i = 1 /\ pending' = Tail(pending)]_vars

(* A file shows up in source/ only with the bytes the card has, and nothing *)
(* that is there is touched: not even when a write went wrong.             *)
OnlyVerified ==
    [][\A f \in Files : data'[f] # data[f] =>
          data[f] = "absent" /\ data'[f] = "whole"]_vars

(* Success means every file, each in the receipt because it was checked. *)
SuccessWhole ==
    answer = "ok" => received = Files /\ \A f \in Files : data[f] = "whole"

(* The receipt has exactly the files that the loop has passed and finished, *)
(* and each of them is in source/.                                         *)
ReceiptTrue ==
    /\ received = {List[i] : i \in 1..(at - 1 - Len(pending))}
    /\ \A f \in received : data[f] = "whole"

(* One or two files wait to be verified, the one being copied included, and *)
(* two only within the budget: an oversize file is alone.                  *)
InBudget ==
    LET copied == IF pc \in {"copy", "send"} THEN <<File>> ELSE <<>>
        files == [i \in 1..Len(pending) |-> pending[i].file] \o copied
    IN  /\ Len(files) <= 2
        /\ Len(files) = 2 => Bytes[files[1]] + Bytes[files[2]] <= Budget

(* "A target I/O failure that stopped a source copy must not become merely  *)
(* context.Canceled": the caller is told of a cancellation only if somebody *)
(* asked for one before anything failed.                                   *)
CancelledByUser == answer = "canceled" => cause = "user"

(* Every run ends: neither goroutine waits for ever for the other. *)
Ends == []<>(pc = "done")

-----------------------------------------------------------------------------
Caller == INSTANCE SerialTransfer WITH
    received <- at - 1 - Len(pending)

(* Two slots, a worker and a budget deliver what a serial copy delivers, in *)
(* the same order.                                                         *)
AsSerial == Caller!Spec
=============================================================================
