--------------------------- MODULE TransferProofs ---------------------------
(***************************************************************************)
(* The pipeline, for any inventory, sizes, budget, faults and runs: types   *)
(* first, then what it keeps apart and in order.                           *)
(***************************************************************************)
EXTENDS Transfer, TLAPS

(* A sequence of at most two jobs, element by element. *)
LEMMA ShortTail ==
    ASSUME NEW s \in Seq(Job), s # <<>>, Len(s) \in 0..2
    PROVE  /\ Head(s) \in Job /\ Head(s) = s[1] /\ Tail(s) \in Seq(Job)
           /\ Len(s) \in 1..2 /\ Len(Tail(s)) = Len(s) - 1
           /\ \A i \in 1..Len(Tail(s)) : Tail(s)[i] = s[i + 1]
  OBVIOUS

LEMMA ShortAppend ==
    ASSUME NEW s \in Seq(Job), NEW j \in Job, Len(s) \in 0..1
    PROVE  /\ Append(s, j) \in Seq(Job) /\ Len(Append(s, j)) = Len(s) + 1
           /\ \A i \in 1..Len(s) : Append(s, j)[i] = s[i]
           /\ Append(s, j)[Len(s) + 1] = j
  OBVIOUS

LEMMA ListType == Len(List) \in Nat /\ \A i \in 1..Len(List) : List[i] \in Files
  BY TransferAssumption DEF Files

(* With two jobs pending the loop finishes one before it opens a file. *)
Spacious == pc \in {"copy", "send"} => Len(pending) \in 0..1

(* The loop has a file wherever it uses one. *)
InList == pc \in {"recover", "reserve", "copy", "send"} => at \in 1..Len(List)

(* The temporary file that is being written holds the loop's file. *)
Writing == pc \in {"copy", "send"} => temp[slot] # None

(* The worker has a job between taking it and telling. *)
Employed == (worker \in {"busy", "telling"} <=> job # None)

(* The bytes reserved are those of the pending files. *)
Reservation ==
    /\ Len(pending) = 0 => reserved = 0
    /\ Len(pending) = 1 => reserved = Bytes[pending[1].file]
    /\ Len(pending) = 2 =>
          reserved = Bytes[pending[1].file] + Bytes[pending[2].file]

TypeInv ==
    TypeOK /\ Spacious /\ InList /\ Writing /\ Employed /\ Reservation

LEMMA InitType == Init => TypeInv
  BY TransferAssumption, ListType
     DEF Init, TypeInv, TypeOK, Spacious, InList, Writing, Employed,
         Reservation, Slots
(* The fields of the coordinator and of the worker, as most steps treat them.*)
LEMMA ReturnType ==
    ASSUME TypeInv, NEW e \in {"none"} \cup Errors, Return(e), faults' \in 0..MaxFaults
    PROVE  TypeInv'
  <1>1. TypeOK'
    BY DEF Return, CancelWith, Cancelled, TypeInv, TypeOK, Errors, store, side
  <1>2. Spacious' /\ InList' /\ Writing' /\ Employed' /\ Reservation'
    BY DEF Return, TypeInv, Spacious, InList, Writing, Employed, Reservation,
           store, side
  <1> QED BY <1>1, <1>2 DEF TypeInv

LEMMA StepType == TypeInv /\ [Next]_vars => TypeInv'
  <1> SUFFICES ASSUME TypeInv, [Next]_vars PROVE TypeInv'
    OBVIOUS
  <1>a. /\ TypeOK /\ Spacious /\ InList /\ Writing /\ Employed /\ Reservation
        /\ Len(List) \in Nat
    BY ListType DEF TypeInv
  <1>b. pc \in {"recover", "reserve", "copy", "send"} => File \in Files
    BY <1>a DEF InList, File, Files
  <1>1. CASE SeeCancelled
    BY <1>1, <1>a, ReturnType DEF SeeCancelled, Errors, TypeOK
  <1>2. CASE Stumble
    BY <1>2, <1>a, ReturnType, TransferAssumption DEF Stumble, Errors, TypeOK
  <1>3. CASE NextFile
    <2>1. TypeOK'
      BY <1>3, <1>a DEF NextFile, Go, TypeOK, store, side
    <2>2. Spacious' /\ InList' /\ Writing' /\ Employed' /\ Reservation'
      BY <1>3, <1>a DEF NextFile, Go, TypeOK, Spacious, InList, Writing,
         Employed, Reservation, store, side
    <2> QED BY <2>1, <2>2 DEF TypeInv
  <1>4. CASE NoMoreFiles
    <2>1. TypeOK'
      BY <1>4, <1>a DEF NoMoreFiles, Go, TypeOK, store, side
    <2>2. Spacious' /\ InList' /\ Writing' /\ Employed' /\ Reservation'
      BY <1>4, <1>a DEF NoMoreFiles, Go, Spacious, InList, Writing, Employed,
         Reservation, store, side
    <2> QED BY <2>1, <2>2 DEF TypeInv
  <1>5. CASE Recover
    <2>1. TypeOK'
      BY <1>5, <1>a, <1>b DEF Recover, Go, TypeOK, InList, store, side
    <2>2. Spacious' /\ InList' /\ Writing' /\ Employed' /\ Reservation'
      BY <1>5, <1>a DEF Recover, Go, Spacious, InList, Writing, Employed,
         Reservation, store, side
    <2> QED BY <2>1, <2>2 DEF TypeInv
  <1>6. CASE RecoverBad
    BY <1>6, <1>a, ReturnType DEF RecoverBad, Errors, TypeOK
  <1>7. CASE Open
    <2>1. [file |-> File, part |-> "some"] \in Body
      BY <1>7, <1>b DEF Open, Go, Body
    <2>2. temp' \in [Slots -> Body \cup {None}] /\ temp'[slot] # None
      BY <1>7, <1>a, <2>1, TransferAssumption DEF Open, TypeOK
    <2>3. TypeOK'
      BY <1>7, <1>a, <2>2 DEF Open, Go, TypeOK, store, side
    <2>4. Len(pending) # 2
      BY <1>7, <1>a DEF Open, MustFinish, TypeOK
    <2>5. Spacious' /\ InList' /\ Writing' /\ Employed' /\ Reservation'
      BY <1>7, <1>a, <2>2, <2>4 DEF Open, Go, TypeOK, Spacious, InList, Writing,
         Employed, Reservation, store, side
    <2> QED BY <2>3, <2>5 DEF TypeInv
  <1>8. CASE Copy
    <2>1. temp[slot] \in Body
      BY <1>8, <1>a DEF Copy, Go, Writing, TypeOK
    <2>2. PICK part \in {"whole", "bad"} : temp' = [temp EXCEPT ![slot].part = part]
      BY <1>8 DEF Copy
    <2>3. [temp[slot] EXCEPT !.part = part] \in Body
      BY <2>1 DEF Body
    <2>4. temp' \in [Slots -> Body \cup {None}] /\ temp'[slot] # None
      BY <1>a, <2>2, <2>3, TransferAssumption DEF TypeOK
    <2>5. faults' \in 0..MaxFaults
      BY <1>8, <1>a, TransferAssumption DEF Copy, TypeOK
    <2>6. TypeOK'
      BY <1>8, <1>a, <2>4, <2>5 DEF Copy, Go, TypeOK, store, side
    <2>7. Spacious' /\ InList' /\ Writing' /\ Employed' /\ Reservation'
      BY <1>8, <1>a, <2>4 DEF Copy, Go, TypeOK, Spacious, InList, Writing,
         Employed, Reservation, store, side
    <2> QED BY <2>6, <2>7 DEF TypeInv
  <1>9. CASE Send
    <2> DEFINE j == [file |-> File, slot |-> slot]
    <2>0. File \in Files /\ pc = "send" /\ at \in 1..Len(List)
      BY <1>9, <1>a, <1>b DEF Send, InList
    <2>a. j \in Job /\ j.file = File /\ Bytes[File] \in Nat
      BY <1>a, <2>0, TransferAssumption DEF Job, TypeOK
    <2>b. /\ pending \in Seq(Job) /\ Len(pending) \in 0..1
          /\ jobs \in Seq(Job) /\ Len(jobs) \in 0..1 /\ reserved \in Nat
      BY <1>9, <1>a, <2>0 DEF Send, TypeOK, Spacious
    <2>1. /\ j \in Job /\ pending \in Seq(Job) /\ Len(pending) \in 0..1
          /\ jobs \in Seq(Job) /\ Len(jobs) \in 0..1
          /\ Bytes[File] \in Nat /\ reserved \in Nat /\ j.file = File
      BY <2>a, <2>b
    <2>2. pending' = Append(pending, j) /\ jobs' = Append(jobs, j)
      BY <1>9 DEF Send
    <2>3. /\ pending' \in Seq(Job) /\ Len(pending') = Len(pending) + 1
          /\ jobs' \in Seq(Job) /\ Len(jobs') = Len(jobs) + 1
          /\ \A i \in 1..Len(pending) : pending'[i] = pending[i]
          /\ pending'[Len(pending) + 1] = j
      BY <2>1, <2>2, ShortAppend
    <2>c. reserved' \in Nat /\ slot' \in Slots /\ at' \in 1..Len(List) + 1
      <3>1. reserved' = reserved + Bytes[File] /\ slot' = 1 - slot /\ at' = at + 1
        BY <1>9 DEF Send
      <3> QED BY <1>a, <2>0, <2>1, <3>1, SMTT(40) DEF TypeOK, Slots
    <2>d. /\ pc' \in {"settle", "next"}
          /\ UNCHANGED <<serial, temp, data, received, worker, job, verdict,
                         done, workerErr, cause, err, answer, faults, runs>>
      BY <1>9 DEF Send, Go, store, side
    <2>e. Len(pending') \in 0..2 /\ Len(jobs') \in 0..2
      BY <2>1, <2>3
    <2>4. TypeOK'
      BY <1>a, <2>3, <2>c, <2>d, <2>e, SMTT(40) DEF TypeOK
    <2>5. Reservation'
      <3>1. reserved' = reserved + Bytes[File]
        BY <1>9 DEF Send
      <3>2. CASE Len(pending) = 0
        BY <1>a, <2>1, <2>3, <3>1, <3>2 DEF Reservation
      <3>3. CASE Len(pending) = 1
        BY <1>a, <2>1, <2>3, <3>1, <3>3 DEF Reservation
      <3> QED BY <2>1, <3>2, <3>3
    <2>6. Spacious' /\ InList' /\ Writing' /\ Employed'
      BY <1>9, <1>a DEF Send, Go, Spacious, InList, Writing, Employed, side
    <2> QED BY <2>4, <2>5, <2>6 DEF TypeInv
  <1>10. CASE Settled
    <2>1. TypeOK'
      BY <1>10, <1>a DEF Settled, Go, TypeOK, store, side
    <2>2. Spacious' /\ InList' /\ Writing' /\ Employed' /\ Reservation'
      BY <1>10, <1>a DEF Settled, Go, Spacious, InList, Writing, Employed,
         Reservation, store, side
    <2> QED BY <2>1, <2>2 DEF TypeInv
  <1>11. CASE End
    BY <1>11, <1>a, ReturnType DEF End, TypeOK
  <1>12. CASE Finish
    <2> DEFINE j == Head(pending)
    <2>1. /\ j \in Job /\ j = pending[1] /\ pending' = Tail(pending)
          /\ pending' \in Seq(Job) /\ Len(pending) \in 1..2
          /\ Len(pending') = Len(pending) - 1
          /\ \A i \in 1..Len(pending') : pending'[i] = pending[i + 1]
      BY <1>12, <1>a, ShortTail DEF Finish, Finishing, TypeOK
    <2>2. j.file \in Files /\ j.slot \in Slots
      BY <2>1 DEF Job
    <2>3. /\ reserved' = reserved - Bytes[j.file]
          /\ \A f \in Files : Bytes[f] \in Nat
          /\ \A i \in 1..Len(pending) : pending[i].file \in Files
      <3>1. \A i \in 1..Len(pending) : pending[i] \in Job
        BY <1>a DEF TypeOK
      <3> QED BY <1>12, <3>1, TransferAssumption DEF Finish, Job
    <2>4. Reservation' /\ reserved' \in Nat
      <3>a. /\ reserved' = reserved - Bytes[pending[1].file]
            /\ Bytes[pending[1].file] \in Nat
        BY <2>1, <2>2, <2>3
      <3>1. CASE Len(pending) = 1
        <4>1. Len(pending') = 0 /\ reserved = Bytes[pending[1].file]
          BY <1>a, <2>1, <3>1 DEF Reservation
        <4> QED BY <3>a, <4>1 DEF Reservation
      <3>2. CASE Len(pending) = 2
        <4>a. Len(pending') = 1 /\ pending'[1] = pending[2]
          BY <2>1, <3>2
        <4>b. Bytes[pending[2].file] \in Nat
          BY <2>3, <3>2
        <4>c. reserved = Bytes[pending[1].file] + Bytes[pending[2].file]
          BY <1>a, <3>2 DEF Reservation
        <4>1. /\ Len(pending') = 1 /\ pending'[1] = pending[2]
              /\ reserved = Bytes[pending[1].file] + Bytes[pending[2].file]
              /\ Bytes[pending[2].file] \in Nat
          BY <4>a, <4>b, <4>c
        <4>2. reserved' = Bytes[pending'[1].file]
          BY <3>a, <4>1
        <4> QED BY <3>a, <4>1, <4>2 DEF Reservation
      <3> QED BY <2>1, <3>1, <3>2
    <2>5. /\ data' \in [Files -> {"absent", "whole", "bad"}]
          /\ temp' \in [Slots -> Body \cup {None}]
          /\ done' \in [Slots -> {"none", "ok", "canceled", "target"}]
          /\ received' \subseteq Files
      BY <1>12, <1>a, <2>2 DEF Finish, TypeOK
    <2>a. UNCHANGED <<serial, pc, at, slot, jobs, worker, job, verdict,
                      workerErr, cause, err, answer, faults, runs>>
      BY <1>12 DEF Finish, side
    <2>b. /\ serial' \in BOOLEAN
          /\ pc' \in {"next", "recover", "reserve", "copy", "send", "settle",
                     "end", "join", "done"}
          /\ at' \in 1..Len(List) + 1 /\ slot' \in Slots
          /\ jobs' \in Seq(Job) /\ Len(jobs') \in 0..2
      BY <1>a, <2>a DEF TypeOK
    <2>c. /\ worker' \in {"idle", "busy", "telling", "exited"}
          /\ job' \in Job \cup {None}
          /\ verdict' \in {"none", "ok", "canceled", "target"}
          /\ workerErr' \in {"none", "canceled", "target"}
      BY <1>a, <2>a DEF TypeOK
    <2>d. /\ cause' \in {"none", "user"} \cup Errors
          /\ err' \in {"none"} \cup Errors
          /\ answer' \in {"none", "ok"} \cup Errors
          /\ faults' \in 0..MaxFaults /\ runs' \in 1..MaxRuns
      BY <1>a, <2>a DEF TypeOK
    <2>e. Len(pending') \in 0..2
      BY <2>1
    <2>6. TypeOK'
      BY ONLY <2>1, <2>4, <2>5, <2>b, <2>c, <2>d, <2>e DEF TypeOK
    <2>7. Spacious' /\ InList' /\ Writing' /\ Employed'
      BY <1>12, <1>a, <2>1 DEF Finish, Finishing, Spacious, InList, Writing,
         Employed, side
    <2> QED BY <2>4, <2>6, <2>7 DEF TypeInv
  <1>13. CASE FinishError
    <2>1. Head(pending) \in Job
      BY <1>13, <1>a, ShortTail DEF FinishError, Finishing, TypeOK
    <2>2. done[Head(pending).slot] \in {"none", "ok", "canceled", "target"}
      BY <1>a, <2>1 DEF TypeOK, Job
    <2>3. PICK e \in Errors : Return(e)
      BY <1>13, <2>2 DEF FinishError, Finishing, Errors
    <2>4. faults' \in 0..MaxFaults
      BY <1>13, <1>a, TransferAssumption DEF FinishError, TypeOK
    <2> QED BY <2>3, <2>4, ReturnType
  <1>14. CASE Join
    <2>1. Outcome \in {"none"} \cup Errors
      BY <1>a DEF Outcome, TypeOK, Errors
    <2>2. answer' \in {"none", "ok"} \cup Errors /\ pc' = "done"
      BY <1>14, <2>1 DEF Join
    <2>3. TypeOK'
      BY <1>14, <1>a, <2>2 DEF Join, TypeOK
    <2>4. Spacious' /\ InList' /\ Writing' /\ Employed' /\ Reservation'
      BY <1>14, <1>a DEF Join, Spacious, InList, Writing, Employed, Reservation
    <2> QED BY <2>3, <2>4 DEF TypeInv
  <1>15. CASE Take
    <2>1. Head(jobs) \in Job /\ Tail(jobs) \in Seq(Job) /\ Len(Tail(jobs)) \in 0..2
      BY <1>15, <1>a, ShortTail DEF Take, TypeOK
    <2>2. TypeOK'
      BY <1>15, <1>a, <2>1 DEF Take, TypeOK, store, main
    <2>3. Spacious' /\ InList' /\ Writing' /\ Employed' /\ Reservation'
      BY <1>15, <1>a, <2>1, TransferAssumption DEF Take, Spacious, InList,
         Writing, Employed, Reservation, store, main
    <2> QED BY <2>2, <2>3 DEF TypeInv
  <1>16. CASE Verify
    <2>1. verdict' \in {"ok", "canceled", "target"} /\ faults' \in 0..MaxFaults
      BY <1>16, <1>a, TransferAssumption DEF Verify, TypeOK
    <2>2. /\ workerErr' \in {"none", "canceled", "target"}
          /\ cause' \in {"none", "user"} \cup Errors
      BY <1>16, <1>a, <2>1 DEF Verify, CancelWith, TypeOK, Errors
    <2>3. TypeOK'
      BY <1>16, <1>a, <2>1, <2>2 DEF Verify, TypeOK, store, main
    <2>4. Spacious' /\ InList' /\ Writing' /\ Employed' /\ Reservation'
      BY <1>16, <1>a DEF Verify, Spacious, InList, Writing, Employed,
         Reservation, store, main
    <2> QED BY <2>3, <2>4 DEF TypeInv
  <1>17. CASE Tell
    <2>1. job.slot \in Slots
      BY <1>17, <1>a DEF Tell, Employed, TypeOK, Job
    <2>2. TypeOK'
      BY <1>17, <1>a, <2>1 DEF Tell, TypeOK, store, main
    <2>3. Spacious' /\ InList' /\ Writing' /\ Employed' /\ Reservation'
      BY <1>17, <1>a DEF Tell, Spacious, InList, Writing, Employed, Reservation,
         store, main
    <2> QED BY <2>2, <2>3 DEF TypeInv
  <1>18. CASE Exit
    <2>1. TypeOK'
      BY <1>18, <1>a DEF Exit, TypeOK, store, main
    <2>2. Spacious' /\ InList' /\ Writing' /\ Employed' /\ Reservation'
      BY <1>18, <1>a DEF Exit, Spacious, InList, Writing, Employed, Reservation,
         store, main
    <2> QED BY <2>1, <2>2 DEF TypeInv
  <1>19. CASE Cancel
    <2>1. TypeOK'
      BY <1>19, <1>a DEF Cancel, TypeOK, store, main, side
    <2>2. Spacious' /\ InList' /\ Writing' /\ Employed' /\ Reservation'
      BY <1>19, <1>a DEF Cancel, Spacious, InList, Writing, Employed,
         Reservation, store, main, side
    <2> QED BY <2>1, <2>2 DEF TypeInv
  <1>20. CASE Restart
    <2>1. TypeOK'
      BY <1>20, <1>a, TransferAssumption DEF Restart, TypeOK, Slots, store
    <2>2. Spacious' /\ InList' /\ Writing' /\ Employed' /\ Reservation'
      BY <1>20 DEF Restart, Spacious, InList, Writing, Employed, Reservation
    <2> QED BY <2>1, <2>2 DEF TypeInv
  <1>21. CASE UNCHANGED vars
    <2>1. TypeOK'
      BY <1>21, <1>a DEF TypeOK, vars
    <2>2. Spacious' /\ InList' /\ Writing' /\ Employed' /\ Reservation'
      BY <1>21, <1>a DEF Spacious, InList, Writing, Employed, Reservation, vars
    <2> QED BY <2>1, <2>2 DEF TypeInv
  <1> QED
    BY <1>1, <1>2, <1>3, <1>4, <1>5, <1>6, <1>7, <1>8, <1>9, <1>10, <1>11,
       <1>12, <1>13, <1>14, <1>15, <1>16, <1>17, <1>18, <1>19, <1>20, <1>21
       DEF Next, Coordinate, Work

LEMMA TypeHolds == Spec => []TypeInv
  BY InitType, StepType, PTL DEF Spec

(* Every variable keeps its type: at most two jobs are pending or in the    *)
(* channel, and reserved never goes below zero.                            *)
THEOREM TypeCorrect == Spec => []TypeOK
  <1>1. TypeInv => TypeOK
    BY DEF TypeInv
  <1> QED BY <1>1, TypeHolds, PTL

-----------------------------------------------------------------------------
(* The coordinator's books.                                                *)

(* The pending jobs are the last files the loop has passed, in its order. *)
Order ==
    /\ Len(pending) <= at - 1
    /\ \A i \in 1..Len(pending) : pending[i].file = List[at - 1 - Len(pending) + i]

(* The slots alternate: the one whose turn it is belongs to no pending job  *)
(* but the older of two.                                                   *)
SlotsApart ==
    /\ Len(pending) = 1 => pending[1].slot = 1 - slot
    /\ Len(pending) = 2 => pending[1].slot = slot /\ pending[2].slot = 1 - slot

Budgeted ==
    /\ Len(pending) = 2 =>
          Bytes[pending[1].file] + Bytes[pending[2].file] <= Budget
    /\ Len(pending) = 1 /\ pc \in {"copy", "send"} =>
          Bytes[pending[1].file] + Bytes[File] <= Budget

(* Without an error the loop is left only at its end. *)
Ending ==
    /\ pc = "end" => at = Len(List) + 1
    /\ pc \notin {"join", "done"} => err = "none"
    /\ pc # "done" => answer = "none"
    /\ pc \in {"join", "done"} /\ err = "none" =>
          at = Len(List) + 1 /\ pending = <<>>
    /\ answer = "ok" => err = "none" /\ pc = "done"

Books == Order /\ SlotsApart /\ Budgeted /\ Ending

LEMMA InitBooks == Init => Books
  BY DEF Init, Books, Order, SlotsApart, Budgeted, Ending

(* Leaving the loop. *)
LEMMA ReturnBooks ==
    ASSUME TypeInv, Books, NEW e \in {"none"} \cup Errors, Return(e), pc # "done",
           e = "none" => pc = "end" /\ pending = <<>>
    PROVE  Books'
  BY DEF Return, Books, Order, SlotsApart, Budgeted, Ending, Errors

LEMMA StepBooks == TypeInv /\ TypeInv' /\ Books /\ [Next]_vars => Books'
  <1> SUFFICES ASSUME TypeInv, TypeInv', Books, [Next]_vars PROVE Books'
    OBVIOUS
  <1>a. /\ TypeOK /\ Spacious /\ InList /\ Reservation
        /\ Order /\ SlotsApart /\ Budgeted /\ Ending /\ Len(List) \in Nat
    BY ListType DEF TypeInv, Books
  <1>1. CASE SeeCancelled
    BY <1>1, ReturnBooks DEF SeeCancelled, InLoop, Errors
  <1>2. CASE Stumble
    BY <1>2, ReturnBooks DEF Stumble, InLoop, Errors
  <1>3. CASE NextFile \/ Settled
    BY <1>3, <1>a DEF NextFile, Settled, Go, Books, Order, SlotsApart, Budgeted, Ending
  <1>4. CASE NoMoreFiles
    BY <1>4, <1>a DEF NoMoreFiles, Go, Books, Order, SlotsApart, Budgeted,
       Ending, TypeOK
  <1>5. CASE Recover
    BY <1>5, <1>a DEF Recover, Go, Books, Order, SlotsApart, Budgeted, Ending, TypeOK
  <1>6. CASE RecoverBad
    BY <1>6, ReturnBooks DEF RecoverBad, Errors
  <1>7. CASE Open
    <2>1. /\ pc = "reserve" /\ pc' = "copy" /\ ~MustFinish
          /\ UNCHANGED <<at, slot, pending, reserved, err, answer>>
      BY <1>7 DEF Open, Go
    <2>2. ASSUME Len(pending) = 1
          PROVE  Bytes[pending[1].file] + Bytes[File] <= Budget
      <3>0. reserved = Bytes[pending[1].file]
        BY <1>a, <2>2 DEF Reservation
      <3>1. reserved = Bytes[pending[1].file] /\ pending # <<>>
        BY <2>2, <3>0
      <3>2. File \in Files
        BY <1>a, <2>1 DEF InList, File, Files
      <3>3. Bytes[File] \in Nat /\ reserved \in Nat /\ Budget \in Nat
        BY <1>a, <3>2, TransferAssumption DEF TypeOK
      <3>4. ~(reserved > Budget - Bytes[File])
        BY <2>1, <3>1 DEF MustFinish
      <3> QED BY <3>1, <3>3, <3>4
    <2> QED BY <1>a, <2>1, <2>2
         DEF Books, Order, SlotsApart, Budgeted, Ending, File
  <1>8. CASE Copy
    BY <1>8, <1>a DEF Copy, Go, Books, Order, SlotsApart, Budgeted, Ending, File
  <1>9. CASE Send
    <2> DEFINE j == [file |-> File, slot |-> slot]
    <2>1. /\ pc = "send" /\ pc' \in {"settle", "next"} /\ pending' = Append(pending, j)
          /\ slot' = 1 - slot /\ at' = at + 1 /\ UNCHANGED <<err, answer>>
      BY <1>9 DEF Send, Go
    <2>2. File \in Files /\ at \in 1..Len(List) /\ Len(pending) \in 0..1
      BY <1>a, <2>1 DEF InList, File, Files, Spacious
    <2>3. j \in Job /\ j.file = List[at] /\ j.slot = slot /\ slot \in Slots
      BY <1>a, <2>2 DEF Job, TypeOK, File
    <2>4. /\ Len(pending') = Len(pending) + 1
          /\ \A i \in 1..Len(pending) : pending'[i] = pending[i]
          /\ pending'[Len(pending) + 1] = j
      BY <1>a, <2>1, <2>2, <2>3, ShortAppend DEF TypeOK
    <2>5. Order'
      BY <1>a, <2>1, <2>2, <2>3, <2>4 DEF Order
    <2>6. SlotsApart'
      BY <1>a, <2>1, <2>2, <2>3, <2>4 DEF SlotsApart, Slots
    <2>7. Budgeted'
      BY <1>a, <2>1, <2>2, <2>3, <2>4 DEF Budgeted, File
    <2>8. Ending'
      BY <1>a, <2>1 DEF Ending
    <2> QED BY <2>5, <2>6, <2>7, <2>8 DEF Books
  <1>10. CASE End
    BY <1>10, ReturnBooks DEF End
  <1>11. CASE Finish
    <2>1. /\ Len(pending) \in 1..2 /\ Len(pending') = Len(pending) - 1
          /\ \A i \in 1..Len(pending') : pending'[i] = pending[i + 1]
      BY <1>11, <1>a, ShortTail DEF Finish, Finishing, TypeOK
    <2>2. UNCHANGED <<pc, at, slot, err, answer>>
          /\ pc \in {"recover", "settle", "end", "reserve"}
      BY <1>11 DEF Finish, Finishing
    <2>a. at \in Nat /\ Len(pending) \in Nat
      BY <1>a, <2>1 DEF TypeOK
    <2>b. ASSUME NEW i \in 1..Len(pending')
          PROVE  pending'[i].file = List[at' - 1 - Len(pending') + i]
      <3>1. i + 1 \in 1..Len(pending) /\ pending'[i] = pending[i + 1]
        BY <2>1, <2>a
      <3>2. pending[i + 1].file = List[at - 1 - Len(pending) + (i + 1)]
        BY <1>a, <3>1 DEF Order
      <3>3. at - 1 - Len(pending) + (i + 1) = at' - 1 - Len(pending') + i
        BY <2>1, <2>2, <2>a
      <3> QED BY <3>1, <3>2, <3>3
    <2>c. Len(pending') <= at' - 1
      BY <1>a, <2>1, <2>2, <2>a DEF Order
    <2>3. Order'
      BY <2>b, <2>c DEF Order
    <2>d. slot \in {0, 1}
      BY <1>a DEF TypeOK, Slots
    <2>e. Len(pending') \in {0, 1} /\ (Len(pending') = 1 => Len(pending) = 2
                                        /\ pending'[1] = pending[2])
      BY <2>1, <2>a
    <2>f. SlotsApart'
      BY <1>a, <2>2, <2>e DEF SlotsApart
    <2>4. SlotsApart' /\ Budgeted'
      BY <2>2, <2>e, <2>f DEF Budgeted
    <2>5. Ending'
      BY <1>a, <2>2 DEF Ending
    <2> QED BY <2>3, <2>4, <2>5 DEF Books
  <1>12. CASE FinishError
    <2>1. Head(pending) \in Job
      BY <1>12, <1>a, ShortTail DEF FinishError, Finishing, TypeOK
    <2>2. done[Head(pending).slot] \in {"none", "ok", "canceled", "target"}
      BY <1>a, <2>1 DEF TypeOK, Job
    <2>3. PICK e \in Errors : Return(e)
      BY <1>12, <2>2 DEF FinishError, Finishing, Errors
    <2> QED BY <1>12, <2>3, ReturnBooks DEF FinishError, Finishing, Errors
  <1>13. CASE Join
    <2>1. /\ pc = "join" /\ pc' = "done"
          /\ answer' = IF err = "none" THEN "ok" ELSE Outcome
          /\ UNCHANGED <<at, slot, pending, err>>
      BY <1>13 DEF Join
    <2>2. Outcome # "ok"
      BY <1>a DEF Outcome, TypeOK, Errors
    <2>3. Ending'
      BY <1>a, <2>1, <2>2 DEF Ending
    <2> QED BY <1>a, <2>1, <2>3 DEF Books, Order, SlotsApart, Budgeted
  <1>14. CASE Work \/ Cancel
    BY <1>14, <1>a DEF Work, Take, Verify, Tell, Exit, Cancel, main, Books, Order,
       SlotsApart, Budgeted, Ending, File
  <1>15. CASE Restart
    BY <1>15 DEF Restart, Books, Order, SlotsApart, Budgeted, Ending
  <1>16. CASE UNCHANGED vars
    BY <1>16, <1>a DEF vars, Books, Order, SlotsApart, Budgeted, Ending, File
  <1> QED
    BY <1>1, <1>2, <1>3, <1>4, <1>5, <1>6, <1>7, <1>8, <1>9, <1>10, <1>11,
       <1>12, <1>13, <1>14, <1>15, <1>16 DEF Next, Coordinate

LEMMA BooksHold == Spec => [](TypeInv /\ Books)
  <1>1. Init => TypeInv /\ Books
    BY InitType, InitBooks
  <1>2. TypeInv /\ Books /\ [Next]_vars => (TypeInv /\ Books)'
    BY StepType, StepBooks
  <1> QED BY <1>1, <1>2, PTL DEF Spec

(* At most two files are unverified, and two only within the budget. *)
THEOREM BudgetKept == Spec => []InBudget
  <1>1. TypeInv /\ Books => InBudget
    <2> SUFFICES ASSUME TypeInv, Books PROVE InBudget
      OBVIOUS
    <2>1. /\ Len(pending) \in 0..2 /\ pending \in Seq(Job)
          /\ pc \in {"copy", "send"} => Len(pending) \in 0..1
      BY DEF TypeInv, TypeOK, Spacious
    <2> DEFINE copied == IF pc \in {"copy", "send"} THEN <<File>> ELSE <<>>
               files == [i \in 1..Len(pending) |-> pending[i].file] \o copied
    <2>2. CASE pc \in {"copy", "send"}
      <3>1. /\ Len(files) = Len(pending) + 1
            /\ \A i \in 1..Len(pending) : files[i] = pending[i].file
            /\ files[Len(pending) + 1] = File
        BY <2>1, <2>2
      <3> QED BY <2>1, <2>2, <3>1 DEF Books, Budgeted, InBudget
    <2>3. CASE pc \notin {"copy", "send"}
      <3>1. /\ Len(files) = Len(pending)
            /\ \A i \in 1..Len(pending) : files[i] = pending[i].file
        BY <2>1, <2>3
      <3> QED BY <2>1, <2>3, <3>1 DEF Books, Budgeted, InBudget
    <2> QED BY <2>2, <2>3
  <1> QED BY <1>1, BooksHold, PTL
-----------------------------------------------------------------------------
(* Who cancelled.                                                          *)

(* Outside the loop the context is cancelled.  A cause "canceled" comes only *)
(* from the regular end, and a verdict "canceled" only from a context that  *)
(* was cancelled before.                                                   *)
Causes ==
    /\ pc \in {"join", "done"} => Cancelled
    /\ cause = "canceled" => pc \in {"join", "done"} /\ err = "none"
    /\ verdict = "canceled" => Cancelled
    /\ \A s \in Slots : done[s] = "canceled" => Cancelled
    /\ answer = "canceled" => cause = "user"

LEMMA InitCauses == Init => Causes
  BY DEF Init, Causes, Cancelled

LEMMA ReturnCauses ==
    ASSUME TypeInv, Causes, Ending, NEW e \in {"none"} \cup Errors, Return(e),
           pc \notin {"join", "done"}, e = "canceled" => Cancelled
    PROVE  Causes'
  <1>1. /\ pc' = "join" /\ err' = e /\ answer' = "none"
        /\ UNCHANGED <<verdict, done>>
    BY DEF Return, side, Ending
  <1>2. cause' = IF Cancelled THEN cause
                 ELSE IF e = "none" THEN "canceled" ELSE e
    BY DEF Return, CancelWith
  <1>3. cause' # "none"
    BY <1>2 DEF Cancelled, Errors
  <1>4. cause' = "canceled" => err' = "none"
    BY <1>1, <1>2 DEF Causes, Cancelled
  <1> QED BY <1>1, <1>3, <1>4 DEF Causes, Cancelled

LEMMA StepCauses == TypeInv /\ Ending /\ Causes /\ [Next]_vars => Causes'
  <1> SUFFICES ASSUME TypeInv, Ending, Causes, [Next]_vars PROVE Causes'
    OBVIOUS
  <1>a. TypeOK
    BY DEF TypeInv
  <1>1. CASE SeeCancelled
    BY <1>1, ReturnCauses DEF SeeCancelled, InLoop, Errors
  <1>2. CASE Stumble
    BY <1>2, ReturnCauses DEF Stumble, InLoop, Errors
  <1>3. CASE RecoverBad
    BY <1>3, ReturnCauses DEF RecoverBad, Errors
  <1>4. CASE End
    BY <1>4, ReturnCauses DEF End
  <1>5. CASE NextFile \/ NoMoreFiles \/ Recover \/ Open \/ Copy \/ Send \/ Settled
    <2>1. UNCHANGED <<cause, err, answer, verdict, done>>
      BY <1>5 DEF NextFile, NoMoreFiles, Recover, Open, Copy, Send, Settled, Go, side
    <2>2. pc \notin {"join", "done"} /\ pc' \notin {"join", "done"}
      BY <1>5 DEF NextFile, NoMoreFiles, Recover, Open, Copy, Send, Settled, Go
    <2> QED BY <2>1, <2>2 DEF Causes, Cancelled
  <1>6. CASE Finish
    <2>1. UNCHANGED <<pc, cause, err, answer, verdict>>
      BY <1>6 DEF Finish, side
    <2>2. done' = [done EXCEPT ![Head(pending).slot] = "none"]
      BY <1>6 DEF Finish
    <2> QED BY <1>a, <2>1, <2>2 DEF Causes, Cancelled, TypeOK
  <1>7. CASE FinishError
    <2>1. Head(pending).slot \in Slots
      BY <1>7, <1>a, ShortTail DEF FinishError, Finishing, TypeOK, Job
    <2>2. done[Head(pending).slot] \in {"none", "ok", "canceled", "target"}
      BY <1>a, <2>1 DEF TypeOK
    <2>3. PICK e \in Errors : Return(e) /\ (e = "canceled" => Cancelled)
      BY <1>7, <2>1, <2>2 DEF FinishError, Finishing, Errors, Causes
    <2> QED BY <1>7, <2>3, ReturnCauses DEF FinishError, Finishing
  <1>8. CASE Join
    <2>1. /\ pc = "join" /\ pc' = "done" /\ UNCHANGED <<cause, err, verdict, done>>
          /\ answer' = IF err = "none" THEN "ok" ELSE Outcome
      BY <1>8 DEF Join
    <2>2. ASSUME answer' = "canceled" PROVE cause = "user"
      <3>1. err = "canceled" /\ Outcome = "canceled"
        BY <2>1, <2>2 DEF Outcome
      <3> QED BY <3>1, <1>a DEF Outcome, Causes, TypeOK
    <2> QED BY <2>1, <2>2 DEF Causes, Cancelled
  <1>9. CASE Take \/ Exit
    BY <1>9 DEF Take, Exit, main, Causes, Cancelled
  <1>10. CASE Verify
    <2>1. UNCHANGED <<pc, err, answer, done>>
      BY <1>10 DEF Verify, main
    <2>2. verdict' \in {"ok", "canceled", "target"} /\ (verdict' = "canceled" => Cancelled)
      BY <1>10 DEF Verify
    <2>3. cause' = IF verdict' = "ok" \/ Cancelled THEN cause ELSE verdict'
      BY <1>10 DEF Verify, CancelWith
    <2> QED BY <2>1, <2>2, <2>3 DEF Causes, Cancelled
  <1>11. CASE Tell
    <2>1. UNCHANGED <<pc, err, answer, cause>> /\ verdict' = "none"
      BY <1>11 DEF Tell, main
    <2>2. done' = [done EXCEPT ![job.slot] = verdict]
      BY <1>11 DEF Tell
    <2>3. \A s \in Slots : done'[s] = "canceled" => Cancelled
      BY <1>a, <2>2 DEF Causes, TypeOK
    <2> QED BY <2>1, <2>3 DEF Causes, Cancelled
  <1>12. CASE Cancel
    <2>1. /\ UNCHANGED <<pc, err, answer, verdict, done>> /\ cause = "none"
          /\ cause' = "user"
      BY <1>12 DEF Cancel, main, side, Cancelled
    <2> QED BY <2>1 DEF Causes, Cancelled
  <1>13. CASE Restart
    BY <1>13 DEF Restart, Causes, Cancelled
  <1>14. CASE UNCHANGED vars
    BY <1>14 DEF vars, Causes, Cancelled
  <1> QED
    BY <1>1, <1>2, <1>3, <1>4, <1>5, <1>6, <1>7, <1>8, <1>9, <1>10, <1>11,
       <1>12, <1>13, <1>14 DEF Next, Coordinate, Work

LEMMA CausesHold == Spec => [](TypeInv /\ Books /\ Causes)
  <1>1. Init => Causes
    BY InitCauses
  <1>2. TypeInv /\ Books /\ Causes /\ [Next]_vars => Causes'
    BY StepCauses DEF Books
  <1> QED BY <1>1, <1>2, BooksHold, PTL DEF Spec

(* Whoever is told "canceled" has a user, or another export, who asked for   *)
(* it before anything failed.                                              *)
THEOREM CancellationTrue == Spec => []CancelledByUser
  <1>1. Causes => CancelledByUser
    BY DEF Causes, CancelledByUser
  <1> QED BY <1>1, CausesHold, PTL
-----------------------------------------------------------------------------
(* Where the pending jobs are.                                             *)

(* Of the pending jobs the oldest have their verdict, the next may be with   *)
(* the worker, the rest are in the channel, in their order.                *)
Waiting == Len(jobs) + (IF job = None THEN 0 ELSE 1)

Line ==
    /\ Waiting <= Len(pending)
    /\ \A i \in 1..Len(jobs) : jobs[i] = pending[Len(pending) - Len(jobs) + i]
    /\ job # None => job = pending[Len(pending) - Len(jobs)]
    /\ \A i \in 1..Len(pending) :
          done[pending[i].slot] # "none" <=> i <= Len(pending) - Waiting
    /\ \A s \in Slots :
          done[s] # "none" => \E i \in 1..Len(pending) : pending[i].slot = s

(* The worker has a verdict exactly while it tells it. *)
Telling == worker = "telling" <=> verdict # "none"

LEMMA InitLine == Init => Line /\ Telling
  BY DEF Init, Line, Waiting, Telling

LEMMA StepTelling == TypeInv /\ Telling /\ [Next]_vars => Telling'
  <1> SUFFICES ASSUME TypeInv, Telling, [Next]_vars PROVE Telling'
    OBVIOUS
  <1>1. CASE Verify
    BY <1>1 DEF Verify, Telling
  <1>2. CASE Take \/ Tell \/ Exit \/ Restart
    BY <1>2 DEF Take, Tell, Exit, Restart, Telling
  <1>3. CASE \/ SeeCancelled \/ Stumble \/ RecoverBad \/ End \/ FinishError
             \/ NextFile \/ NoMoreFiles \/ Recover \/ Open \/ Copy \/ Send
             \/ Settled \/ Finish \/ Join \/ Cancel \/ UNCHANGED vars
    <2>1. UNCHANGED <<worker, verdict>>
      BY <1>3 DEF SeeCancelled, Stumble, RecoverBad, End, FinishError, Return,
         NextFile, NoMoreFiles, Recover, Open, Copy, Send, Settled, Go, Finish,
         Join, Cancel, vars, side
    <2> QED BY <2>1 DEF Telling
  <1> QED BY <1>1, <1>2, <1>3 DEF Next, Coordinate, Work

(* Pending jobs have different slots. *)
LEMMA SlotsDiffer ==
    ASSUME TypeInv, Books
    PROVE  \A i, j \in 1..Len(pending) :
              pending[i].slot = pending[j].slot => i = j
  <1>1. Len(pending) \in {0, 1, 2} /\ slot \in {0, 1}
    BY DEF TypeInv, TypeOK, Slots
  <1>2. Len(pending) = 2 => pending[1].slot # pending[2].slot
    BY <1>1 DEF Books, SlotsApart
  <1> QED BY <1>1, <1>2

LEMMA StepLine ==
    TypeInv /\ TypeInv' /\ Books /\ Telling /\ Line /\ [Next]_vars => Line'
  <1> SUFFICES ASSUME TypeInv, TypeInv', Books, Telling, Line, [Next]_vars
               PROVE  Line'
    OBVIOUS
  <1>a. /\ TypeOK /\ TypeOK' /\ Spacious /\ Len(pending) \in {0, 1, 2}
        /\ Len(jobs) \in {0, 1, 2}
    BY DEF TypeInv, TypeOK
  <1>b. \A i \in 1..Len(pending) : pending[i] \in Job
    BY <1>a DEF TypeOK
  <1>c. \A i \in 1..Len(pending) : pending[i].slot \in Slots
    BY <1>b DEF Job
  <1>1. CASE UNCHANGED <<jobs, job, pending, done>>
    BY <1>1 DEF Line, Waiting
  <1>2. CASE Send
    <2> DEFINE j == [file |-> File, slot |-> slot]
    <2>1. /\ pending' = Append(pending, j) /\ jobs' = Append(jobs, j)
          /\ UNCHANGED <<job, done>> /\ Len(pending) \in {0, 1} /\ Len(jobs) \in {0, 1}
      BY <1>2, <1>a DEF Send, Go, side, Spacious
    <2>2. j \in Job
      BY <1>2, <1>a, ListType DEF Send, Go, TypeInv, InList, File, Files, TypeOK, Job
    <2>3. /\ Len(pending') = Len(pending) + 1 /\ Len(jobs') = Len(jobs) + 1
          /\ \A i \in 1..Len(pending) : pending'[i] = pending[i]
          /\ pending'[Len(pending) + 1] = j
          /\ \A i \in 1..Len(jobs) : jobs'[i] = jobs[i]
          /\ jobs'[Len(jobs) + 1] = j
      BY <1>a, <2>1, <2>2, ShortAppend DEF TypeOK
    <2>4. Len(pending) - Len(jobs) = Len(pending') - Len(jobs')
          /\ Waiting' = Waiting + 1 /\ Waiting \in 0..Len(pending)
      BY <2>1, <2>3 DEF Waiting, Line
    <2>5. \A i \in 1..Len(jobs') : jobs'[i] = pending'[Len(pending') - Len(jobs') + i]
      BY <2>1, <2>3, <2>4 DEF Line, Waiting
    <2>6. job' # None => job' = pending'[Len(pending') - Len(jobs')]
      BY <2>1, <2>3, <2>4 DEF Line, Waiting
    <2>7. done[slot] = "none"
      <3>1. \A i \in 1..Len(pending) : pending[i].slot # slot
        <4>1. slot \in {0, 1}
          BY <1>a DEF TypeOK, Slots
        <4> QED BY <2>1, <4>1 DEF Books, SlotsApart
      <3> QED BY <3>1, <1>a DEF Line, TypeOK
    <2>8. \A i \in 1..Len(pending') :
             done'[pending'[i].slot] # "none" <=> i <= Len(pending') - Waiting'
      <3> SUFFICES ASSUME NEW i \in 1..Len(pending')
                   PROVE  done'[pending'[i].slot] # "none" <=> i <= Len(pending') - Waiting'
        OBVIOUS
      <3>1. CASE i \in 1..Len(pending)
        BY <3>1, <2>1, <2>3, <2>4 DEF Line
      <3>2. CASE i = Len(pending) + 1
        <4>1. pending'[i].slot = slot
          BY <3>2, <2>3
        <4>2. ~(i <= Len(pending') - Waiting')
          BY <3>2, <2>1, <2>3, <2>4
        <4> QED BY <4>1, <4>2, <2>1, <2>7
      <3> QED BY <3>1, <3>2, <2>1, <2>3
    <2>9. \A s \in Slots :
             done'[s] # "none" => \E i \in 1..Len(pending') : pending'[i].slot = s
      BY <2>1, <2>3 DEF Line
    <2>10. Waiting' <= Len(pending')
      BY <2>1, <2>3, <2>4
    <2> QED BY <2>5, <2>6, <2>8, <2>9, <2>10 DEF Line
  <1>3. CASE Finish
    <2>1. /\ Len(pending) \in 1..2 /\ Len(pending') = Len(pending) - 1
          /\ Head(pending) = pending[1] /\ pending[1] \in Job
          /\ \A i \in 1..Len(pending') : pending'[i] = pending[i + 1]
      BY <1>3, <1>a, ShortTail DEF Finish, Finishing, TypeOK
    <2>2. /\ UNCHANGED <<jobs, job>> /\ done[pending[1].slot] = "ok"
          /\ done' = [done EXCEPT ![pending[1].slot] = "none"]
      BY <1>3, <2>1 DEF Finish, side
    <2>3. 1 <= Len(pending) - Waiting /\ Waiting' = Waiting /\ Waiting \in Nat
      BY <2>1, <2>2, <1>a DEF Line, Waiting
    <2>4. \A i \in 1..Len(jobs') : jobs'[i] = pending'[Len(pending') - Len(jobs') + i]
      <3> SUFFICES ASSUME NEW i \in 1..Len(jobs)
                   PROVE  jobs[i] = pending'[Len(pending') - Len(jobs) + i]
        BY <2>2
      <3>1. Len(pending') - Len(jobs) + i \in 1..Len(pending')
        BY <2>1, <2>3, <1>a DEF Waiting
      <3>2. pending'[Len(pending') - Len(jobs) + i] = pending[Len(pending) - Len(jobs) + i]
        <4>1. Len(pending') - Len(jobs) + i + 1 = Len(pending) - Len(jobs) + i
          BY <2>1, <1>a
        <4> QED BY <3>1, <4>1, <2>1
      <3> QED BY <3>2 DEF Line
    <2>5. job' # None => job' = pending'[Len(pending') - Len(jobs')]
      <3> SUFFICES ASSUME job # None
                   PROVE  job = pending'[Len(pending') - Len(jobs)]
        BY <2>2
      <3>1. Len(pending') - Len(jobs) \in 1..Len(pending')
        BY <2>1, <2>3, <1>a DEF Waiting
      <3>2. Len(pending') - Len(jobs) + 1 = Len(pending) - Len(jobs)
        BY <2>1, <1>a
      <3> QED BY <3>1, <3>2, <2>1 DEF Line
    <2>6. \A i \in 1..Len(pending') :
             done'[pending'[i].slot] # "none" <=> i <= Len(pending') - Waiting'
      <3> SUFFICES ASSUME NEW i \in 1..Len(pending')
                   PROVE  done'[pending'[i].slot] # "none" <=> i <= Len(pending') - Waiting'
        OBVIOUS
      <3>1. i + 1 \in 1..Len(pending) /\ i + 1 # 1 /\ 1 \in 1..Len(pending)
        BY <2>1
      <3>2. pending'[i].slot = pending[i + 1].slot
        BY <2>1
      <3>3. pending[i + 1].slot # pending[1].slot
        BY <3>1, SlotsDiffer
      <3>4. pending[i + 1].slot \in Slots
        BY <3>1, <1>c
      <3>5. done'[pending'[i].slot] = done[pending[i + 1].slot]
        BY <3>2, <3>3, <3>4, <2>2, <1>a DEF TypeOK
      <3>6. done[pending[i + 1].slot] # "none" <=> i + 1 <= Len(pending) - Waiting
        BY <3>1 DEF Line
      <3>7. i + 1 <= Len(pending) - Waiting <=> i <= Len(pending') - Waiting'
        BY <2>1, <2>3
      <3> QED BY <3>5, <3>6, <3>7
    <2>7. \A s \in Slots :
             done'[s] # "none" => \E i \in 1..Len(pending') : pending'[i].slot = s
      <3> SUFFICES ASSUME NEW s \in Slots, done'[s] # "none"
                   PROVE  \E i \in 1..Len(pending') : pending'[i].slot = s
        OBVIOUS
      <3>1. s # pending[1].slot /\ done[s] # "none"
        BY <2>1, <2>2, <1>a DEF TypeOK, Job
      <3>2. PICK k \in 1..Len(pending) : pending[k].slot = s
        BY <3>1 DEF Line
      <3>3. k - 1 \in 1..Len(pending') /\ (k - 1) + 1 = k
        BY <3>1, <3>2, <2>1
      <3> QED BY <3>2, <3>3, <2>1
    <2>8. Waiting' <= Len(pending')
      BY <2>1, <2>3
    <2> QED BY <2>4, <2>5, <2>6, <2>7, <2>8 DEF Line
  <1>4. CASE Take
    <2>1. /\ job = None /\ Len(jobs) \in 1..2 /\ Len(jobs') = Len(jobs) - 1
          /\ job' = jobs[1] /\ job' # None
          /\ \A i \in 1..Len(jobs') : jobs'[i] = jobs[i + 1]
          /\ UNCHANGED <<pending, done>>
      BY <1>4, <1>a, ShortTail, TransferAssumption DEF Take, main, TypeOK, TypeInv, Employed
    <2>2. Waiting' = Waiting
      BY <2>1 DEF Waiting
    <2>3. \A i \in 1..Len(jobs') : jobs'[i] = pending'[Len(pending') - Len(jobs') + i]
      <3> SUFFICES ASSUME NEW i \in 1..Len(jobs')
                   PROVE  jobs'[i] = pending[Len(pending) - Len(jobs') + i]
        BY <2>1
      <3>1. i + 1 \in 1..Len(jobs)
            /\ Len(pending) - Len(jobs') + i = Len(pending) - Len(jobs) + (i + 1)
        BY <2>1, <1>a
      <3> QED BY <3>1, <2>1 DEF Line
    <2>4. job' = pending'[Len(pending') - Len(jobs')]
      <3>1. Len(pending) - Len(jobs') = Len(pending) - Len(jobs) + 1 /\ 1 \in 1..Len(jobs)
        BY <2>1, <1>a
      <3> QED BY <3>1, <2>1 DEF Line
    <2> QED BY <2>1, <2>2, <2>3, <2>4 DEF Line
  <1>5. CASE Tell
    <2>1. /\ job # None /\ job' = None /\ UNCHANGED <<pending, jobs>>
          /\ done' = [done EXCEPT ![job.slot] = verdict] /\ verdict # "none"
      BY <1>5, <1>a DEF Tell, main, TypeInv, Employed, Telling
    <2>2. Waiting' = Waiting - 1 /\ Waiting = Len(jobs) + 1 /\ Waiting <= Len(pending)
      BY <2>1, <1>a DEF Waiting, Line
    <2> DEFINE k == Len(pending) - Len(jobs)
    <2>3. k \in 1..Len(pending) /\ job = pending[k] /\ job \in Job
      BY <2>1, <2>2, <1>a DEF Line, TypeOK
    <2>4. \A i \in 1..Len(pending) :
             done'[pending[i].slot] = IF i = k THEN verdict ELSE done[pending[i].slot]
      <3> SUFFICES ASSUME NEW i \in 1..Len(pending)
                   PROVE  done'[pending[i].slot] =
                             IF i = k THEN verdict ELSE done[pending[i].slot]
        OBVIOUS
      <3>1. pending[i].slot \in Slots /\ done \in [Slots -> {"none", "ok", "canceled", "target"}]
        BY <1>a, <1>c DEF TypeOK
      <3>2. i # k => pending[i].slot # job.slot
        BY <2>3, SlotsDiffer
      <3> QED BY <2>1, <2>3, <3>1, <3>2
    <2>5. \A i \in 1..Len(pending) :
             done'[pending[i].slot] # "none" <=> i <= Len(pending) - Waiting'
      <3> SUFFICES ASSUME NEW i \in 1..Len(pending)
                   PROVE  done'[pending[i].slot] # "none" <=> i <= Len(pending) - Waiting'
        OBVIOUS
      <3>1. Len(pending) - Waiting' = k /\ Len(pending) - Waiting = k - 1
        BY <2>2, <1>a
      <3>2. CASE i = k
        <4>1. done'[pending[i].slot] = verdict
          BY <3>2, <2>4
        <4>2. i <= Len(pending) - Waiting'
          BY <3>1, <3>2, <2>3
        <4> QED BY <4>1, <4>2, <2>1
      <3>3. CASE i # k
        <4>1. done'[pending[i].slot] # "none" <=> i <= k - 1
          BY <3>1, <3>3, <2>4 DEF Line
        <4> QED BY <4>1, <3>1, <3>3, <2>3
      <3> QED BY <3>2, <3>3
    <2>6. \A s \in Slots :
             done'[s] # "none" => \E i \in 1..Len(pending) : pending[i].slot = s
      BY <2>1, <2>3, <1>a DEF Line, TypeOK
    <2> QED BY <2>1, <2>2, <2>5, <2>6 DEF Line
  <1>6. CASE Restart
    BY <1>6 DEF Restart, Line, Waiting
  <1>7. CASE \/ SeeCancelled \/ Stumble \/ RecoverBad \/ End \/ FinishError
             \/ NextFile \/ NoMoreFiles \/ Recover \/ Open \/ Copy \/ Settled
             \/ Join \/ Verify \/ Exit \/ Cancel \/ UNCHANGED vars
    <2>1. UNCHANGED <<jobs, job, pending, done>>
      BY <1>7 DEF SeeCancelled, Stumble, RecoverBad, End, FinishError, Return,
         NextFile, NoMoreFiles, Recover, Open, Copy, Settled, Go, Join, Verify,
         Exit, Cancel, vars, main, side
    <2> QED BY <1>1, <2>1
  <1> QED
    BY <1>2, <1>3, <1>4, <1>5, <1>6, <1>7 DEF Next, Coordinate, Work
-----------------------------------------------------------------------------
(* What is verified, and where it goes.                                    *)

(* Only the finish of the oldest job touches its temporary file. *)
LEMMA KeepsUnverified ==
    ASSUME TypeInv, TypeInv', Books, [Next]_vars
    PROVE  \A i \in 1..Len(pending) :
              temp'[pending[i].slot] # temp[pending[i].slot] => i = 1 /\ Finish
  <1>a. TypeOK /\ Len(pending) \in {0, 1, 2} /\ slot \in {0, 1}
    BY DEF TypeInv, TypeOK, Slots
  <1>j. \A i \in 1..Len(pending) : pending[i] \in Job
    BY <1>a DEF TypeOK
  <1>b. \A i \in 1..Len(pending) : pending[i].slot \in Slots
    BY <1>j DEF Job
  <1>1. CASE Open \/ Copy
    <2>1. Len(pending) \in {0, 1}
      BY <1>1, <1>a DEF Open, Copy, Go, TypeInv, Spacious
    <2>2. \A i \in 1..Len(pending) : pending[i].slot # slot
      BY <1>a, <2>1 DEF Books, SlotsApart
    <2>3. \A s \in Slots : s # slot => temp'[s] = temp[s]
      BY <1>1, <1>a DEF Open, Copy, TypeOK
    <2> QED BY <1>b, <2>2, <2>3
  <1>2. CASE Finish
    <2>1. Head(pending) = pending[1] /\ 1 \in 1..Len(pending)
      BY <1>2, <1>a, ShortTail DEF Finish, Finishing, TypeOK
    <2>2. \A s \in Slots : s # pending[1].slot => temp'[s] = temp[s]
      BY <1>2, <1>a, <2>1 DEF Finish, TypeOK
    <2> QED BY <1>2, <1>b, <2>1, <2>2, SlotsDiffer
  <1>3. CASE Restart
    BY <1>3 DEF Restart, store
  <1>4. CASE \/ SeeCancelled \/ Stumble \/ RecoverBad \/ End \/ FinishError
             \/ NextFile \/ NoMoreFiles \/ Recover \/ Send \/ Settled \/ Join
             \/ Work \/ Cancel \/ UNCHANGED vars
    <2>1. UNCHANGED temp
      BY <1>4 DEF SeeCancelled, Stumble, RecoverBad, End, FinishError, Return,
         NextFile, NoMoreFiles, Recover, Send, Settled, Join, Work, Take, Verify,
         Tell, Exit, Cancel, vars, store
    <2> QED BY <2>1
  <1> QED BY <1>1, <1>2, <1>3, <1>4 DEF Next, Coordinate

Whole(j) == temp[j.slot] = [file |-> j.file, part |-> "whole"]

(* A good verdict is one about what still is in the temporary file. *)
Verdicts ==
    /\ verdict = "ok" => Whole(job)
    /\ \A i \in 1..Len(pending) : done[pending[i].slot] = "ok" => Whole(pending[i])

(* What is being copied or waits for its verdict is not in source/. *)
Missing ==
    /\ \A i \in 1..Len(pending) : data[pending[i].file] = "absent"
    /\ pc \in {"reserve", "copy", "send"} => data[File] = "absent"

LEMMA InitTruth == Init => Verdicts /\ Missing /\ ReceiptTrue
  <1> SUFFICES ASSUME Init PROVE Verdicts /\ Missing /\ ReceiptTrue
    OBVIOUS
  <1>1. at = 1 /\ Len(pending) = 0 /\ received = {} /\ pc = "next" /\ verdict = "none"
    BY DEF Init
  <1> QED BY <1>1 DEF Verdicts, Missing, ReceiptTrue

LEMMA StepVerdicts ==
    ASSUME TypeInv, TypeInv', Books, Books', Telling, Line, Line', Verdicts, [Next]_vars
    PROVE  Verdicts'
  <1>a. TypeOK /\ Len(pending) \in {0, 1, 2} /\ Len(jobs) \in {0, 1, 2}
    BY DEF TypeInv, TypeOK
  <1>j. \A i \in 1..Len(pending) : pending[i] \in Job
    BY <1>a DEF TypeOK
  <1>b. \A i \in 1..Len(pending) : pending[i] \in Job /\ pending[i].slot \in Slots
    BY <1>j DEF Job
  <1>k. \A i \in 1..Len(pending) : ~(i = 1 /\ Finish) =>
            temp'[pending[i].slot] = temp[pending[i].slot]
    BY KeepsUnverified
  (* The worker's own job. *)
  <1>w. ASSUME job # None
        PROVE  \E k \in 1..Len(pending) : /\ k = Len(pending) - Len(jobs)
                                          /\ job = pending[k]
                                          /\ done[pending[k].slot] = "none"
    <2>1. Len(pending) - Len(jobs) \in 1..Len(pending)
      BY <1>a, <1>w DEF Line, Waiting
    <2>2. ~(Len(pending) - Len(jobs) <= Len(pending) - Waiting)
      BY <1>a, <1>w DEF Waiting
    <2> QED BY <1>w, <2>1, <2>2 DEF Line
  <1>h. Finish => pending # <<>> /\ Head(pending) = pending[1] /\ 1 \in 1..Len(pending)
                  /\ done[pending[1].slot] = "ok"
    BY <1>a, ShortTail DEF Finish, Finishing, TypeOK
  <1>f. ASSUME job # None PROVE temp'[job.slot] = temp[job.slot]
    <2>1. PICK k \in 1..Len(pending) :
             job = pending[k] /\ done[pending[k].slot] = "none"
      BY <1>f, <1>w
    <2>2. ~(k = 1 /\ Finish)
      BY <1>h, <2>1
    <2> QED BY <1>k, <2>1, <2>2
  (* The worker's verdict. *)
  <1>1. verdict' = "ok" => Whole(job)'
    <2> SUFFICES ASSUME verdict' = "ok" PROVE Whole(job)'
      OBVIOUS
    <2>1. CASE Verify
      BY <2>1 DEF Verify, Whole, store
    <2>2. CASE ~Verify
      <3>1. verdict = "ok" /\ UNCHANGED job
        BY <2>2 DEF Next, Coordinate, Work, SeeCancelled, Stumble, RecoverBad, End,
           FinishError, Return, NextFile, NoMoreFiles, Recover, Open, Copy, Send,
           Settled, Go, Finish, Join, Take, Tell, Exit, Cancel, Restart, vars, side,
           Telling
      <3>2. job # None
        BY <3>1 DEF Telling, TypeInv, Employed
      <3> QED BY <3>1, <3>2, <1>f DEF Verdicts, Whole
    <2> QED BY <2>1, <2>2
  (* The verdicts that wait for the coordinator. *)
  <1>2. \A i \in 1..Len(pending') : done'[pending'[i].slot] = "ok" => Whole(pending[i])'
    <2> SUFFICES ASSUME NEW i \in 1..Len(pending'), done'[pending'[i].slot] = "ok"
                 PROVE  temp'[pending'[i].slot] =
                           [file |-> pending'[i].file, part |-> "whole"]
      BY DEF Whole
    <2>1. CASE Send
      <3> DEFINE j == [file |-> File, slot |-> slot]
      <3>1. /\ pending' = Append(pending, j) /\ jobs' = Append(jobs, j)
            /\ UNCHANGED <<done, job>> /\ Len(pending) \in 0..1 /\ Len(jobs) \in 0..1
        BY <2>1, <1>a DEF Send, Go, side, TypeInv, Spacious
      <3>2. j \in Job
        BY <2>1, <1>a, ListType DEF Send, Go, TypeInv, InList, File, Files, TypeOK, Job
      <3>3. /\ Len(pending') = Len(pending) + 1 /\ Len(jobs') = Len(jobs) + 1
            /\ \A m \in 1..Len(pending) : pending'[m] = pending[m]
        BY <1>a, <3>1, <3>2, ShortAppend DEF TypeOK
      <3>a. i <= Len(pending') - Waiting'
        <4>1. done'[pending'[i].slot] # "none"
          OBVIOUS
        <4> QED BY <4>1 DEF Line
      <3>b. Waiting' \in Nat /\ Waiting' >= 1
        BY <3>1, <3>3 DEF Waiting
      <3>4. i <= Len(pending') - Waiting' /\ Waiting' \in Nat /\ Waiting' >= 1
        BY <3>a, <3>b
      <3>5. i \in 1..Len(pending) /\ pending'[i] = pending[i]
        BY <3>1, <3>3, <3>4
      <3>6. ~Finish
        BY <2>1 DEF Send, Finish, Finishing, Go
      <3> QED BY <1>k, <3>1, <3>5, <3>6 DEF Verdicts, Whole
    <2>2. CASE Finish
      <3>1. /\ Len(pending') = Len(pending) - 1
            /\ \A m \in 1..Len(pending') : pending'[m] = pending[m + 1]
            /\ done' = [done EXCEPT ![pending[1].slot] = "none"]
        BY <2>2, <1>a, <1>h, ShortTail DEF Finish, TypeOK
      <3>2. i + 1 \in 1..Len(pending) /\ i + 1 # 1 /\ pending'[i] = pending[i + 1]
        BY <3>1, <1>a
      <3>3. pending[i + 1].slot # pending[1].slot
        BY <3>2, <1>h, <2>2, SlotsDiffer
      <3>4. done[pending[i + 1].slot] = "ok"
        BY <3>1, <3>2, <3>3, <1>a, <1>b DEF TypeOK
      <3> QED BY <1>k, <3>2, <3>4 DEF Verdicts, Whole
    <2>3. CASE Tell
      <3>1. /\ job # None /\ UNCHANGED pending
            /\ done' = [done EXCEPT ![job.slot] = verdict]
        BY <2>3 DEF Tell, main, TypeInv, Employed
      <3>2. PICK k \in 1..Len(pending) : job = pending[k]
        BY <3>1, <1>w
      <3>3. CASE i = k
        <4>1. verdict = "ok"
          BY <3>1, <3>2, <3>3, <1>a, <1>b DEF TypeOK
        <4> QED BY <4>1, <3>1, <3>2, <3>3, <1>f DEF Verdicts, Whole
      <3>4. CASE i # k
        <4>1. pending[i].slot # job.slot
          BY <3>1, <3>2, <3>4, SlotsDiffer
        <4>2. done[pending[i].slot] = "ok"
          BY <3>1, <4>1, <1>a, <1>b DEF TypeOK
        <4>3. ~Finish
          BY <2>3, <1>b, <1>h DEF Tell, Finish, side
        <4> QED BY <4>2, <4>3, <3>1, <1>k DEF Verdicts, Whole
      <3> QED BY <3>3, <3>4
    <2>4. CASE Restart
      BY <2>4 DEF Restart
    <2>5. CASE ~(Send \/ Finish \/ Tell \/ Restart)
      <3>1. UNCHANGED <<pending, done>>
        BY <2>5 DEF Next, Coordinate, Work, SeeCancelled, Stumble, RecoverBad, End,
           FinishError, Return, NextFile, NoMoreFiles, Recover, Open, Copy,
           Settled, Go, Join, Take, Verify, Exit, Cancel, vars, side, main
      <3> QED BY <2>5, <3>1, <1>k DEF Verdicts, Whole
    <2> QED BY <2>1, <2>2, <2>3, <2>4, <2>5
  <1> QED BY <1>1, <1>2 DEF Verdicts, Whole
(* What one finish does. *)
LEMMA FinishEffect ==
    ASSUME TypeInv, TypeInv', Books, Verdicts, Missing, Finish
    PROVE  /\ Len(pending) \in 1..2 /\ Len(pending') = Len(pending) - 1
           /\ \A i \in 1..Len(pending') : pending'[i] = pending[i + 1]
           /\ pending[1].file = List[at - Len(pending)]
           /\ pending[1].file \in Files /\ data[pending[1].file] = "absent"
           /\ data' = [data EXCEPT ![pending[1].file] = "whole"]
           /\ received' = received \cup {pending[1].file}
           /\ UNCHANGED <<pc, at, answer>>
  <1>a. TypeOK /\ pending # <<>>
    BY DEF TypeInv, Finish, Finishing
  <1>1. /\ Len(pending) \in 1..2 /\ Len(pending') = Len(pending) - 1
        /\ \A i \in 1..Len(pending') : pending'[i] = pending[i + 1]
        /\ Head(pending) = pending[1] /\ pending[1] \in Job
    BY <1>a, ShortTail DEF Finish, TypeOK
  <1>2. 1 \in 1..Len(pending) /\ at - 1 - Len(pending) + 1 = at - Len(pending)
    BY <1>a, <1>1 DEF TypeOK
  <1>3. pending[1].file = List[at - Len(pending)]
    BY <1>2 DEF Books, Order
  <1>4. data[pending[1].file] = "absent" /\ pending[1].file \in Files
    BY <1>1, <1>2 DEF Missing, Job
  <1>5. temp[pending[1].slot] = [file |-> pending[1].file, part |-> "whole"]
    <2>1. done[pending[1].slot] = "ok"
      BY <1>1 DEF Finish
    <2> QED BY <1>2, <2>1 DEF Verdicts, Whole
  <1>6. data' = [data EXCEPT ![pending[1].file] = "whole"]
    BY <1>1, <1>5 DEF Finish
  <1>7. received' = received \cup {pending[1].file} /\ UNCHANGED <<pc, at, answer>>
    BY <1>1 DEF Finish
  <1> QED BY <1>1, <1>3, <1>4, <1>6, <1>7

LEMMA Distinct == \A i, j \in 1..Len(List) : List[i] = List[j] => i = j
  BY TransferAssumption

LEMMA StepMissing ==
    ASSUME TypeInv, TypeInv', Books, Verdicts, Missing, [Next]_vars
    PROVE  Missing'
  <1>a. /\ TypeOK /\ InList /\ Len(pending) \in {0, 1, 2} /\ at \in 1..Len(List) + 1
        /\ Len(List) \in Nat /\ Len(pending) <= at - 1
    BY ListType DEF TypeInv, TypeOK, Books, Order
  <1>1. CASE Finish
    <2>1. /\ Len(pending) \in 1..2 /\ Len(pending') = Len(pending) - 1
          /\ \A i \in 1..Len(pending') : pending'[i] = pending[i + 1]
          /\ pending[1].file = List[at - Len(pending)]
          /\ data' = [data EXCEPT ![pending[1].file] = "whole"]
          /\ UNCHANGED <<pc, at>>
      BY <1>1, FinishEffect
    <2>2. at - Len(pending) \in 1..Len(List)
      BY <1>a, <2>1
    <2>3. \A k \in 1..Len(List) : k # at - Len(pending) => data'[List[k]] = data[List[k]]
      <3> SUFFICES ASSUME NEW k \in 1..Len(List), k # at - Len(pending)
                   PROVE  data'[List[k]] = data[List[k]]
        OBVIOUS
      <3>1. List[k] # pending[1].file /\ List[k] \in Files
        BY <2>1, <2>2, Distinct, ListType
      <3> QED BY <2>1, <3>1, <1>a DEF TypeOK
    <2>4. ASSUME NEW i \in 1..Len(pending')
          PROVE  data'[pending'[i].file] = "absent"
      <3>1. i + 1 \in 1..Len(pending) /\ pending'[i] = pending[i + 1]
        BY <2>1
      <3>2. pending[i + 1].file = List[at - 1 - Len(pending) + (i + 1)]
        BY <3>1 DEF Books, Order
      <3>3. /\ at - 1 - Len(pending) + (i + 1) \in 1..Len(List)
            /\ at - 1 - Len(pending) + (i + 1) # at - Len(pending)
        BY <3>1, <1>a, <2>1
      <3> QED BY <3>1, <3>2, <3>3, <2>3 DEF Missing
    <2>5. ASSUME pc \in {"reserve", "copy", "send"} PROVE data'[File'] = "absent"
      <3>1. at \in 1..Len(List) /\ at # at - Len(pending)
        BY <2>5, <2>1, <1>a DEF InList
      <3> QED BY <3>1, <2>1, <2>3, <2>5 DEF Missing, File
    <2> QED BY <2>1, <2>4, <2>5 DEF Missing
  <1>2. CASE Send
    <2> DEFINE j == [file |-> File, slot |-> slot]
    <2>1. /\ pending' = Append(pending, j) /\ UNCHANGED data
          /\ pc = "send" /\ pc' \in {"settle", "next"} /\ Len(pending) \in 0..1
      BY <1>2, <1>a DEF Send, Go, store, TypeInv, Spacious
    <2>2. j \in Job
      BY <1>a, <2>1, ListType DEF InList, File, Files, TypeOK, Job
    <2>3. /\ Len(pending') = Len(pending) + 1
          /\ \A i \in 1..Len(pending) : pending'[i] = pending[i]
          /\ pending'[Len(pending) + 1] = j
      BY <1>a, <2>1, <2>2, ShortAppend DEF TypeOK
    <2>4. data[j.file] = "absent"
      BY <2>1 DEF Missing
    <2>5. ASSUME NEW i \in 1..Len(pending') PROVE data'[pending'[i].file] = "absent"
      <3>1. CASE i \in 1..Len(pending)
        BY <3>1, <2>1, <2>3 DEF Missing
      <3>2. CASE i = Len(pending) + 1
        BY <3>2, <2>1, <2>3, <2>4
      <3> QED BY <3>1, <3>2, <2>1, <2>3
    <2> QED BY <2>1, <2>5 DEF Missing
  <1>3. CASE NextFile
    BY <1>3 DEF NextFile, Go, store, Missing, File
  <1>4. CASE Open \/ Copy
    BY <1>4 DEF Open, Copy, Go, Missing, File
  <1>5. CASE Restart
    BY <1>5 DEF Restart, store, Missing
  <1>6. CASE \/ SeeCancelled \/ Stumble \/ RecoverBad \/ End \/ FinishError
             \/ NoMoreFiles \/ Recover \/ Settled \/ Join
    <2>1. UNCHANGED <<pending, data>> /\ pc' \notin {"reserve", "copy", "send"}
      BY <1>6 DEF SeeCancelled, Stumble, RecoverBad, End, FinishError, Return,
         NoMoreFiles, Recover, Settled, Go, Join, store
    <2> QED BY <2>1 DEF Missing
  <1>7. CASE Work \/ Cancel \/ UNCHANGED vars
    <2>1. UNCHANGED <<pending, data, pc, at>>
      BY <1>7 DEF Work, Take, Verify, Tell, Exit, Cancel, vars, store, main
    <2> QED BY <2>1 DEF Missing, File
  <1> QED BY <1>1, <1>2, <1>3, <1>4, <1>5, <1>6, <1>7 DEF Next, Coordinate

LEMMA StepReceipt ==
    ASSUME TypeInv, TypeInv', Books, Verdicts, Missing, ReceiptTrue, [Next]_vars
    PROVE  ReceiptTrue'
  <1>a. /\ TypeOK /\ InList /\ Len(pending) \in {0, 1, 2} /\ at \in 1..Len(List) + 1
        /\ Len(List) \in Nat /\ Len(pending) <= at - 1
    BY ListType, SMTT(40) DEF TypeInv, TypeOK, Books, Order
  <1> DEFINE n == at - 1 - Len(pending)
  <1>n. n \in Nat /\ received = {List[i] : i \in 1..n}
        /\ {List[i] : i \in 1..n} \cup {List[n + 1]} = {List[i] : i \in 1..(n + 1)}
    <2>1. n \in Nat
      BY <1>a
    <2>2. received = {List[i] : i \in 1..n}
      BY DEF ReceiptTrue
    <2> HIDE DEF n
    <2>3. \A i : i \in 1..(n + 1) <=> i \in 1..n \/ i = n + 1
      BY <2>1
    <2>4. {List[i] : i \in 1..n} \cup {List[n + 1]} = {List[i] : i \in 1..(n + 1)}
      BY <2>3
    <2> QED BY <2>1, <2>2, <2>4
  <1>1. CASE Finish
    <2>1. /\ Len(pending) \in 1..2 /\ Len(pending') = Len(pending) - 1
          /\ pending[1].file = List[at - Len(pending)]
          /\ pending[1].file \in Files
          /\ data' = [data EXCEPT ![pending[1].file] = "whole"]
          /\ received' = received \cup {pending[1].file}
          /\ UNCHANGED at
      BY <1>1, FinishEffect
    <2>2. n + 1 = at - Len(pending) /\ at' - 1 - Len(pending') = n + 1
      BY <1>a, <2>1
    <2>3. received' = {List[i] : i \in 1..(at' - 1 - Len(pending'))}
      BY <1>n, <2>1, <2>2
    <2>4. \A f \in received' : data'[f] = "whole"
      BY <2>1, <1>a DEF ReceiptTrue, TypeOK
    <2> QED BY <2>3, <2>4 DEF ReceiptTrue
  <1>2. CASE Recover
    <2>1. /\ Len(pending) = 0 /\ Len(pending') = 0 /\ at' = at + 1 /\ UNCHANGED data
          /\ received' = received \cup {List[at]} /\ data[List[at]] = "whole"
      BY <1>2 DEF Recover, Go, store, File
    <2>2. n + 1 = at /\ at' - 1 - Len(pending') = n + 1
      BY <1>a, <2>1
    <2>3. received' = {List[i] : i \in 1..(at' - 1 - Len(pending'))}
      BY <1>n, <2>1, <2>2
    <2> QED BY <2>1, <2>3 DEF ReceiptTrue
  <1>3. CASE Send
    <2>1. /\ UNCHANGED <<received, data>> /\ at' = at + 1
          /\ pending' = Append(pending, [file |-> File, slot |-> slot])
          /\ pending \in Seq(Job)
      BY <1>3, <1>a DEF Send, store, TypeOK
    <2>2. Len(pending') = Len(pending) + 1
      BY <2>1
    <2>3. at' - 1 - Len(pending') = n
      BY <1>a, <2>1, <2>2
    <2> QED BY <2>1, <2>3, <1>n DEF ReceiptTrue
  <1>4. CASE Restart
    <2>1. at' = 1 /\ Len(pending') = 0 /\ received' = {}
      BY <1>4 DEF Restart
    <2>2. {List[i] : i \in 1..(at' - 1 - Len(pending'))} = {}
      BY <2>1
    <2> QED BY <2>1, <2>2 DEF ReceiptTrue
  <1>5. CASE \/ SeeCancelled \/ Stumble \/ RecoverBad \/ End \/ FinishError
             \/ NextFile \/ NoMoreFiles \/ Open \/ Copy \/ Settled \/ Join
             \/ Work \/ Cancel \/ UNCHANGED vars
    <2>1. UNCHANGED <<pending, at, received, data>>
      BY <1>5 DEF SeeCancelled, Stumble, RecoverBad, End, FinishError, Return,
         NextFile, NoMoreFiles, Open, Copy, Settled, Go, Join, Work, Take,
         Verify, Tell, Exit, Cancel, vars, store, main
    <2> QED BY <2>1 DEF ReceiptTrue
  <1> QED BY <1>1, <1>2, <1>3, <1>4, <1>5 DEF Next, Coordinate
Truth == Telling /\ Line /\ Verdicts /\ Missing /\ ReceiptTrue

Inv == TypeInv /\ Books /\ Causes /\ Truth

LEMMA InvHolds == Spec => []Inv
  <1>1. Init => Inv
    BY InitType, InitBooks, InitCauses, InitLine, InitTruth DEF Inv, Truth
  <1>2. Inv /\ [Next]_vars => Inv'
    <2> SUFFICES ASSUME Inv, [Next]_vars PROVE Inv'
      OBVIOUS
    <2>1. TypeInv /\ Books /\ Causes /\ Telling /\ Line /\ Verdicts /\ Missing
          /\ ReceiptTrue
      BY DEF Inv, Truth
    <2>2. TypeInv'
      BY <2>1, StepType
    <2>3. Books'
      BY <2>1, <2>2, StepBooks
    <2>4. Causes' /\ Telling' /\ Line'
      BY <2>1, <2>2, StepCauses, StepTelling, StepLine DEF Books
    <2>5. Verdicts' /\ Missing' /\ ReceiptTrue'
      BY <2>1, <2>2, <2>3, <2>4, StepVerdicts, StepMissing, StepReceipt
    <2> QED BY <2>2, <2>3, <2>4, <2>5 DEF Inv, Truth
  <1> QED BY <1>1, <1>2, PTL DEF Spec

(* The receipt lists exactly the files passed and finished, all in source/.*)
THEOREM ReceiptKept == Spec => []ReceiptTrue
  <1>1. Inv => ReceiptTrue
    BY DEF Inv, Truth
  <1> QED BY <1>1, InvHolds, PTL

(* Success means that every file is in source/ and in the receipt. *)
THEOREM SuccessKept == Spec => []SuccessWhole
  <1>1. Inv => SuccessWhole
    <2> SUFFICES ASSUME Inv, answer = "ok"
                 PROVE  received = Files /\ \A f \in Files : data[f] = "whole"
      BY DEF SuccessWhole
    <2>1. at = Len(List) + 1 /\ Len(pending) = 0 /\ Len(List) \in Nat
      BY ListType DEF Inv, Books, Ending
    <2>2. at - 1 - Len(pending) = Len(List)
      BY <2>1
    <2>3. received = Files
      BY <2>2 DEF Inv, Truth, ReceiptTrue, Files
    <2> QED BY <2>3 DEF Inv, Truth, ReceiptTrue
  <1> QED BY <1>1, InvHolds, PTL

(* What waits for its verdict is touched by its own finish only. *)
THEOREM UnverifiedStays == Spec => UnverifiedKept
  <1>1. Inv /\ Inv' /\ [Next]_vars =>
          [\A i \in 1..Len(pending) :
              temp'[pending[i].slot] # temp[pending[i].slot] =>
                 i = 1 /\ pending' = Tail(pending)]_vars
    <2> SUFFICES ASSUME Inv, Inv', [Next]_vars
                 PROVE  \A i \in 1..Len(pending) :
                           temp'[pending[i].slot] # temp[pending[i].slot] =>
                              i = 1 /\ pending' = Tail(pending)
      OBVIOUS
    <2>1. Finish => pending' = Tail(pending)
      BY DEF Finish
    <2> QED BY <2>1, KeepsUnverified DEF Inv
  <1> QED BY <1>1, InvHolds, PTL DEF Spec, UnverifiedKept

(* Files appear in source/ verified, and nothing there is touched. *)
THEOREM VerifiedOnly == Spec => OnlyVerified
  <1>1. Inv /\ Inv' /\ [Next]_vars =>
          [\A f \in Files : data'[f] # data[f] =>
              data[f] = "absent" /\ data'[f] = "whole"]_vars
    <2> SUFFICES ASSUME Inv, Inv', [Next]_vars
                 PROVE  \A f \in Files : data'[f] # data[f] =>
                           data[f] = "absent" /\ data'[f] = "whole"
      OBVIOUS
    <2>1. CASE Finish
      <3>1. /\ pending[1].file \in Files /\ data[pending[1].file] = "absent"
            /\ data' = [data EXCEPT ![pending[1].file] = "whole"]
        BY <2>1, FinishEffect DEF Inv, Truth
      <3>2. data \in [Files -> {"absent", "whole", "bad"}]
        BY DEF Inv, TypeInv, TypeOK
      <3> QED BY <3>1, <3>2
    <2>2. CASE ~Finish
      <3>1. UNCHANGED data
        BY <2>2 DEF Next, Coordinate, Work, SeeCancelled, Stumble, RecoverBad,
           End, FinishError, Return, NextFile, NoMoreFiles, Recover, Open, Copy,
           Send, Settled, Join, Take, Verify, Tell, Exit, Cancel, Restart, vars,
           store
      <3> QED BY <3>1
    <2> QED BY <2>1, <2>2
  <1> QED BY <1>1, InvHolds, PTL DEF Spec, OnlyVerified

(* The pipeline implements the serial copy: every step delivers the next     *)
(* file, answers, starts over or is invisible to the caller.               *)
THEOREM SerialKept == Spec => AsSerial
  <1> DEFINE n == at - 1 - Len(pending)
  <1>1. Init => Caller!Init
    <2> SUFFICES ASSUME Init PROVE Caller!Init
      OBVIOUS
    <2>1. at = 1 /\ Len(pending) = 0 /\ answer = "none"
          /\ data \in [Files -> {"absent", "whole", "bad"}]
      BY DEF Init
    <2> QED BY <2>1 DEF Caller!Init
  <1>2. Inv /\ Inv' /\ [Next]_vars => [Caller!Next]_(Caller!vars)
    <2> SUFFICES ASSUME Inv, Inv', [Next]_vars, ~ UNCHANGED Caller!vars
                 PROVE  Caller!Next
      OBVIOUS
    <2>a. /\ TypeOK /\ InList /\ at \in 1..Len(List) + 1 /\ Len(List) \in Nat
          /\ Len(pending) \in {0, 1, 2} /\ Len(pending) <= at - 1 /\ Ending
      BY ListType, SMTT(40) DEF Inv, TypeInv, TypeOK, Books, Order
    <2>s. UNCHANGED <<data, at, pending, answer>> => FALSE
      BY DEF Caller!vars
    <2>1. CASE Finish
      <3>1. /\ Len(pending) \in 1..2 /\ Len(pending') = Len(pending) - 1
            /\ pending[1].file = List[at - Len(pending)]
            /\ pending[1].file \in Files /\ data[pending[1].file] = "absent"
            /\ data' = [data EXCEPT ![pending[1].file] = "whole"]
            /\ UNCHANGED <<pc, at, answer>>
        BY <2>1, FinishEffect DEF Inv, Truth
      <3>2. n + 1 = at - Len(pending) /\ n < Len(List) /\ n' = n + 1
        BY <2>a, <3>1
      <3>3. answer = "none"
        BY <2>1, <2>a DEF Ending, Finish, Finishing
      <3>4. Caller!Deliver
        BY <3>1, <3>2, <3>3 DEF Caller!Deliver
      <3> QED BY <3>4 DEF Caller!Next
    <2>2. CASE Recover
      <3>1. /\ Len(pending) = 0 /\ Len(pending') = 0 /\ at' = at + 1
            /\ data[List[at]] = "whole" /\ UNCHANGED <<data, answer>>
            /\ pc = "recover"
        BY <2>2 DEF Recover, Go, store, File
      <3>2. n + 1 = at /\ n < Len(List) /\ n' = n + 1
        BY <2>a, <3>1 DEF InList
      <3>3. answer = "none"
        BY <3>1, <2>a DEF Ending
      <3>4. Caller!Deliver
        BY <3>1, <3>2, <3>3 DEF Caller!Deliver
      <3> QED BY <3>4 DEF Caller!Next
    <2>3. CASE Send
      <3>1. /\ UNCHANGED <<answer, data>> /\ at' = at + 1
            /\ pending' = Append(pending, [file |-> File, slot |-> slot])
            /\ pending \in Seq(Job)
        BY <2>3, <2>a DEF Send, Go, store, TypeOK
      <3>2. Len(pending') = Len(pending) + 1
        BY <3>1
      <3>3. n' = n
        BY <2>a, <3>1, <3>2
      <3> QED BY <3>1, <3>3 DEF Caller!vars
    <2>4. CASE Join
      <3>1. /\ UNCHANGED <<data, at, pending>> /\ pc = "join" /\ answer = "none"
            /\ answer' = IF err = "none" THEN "ok" ELSE Outcome
        BY <2>4, <2>a DEF Join, Ending
      <3>2. CASE err = "none"
        <4>1. at = Len(List) + 1 /\ Len(pending) = 0
          BY <3>1, <3>2, <2>a DEF Ending
        <4>2. Caller!Succeed
          BY <3>1, <3>2, <4>1, <2>a DEF Caller!Succeed
        <4> QED BY <4>2 DEF Caller!Next
      <3>3. CASE err # "none"
        <4>1. cause # "none" /\ (cause = "canceled" => err = "none")
          BY <3>1 DEF Inv, Causes, Cancelled
        <4>2. Outcome \in {"canceled", "io", "target"}
          BY <3>3, <4>1, <2>a DEF Outcome, TypeOK, Errors
        <4>3. Caller!Fail
          BY <3>1, <3>3, <4>2 DEF Caller!Fail
        <4> QED BY <4>3 DEF Caller!Next
      <3> QED BY <3>2, <3>3
    <2>5. CASE Restart
      <3>1. answer' = "none" /\ at' = 1 /\ Len(pending') = 0 /\ UNCHANGED data
        BY <2>5 DEF Restart, store
      <3>2. Caller!Again
        BY <3>1 DEF Caller!Again
      <3> QED BY <3>2 DEF Caller!Next
    <2>6. CASE \/ SeeCancelled \/ Stumble \/ RecoverBad \/ End \/ FinishError
               \/ NextFile \/ NoMoreFiles \/ Open \/ Copy \/ Settled
               \/ Work \/ Cancel \/ UNCHANGED vars
      <3>1. UNCHANGED <<data, at, pending, answer>>
        BY <2>6 DEF SeeCancelled, Stumble, RecoverBad, End, FinishError, Return,
           NextFile, NoMoreFiles, Open, Copy, Settled, Go, Work, Take, Verify,
           Tell, Exit, Cancel, vars, store, main
      <3> QED BY <2>s, <3>1
    <2> QED BY <2>1, <2>2, <2>3, <2>4, <2>5, <2>6 DEF Next, Coordinate
  <1> QED BY <1>1, <1>2, InvHolds, PTL DEF Spec, AsSerial, Caller!Spec
=============================================================================
