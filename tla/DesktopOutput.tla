---------------------------- MODULE DesktopOutput ----------------------------
(***************************************************************************)
(* The output of one recording in the directory the desktop exporter writes *)
(* to (src/desktop/exporter/internal/core): export to <id>-video, the raw   *)
(* fallback to <id>-raw, deletion of an output, and the local history.      *)
(*                                                                         *)
(* Several processes of the application work in the directory, each step is *)
(* what another process or a kill can fall between, and the user adds and   *)
(* removes things of his own.  What is read from the card, encoded or       *)
(* copied succeeds or fails; StreamCache and Transfer look inside.          *)
(***************************************************************************)
EXTENDS Naturals

CONSTANTS
    Processes,      \* windows and command lines of the application
    MaxMoves,       \* bound on exports, deletions and moves of the user
    MaxFaults,      \* bound on errors, cancellations and kills
    None

Modes == {"video", "raw"}

VARIABLES
    final,      \* per mode, the published directory or None
    stage,      \* per mode, the hidden directory .<id>-<mode>.partial or None
    lock,       \* per mode, who holds .<id>-<mode>.lock, or None
    pc, mode,
    after,      \* what follows the clean-up: "end" or the raw "fallback"
    record,     \* the output in the history, as it was when recorded, or None
    plan,       \* the output a process was told to delete, or None
    moves, faults,
    broken      \* has a kill or an earlier version left something?

vars == <<final, stage, lock, pc, mode, after, record, plan, moves, faults,
          broken>>

(* claim "mine" is this manifest and mode; source and manifest are "kept"    *)
(* when an earlier run left them; made tells outputs apart, as times do.     *)
Directories ==
    [claim : {"none", "short", "mine", "other"},
     source : {"none", "kept", "part", "whole"},
     manifest : {"none", "kept", "short", "whole"},
     video : {"none", "whole"},
     receipt : {"none", "short", "whole"},
     extra : BOOLEAN, made : 0..MaxMoves]

Fresh == [claim |-> "none", source |-> "none", manifest |-> "none",
          video |-> "none", receipt |-> "none", extra |-> FALSE, made |-> 0]

OutputConstants ==
    {MaxMoves, MaxFaults} \subseteq Nat /\ None \notin Processes \cup Directories

(* Wrong: an output of the same session is the output. *)
SameSession(d, recorded) == d # None

(* CheckLocalOutput: files, sizes and times are the recorded ones. *)
Same(d, recorded) == d = recorded

Whole(d, m) ==
    /\ d.claim = "mine" /\ d.source = "whole" /\ d.manifest = "whole"
    /\ d.video = (IF m = "video" THEN "whole" ELSE "none")
    /\ d.receipt = "whole"

(* InspectLocalOutput: a whole output without anything else in it. *)
Inspects(d) == d # None /\ Whole(d, "video") /\ ~d.extra

Unused(d) == d.source = "none" /\ d.manifest = "none"

(* What an earlier version, another recording, a kill or, the last of them, an *)
(* error may have left.                                                      *)
Leftovers ==
    {None, [Fresh EXCEPT !.claim = "other"], [Fresh EXCEPT !.extra = TRUE],
     [Fresh EXCEPT !.claim = "mine", !.source = "kept"],
     [Fresh EXCEPT !.claim = "mine", !.receipt = "short"]}

Init ==
    /\ final = [m \in Modes |-> None]
    /\ stage \in [Modes -> Leftovers]
    /\ lock = [m \in Modes |-> None]
    /\ pc = [p \in Processes |-> "idle"]
    /\ mode = [p \in Processes |-> "video"]
    /\ after = [p \in Processes |-> "end"]
    /\ record = None /\ plan = [p \in Processes |-> None]
    /\ moves = 0 /\ faults = 0
    /\ broken = (\E m \in Modes : stage[m] # None
                                /\ ~(stage[m].claim = "mine" /\ Unused(stage[m])))

Goes(p, step) == pc' = [pc EXCEPT ![p] = step]
Holding(p) == lock[mode[p]] = p
Frees(p) == lock' = [lock EXCEPT ![mode[p]] = None]

Mine(p) == stage[mode[p]]
Puts(p, d) == stage' = [stage EXCEPT ![mode[p]] = d]

Move == moves < MaxMoves /\ moves' = moves + 1
Fault == faults < MaxFaults /\ faults' = faults + 1

(* The end of exportOnce without a clean-up: its files are closed.           *)
Gives(p) == Goes(p, "idle") /\ Frees(p)

Start(p) ==
    /\ pc[p] = "idle" /\ Move /\ Goes(p, "lock")
    /\ mode' = [mode EXCEPT ![p] = "video"]
    /\ after' = [after EXCEPT ![p] = "end"]
    /\ UNCHANGED <<final, stage, lock, record, plan, faults, broken>>

Free(m) == lock[m] = None

(* The lock of the parent directory is tried once.                           *)
Lock(p) ==
    /\ pc[p] = "lock"
    /\ IF Free(mode[p]) THEN lock' = [lock EXCEPT ![mode[p]] = p] /\ Goes(p, "look")
                        ELSE UNCHANGED lock /\ Goes(p, "idle")
    /\ UNCHANGED <<final, stage, mode, after, record, plan, moves, faults, broken>>

(* An output that is there is never replaced.                                *)
Look(p) ==
    /\ pc[p] = "look"
    /\ IF final[mode[p]] = None
       THEN /\ Goes(p, "claim") /\ UNCHANGED lock
            /\ IF Mine(p) = None THEN Puts(p, Fresh) ELSE UNCHANGED stage
       ELSE Gives(p) /\ UNCHANGED stage
    /\ UNCHANGED <<final, mode, after, record, plan, moves, faults, broken>>

(* A directory without a claim must be empty; its claim is written in place. *)
Claim(p) ==
    /\ pc[p] = "claim"
    /\ CASE Mine(p).claim = "mine" -> Goes(p, "check") /\ UNCHANGED <<stage, lock>>
         [] Mine(p) = Fresh -> /\ Puts(p, [Fresh EXCEPT !.claim = "short"])
                               /\ Goes(p, "claiming") /\ UNCHANGED lock
         [] OTHER -> Gives(p) /\ UNCHANGED stage
    /\ UNCHANGED <<final, mode, after, record, plan, moves, faults, broken>>

Claimed(p) ==
    /\ pc[p] = "claiming"
    /\ Puts(p, [Mine(p) EXCEPT !.claim = "mine"]) /\ Goes(p, "check")
    /\ UNCHANGED <<final, lock, mode, after, record, plan, moves, faults, broken>>

(* Originals of an earlier run are not overwritten.  A video and a receipt   *)
(* without them are removed, in video mode.                                  *)
Check(p) ==
    /\ pc[p] = "check"
    /\ IF Unused(Mine(p))
       THEN /\ Goes(p, IF mode[p] = "video" THEN "render" ELSE "copy")
            /\ UNCHANGED lock
            /\ IF mode[p] = "video"
               THEN Puts(p, [Mine(p) EXCEPT !.video = "none", !.receipt = "none"])
               ELSE UNCHANGED stage
       ELSE Gives(p) /\ UNCHANGED stage
    /\ UNCHANGED <<final, mode, after, record, plan, moves, faults, broken>>

Render(p) ==
    /\ pc[p] = "render"
    /\ Puts(p, [Mine(p) EXCEPT !.video = "whole"]) /\ Goes(p, "copy")
    /\ UNCHANGED <<final, lock, mode, after, record, plan, moves, faults, broken>>

(* The originals are created one after another.                              *)
Copy(p) ==
    /\ pc[p] \in {"copy", "copying"}
    /\ Puts(p, [Mine(p) EXCEPT !.source = IF pc[p] = "copy" THEN "part" ELSE "whole"])
    /\ Goes(p, IF pc[p] = "copy" THEN "copying" ELSE "manifest")
    /\ UNCHANGED <<final, lock, mode, after, record, plan, moves, faults, broken>>

Conflicts(d, file) == d[file] \notin {"none", "whole"}

(* writeNew: a file that is there must be the same; a new one is written in  *)
(* place.                                                                    *)
WriteNew(p, file, filling, next) ==
    CASE Conflicts(Mine(p), file) -> Goes(p, "clean") /\ UNCHANGED stage
      [] Mine(p)[file] = "none" ->
            Puts(p, [Mine(p) EXCEPT ![file] = "short"]) /\ Goes(p, filling)
      [] OTHER -> Goes(p, next) /\ UNCHANGED stage

Fills(p, file, next) ==
    Puts(p, [Mine(p) EXCEPT ![file] = "whole"]) /\ Goes(p, next)

Write(p) ==
    /\ \/ pc[p] = "manifest" /\ WriteNew(p, "manifest", "manifesting", "receipt")
       \/ pc[p] = "manifesting" /\ Fills(p, "manifest", "receipt")
       \/ pc[p] = "receipt" /\ WriteNew(p, "receipt", "signing", "publish")
       \/ pc[p] = "signing" /\ Fills(p, "receipt", "publish")
    /\ UNCHANGED <<final, lock, mode, after, record, plan, moves, faults, broken>>

(* The rename that does not replace; it happens under the parent's lock.     *)
Publish(p) ==
    /\ pc[p] = "publish"
    /\ IF final[mode[p]] = None
       THEN /\ final' = [final EXCEPT ![mode[p]] = [Mine(p) EXCEPT !.made = moves]]
            /\ Puts(p, None) /\ Frees(p)
            /\ Goes(p, IF mode[p] = "video" THEN "record" ELSE "idle")
       ELSE Goes(p, "clean") /\ UNCHANGED <<final, stage, lock>>
    /\ UNCHANGED <<mode, after, record, plan, moves, faults, broken>>

(* The mark of an export inspects what is in the directory now.              *)
Record(p) ==
    /\ pc[p] = "record" /\ Goes(p, "idle")
    /\ IF Inspects(final["video"]) THEN record' = final["video"] ELSE UNCHANGED record
    /\ UNCHANGED <<final, stage, lock, mode, after, plan, moves, faults, broken>>

Working == {"render", "copy", "copying", "manifest", "manifesting", "receipt",
            "signing", "publish"}

(* Wrong: an error of the copy returns past the clean-up. *)
FailsCopying(p) ==
    /\ pc[p] \in Working /\ Fault
    /\ IF pc[p] = "copying" THEN Gives(p) ELSE Goes(p, "clean") /\ UNCHANGED lock
    /\ UNCHANGED <<after, final, stage, mode, record, plan, moves, broken>>

(* An error or a cancellation once the clean-up is due; an error of the      *)
(* encoding itself calls for the raw fallback.                               *)
Fails(p) ==
    /\ pc[p] \in Working /\ Fault /\ Goes(p, "clean")
    /\ \/ UNCHANGED after
       \/ pc[p] = "render" /\ after' = [after EXCEPT ![p] = "fallback"]
    /\ UNCHANGED <<final, stage, lock, mode, record, plan, moves, broken>>

(* A claim that could not be written stays as it is.                         *)
ClaimFails(p) ==
    /\ pc[p] = "claiming" /\ Fault /\ Gives(p)
    /\ UNCHANGED <<final, stage, mode, after, record, plan, moves, broken>>

Emptied(d) == [d EXCEPT !.source = "none", !.manifest = "none"]

(* The originals of this run go while the lock is held; then the export ends *)
(* or starts again as a raw one.                                             *)
CleanUp(p) ==
    /\ pc[p] = "clean"
    /\ Puts(p, Emptied(Mine(p))) /\ Frees(p)
    /\ IF after[p] = "fallback"
       THEN /\ Goes(p, "lock")
            /\ mode' = [mode EXCEPT ![p] = "raw"]
            /\ after' = [after EXCEPT ![p] = "end"]
       ELSE Goes(p, "idle") /\ UNCHANGED <<mode, after>>
    /\ UNCHANGED <<final, record, plan, moves, faults, broken>>

(* The window asks for a deletion with the recorded output and its check.    *)
Ask(p) ==
    /\ pc[p] = "idle" /\ Move
    /\ record # None /\ Same(final["video"], record)
    /\ plan' = [plan EXCEPT ![p] = record]
    /\ mode' = [mode EXCEPT ![p] = "video"]
    /\ Goes(p, "confirm")
    /\ UNCHANGED <<final, stage, lock, after, record, faults, broken>>

Confirm(p) ==
    /\ pc[p] = "confirm"
    /\ IF Free("video") /\ Same(final["video"], plan[p])
       THEN lock' = [lock EXCEPT !["video"] = p] /\ Goes(p, "delete")
       ELSE UNCHANGED lock /\ Goes(p, "idle")
    /\ UNCHANGED <<final, stage, mode, after, record, plan, moves, faults, broken>>

(* The recorded files go one by one, the receipt last.                       *)
NextFile(d) ==
    IF d.video # "none" THEN [d EXCEPT !.video = "none"]
    ELSE IF d.source # "none" THEN Emptied(d)
    ELSE IF d.claim # "none" THEN [d EXCEPT !.claim = "none"]
    ELSE [d EXCEPT !.receipt = "none"]

Bare(d) == [d EXCEPT !.made = 0, !.extra = FALSE] = Fresh

(* Only an empty directory is removed. *)
Removable(d) == Bare(d) /\ ~d.extra

Delete(p) ==
    /\ pc[p] = "delete"
    /\ LET d == final["video"] IN
       \/ d # None /\ ~Bare(d) /\ final' = [final EXCEPT !["video"] = NextFile(d)]
          /\ UNCHANGED <<pc, lock>>
       \/ d # None /\ Removable(d) /\ final' = [final EXCEPT !["video"] = None]
          /\ Goes(p, "forget") /\ Frees(p)
       \/ (d # None => Bare(d) /\ d.extra) /\ Gives(p) /\ UNCHANGED final
    /\ UNCHANGED <<stage, mode, after, record, plan, moves, faults, broken>>

(* The history drops the output by the number of its row, which an export to *)
(* the same path keeps.                                                      *)
Forget(p) ==
    /\ pc[p] = "forget" /\ Goes(p, "idle") /\ record' = None
    /\ UNCHANGED <<final, stage, lock, mode, after, plan, moves, faults, broken>>

Aged(d) ==
    IF d = None THEN None
    ELSE [d EXCEPT !.source = IF @ = "none" THEN "none" ELSE "kept",
                   !.manifest = IF @ = "none" THEN "none" ELSE "kept"]

(* A process dies, and its locks with it. *)
Kill(p) ==
    /\ pc[p] # "idle" /\ Fault /\ Goes(p, "idle") /\ broken' = TRUE
    /\ IF Holding(p)
       THEN /\ Frees(p)
            /\ IF pc[p] = "delete" THEN UNCHANGED stage ELSE Puts(p, Aged(Mine(p)))
       ELSE UNCHANGED <<stage, lock>>
    /\ UNCHANGED <<final, mode, after, record, plan, moves>>

(* The user puts something of his own into an output, or where one would go, *)
(* or throws an output away.                                                 *)
UserAdds(m) ==
    /\ Move
    /\ IF final[m] = None
       THEN final' = [final EXCEPT ![m] = [Fresh EXCEPT !.extra = TRUE]]
       ELSE final' = [final EXCEPT ![m].extra = TRUE]
    /\ UNCHANGED <<stage, lock, pc, mode, after, record, plan, faults, broken>>

UserDiscards(m) ==
    /\ Move /\ final[m] # None /\ final' = [final EXCEPT ![m] = None]
    /\ UNCHANGED <<stage, lock, pc, mode, after, record, plan, faults, broken>>

User == \E m \in Modes : UserAdds(m) \/ UserDiscards(m)

Run(p) ==
    \/ Lock(p) \/ Look(p) \/ Claim(p) \/ Claimed(p) \/ Check(p) \/ Render(p)
    \/ Copy(p) \/ Write(p) \/ Publish(p) \/ Record(p) \/ CleanUp(p)
    \/ Confirm(p) \/ Delete(p) \/ Forget(p)

Next ==
    \/ \E p \in Processes : \/ Start(p) \/ Ask(p) \/ Run(p)
                            \/ Fails(p) \/ ClaimFails(p) \/ Kill(p)
    \/ User

Spec == Init /\ [][Next]_vars

-----------------------------------------------------------------------------
(* Directories hold files in the states Export can leave them, and a lock is   *)
(* held by a process that is at work (core.go:279-286).                        *)
TypeOK ==
    /\ final \in [Modes -> Directories \cup {None}]
    /\ stage \in [Modes -> Directories \cup {None}]
    /\ lock \in [Modes -> Processes \cup {None}]
    /\ mode \in [Processes -> Modes] /\ after \in [Processes -> {"end", "fallback"}]
    /\ record \in Directories \cup {None}
    /\ plan \in [Processes -> Directories \cup {None}]
    /\ moves \in 0..MaxMoves /\ faults \in 0..MaxFaults /\ broken \in BOOLEAN
    /\ \A p \in Processes : pc[p] \in Working => lock[mode[p]] = p

(* What the exporter publishes has the whole recording, its manifest, its      *)
(* receipt and, in video mode, the video (core.go:560), whoever else is at     *)
(* work in the directory and whatever was left there.                          *)
PublishedWhole ==
    \A m \in Modes : final[m] = None /\ final'[m] # None =>
        Whole(final'[m], m) \/ UserAdds(m)

NotOurs(d) ==
    d # None /\ (d.claim = "other" \/ d.extra \/ "kept" \in {d.source, d.manifest})

(* The hidden directory of another recording, one of unknown content, and one  *)
(* with originals of an earlier run stay as they are (core.go:307-319, 367,    *)
(* raw_fallback.go:60-65), also when the export that meets them fails.         *)
LeftoversUntouched ==
    \A m \in Modes : NotOurs(stage[m]) => stage'[m] = stage[m]

(* A published output only changes by the user's hand, or file by file under   *)
(* a deletion of that very output, which leaves what the user added            *)
(* (local_output.go:251, 321).                                                 *)
Confirmed == \A m \in Modes : final[m] # None /\ final'[m] # final[m] =>
    \/ User
    \/ /\ \E p \in Processes : pc[p] = "delete" /\ plan[p].made = final[m].made
       /\ final[m].extra => final'[m] # None /\ final'[m].extra

(* "the receipt last so interrupted deletion cannot be mistaken for an intact  *)
(* export" (local_output.go:300): an output without its receipt has nothing    *)
(* else of an export in it.                                                    *)
Remainder ==
    final["video"] # None /\ final["video"].receipt = "none" => Bare(final["video"])

(* A step of an export that ends it for what it finds in its hidden directory. *)
Refused(p) ==
    /\ faults' = faults
    /\ \/ pc[p] \in {"claim", "check"} /\ pc'[p] = "idle"
       \/ pc[p] \in {"manifest", "receipt"} /\ pc'[p] = "clean"

(* A claim, or a receipt of a raw copy, that could not be written to its end.  *)
Unfinished(d, m) == d.claim = "short" \/ (m = "raw" /\ d.receipt = "short")

(* After errors and cancellations alone, an export is not refused for what     *)
(* earlier ones left (video_test.go:51, core.go:375-382), but for two files    *)
(* that nothing removes (core.go:327, 370, 533; README, 4).                    *)
Retryable ==
    \A p \in Processes : ~broken /\ Refused(p) => Unfinished(Mine(p), mode[p])

(* "A published output must be recorded" (history.go:112): the history does    *)
(* not forget an output that is there as it was recorded.                      *)
Remembers == record # None /\ record' = None => final["video"] # record
=============================================================================
