----------------------------- MODULE MCTransfer -----------------------------
(* Finite instances of Transfer. *)
EXTENDS Transfer, TLC

CONSTANTS video, audio, imu, big

MCList == <<audio, video, imu, big>>

(* Two small files fit in the budget together, big alone exceeds it. *)
MCBytes == (video :> 2) @@ (audio :> 1) @@ (imu :> 1) @@ (big :> 4)
=============================================================================
