---------------------------- MODULE PlayerSession ----------------------------
(***************************************************************************)
(* What the rest of the program relies on of one playback session of       *)
(* src/src/media/player.c: the statics the main thread reads and writes,   *)
(* and when the player's threads may change them.  Packets, queues and     *)
(* workers are hidden.  PlayerPipeline implements this specification, and  *)
(* PlayerControl is built on it.                                           *)
(***************************************************************************)
EXTENDS Integers

VARIABLES
  cancel, pause,   \* player_cancel, player_pause
  status,          \* player_status
  frame_index,     \* -1, or 0 when go_player_planes hands out planes
  decoder,         \* TRUE while the video decoder that owns the planes is open
  phase            \* opening, playing, closing, ended ("none": no session yet)

session == <<cancel, pause, status, frame_index, decoder, phase>>

\* What go_player_start leaves behind for the thread it starts.
Begin ==
  /\ cancel = FALSE /\ pause = FALSE
  /\ status = 1 /\ frame_index = -1
  /\ decoder = FALSE /\ phase = "opening"

OpenDecoder ==
  /\ phase = "opening"
  /\ decoder' = TRUE
  /\ UNCHANGED <<cancel, pause, status, frame_index, phase>>

BeginPlay ==
  /\ phase = "opening"
  /\ status' = 2 /\ phase' = "playing"
  /\ UNCHANGED <<cancel, pause, frame_index, decoder>>

\* publish_yuv420, on the video worker.
Publish ==
  /\ phase = "playing" /\ decoder
  /\ frame_index' = 0
  /\ UNCHANGED <<cancel, pause, status, decoder, phase>>

\* End of input, a stop or a failure: the decoder is closed.
CloseDecoder ==
  /\ phase \in {"opening", "playing"}
  /\ decoder' = FALSE /\ phase' = "closing"
  /\ UNCHANGED <<cancel, pause, status, frame_index>>

\* 3 only for a session that played and was not stopped.
EndStatus == IF status = 2 /\ ~cancel THEN 3 ELSE -2

End ==
  /\ phase = "closing"
  /\ status' = EndStatus /\ phase' = "ended"
  /\ UNCHANGED <<cancel, pause, frame_index, decoder>>

PlayerStep == OpenDecoder \/ BeginPlay \/ Publish \/ CloseDecoder \/ End

Stop ==
  /\ cancel' = TRUE /\ pause' = FALSE
  /\ UNCHANGED <<status, frame_index, decoder, phase>>

TogglePause ==
  /\ status = 2
  /\ pause' = ~pause
  /\ UNCHANGED <<cancel, status, frame_index, decoder, phase>>

Next == PlayerStep \/ Stop \/ TogglePause

Spec == Begin /\ [][Next]_session
=============================================================================
