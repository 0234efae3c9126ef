---------------------------- MODULE PlayerControl ----------------------------
(***************************************************************************)
(* Starting and stopping playback: go_player_start, go_player_start_file   *)
(* and go_player_stop of src/src/media/player.c, called by the main thread *)
(* from the list, the menu and the player screen (src/src/boot/input.c,    *)
(* src/src/gui/gui.c), against the player thread of PlayerSession.         *)
(*                                                                         *)
(* The main thread blocks while it joins an old player thread: it polls no *)
(* input and draws nothing.  A video's media URL is abstracted to the      *)
(* video; NoVideo is an empty URL.                                         *)
(***************************************************************************)
EXTENDS Integers

CONSTANTS Videos, NoVideo

ASSUME ControlAssumption == NoVideo \notin Videos

VARIABLES
  cancel, pause, status, frame_index, decoder, phase,  \* as in PlayerSession
  thread,        \* player_thread >= 0
  url,           \* player_url, which the player thread opens
  source,        \* player_source_url, which marks a row of the list
  main,          \* the main thread: idle, resolving or joining
  request,       \* the video the main thread is starting
  screen,        \* SCR_PLAYER, or a screen with a list
  frame_of       \* history: the video whose decoder published the frame

S == INSTANCE PlayerSession

session == <<cancel, pause, status, frame_index, decoder, phase>>
vars == <<session, thread, url, source, main, request, screen, frame_of>>

Active == phase \in {"opening", "playing", "closing"}

Init ==
  /\ cancel = FALSE /\ pause = FALSE
  /\ status = 0 /\ frame_index = -1
  /\ decoder = FALSE /\ phase = "none"
  /\ thread = FALSE
  /\ url = NoVideo /\ source = NoVideo
  /\ main = "idle" /\ request = NoVideo
  /\ screen = "list"
  /\ frame_of = NoVideo

-----------------------------------------------------------------------------
(***************************************************************************)
(* Main thread.                                                            *)
(***************************************************************************)

\* start_video from a list: Circle on a row, or the playlist's first item.
\* The source URL is set before it is known whether the player will start.
StartVideo(v) ==
  /\ main = "idle" /\ screen = "list"
  /\ source' = v /\ request' = v
  /\ main' = "resolving"
  /\ UNCHANGED <<session, thread, url, screen, frame_of>>

\* Open URL: no row of a list is marked.
OpenURL(v) ==
  /\ main = "idle" /\ screen = "list"
  /\ source' = NoVideo /\ request' = v
  /\ main' = "resolving"
  /\ UNCHANGED <<session, thread, url, screen, frame_of>>

\* L or R in the player: stop, then start the playlist's neighbour.
Step(v) ==
  /\ main = "idle" /\ screen = "player"
  /\ S!Stop
  /\ source' = v /\ request' = v
  /\ main' = "resolving"
  /\ UNCHANGED <<thread, url, screen, frame_of>>

\* The media URL cannot be resolved, or the item is not a video.
ResolveFails ==
  /\ main = "resolving"
  /\ main' = "idle"
  /\ UNCHANGED <<session, thread, url, source, request, screen, frame_of>>

MutantRefused == FALSE

\* go_player_start returns -1 while a session that was not stopped is on.
Refused == status \in {1, 2} /\ ~cancel

Refuse ==
  /\ main = "resolving" /\ Refused
  /\ main' = "idle"
  /\ UNCHANGED <<session, thread, url, source, request, screen, frame_of>>

Accept ==
  /\ main = "resolving" /\ ~Refused
  /\ main' = "joining"
  /\ UNCHANGED <<session, thread, url, source, request, screen, frame_of>>

MutantJoined == TRUE

\* sceKernelWaitThreadEnd has returned, or there was no thread to wait for.
Joined == ~thread \/ phase = "ended"

MutantFrameReset == UNCHANGED frame_index

\* The old session's picture is forgotten.
FrameReset == frame_index' = -1

\* What go_player_start resets, whether or not a thread can then be started.
Reset ==
  /\ url' = request
  /\ cancel' = FALSE /\ pause' = FALSE
  /\ FrameReset
  /\ decoder' = FALSE
  /\ main' = "idle"

Started ==
  /\ main = "joining" /\ Joined
  /\ Reset
  /\ status' = 1 /\ phase' = "opening"
  /\ thread' = TRUE
  /\ screen' = "player"
  /\ UNCHANGED <<source, request, frame_of>>

MutantFailedStatus == 1
MutantKernelStatus == -2147352176   \* the kernel's error, 0x80020190

\* player_status after sceKernelStartThread has failed.
FailedStatus == -1

\* sceKernelCreateThread fails (the status stays), or sceKernelStartThread.
StartFails ==
  /\ main = "joining" /\ Joined
  /\ Reset
  /\ status' \in {status, FailedStatus}
  /\ phase' = "none"
  /\ thread' = FALSE
  /\ UNCHANGED <<source, request, screen, frame_of>>

\* Cross in the player.
Stop ==
  /\ main = "idle" /\ screen = "player"
  /\ S!Stop
  /\ screen' = "list"
  /\ UNCHANGED <<thread, url, source, main, request, frame_of>>

\* Square between the player and a list: playback goes on.
SwitchScreen ==
  /\ main = "idle"
  /\ screen' = IF screen = "player" THEN "list" ELSE "player"
  /\ UNCHANGED <<session, thread, url, source, main, request, frame_of>>

\* Start on the player and on the lists.
TogglePause ==
  /\ main = "idle"
  /\ S!TogglePause
  /\ UNCHANGED <<thread, url, source, main, request, screen, frame_of>>

MainStep ==
  \/ \E v \in Videos : StartVideo(v) \/ OpenURL(v) \/ Step(v)
  \/ ResolveFails \/ Refuse \/ Accept \/ Started \/ StartFails
  \/ Stop \/ SwitchScreen \/ TogglePause

-----------------------------------------------------------------------------
(***************************************************************************)
(* Player thread and its workers: a step of the session.                   *)
(***************************************************************************)
OtherVars == <<thread, url, source, main, request, screen>>

PlayerStep ==
  /\ S!PlayerStep
  /\ frame_of' = IF S!Publish THEN url ELSE frame_of
  /\ UNCHANGED OtherVars

Next == MainStep \/ PlayerStep

Spec == Init /\ [][Next]_vars

(***************************************************************************)
(* A start in progress is carried on; a stopped session closes, which      *)
(* PlayerPipeline shows of the threads (StopEnds), and a closing one ends. *)
(* Nothing makes a session that plays end, nor the user do anything.       *)
(***************************************************************************)
Fairness ==
  /\ WF_vars(ResolveFails \/ Refuse \/ Accept)
  /\ WF_vars(Started \/ StartFails)
  /\ WF_vars(PlayerStep /\ S!End)
  /\ WF_vars(PlayerStep /\ cancel /\ S!CloseDecoder)

FairSpec == Spec /\ Fairness

-----------------------------------------------------------------------------
(***************************************************************************)
(* What must hold.                                                         *)
(***************************************************************************)

\* Every variable has its type (the statics of player.c:21-41).
TypeOK ==
  /\ cancel \in BOOLEAN /\ pause \in BOOLEAN
  /\ status \in {-2, -1, 0, 1, 2, 3}
  /\ frame_index \in {-1, 0}
  /\ decoder \in BOOLEAN
  /\ phase \in {"none", "opening", "playing", "closing", "ended"}
  /\ thread \in BOOLEAN
  /\ url \in Videos \union {NoVideo} /\ source \in Videos \union {NoVideo}
  /\ main \in {"idle", "resolving", "joining"}
  /\ request \in Videos \union {NoVideo}
  /\ screen \in {"list", "player"}
  /\ frame_of \in Videos \union {NoVideo}

\* gotube.h:183, "1 download, 2 playing": the status says so only while there
\* is a player thread that downloads or plays, also after a failed start.
StatusHonest == status \in {1, 2} => thread /\ Active

\* The main thread never joins a session that may play for hours: by then it
\* was stopped, or it has ended by itself.
JoinsOnlyEnding == main = "joining" => cancel \/ ~Active

\* A picture handed to the GUI was decoded from the video the player was last
\* told to play, never from the one before.
FrameIsCurrent == frame_index = 0 => frame_of = url

\* While a player thread runs, nothing overwrites the URL it reads, its stop
\* request is not taken back before it has seen it, and nothing happens to its
\* session but what PlayerSession says of one, which begins as that begins.
SessionUndisturbed ==
  [][/\ Active => url' = url /\ (cancel => cancel') /\ [S!Next]_session
     /\ ~Active /\ Active' => S!Begin']_vars

\* A start that got as far as joining the old thread returns.
StartReturns == main = "joining" ~> main = "idle"

\* qualification.md:26, "playing-item border": the row that gets the border
\* (gui.c:393, go_player_matches_source) is that of the video that plays.
BorderOnPlayingItem ==
  main = "idle" /\ status \in {1, 2} /\ ~cancel /\ source # NoVideo => source = url
=============================================================================
