------------------------------ MODULE Thumbnails ------------------------------
(***************************************************************************)
(* The thumbnail cache of src/src/gui/thumbnail.c: one slot per row of the *)
(* result list, filled by a low-priority worker while the main thread      *)
(* draws the list, replaces it (which resets the cache) and suspends the   *)
(* worker for playback; the save thread of src/src/media/save.c resumes    *)
(* the worker when it ends.                                                *)
(*                                                                         *)
(* An image is abstracted to the URL it was decoded from.  The main thread *)
(* is stronger than the worker: what it does between two sleeps is one     *)
(* step, and it may come between any two steps of the worker.              *)
(***************************************************************************)
EXTENDS Integers

CONSTANTS
  MAX_RESULTS,   \* rows of the result list
  Remote,    \* thumbnail URLs that are downloaded
  Local,     \* those that begin with ms0:/
  None       \* no URL, no image

Rows == 1..MAX_RESULTS

ASSUME ThumbnailsAssumption ==
  /\ MAX_RESULTS \in Nat \ {0}
  /\ Remote \intersect Local = {}
  /\ None \notin Remote \union Local

Urls == Remote \union Local

VARIABLES
  list,             \* g_results[i].thumb
  state,            \* slots[i].state: 0 empty, 1 queued, 2 loading, 3 ready, -1
  url, pixels,      \* slots[i].url and slots[i].pixels
  thumb_cancel, thumb_suspended,
  wpc, found,       \* the worker: where it is, the slot it looks at
  file,             \* what THUMB_PATH holds: the URL it was downloaded from
  main,             \* the main thread: idle, or what it waits to do
  playing,          \* SCR_PLAYER is on
  saving            \* save_state = 1

slots == <<state, url, pixels>>
worker == <<wpc, found, file>>
vars == <<list, slots, thumb_cancel, thumb_suspended, worker, main, playing, saving>>

States == {-1, 0, 1, 2, 3}

Init ==
  /\ list \in [Rows -> Urls]
  /\ state = [i \in Rows |-> 0]
  /\ url = [i \in Rows |-> None]
  /\ pixels = [i \in Rows |-> None]
  /\ thumb_cancel = FALSE /\ thumb_suspended = FALSE
  /\ wpc = "check" /\ found = 1 /\ file = None
  /\ main = "idle" /\ playing = FALSE /\ saving = FALSE

-----------------------------------------------------------------------------
(***************************************************************************)
(* The worker.                                                             *)
(***************************************************************************)
Check ==
  /\ wpc = "check" /\ ~thumb_suspended
  /\ wpc' = "scan" /\ found' = 1
  /\ UNCHANGED <<list, slots, thumb_cancel, thumb_suspended, file, main,
                 playing, saving>>

\* One slot after the other, while the main thread queues and clears them.
Scan ==
  /\ wpc = "scan"
  /\ \/ state[found] = 1 /\ wpc' = "mark" /\ UNCHANGED found
     \/ state[found] # 1 /\ found < MAX_RESULTS /\ found' = found + 1 /\ UNCHANGED wpc
     \/ state[found] # 1 /\ found = MAX_RESULTS /\ wpc' = "check" /\ UNCHANGED found
  /\ UNCHANGED <<list, slots, thumb_cancel, thumb_suspended, file, main,
                 playing, saving>>

Mark ==
  /\ wpc = "mark"
  /\ state' = [state EXCEPT ![found] = 2]
  /\ wpc' = "begin"
  /\ UNCHANGED <<list, url, pixels, thumb_cancel, thumb_suspended, found, file,
                 main, playing, saving>>

Begin ==
  /\ wpc = "begin"
  /\ thumb_cancel' = FALSE
  /\ wpc' = IF url[found] \in Local THEN "decode" ELSE "download"
  /\ UNCHANGED <<list, slots, thumb_suspended, found, file, main, playing,
                 saving>>

\* go_http_download: complete, failed (as for an empty URL), or cancelled.
Download ==
  /\ wpc = "download"
  /\ \/ /\ url[found] # None /\ ~thumb_cancel
        /\ file' = url[found] /\ wpc' = "decode"
     \/ wpc' = "fail" /\ UNCHANGED file
  /\ UNCHANGED <<list, slots, thumb_cancel, thumb_suspended, found, main,
                 playing, saving>>

\* What decode_jpeg is given to read: the slot's own file, or THUMB_PATH.
Image == IF file = None THEN url[found] ELSE file

\* The pixels go into the slot, which is then ready, and THUMB_PATH is removed.
Decode ==
  /\ wpc = "decode"
  /\ \/ /\ pixels' = [pixels EXCEPT ![found] = Image]
        /\ state' = [state EXCEPT ![found] = 3]
        /\ wpc' = "check" /\ file' = None
     \/ wpc' = "fail" /\ UNCHANGED <<pixels, state, file>>
  /\ UNCHANGED <<list, url, thumb_cancel, thumb_suspended, found, main, playing,
                 saving>>

MutantGiveUp == 2
MutantErrorCode == IF thumb_cancel THEN 0 ELSE -2

\* A cancelled slot is queued again by the next drawing; a failed one is not.
GiveUp == IF thumb_cancel THEN 0 ELSE -1

Fail ==
  /\ wpc = "fail"
  /\ state' = [state EXCEPT ![found] = GiveUp]
  /\ wpc' = "check" /\ file' = None
  /\ UNCHANGED <<list, url, pixels, thumb_cancel, thumb_suspended, found, main,
                 playing, saving>>

WorkerStep == Check \/ Scan \/ Mark \/ Begin \/ Download \/ Decode \/ Fail

-----------------------------------------------------------------------------
(***************************************************************************)
(* The main thread.                                                        *)
(***************************************************************************)
MutantQueueable(i) == state[i] # 2

\* Only an empty slot takes a URL.
Queueable(i) == state[i] = 0

\* go_thumbnail_get for a row that is drawn.
Draw(i) ==
  /\ main = "idle"
  /\ Queueable(i)
  /\ url' = [url EXCEPT ![i] = list[i]]
  /\ state' = [state EXCEPT ![i] = 1]
  /\ UNCHANGED <<list, pixels, thumb_cancel, thumb_suspended, worker, main,
                 playing, saving>>

\* A search, a page or a source: go_thumbnails_reset, then the new results.  A
\* delayed search also takes the player's screen away, and resumes nothing.
NewList ==
  /\ main = "idle"
  /\ thumb_cancel' = TRUE
  /\ main' = "reset" /\ playing' = FALSE
  /\ UNCHANGED <<list, slots, thumb_suspended, worker, saving>>

MutantQuiet == TRUE

\* No slot is loading: the waiting loops of reset and suspend end.
Quiet == \A i \in Rows : state[i] # 2

ResetDone ==
  /\ main = "reset" /\ Quiet
  /\ state' = [i \in Rows |-> 0]
  /\ url' = [i \in Rows |-> None]
  /\ pixels' = [i \in Rows |-> None]
  /\ list' \in [Rows -> Urls]
  /\ main' = "idle"
  /\ UNCHANGED <<thumb_cancel, thumb_suspended, worker, playing, saving>>

\* Entering a folder, renaming, deleting: load_favorites without a reset.
ReloadFavorites ==
  /\ main = "idle" /\ ~playing
  /\ list' \in [Rows -> Urls]
  /\ UNCHANGED <<slots, thumb_cancel, thumb_suspended, worker, main, playing,
                 saving>>

\* go_thumbnails_suspend(1), for playback or for a save.
Suspend ==
  /\ main = "idle" /\ ~playing
  /\ \/ main' = "play"
     \/ main' = "save" /\ ~saving
  /\ thumb_suspended' = TRUE /\ thumb_cancel' = TRUE
  /\ UNCHANGED <<list, slots, worker, playing, saving>>

\* The player or the save thread starts, or it fails and the worker resumes.
SuspendDone ==
  /\ main \in {"play", "save"} /\ Quiet
  /\ \/ /\ IF main = "play" THEN playing' = TRUE /\ UNCHANGED saving
                            ELSE saving' = TRUE /\ UNCHANGED playing
        /\ UNCHANGED thumb_suspended
     \/ thumb_suspended' = FALSE /\ UNCHANGED <<playing, saving>>
  /\ main' = "idle"
  /\ UNCHANGED <<list, slots, thumb_cancel, worker>>

\* Square or Cross in the player.
LeavePlayer ==
  /\ main = "idle" /\ playing
  /\ playing' = FALSE /\ thumb_suspended' = FALSE
  /\ UNCHANGED <<list, slots, thumb_cancel, worker, main, saving>>

\* Square on the half-open list: back to the player, with the worker running.
ShowPlayer ==
  /\ main = "idle" /\ ~playing
  /\ playing' = TRUE
  /\ UNCHANGED <<list, slots, thumb_cancel, thumb_suspended, worker, main, saving>>

\* The save thread ends.
SaveDone ==
  /\ saving
  /\ saving' = FALSE /\ thumb_suspended' = FALSE
  /\ UNCHANGED <<list, slots, thumb_cancel, worker, main, playing>>

MainStep ==
  \/ NewList \/ ResetDone \/ ReloadFavorites \/ Suspend \/ SuspendDone
  \/ LeavePlayer \/ ShowPlayer \/ \E i \in Rows : Draw(i)

Next == WorkerStep \/ MainStep \/ SaveDone

Spec == Init /\ [][Next]_vars

\* The worker never stops, downloads end, and the main thread's waiting loops
\* look again; the user owes nothing.
Fairness ==
  /\ WF_vars(WorkerStep)
  /\ WF_vars(ResetDone) /\ WF_vars(SuspendDone)

FairSpec == Spec /\ Fairness

-----------------------------------------------------------------------------
(***************************************************************************)
(* What must hold.                                                         *)
(***************************************************************************)

\* Every variable has its type.
TypeOK ==
  /\ list \in [Rows -> Urls]
  /\ state \in [Rows -> States]
  /\ url \in [Rows -> Urls \union {None}]
  /\ pixels \in [Rows -> Urls \union {None}]
  /\ thumb_cancel \in BOOLEAN /\ thumb_suspended \in BOOLEAN
  /\ wpc \in {"check", "scan", "mark", "begin", "download", "decode", "fail"}
  /\ found \in Rows
  /\ file \in Remote \union {None}
  /\ main \in {"idle", "reset", "play", "save"}
  /\ playing \in BOOLEAN /\ saving \in BOOLEAN

\* From the moment the worker has marked a slot until it settles it, the slot
\* is loading: no reset frees the pixels or clears the URL under its hands,
\* and no drawing queues it again.
SlotIsMine ==
  wpc \in {"begin", "download", "decode", "fail"} => state[found] = 2

\* The pixels of a slot that is ready were decoded from that slot's URL, there
\* is only one slot in the making, and no pixels are lost in a slot that is not
\* ready, where the next image would be put in their place without a free.
ReadyIsWhole ==
  /\ \A i \in Rows : state[i] = 3 => pixels[i] = url[i] /\ url[i] # None
  /\ \A i, j \in Rows : state[i] = 2 /\ state[j] = 2 => i = j
  /\ \A i \in Rows : pixels[i] # None => state[i] = 3

\* Thumbnails implements ThumbnailCache: however the worker, the drawing, the
\* resets and the suspensions interleave, a row is drawn with nothing or with
\* the whole image that it asked for, which only a change of the list takes away.
Cache == INSTANCE ThumbnailCache WITH
  wanted <- url,
  shown <- [i \in Rows |-> IF state[i] = 3 THEN pixels[i] ELSE None]
CacheSpec == Cache!Spec

\* A reset and a suspension return: the worker leaves every loading slot.
MainReturns == main # "idle" ~> main = "idle"

\* evidence-ledger.md:28, "Node field +0x48 supplies the lazy image source and
\* +0x54 caches the texture descriptor": the thumbnail drawn in a row is that
\* of the row's own source.
OwnThumbnail ==
  main = "idle" => \A i \in Rows : state[i] = 3 => pixels[i] = list[i]
=============================================================================
