------------------------------- MODULE SaveJob -------------------------------
(***************************************************************************)
(* Saving a video: go_save_start and the save thread of                    *)
(* src/src/media/save.c, with go_http_download of src/src/natives/http.c   *)
(* which writes the files.  The main thread fills static buffers that the  *)
(* save thread reads, and blocks while it joins the thread of the save     *)
(* before.                                                                 *)
(***************************************************************************)
EXTENDS Stick

VARIABLES
  save_state,   \* save_state: 0 idle, 1 saving, 2 saved, -1 failed
  path,         \* save_path, and with it save_url and save_thumb_path
  main,         \* the main thread is free, or in sceKernelWaitThreadEnd
  worker        \* where the save thread is; none if there is none, or it ended

save == <<save_state, path, main, worker>>

SaveInit ==
  /\ save_state = 0 /\ main = "free" /\ worker = "none"
  /\ path = NoPath

-----------------------------------------------------------------------------
(***************************************************************************)
(* Main thread.                                                            *)
(***************************************************************************)
MutantBusy == FALSE

\* One save at a time.
Busy == save_state = 1

\* go_save_start with a name that can be written.  The buffers are written one
\* after the other, and the start goes on if the site's script returned a URL
\* and the names have room.
SaveStart(n) ==
  /\ main = "free" /\ ~Busy
  /\ path' = n
  /\ main' \in {"free", "joining"}
  /\ UNCHANGED <<save_state, worker, stick>>

\* sceKernelWaitThreadEnd has returned, or there was no thread to wait for.
Joined == worker = "none"

\* The thread starts with the thumbnail, if the video has one.
SaveBegins ==
  /\ main = "joining" /\ Joined
  /\ main' = "free"
  /\ save_state' = 1 /\ worker' \in {"thumb", "video"}
  /\ UNCHANGED <<path, stick>>

SaveCannotBegin ==
  /\ main = "joining" /\ Joined
  /\ main' = "free"
  /\ save_state' \in {save_state, -1} /\ worker' = "none"
  /\ UNCHANGED <<path, stick>>

-----------------------------------------------------------------------------
(***************************************************************************)
(* Save thread.                                                            *)
(***************************************************************************)

\* The file the thread is after: the thumbnail, then the video.
Goal == IF worker \in {"thumb", "thumb body"} THEN Sidecar[path] ELSE path

\* What follows a download: after the thumbnail's the video's, in any case.
Follows(ok) ==
  IF worker \in {"thumb", "thumb body"}
  THEN worker' = "video" /\ UNCHANGED save_state
  ELSE worker' = "leaving" /\ save_state' = IF ok THEN 2 ELSE -1

\* The network does not start: go_http_download returns, nothing removed.
NoNetwork ==
  /\ worker \in {"thumb", "video"}
  /\ Follows(FALSE)
  /\ UNCHANGED <<path, main, stick>>

\* The request was answered: the file is created, or emptied.
Opens ==
  /\ worker \in {"thumb", "video"}
  /\ worker' = IF worker = "thumb" THEN "thumb body" ELSE "video body"
  /\ fd' = Goal
  /\ content' = [content EXCEPT ![Goal] = "part"]
  /\ lost' = lost \ {Goal}
  /\ UNCHANGED <<save_state, path, main, touched>>

MutantRemoves(p) == UNCHANGED content

Removes(p) == content' = Removed(content, p)

\* No request, no answer, no file, no more bytes, no room: what is at the path
\* is removed, also when this download never opened it.
Fails ==
  /\ worker \in {"thumb", "video", "thumb body", "video body"}
  /\ Follows(FALSE)
  /\ fd' = NoPath
  /\ Removes(Goal)
  /\ lost' = lost \union ({Goal} \intersect Media)
  /\ UNCHANGED <<path, main, touched>>

\* What a file is whose body has ended: a video's may be short of the length
\* that was announced.  Of a thumbnail the two are not told apart.
Ended(p) == IF p \in Media THEN {"whole", "short"} ELSE {"whole"}

\* The body has ended.  The length is not compared: the download succeeds.
Completes ==
  /\ worker \in {"thumb body", "video body"}
  /\ Follows(TRUE)
  /\ IF fd = NoPath THEN UNCHANGED content
     ELSE \E end \in Ended(fd) : content' = [content EXCEPT ![fd] = end]
  /\ fd' = NoPath
  /\ UNCHANGED <<path, main, lost, touched>>

\* The thread lets the thumbnails go on, and ends.
WorkerEnds ==
  /\ worker = "leaving"
  /\ worker' = "none"
  /\ UNCHANGED <<save_state, path, main, stick>>

SaveThread == NoNetwork \/ Opens \/ Fails \/ Completes \/ WorkerEnds

SaveNext == SaveBegins \/ SaveCannotBegin \/ SaveThread
=============================================================================
