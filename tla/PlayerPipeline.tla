---------------------------- MODULE PlayerPipeline ----------------------------
(***************************************************************************)
(* One playback session of src/src/media/player.c: the player thread       *)
(* (decode_file) demultiplexes a file into two bounded packet queues, the  *)
(* video and the audio worker drain them, and the main thread may at any   *)
(* moment request a stop or toggle the pause.                              *)
(*                                                                         *)
(* A packet is a payload id and a size; what it contains is abstracted.    *)
(* A payload is "alive" from its allocation to its av_free_packet.         *)
(* Threads interleave at every read and write of shared state.             *)
(*                                                                         *)
(* An operator named Mutant... is the operator after it with a plausible   *)
(* mistake in it; no action uses it.  PROJECT.json says which property     *)
(* each one breaks.                                                        *)
(***************************************************************************)
EXTENDS Integers, Sequences, FiniteSets

CONSTANTS
  Limit,        \* bytes a queue may hold (0x80000, player.c:80)
  VideoSizes,   \* sizes of the video packets of the file
  PcmSize,      \* size of one block of decoded PCM
  MaxPayloads   \* bound: payloads allocated in a session

ASSUME PipelineAssumption ==
  /\ Limit \in Nat
  /\ VideoSizes \subseteq Nat
  /\ PcmSize \in Nat
  /\ MaxPayloads \in Nat

Streams == {"video", "audio"}

VARIABLES
  cancel, pause,        \* player_cancel, player_pause
  status,               \* player_status
  frame_index,          \* -1, or 0 once a frame's planes are published
  pc,                   \* where the player thread is in decode_file
  failed,               \* decode_file left by its fail label
  decoders,             \* streams whose codec was opened
  live,                 \* resources acquired and not yet released
  packet, pcm,          \* the player thread's two AVPackets
  alive, nextid,        \* payloads not yet freed, and the last id allocated
  queue, bytes,         \* per stream: the linked nodes, and q->bytes
  ended, abort,         \* per stream: q->ended, q->abort
  lock,                 \* per stream: holder of q->lock, "free", or "none"
  wpc, held, ret  \* per worker: where it is, its packet, why it left

shared == <<cancel, pause, status, frame_index>>
player == <<pc, failed, decoders, live, packet, pcm, nextid>>
queues == <<queue, bytes, ended, abort, lock>>
workers == <<wpc, held, ret>>
vars == <<shared, player, alive, queues, workers>>

Packet == [id : Nat, size : Nat, stream : Streams \union {"other"}]

\* An AVPacket whose data is NULL: av_free_packet does nothing to it.
NoPacket == [id |-> 0, size |-> 0, stream |-> "other"]

av_free_packet(p) == alive' = alive \ {p.id}

Running(s) == wpc[s] \notin {"none", "exited"}

MutantLockFree(s) == lock[s] # "none"

\* sceKernelWaitSema returns at once.
LockFree(s) == lock[s] = "free"

MutantEnqueued(q, p) == <<p>> \o q

\* packet_queue_put appends at the tail...
Enqueued(q, p) == Append(q, p)

MutantGivenAway(p) == p

\* ...and leaves the caller an AVPacket without data.
GivenAway(p) == NoPacket

\* The queue the player thread is putting into, and what it puts there.
Target == IF pcm = NoPacket THEN "video" ELSE "audio"
Outgoing == IF pcm = NoPacket THEN packet ELSE pcm

\* The state right after go_player_start has started the player thread.
Init ==
  /\ cancel = FALSE /\ pause = FALSE
  /\ status = 1 /\ frame_index = -1
  /\ pc = "input" /\ failed = FALSE
  /\ decoders = {} /\ live = {}
  /\ packet = NoPacket /\ pcm = NoPacket
  /\ alive = {} /\ nextid = 0
  /\ queue = [s \in Streams |-> <<>>]
  /\ bytes = [s \in Streams |-> 0]
  /\ ended = [s \in Streams |-> FALSE]
  /\ abort = [s \in Streams |-> FALSE]
  /\ lock = [s \in Streams |-> "none"]
  /\ wpc = [s \in Streams |-> "none"]
  /\ held = [s \in Streams |-> NoPacket]
  /\ ret = [s \in Streams |-> "none"]

-----------------------------------------------------------------------------
(***************************************************************************)
(* Player thread: opening.  "input" stands for the http stream, its buffer *)
(* and the format context; a failure may come after any of them exists.    *)
(***************************************************************************)
OpenInput ==
  /\ pc = "input"
  /\ \/ pc' = "openVideo" /\ live' = {"input"}
     \/ pc' = "fail" /\ live' \in SUBSET {"input"}
  /\ UNCHANGED <<shared, failed, decoders, packet, pcm, nextid, alive,
                 queues, workers>>

OpenVideo ==
  /\ pc = "openVideo"
  /\ \/ live' = live \union {"video"} /\ decoders' = {"video"}
     \/ UNCHANGED <<live, decoders>>      \* no such stream, or no decoder
  /\ pc' = "openAudio"
  /\ UNCHANGED <<shared, failed, packet, pcm, nextid, alive, queues,
                 workers>>

OpenAudio ==
  /\ pc = "openAudio"
  /\ \/ /\ UNCHANGED <<live, decoders>>
        /\ pc' = IF decoders = {} THEN "fail" ELSE "queues"
     \/ /\ \E src \in SUBSET {"src"} : live' = live \union {"audio", "buffers"} \union src
        /\ decoders' = decoders \union {"audio"}
        /\ pc' = "queues"
     \/ /\ live' = live \union {"audio"}  \* a PCM buffer cannot be allocated
        /\ pc' = "fail"
        /\ UNCHANGED decoders
  /\ UNCHANGED <<shared, failed, packet, pcm, nextid, alive, queues,
                 workers>>

\* packet_queue_init for both streams, and the codec lock: each may fail.
InitQueues ==
  /\ pc = "queues"
  /\ \E created \in SUBSET (Streams \union {"codec_lock"}) :
       /\ lock' = [s \in Streams |-> IF s \in created THEN "free" ELSE "none"]
       /\ live' = live \union (created \intersect {"codec_lock"})
       /\ pc' = IF decoders \union {"codec_lock"} \subseteq created
                  THEN "startVideo" ELSE "fail"
  /\ UNCHANGED <<shared, failed, decoders, packet, pcm, nextid, alive,
                 queue, bytes, ended, abort, workers>>

StartWorker(s, here, next) ==
  /\ pc = here
  /\ \/ s \in decoders /\ pc' = next /\ wpc' = [wpc EXCEPT ![s] = "check"]
     \/ s \in decoders /\ pc' = "fail" /\ UNCHANGED wpc
     \/ s \notin decoders /\ pc' = next /\ UNCHANGED wpc
  /\ UNCHANGED <<shared, failed, decoders, live, packet, pcm, nextid, alive,
                 queues, held, ret>>

StartVideo == StartWorker("video", "startVideo", "startAudio")
StartAudio == StartWorker("audio", "startAudio", "play")

Play ==
  /\ pc = "play"
  /\ status' = 2
  /\ pc' = "read"
  /\ UNCHANGED <<cancel, pause, frame_index, failed, decoders, live, packet,
                 pcm, nextid, alive, queues, workers>>

-----------------------------------------------------------------------------
(***************************************************************************)
(* Player thread: the demux loop.                                          *)
(***************************************************************************)
ReadFrame ==
  /\ pc = "read"
  /\ ~cancel
  /\ nextid < MaxPayloads
  /\ \E stream \in Streams \union {"other"}, size \in VideoSizes :
       packet' = [id |-> nextid + 1, size |-> size, stream |-> stream]
  /\ nextid' = nextid + 1
  /\ alive' = alive \union {nextid'}
  /\ pc' = "got"
  /\ UNCHANGED <<shared, failed, decoders, live, pcm, queues, workers>>

\* End of file, a read error, or a stop request seen at the loop's head.
EndOfInput ==
  /\ pc = "read"
  /\ pc' = "finish"
  /\ UNCHANGED <<shared, failed, decoders, live, packet, pcm, nextid, alive,
                 queues, workers>>

MutantPauseOver == ~pause

\* The pause loop ends.
PauseOver == ~pause \/ cancel

\* The pause loop, the stop check, then the dispatch on the packet's stream.
\* A packet no open decoder wants is freed at once.
Dispatch ==
  /\ pc = "got"
  /\ PauseOver
  /\ \/ /\ cancel
        /\ av_free_packet(packet) /\ packet' = NoPacket
        /\ pc' = "finish"
     \/ /\ ~cancel /\ packet.stream \in decoders
        /\ pc' = IF packet.stream = "video" THEN "admit" ELSE "decode"
        /\ UNCHANGED <<alive, packet>>
     \/ /\ ~cancel /\ packet.stream \notin decoders
        /\ av_free_packet(packet) /\ packet' = NoPacket
        /\ pc' = "read"
  /\ UNCHANGED <<shared, failed, decoders, live, pcm, nextid, queues,
                 workers>>

\* One more block of PCM comes out of the audio packet, if SRC is reserved.
DecodeAudio ==
  /\ pc = "decode"
  /\ ~cancel
  /\ "src" \in live
  /\ nextid < MaxPayloads
  /\ pcm' = [id |-> nextid + 1, size |-> PcmSize, stream |-> "audio"]
  /\ nextid' = nextid + 1
  /\ alive' = alive \union {nextid'}
  /\ pc' = "admit"
  /\ UNCHANGED <<shared, failed, decoders, live, packet, queues, workers>>

AudioPacketDone ==
  /\ pc = "decode"
  /\ av_free_packet(packet) /\ packet' = NoPacket
  /\ pc' = "read"
  /\ UNCHANGED <<shared, failed, decoders, live, pcm, nextid, queues,
                 workers>>

-----------------------------------------------------------------------------
(***************************************************************************)
(* Player thread: packet_queue_put.  The room test is made before the lock *)
(* is taken.                                                               *)
(***************************************************************************)
MutantHasRoom(s, p) == bytes[s] < Limit

HasRoom(s, p) == bytes[s] + p.size <= Limit

MutantPutGivesUp == abort[Target]

\* The wait for room is given up.
PutGivesUp == cancel \/ abort[Target]

PutAdmit ==
  /\ pc = "admit"
  /\ ~PutGivesUp
  /\ HasRoom(Target, Outgoing)
  /\ pc' = "lock"
  /\ UNCHANGED <<shared, failed, decoders, live, packet, pcm, nextid, alive,
                 queues, workers>>

\* Stop requested, or no memory for the node: the caller frees the packet.
PutRefused ==
  /\ pc = "admit"
  /\ PutGivesUp \/ HasRoom(Target, Outgoing)
  /\ av_free_packet(Outgoing)
  /\ IF Target = "video"
       THEN packet' = NoPacket /\ pc' = "read" /\ UNCHANGED pcm
       ELSE pcm' = NoPacket /\ pc' = "decode" /\ UNCHANGED packet
  /\ UNCHANGED <<shared, failed, decoders, live, nextid, queues, workers>>

PutLock ==
  /\ pc = "lock"
  /\ LockFree(Target)
  /\ lock' = [lock EXCEPT ![Target] = "player"]
  /\ pc' = "link"
  /\ UNCHANGED <<shared, failed, decoders, live, packet, pcm, nextid, alive,
                 queue, bytes, ended, abort, workers>>

\* Link the node, count it, release the lock, and give the payload away:
\* the caller's AVPacket is emptied.
PutLink ==
  /\ pc = "link"
  /\ queue' = [queue EXCEPT ![Target] = Enqueued(@, Outgoing)]
  /\ bytes' = [bytes EXCEPT ![Target] = @ + Outgoing.size]
  /\ lock' = [lock EXCEPT ![Target] = "free"]
  /\ IF Target = "video"
       THEN packet' = GivenAway(packet) /\ pc' = "read" /\ UNCHANGED pcm
       ELSE pcm' = GivenAway(pcm) /\ pc' = "decode" /\ UNCHANGED packet
  /\ UNCHANGED <<shared, failed, decoders, live, nextid, alive, ended, abort,
                 workers>>

-----------------------------------------------------------------------------
(***************************************************************************)
(* Player thread: leaving decode_file, by the end of input or by fail.     *)
(***************************************************************************)
MutantFinishedQueues == {"video"}

\* packet_queue_finish is called for these queues.
FinishedQueues == Streams

Finish ==
  /\ pc = "finish"
  /\ ended' = [s \in Streams |-> s \in FinishedQueues]
  /\ pc' = "join"
  /\ UNCHANGED <<shared, failed, decoders, live, packet, pcm, nextid, alive,
                 queue, bytes, abort, lock, workers>>

Fail ==
  /\ pc = "fail"
  /\ failed' = TRUE
  /\ abort' = [s \in Streams |-> TRUE]
  /\ pc' = "join"
  /\ UNCHANGED <<shared, decoders, live, packet, pcm, nextid, alive, queue,
                 bytes, ended, lock, workers>>

MutantJoined == ~Running("video")

\* sceKernelWaitThreadEnd has returned for both workers.
Joined == \A s \in Streams : ~Running(s)

Join ==
  /\ pc = "join"
  /\ Joined
  /\ pc' = "destroy"
  /\ UNCHANGED <<shared, failed, decoders, live, packet, pcm, nextid, alive,
                 queues, workers>>

\* packet_queue_destroy for both streams: no lock is taken.
DestroyQueues ==
  /\ pc = "destroy"
  /\ abort' = [s \in Streams |-> TRUE]
  /\ alive' = alive \ UNION {{queue[s][i].id : i \in DOMAIN queue[s]} : s \in Streams}
  /\ queue' = [s \in Streams |-> <<>>]
  /\ lock' = [s \in Streams |-> "none"]
  /\ pc' = "close"
  /\ UNCHANGED <<shared, failed, decoders, live, packet, pcm, nextid, bytes,
                 ended, workers>>

MutantReleased == {"codec_lock", "buffers", "video", "audio", "input"}

\* The codec lock, SRC, the PCM buffers, the picture, the codecs, the input.
Released == {"codec_lock", "src", "buffers", "video", "audio", "input"}

CloseMedia ==
  /\ pc = "close"
  /\ live' = live \ Released
  /\ pc' = "exit"
  /\ UNCHANGED <<shared, failed, decoders, packet, pcm, nextid, alive, queues,
                 workers>>

MutantErrorStatus == IF failed \/ cancel THEN -1 ELSE 3
MutantExitStatus == IF failed THEN -2 ELSE 3

\* decode_file returns -1 if it failed or a stop was requested: player_worker
\* turns that into status -2, and 0 into status 3.
ExitStatus == IF failed \/ cancel THEN -2 ELSE 3

ThreadExit ==
  /\ pc = "exit"
  /\ status' = ExitStatus
  /\ pc' = "done"
  /\ UNCHANGED <<cancel, pause, frame_index, failed, decoders, live, packet,
                 pcm, nextid, alive, queues, workers>>

-----------------------------------------------------------------------------
(***************************************************************************)
(* Workers: packet_queue_get, then decode or play, then free.              *)
(***************************************************************************)
GetCheck(s) ==
  /\ wpc[s] = "check"
  /\ IF abort[s] \/ cancel
       THEN /\ wpc' = [wpc EXCEPT ![s] = "exited"]
            /\ ret' = [ret EXCEPT ![s] = "abort"]
       ELSE wpc' = [wpc EXCEPT ![s] = "lock"] /\ UNCHANGED ret
  /\ UNCHANGED <<shared, player, alive, queues, held>>

GetLock(s) ==
  /\ wpc[s] = "lock"
  /\ LockFree(s)
  /\ lock' = [lock EXCEPT ![s] = s]
  /\ wpc' = [wpc EXCEPT ![s] = "unlink"]
  /\ UNCHANGED <<shared, player, alive, queue, bytes, ended, abort, held, ret>>

MutantDiscount(s) == 0

\* What the unlinked node gives back to q->bytes.
Discount(s) == Head(queue[s]).size

GetUnlink(s) ==
  /\ wpc[s] = "unlink"
  /\ lock' = [lock EXCEPT ![s] = "free"]
  /\ \/ /\ queue[s] # <<>>
        /\ queue' = [queue EXCEPT ![s] = Tail(@)]
        /\ bytes' = [bytes EXCEPT ![s] = @ - Discount(s)]
        /\ held' = [held EXCEPT ![s] = Head(queue[s])]
        /\ wpc' = [wpc EXCEPT ![s] = "use"]
     \/ /\ queue[s] = <<>>
        /\ wpc' = [wpc EXCEPT ![s] = "empty"]
        /\ UNCHANGED <<queue, bytes, held>>
  /\ UNCHANGED <<shared, player, alive, ended, abort, ret>>

\* The queue was empty when last looked at; q->ended is tested without the
\* lock.  If it is not set the worker sleeps and tries again.
GetEnded(s) ==
  /\ wpc[s] = "empty"
  /\ IF ended[s]
       THEN /\ wpc' = [wpc EXCEPT ![s] = "exited"]
            /\ ret' = [ret EXCEPT ![s] = "end"]
       ELSE wpc' = [wpc EXCEPT ![s] = "check"] /\ UNCHANGED ret
  /\ UNCHANGED <<shared, player, alive, queues, held>>

\* The video worker starts to decode only if no stop is requested; the audio
\* worker plays the block whatever happens.
Use(s) ==
  /\ wpc[s] = "use"
  /\ wpc' = [wpc EXCEPT ![s] = IF s = "video" /\ ~cancel THEN "decode" ELSE "free"]
  /\ UNCHANGED <<shared, player, alive, queues, held, ret>>

\* avcodec_decode_video under the codec lock; publish_yuv420 if a picture
\* with a size and a layout the GUI can draw came out.
VideoDecode ==
  /\ wpc["video"] = "decode"
  /\ frame_index' \in {frame_index, 0}
  /\ wpc' = [wpc EXCEPT !["video"] = "free"]
  /\ UNCHANGED <<cancel, pause, status, player, alive, queues, held, ret>>

FreePacket(s) ==
  /\ wpc[s] = "free"
  /\ av_free_packet(held[s])
  /\ held' = [held EXCEPT ![s] = NoPacket]
  /\ wpc' = [wpc EXCEPT ![s] = "check"]
  /\ UNCHANGED <<shared, player, queues, ret>>

-----------------------------------------------------------------------------
(***************************************************************************)
(* Main thread: go_player_stop and go_player_toggle_pause.                 *)
(***************************************************************************)
Stop ==
  /\ cancel' = TRUE
  /\ pause' = FALSE
  /\ UNCHANGED <<status, frame_index, player, alive, queues, workers>>

TogglePause ==
  /\ status = 2
  /\ pause' = ~pause
  /\ UNCHANGED <<cancel, status, frame_index, player, alive, queues, workers>>

-----------------------------------------------------------------------------
PlayerStep ==
  \/ OpenInput \/ OpenVideo \/ OpenAudio \/ InitQueues \/ StartVideo
  \/ StartAudio \/ Play \/ ReadFrame \/ EndOfInput \/ Dispatch
  \/ DecodeAudio \/ AudioPacketDone \/ PutAdmit \/ PutRefused \/ PutLock
  \/ PutLink \/ Finish \/ Fail \/ Join \/ DestroyQueues \/ CloseMedia
  \/ ThreadExit

WorkerStep(s) ==
  \/ GetCheck(s) \/ GetLock(s) \/ GetUnlink(s) \/ GetEnded(s)
  \/ Use(s) \/ FreePacket(s)
  \/ s = "video" /\ VideoDecode

MainStep == Stop \/ TogglePause

\* The main thread outlives the session: it is what keeps stepping at the end.
Next == PlayerStep \/ (\E s \in Streams : WorkerStep(s)) \/ MainStep

Spec == Init /\ [][Next]_vars

(***************************************************************************)
(* Every thread that can run eventually does: their waiting loops all      *)
(* sleep.  A semaphore's wait queue is FIFO, so a thread that waits for a  *)
(* lock that is released again and again gets it.  The user owes nothing.  *)
(***************************************************************************)
Fairness ==
  /\ WF_vars(PlayerStep)
  /\ SF_vars(PutLock)
  /\ \A s \in Streams : WF_vars(WorkerStep(s)) /\ SF_vars(GetLock(s))

FairSpec == Spec /\ Fairness

-----------------------------------------------------------------------------
(***************************************************************************)
(* What must hold.                                                         *)
(***************************************************************************)
PlayerPC == {"input", "openVideo", "openAudio", "queues", "startVideo",
             "startAudio", "play", "read", "got", "decode", "admit", "lock",
             "link", "finish", "fail", "join", "destroy", "close", "exit", "done"}
WorkerPC == {"none", "check", "lock", "unlink", "empty", "use", "decode",
             "free", "exited"}

\* Every variable has its type (the statics and the two structs of player.c).
TypeOK ==
  /\ cancel \in BOOLEAN /\ pause \in BOOLEAN
  /\ status \in {1, 2, 3, -2} /\ frame_index \in {-1, 0}
  /\ pc \in PlayerPC /\ failed \in BOOLEAN
  /\ decoders \in SUBSET Streams
  /\ live \in SUBSET {"codec_lock", "src", "buffers", "video", "audio", "input"}
  /\ packet \in Packet /\ pcm \in Packet
  /\ alive \in SUBSET Nat /\ nextid \in Nat
  /\ queue \in [Streams -> Seq(Packet)]
  /\ bytes \in [Streams -> Int]
  /\ ended \in [Streams -> BOOLEAN] /\ abort \in [Streams -> BOOLEAN]
  /\ lock \in [Streams -> Streams \union {"free", "none", "player"}]
  /\ wpc \in [Streams -> WorkerPC]
  /\ held \in [Streams -> Packet]
  /\ ret \in [Streams -> {"none", "end", "abort"}]

\* A queue never holds more than Limit bytes, although the room for a packet
\* is tested before the lock is taken (player.c:80 and 93).
BytesBounded == \A s \in Streams : bytes[s] <= Limit

\* The sizes of the first n packets of a queue, added up.
Sizes(q) ==
  LET sum[n \in 0 .. Len(q)] == IF n = 0 THEN 0 ELSE sum[n - 1] + q[n].size
  IN  sum

\* q->bytes is exactly the size of the packets in the queue, until the queue
\* is destroyed, and bounded: the room that put waits for really comes back.
BytesExact ==
  /\ BytesBounded
  /\ \A s \in Streams :
       pc \notin {"close", "exit", "done"} =>
         bytes[s] = Sizes(queue[s])[Len(queue[s])]

\* A thread that waits, waits for one that can step: for room, a worker that
\* runs and has something to remove from the queue (unless the packet is larger
\* than a whole queue); for the workers' end, a worker that was told to end; for
\* a semaphore, a thread that is about to release it.
WaitsAreServed ==
  /\ pc = "admit" /\ ~PutGivesUp /\ ~HasRoom(Target, Outgoing) =>
       Outgoing.size > Limit \/ (Running(Target) /\ queue[Target] # <<>>)
  /\ pc = "join" => \A s \in Streams : Running(s) => ended[s] \/ abort[s]
  /\ pc = "lock" /\ ~LockFree(Target) => wpc[Target] = "unlink"
  /\ \A s \in Streams : wpc[s] = "lock" /\ ~LockFree(s) => pc = "link" /\ Target = s

\* The player thread and a worker are never both between sceKernelWaitSema
\* and sceKernelSignalSema of the same queue.
MutualExclusion ==
  \A s \in Streams : ~(pc = "link" /\ Target = s /\ wpc[s] = "unlink")

\* The places that hold a payload: an AVPacket of the player thread, a node of
\* a queue, or the AVPacket of a worker.
Owners ==
  {<<"packet", 0, packet.id>>, <<"pcm", 0, pcm.id>>}
    \union {<<s, 0, held[s].id>> : s \in Streams}
    \union UNION {{<<s, i, queue[s][i].id>> : i \in DOMAIN queue[s]} : s \in Streams}

\* Every payload not yet freed has exactly one owner, and no place holds a
\* payload that was freed: nothing leaks, nothing is freed twice, whichever
\* thread the stop, the failure or the end of file catches where.
SingleOwner ==
  \A id \in 1..nextid :
    Cardinality({o \in Owners : o[3] = id}) = IF id \in alive THEN 1 ELSE 0

\* A worker receives its stream's packets in the order of the file.
InOrder ==
  \A s \in Streams :
    /\ \A i, j \in DOMAIN queue[s] : i < j => queue[s][i].id < queue[s][j].id
    /\ \A i \in DOMAIN queue[s] :
         /\ held[s].id < queue[s][i].id
         /\ pc \in {"admit", "lock", "link"} /\ Target = s => queue[s][i].id < Outgoing.id

\* A worker that runs finds its queue's semaphore, its codec and (video) the
\* codec lock: nothing it uses is destroyed before it has been joined, and
\* none is started without them.
WorkersHaveTheirResources ==
  \A s \in Streams :
    Running(s) => /\ lock[s] # "none"
                  /\ s \in live
                  /\ "codec_lock" \in live

\* When the player thread ends, by whatever path of decode_file, no payload, no
\* semaphore, no codec, no audio channel and no worker is left behind.
NothingLeft ==
  pc = "done" => /\ alive = {} /\ live = {}
                 /\ \A s \in Streams : lock[s] = "none" /\ ~Running(s)

\* packet_queue_get's "0=end": a worker told that its stream has ended has
\* received every packet of it (player.c:104).
EndMeansDrained == \A s \in Streams : ret[s] = "end" => queue[s] = <<>>

\* Once a stop is requested the player thread ends, so that go_player_start,
\* which waits for it, returns.
StopEnds == cancel ~> pc = "done"

\* If the user neither stops nor leaves the player paused, a session ends by
\* itself, unless the player thread waits for room for a packet larger than a
\* whole queue.
Oversize == pc = "admit" /\ Outgoing.size > Limit
SessionEnds == <>(pc = "done") \/ []<>pause \/ <>[]Oversize

\* PlayerPipeline implements PlayerSession: whatever the packets, the workers
\* and the failures do, the main thread sees a session that opens, plays,
\* closes and ends in this order, publishes pictures only while it plays, and
\* ends as done only if it was not stopped.
Session == INSTANCE PlayerSession WITH
  decoder <- "video" \in live,
  phase <- CASE pc = "done" -> "ended"
             [] pc = "exit" -> "closing"
             [] status = 2 /\ pc # "exit" -> "playing"
             [] OTHER -> "opening"
SessionSpec == Session!Spec

\* go_player_planes' contract, "consumes the decoder's three 8-bit Y/V/U planes
\* directly" (player.c:15): while the GUI draws the frame (gui.c:852) the
\* decoder that owns its planes is open.
FrameBacked == frame_index = 0 /\ status \in {1, 2, 3} => "video" \in live
=============================================================================
