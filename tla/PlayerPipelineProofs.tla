------------------------- MODULE PlayerPipelineProofs -------------------------
(***************************************************************************)
(* Proofs about PlayerPipeline, for every Limit, every set of packet sizes *)
(* and any number of payloads: its safety properties, and that it          *)
(* implements PlayerSession.                                               *)
(*                                                                         *)
(* The inductive invariant IInv says for each place of the threads what    *)
(* has been acquired and who holds what; it is proved part by part, each   *)
(* step lemma with one step per action.                                    *)
(***************************************************************************)
EXTENDS PlayerPipeline, FiniteSetTheorems, TLAPS

-----------------------------------------------------------------------------
(***************************************************************************)
(* The inductive invariant.                                                *)
(***************************************************************************)

\* The player thread's places before any worker exists, while decode_file
\* sets a session up, and after both workers were joined.
Before == {"input", "openVideo", "openAudio", "queues", "startVideo"}
Setup == {"openVideo", "openAudio", "queues", "startVideo", "startAudio"}
Joining == {"destroy", "close", "exit", "done"}

\* A semaphore is held by exactly the thread that is between its
\* sceKernelWaitSema and its sceKernelSignalSema.
LockHolders ==
  \A s \in Streams :
    /\ lock[s] = "player" <=> pc = "link" /\ Target = s
    /\ lock[s] = s <=> wpc[s] = "unlink"

\* The room found before the lock was taken is still there when the node is
\* linked: only the player thread adds to a queue.
Room(s) ==
  /\ bytes[s] <= Limit
  /\ pc \in {"lock", "link"} /\ Target = s => bytes[s] + Outgoing.size <= Limit

Rooms == \A s \in Streams : Room(s)

\* What has been acquired at each place of decode_file.
Resources ==
  /\ pc = "input" => decoders = {} /\ live = {}
  /\ pc = "openVideo" => "video" \notin live
  /\ pc \in Setup => decoders \subseteq live
  /\ pc \in {"startVideo", "startAudio"} => "codec_lock" \in live
  /\ pc \in {"exit", "done"} => live = {}

\* When a worker may run, and what it then finds.
Life(s) ==
  /\ pc \in Before => wpc[s] = "none"
  /\ pc = "startAudio" /\ s = "audio" => wpc[s] = "none"
  /\ pc \in {"startVideo", "startAudio"} /\ s \in decoders => lock[s] # "none"
  /\ Running(s) => lock[s] # "none" /\ s \in live /\ "codec_lock" \in live
  /\ pc \in Joining => ~Running(s)
  /\ pc \in {"close", "exit", "done"} => lock[s] = "none"

Lifecycle == Resources /\ \A s \in Streams : Life(s)

\* Where a thread's AVPacket may have data.
Holding ==
  /\ packet # NoPacket => pc \in {"got", "decode", "admit", "lock", "link"}
  /\ pcm # NoPacket => pc \in {"admit", "lock", "link"}
  /\ \A s \in Streams : held[s] # NoPacket => wpc[s] \in {"use", "decode", "free"}

\* Every payload that is alive is held somewhere...
HasOwner(id) ==
  \/ id = packet.id \/ id = pcm.id
  \/ \E s \in Streams : id = held[s].id
  \/ \E s \in Streams : \E i \in DOMAIN queue[s] : id = queue[s][i].id

NoOrphan == 0 \notin alive /\ \A id \in alive : HasOwner(id)

Emptied == pc \in {"close", "exit", "done"} => alive = {}

\* ...what is held is alive...
Live ==
  /\ \A id \in alive : id <= nextid
  /\ packet.id \in alive \union {0} /\ pcm.id \in alive \union {0}
  /\ \A s \in Streams : held[s].id \in alive \union {0}
  /\ \A s \in Streams : \A i \in DOMAIN queue[s] : queue[s][i].id \in alive

\* ...and no two places hold the same payload (within a stream: see Ordered).
Apart ==
  /\ packet.id = pcm.id => packet.id = 0
  /\ \A s \in Streams : held[s].id \in {packet.id, pcm.id} => held[s].id = 0
  /\ \A s \in Streams : \A i \in DOMAIN queue[s] : queue[s][i].id \notin {packet.id, pcm.id}
  /\ \A s, t \in Streams : s # t =>
       /\ held[s].id = held[t].id => held[s].id = 0
       /\ \A i \in DOMAIN queue[s] : queue[s][i].id # held[t].id
       /\ \A i \in DOMAIN queue[s], j \in DOMAIN queue[t] : queue[s][i].id # queue[t][j].id

\* The player thread has a packet in hand that it read or decoded last.
InHand == pc \in {"got", "admit", "lock", "link"}

\* A step that neither moves a payload nor takes a new one in hand.
Still == UNCHANGED <<alive, packet, pcm, held, queue, nextid>> /\ (InHand' => InHand)

Past(p) == p.id <= nextid /\ (InHand => p.id < nextid)

Fresh ==
  /\ InHand => Outgoing.id = nextid /\ 0 < nextid
  /\ \A s \in Streams :
       /\ Past(held[s])
       /\ \A i \in DOMAIN queue[s] : 0 < queue[s][i].id /\ Past(queue[s][i])

\* The packets of a stream are in the order in which they were made.
Ordered(s) ==
  /\ \A i, j \in DOMAIN queue[s] : i < j => queue[s][i].id < queue[s][j].id
  /\ \A i \in DOMAIN queue[s] : held[s].id < queue[s][i].id

\* How player_status follows the player thread; before it is 2 nothing is queued.
Opened ==
  /\ pc \in Before \union {"startAudio", "play"} => status = 1
  /\ pc \in {"read", "got", "decode", "admit", "lock", "link", "finish"} => status = 2
  /\ pc = "fail" => status = 1
  /\ failed => pc \in {"join", "destroy", "close", "exit", "done"}
  /\ pc \in {"join", "destroy", "close", "exit"} => (failed <=> status = 1)
  /\ pc # "done" => status \in {1, 2}
  /\ status = 1 => \A s \in Streams : queue[s] = <<>> /\ wpc[s] \notin {"use", "decode", "free"}

IInv ==
  /\ TypeOK /\ Lifecycle /\ LockHolders /\ Rooms /\ Holding
  /\ Fresh /\ (\A s \in Streams : Ordered(s))
  /\ NoOrphan /\ Emptied /\ Live /\ Apart /\ Opened

-----------------------------------------------------------------------------
(***************************************************************************)
(* Streams, packets and sequences.                                         *)
(***************************************************************************)

\* The names a semaphore's holder can have are different.
LEMMA StreamNames ==
  /\ "video" \in Streams /\ "audio" \in Streams
  /\ "player" \notin Streams /\ "free" \notin Streams /\ "none" \notin Streams
BY DEF Streams

\* The empty AVPacket is a packet; it has the id 0, which no payload has.
LEMMA NoPacketType == NoPacket \in Packet /\ NoPacket.id = 0
BY DEF NoPacket, Packet

\* Sizes and ids are natural numbers.
LEMMA PacketFields == \A p \in Packet : p.size \in Nat /\ p.id \in Nat
BY DEF Packet

\* Taking the head off a queue shifts the rest by one.
LEMMA HeadAndTail ==
  ASSUME NEW S, NEW q \in Seq(S), q # <<>>
  PROVE  /\ Head(q) = q[1] /\ 1 \in DOMAIN q
         /\ \A i \in DOMAIN Tail(q) : i \in Nat /\ i + 1 \in DOMAIN q /\ Tail(q)[i] = q[i + 1]
OBVIOUS

\* Appending to a queue keeps what is in it and adds a last element.
LEMMA Appending ==
  ASSUME NEW S, NEW q \in Seq(S), NEW p \in S
  PROVE  \A i \in DOMAIN Append(q, p) :
           \/ i \in DOMAIN q /\ Append(q, p)[i] = q[i]
           \/ i = Len(q) + 1 /\ Append(q, p)[i] = p /\ \A j \in DOMAIN q : j < i
OBVIOUS

-----------------------------------------------------------------------------
(***************************************************************************)
(* Types.                                                                  *)
(***************************************************************************)
\* go_player_start leaves variables of their types behind.
LEMMA TypeInit == Init => TypeOK
<1> SUFFICES ASSUME Init PROVE TypeOK
  OBVIOUS
<1> USE DEF Init, Packet, NoPacket, Streams
<1>1. /\ queue \in [Streams -> Seq(Packet)] /\ bytes \in [Streams -> Int]
      /\ packet \in Packet /\ pcm \in Packet /\ held \in [Streams -> Packet]
  OBVIOUS
<1>2. cancel \in BOOLEAN /\ pause \in BOOLEAN /\ failed \in BOOLEAN
  OBVIOUS
<1>3. ended \in [Streams -> BOOLEAN] /\ abort \in [Streams -> BOOLEAN]
  OBVIOUS
<1> QED
  BY <1>1, <1>2, <1>3 DEF TypeOK, PlayerPC, WorkerPC

\* Every action keeps the types.
LEMMA TypeStep == TypeOK /\ [Next]_vars => TypeOK'
<1> SUFFICES ASSUME TypeOK, [Next]_vars PROVE TypeOK'
  OBVIOUS
<1> USE PipelineAssumption, NoPacketType DEF TypeOK, PlayerPC, WorkerPC, Streams,
        shared, player, queues, workers, av_free_packet
<1>1. CASE OpenInput
  BY <1>1 DEF OpenInput
<1>2. CASE OpenVideo
  BY <1>2 DEF OpenVideo
<1>3. CASE OpenAudio
  <2>1. live' \in SUBSET {"codec_lock", "src", "buffers", "video", "audio", "input"}
    BY <1>3 DEF OpenAudio
  <2>2. decoders' \in SUBSET Streams /\ pc' \in PlayerPC
    BY <1>3 DEF OpenAudio
  <2> QED
    BY <1>3, <2>1, <2>2 DEF OpenAudio
<1>4. CASE InitQueues
  BY <1>4 DEF InitQueues
<1>5. CASE StartVideo
  BY <1>5 DEF StartVideo, StartWorker
<1>6. CASE StartAudio
  BY <1>6 DEF StartAudio, StartWorker
<1>7. CASE Play
  BY <1>7 DEF Play
<1>8. CASE ReadFrame
  BY <1>8 DEF ReadFrame, Packet
<1>9. CASE EndOfInput
  BY <1>9 DEF EndOfInput
<1>10. CASE Dispatch
  <2>1. alive' \in SUBSET Nat
    BY <1>10 DEF Dispatch
  <2> QED
    BY <1>10, <2>1 DEF Dispatch
<1>11. CASE DecodeAudio
  BY <1>11 DEF DecodeAudio, Packet
<1>12. CASE AudioPacketDone
  BY <1>12 DEF AudioPacketDone
<1>13. CASE PutAdmit
  BY <1>13 DEF PutAdmit, Target, Outgoing
<1>14. CASE PutRefused
  <2>1. alive' \in SUBSET Nat
    BY <1>14 DEF PutRefused
  <2> QED
    BY <1>14, <2>1 DEF PutRefused
<1>15. CASE PutLock
  BY <1>15 DEF PutLock, Target
<1>16. CASE PutLink
  <2>1. Outgoing \in Packet /\ Target \in Streams
    BY DEF Outgoing, Target
  <2>2. queue' \in [Streams -> Seq(Packet)]
    BY <1>16, <2>1 DEF PutLink, Enqueued
  <2>4. Outgoing.size \in Int
    BY <2>1, PacketFields
  <2>3. packet' \in Packet /\ pcm' \in Packet /\ pc' \in PlayerPC
    BY <1>16 DEF PutLink, GivenAway
  <2> QED
    BY <1>16, <2>1, <2>2, <2>3, <2>4 DEF PutLink
<1>17. CASE Finish
  BY <1>17 DEF Finish, FinishedQueues
<1>18. CASE Fail
  BY <1>18 DEF Fail
<1>19. CASE Join
  BY <1>19 DEF Join
<1>20. CASE DestroyQueues
  <2>1. alive' \in SUBSET Nat
    BY <1>20 DEF DestroyQueues
  <2>2. queue' \in [Streams -> Seq(Packet)]
    BY <1>20 DEF DestroyQueues
  <2>3. /\ abort' \in [Streams -> BOOLEAN]
        /\ lock' \in [Streams -> Streams \union {"free", "none", "player"}]
    BY <1>20 DEF DestroyQueues
  <2> QED
    BY <1>20, <2>1, <2>2, <2>3 DEF DestroyQueues
<1>21. CASE CloseMedia
  BY <1>21 DEF CloseMedia, Released
<1>22. CASE ThreadExit
  BY <1>22 DEF ThreadExit, ExitStatus
<1>23. CASE \E s \in Streams : GetCheck(s)
  BY <1>23 DEF GetCheck
<1>24. CASE \E s \in Streams : GetLock(s)
  BY <1>24 DEF GetLock
<1>25. CASE \E s \in Streams : GetUnlink(s)
  <2> PICK s \in Streams : GetUnlink(s)
    BY <1>25
  <2>1. CASE queue[s] # <<>>
    <3>1. Head(queue[s]) \in Packet /\ Tail(queue[s]) \in Seq(Packet)
      BY <2>1
    <3>2. Discount(s) \in Int
      BY <3>1, PacketFields DEF Discount
    <3>3. /\ queue' = [queue EXCEPT ![s] = Tail(queue[s])]
          /\ held' = [held EXCEPT ![s] = Head(queue[s])]
      BY <2>1 DEF GetUnlink
    <3>4. queue' \in [Streams -> Seq(Packet)] /\ held' \in [Streams -> Packet]
      BY <3>1, <3>3
    <3> QED
      BY <2>1, <3>2, <3>3, <3>4 DEF GetUnlink
  <2>2. CASE queue[s] = <<>>
    BY <2>2 DEF GetUnlink
  <2> QED
    BY <2>1, <2>2
<1>26. CASE \E s \in Streams : GetEnded(s)
  BY <1>26 DEF GetEnded
<1>27. CASE \E s \in Streams : Use(s)
  BY <1>27 DEF Use
<1>28. CASE \E s \in Streams : FreePacket(s)
  <2> PICK s \in Streams : FreePacket(s)
    BY <1>28
  <2>1. alive' \in SUBSET Nat
    BY DEF FreePacket
  <2>2. held' \in [Streams -> Packet] /\ wpc' \in [Streams -> WorkerPC]
    BY DEF FreePacket
  <2> QED
    BY <2>1, <2>2 DEF FreePacket
<1>29. CASE VideoDecode
  BY <1>29 DEF VideoDecode
<1>30. CASE Stop
  <2>1. cancel' \in BOOLEAN /\ pause' \in BOOLEAN
    BY <1>30 DEF Stop
  <2> QED
    BY <1>30, <2>1 DEF Stop
<1>31. CASE TogglePause
  BY <1>31 DEF TogglePause
<1>32. CASE UNCHANGED vars
  BY <1>32 DEF vars
<1> QED
  BY <1>1, <1>2, <1>3, <1>4, <1>5, <1>6, <1>7, <1>8, <1>9, <1>10, <1>11,
     <1>12, <1>13, <1>14, <1>15, <1>16, <1>17, <1>18, <1>19, <1>20, <1>21,
     <1>22, <1>23, <1>24, <1>25, <1>26, <1>27, <1>28, <1>29, <1>30, <1>31,
     <1>32
  DEF Next, PlayerStep, WorkerStep, MainStep

\* Every reachable state of the session has its variables in their types.
THEOREM TypeCorrect == Spec => []TypeOK
BY TypeInit, TypeStep, PTL DEF Spec

-----------------------------------------------------------------------------
(***************************************************************************)
(* The parts of the invariant, one after the other.                        *)
(***************************************************************************)
\* decode_file acquires before it uses, and CloseMedia releases everything.
LEMMA ResourcesStep == TypeOK /\ Resources /\ [Next]_vars => Resources'
<1> SUFFICES ASSUME TypeOK, Resources, [Next]_vars PROVE Resources'
  OBVIOUS
<1> USE DEF Resources, Setup, shared, player, queues, workers
<1>1. CASE OpenInput
  BY <1>1 DEF OpenInput
<1>2. CASE OpenVideo
  BY <1>2 DEF OpenVideo
<1>3. CASE OpenAudio
  BY <1>3 DEF OpenAudio
<1>4. CASE InitQueues
  BY <1>4 DEF InitQueues
<1>5. CASE StartVideo
  BY <1>5 DEF StartVideo, StartWorker
<1>6. CASE StartAudio
  BY <1>6 DEF StartAudio, StartWorker
<1>7. CASE Play
  BY <1>7 DEF Play
<1>8. CASE ReadFrame
  BY <1>8 DEF ReadFrame
<1>9. CASE EndOfInput
  BY <1>9 DEF EndOfInput
<1>10. CASE Dispatch
  BY <1>10 DEF Dispatch
<1>11. CASE DecodeAudio
  BY <1>11 DEF DecodeAudio
<1>12. CASE AudioPacketDone
  BY <1>12 DEF AudioPacketDone
<1>13. CASE PutAdmit
  BY <1>13 DEF PutAdmit
<1>14. CASE PutRefused
  BY <1>14 DEF PutRefused
<1>15. CASE PutLock
  BY <1>15 DEF PutLock
<1>16. CASE PutLink
  BY <1>16 DEF PutLink
<1>17. CASE Finish
  BY <1>17 DEF Finish
<1>18. CASE Fail
  BY <1>18 DEF Fail
<1>19. CASE Join
  BY <1>19 DEF Join
<1>20. CASE DestroyQueues
  BY <1>20 DEF DestroyQueues
<1>21. CASE CloseMedia
  BY <1>21 DEF CloseMedia, Released, TypeOK
<1>22. CASE ThreadExit
  BY <1>22 DEF ThreadExit
<1>23. CASE \E t \in Streams : GetCheck(t)
  BY <1>23 DEF GetCheck
<1>24. CASE \E t \in Streams : GetLock(t)
  BY <1>24 DEF GetLock
<1>25. CASE \E t \in Streams : GetUnlink(t)
  BY <1>25 DEF GetUnlink
<1>26. CASE \E t \in Streams : GetEnded(t)
  BY <1>26 DEF GetEnded
<1>27. CASE \E t \in Streams : Use(t)
  BY <1>27 DEF Use
<1>28. CASE \E t \in Streams : FreePacket(t)
  BY <1>28 DEF FreePacket
<1>29. CASE VideoDecode
  BY <1>29 DEF VideoDecode
<1>30. CASE Stop
  BY <1>30 DEF Stop
<1>31. CASE TogglePause
  BY <1>31 DEF TogglePause
<1>32. CASE UNCHANGED vars
  BY <1>32 DEF vars
<1> QED
  BY <1>1, <1>2, <1>3, <1>4, <1>5, <1>6, <1>7, <1>8, <1>9, <1>10, <1>11,
     <1>12, <1>13, <1>14, <1>15, <1>16, <1>17, <1>18, <1>19, <1>20, <1>21,
     <1>22, <1>23, <1>24, <1>25, <1>26, <1>27, <1>28, <1>29, <1>30, <1>31,
     <1>32
  DEF Next, PlayerStep, WorkerStep, MainStep

\* Workers run only between their start and Join, with all they need.
LEMMA LifeStep ==
  TypeOK /\ Lifecycle /\ [Next]_vars => \A s \in Streams : Life(s)'
<1> SUFFICES ASSUME TypeOK, Resources, \A t \in Streams : Life(t), [Next]_vars, NEW s \in Streams
             PROVE Life(s)'
  BY DEF Lifecycle
<1>a. Life(s) /\ DOMAIN lock = Streams /\ DOMAIN wpc = Streams
  BY DEF TypeOK

<1> USE <1>a, StreamNames DEF Life, Before, Joining, Running, shared, player, queues, workers
<1>1. CASE OpenInput
  BY <1>1 DEF OpenInput
<1>2. CASE OpenVideo
  BY <1>2 DEF OpenVideo
<1>3. CASE OpenAudio
  BY <1>3 DEF OpenAudio
<1>4. CASE InitQueues
  BY <1>4 DEF InitQueues
<1>5. CASE StartVideo
  BY <1>5 DEF StartVideo, StartWorker, Resources, Setup
<1>6. CASE StartAudio
  BY <1>6 DEF StartAudio, StartWorker, Resources, Setup
<1>7. CASE Play
  BY <1>7 DEF Play
<1>8. CASE ReadFrame
  BY <1>8 DEF ReadFrame
<1>9. CASE EndOfInput
  BY <1>9 DEF EndOfInput
<1>10. CASE Dispatch
  BY <1>10 DEF Dispatch
<1>11. CASE DecodeAudio
  BY <1>11 DEF DecodeAudio
<1>12. CASE AudioPacketDone
  BY <1>12 DEF AudioPacketDone
<1>13. CASE PutAdmit
  BY <1>13 DEF PutAdmit
<1>14. CASE PutRefused
  BY <1>14 DEF PutRefused
<1>15. CASE PutLock
  BY <1>15 DEF PutLock
<1>16. CASE PutLink
  BY <1>16 DEF PutLink
<1>17. CASE Finish
  BY <1>17 DEF Finish
<1>18. CASE Fail
  BY <1>18 DEF Fail
<1>19. CASE Join
  BY <1>19 DEF Join, Joined
<1>20. CASE DestroyQueues
  BY <1>20 DEF DestroyQueues
<1>21. CASE CloseMedia
  BY <1>21 DEF CloseMedia
<1>22. CASE ThreadExit
  BY <1>22 DEF ThreadExit
<1>23. CASE \E t \in Streams : GetCheck(t)
  BY <1>23 DEF GetCheck
<1>24. CASE \E t \in Streams : GetLock(t)
  BY <1>24 DEF GetLock
<1>25. CASE \E t \in Streams : GetUnlink(t)
  BY <1>25 DEF GetUnlink
<1>26. CASE \E t \in Streams : GetEnded(t)
  BY <1>26 DEF GetEnded
<1>27. CASE \E t \in Streams : Use(t)
  BY <1>27 DEF Use
<1>28. CASE \E t \in Streams : FreePacket(t)
  BY <1>28 DEF FreePacket
<1>29. CASE VideoDecode
  BY <1>29 DEF VideoDecode
<1>30. CASE Stop
  BY <1>30 DEF Stop
<1>31. CASE TogglePause
  BY <1>31 DEF TogglePause
<1>32. CASE UNCHANGED vars
  BY <1>32 DEF vars
<1> QED
  BY <1>1, <1>2, <1>3, <1>4, <1>5, <1>6, <1>7, <1>8, <1>9, <1>10, <1>11,
     <1>12, <1>13, <1>14, <1>15, <1>16, <1>17, <1>18, <1>19, <1>20, <1>21,
     <1>22, <1>23, <1>24, <1>25, <1>26, <1>27, <1>28, <1>29, <1>30, <1>31,
     <1>32
  DEF Next, PlayerStep, WorkerStep, MainStep

\* Taking and giving the semaphores.
LEMMA LockStep == TypeOK /\ Lifecycle /\ LockHolders /\ [Next]_vars => LockHolders'
<1> SUFFICES ASSUME TypeOK, Lifecycle, LockHolders, [Next]_vars, NEW s \in Streams
             PROVE (/\ lock[s] = "player" <=> pc = "link" /\ Target = s
                    /\ lock[s] = s <=> wpc[s] = "unlink")'
  BY DEF LockHolders
<1>a. /\ lock[s] = "player" <=> pc = "link" /\ Target = s
      /\ lock[s] = s <=> wpc[s] = "unlink"
      /\ DOMAIN lock = Streams /\ DOMAIN wpc = Streams
  BY DEF LockHolders, TypeOK
<1> USE <1>a, StreamNames DEF shared, player, queues, workers
<1>1. CASE OpenInput
  BY <1>1 DEF OpenInput, Target
<1>2. CASE OpenVideo
  BY <1>2 DEF OpenVideo, Target
<1>3. CASE OpenAudio
  BY <1>3 DEF OpenAudio, Target
<1>4. CASE InitQueues
  <2>1. wpc[s] # "unlink"
    BY <1>4 DEF InitQueues, Lifecycle, Life, Before, Joining, Running
  <2>2. lock'[s] \in {"free", "none"} /\ pc' # "link" /\ wpc' = wpc
    BY <1>4 DEF InitQueues
  <2> QED
    BY <2>1, <2>2
<1>5. CASE StartVideo
  <2>1. wpc["video"] = "none"
    BY <1>5 DEF StartVideo, StartWorker, Lifecycle, Life, Before
  <2>2. (wpc[s] = "unlink")' <=> wpc[s] = "unlink"
    BY <1>5, <2>1 DEF StartVideo, StartWorker
  <2> QED
    BY <1>5, <2>2 DEF StartVideo, StartWorker, Target
<1>6. CASE StartAudio
  <2>1. wpc["audio"] = "none"
    BY <1>6 DEF StartAudio, StartWorker, Lifecycle, Life, Before
  <2>2. (wpc[s] = "unlink")' <=> wpc[s] = "unlink"
    BY <1>6, <2>1 DEF StartAudio, StartWorker
  <2> QED
    BY <1>6, <2>2 DEF StartAudio, StartWorker, Target
<1>7. CASE Play
  BY <1>7 DEF Play, Target
<1>8. CASE ReadFrame
  BY <1>8 DEF ReadFrame, Target
<1>9. CASE EndOfInput
  BY <1>9 DEF EndOfInput, Target
<1>10. CASE Dispatch
  BY <1>10 DEF Dispatch, Target
<1>11. CASE DecodeAudio
  BY <1>11 DEF DecodeAudio, Target
<1>12. CASE AudioPacketDone
  BY <1>12 DEF AudioPacketDone, Target
<1>13. CASE PutAdmit
  BY <1>13 DEF PutAdmit, Target
<1>14. CASE PutRefused
  BY <1>14 DEF PutRefused, Target
<1>15. CASE PutLock
  BY <1>15 DEF PutLock, LockFree, Target
<1>16. CASE PutLink
  BY <1>16 DEF PutLink, Target
<1>17. CASE Finish
  BY <1>17 DEF Finish, Target
<1>18. CASE Fail
  BY <1>18 DEF Fail, Target
<1>19. CASE Join
  BY <1>19 DEF Join, Target
<1>20. CASE DestroyQueues
  <2>1. wpc[s] # "unlink"
    BY <1>20 DEF DestroyQueues, Lifecycle, Life, Before, Joining, Running
  <2>2. lock'[s] \in {"free", "none"} /\ pc' # "link" /\ wpc' = wpc
    BY <1>20 DEF DestroyQueues
  <2> QED
    BY <2>1, <2>2
<1>21. CASE CloseMedia
  BY <1>21 DEF CloseMedia, Target
<1>22. CASE ThreadExit
  BY <1>22 DEF ThreadExit, Target
<1>23. CASE \E t \in Streams : GetCheck(t)
  BY <1>23 DEF GetCheck, Target
<1>24. CASE \E t \in Streams : GetLock(t)
  BY <1>24 DEF GetLock, Target, LockFree
<1>25. CASE \E t \in Streams : GetUnlink(t)
  BY <1>25 DEF GetUnlink, Target
<1>26. CASE \E t \in Streams : GetEnded(t)
  BY <1>26 DEF GetEnded, Target
<1>27. CASE \E t \in Streams : Use(t)
  BY <1>27 DEF Use, Target
<1>28. CASE \E t \in Streams : FreePacket(t)
  BY <1>28 DEF FreePacket, Target
<1>29. CASE VideoDecode
  BY <1>29 DEF VideoDecode, Target
<1>30. CASE Stop
  BY <1>30 DEF Stop, Target
<1>31. CASE TogglePause
  BY <1>31 DEF TogglePause, Target
<1>32. CASE UNCHANGED vars
  BY <1>32 DEF vars, Target
<1> QED
  BY <1>1, <1>2, <1>3, <1>4, <1>5, <1>6, <1>7, <1>8, <1>9, <1>10, <1>11,
     <1>12, <1>13, <1>14, <1>15, <1>16, <1>17, <1>18, <1>19, <1>20, <1>21,
     <1>22, <1>23, <1>24, <1>25, <1>26, <1>27, <1>28, <1>29, <1>30, <1>31,
     <1>32
  DEF Next, PlayerStep, WorkerStep, MainStep

\* A queue only shrinks between PutAdmit and PutLink.
LEMMA RoomStep == TypeOK /\ Rooms /\ [Next]_vars => Rooms'
<1> SUFFICES ASSUME TypeOK, Rooms, [Next]_vars, NEW s \in Streams PROVE Room(s)'
  BY DEF Rooms
<1>a. Room(s) /\ bytes \in [Streams -> Int] /\ Outgoing.size \in Nat
  BY PacketFields DEF TypeOK, Rooms, Outgoing

<1> USE <1>a, PipelineAssumption DEF Room, Target, Outgoing, shared, player, queues, workers
<1>1. CASE OpenInput
  BY <1>1 DEF OpenInput
<1>2. CASE OpenVideo
  BY <1>2 DEF OpenVideo
<1>3. CASE OpenAudio
  BY <1>3 DEF OpenAudio
<1>4. CASE InitQueues
  BY <1>4 DEF InitQueues
<1>5. CASE StartVideo
  BY <1>5 DEF StartVideo, StartWorker
<1>6. CASE StartAudio
  BY <1>6 DEF StartAudio, StartWorker
<1>7. CASE Play
  BY <1>7 DEF Play
<1>8. CASE ReadFrame
  BY <1>8 DEF ReadFrame
<1>9. CASE EndOfInput
  BY <1>9 DEF EndOfInput
<1>10. CASE Dispatch
  BY <1>10 DEF Dispatch
<1>11. CASE DecodeAudio
  BY <1>11 DEF DecodeAudio
<1>12. CASE AudioPacketDone
  BY <1>12 DEF AudioPacketDone
<1>13. CASE PutAdmit
  BY <1>13 DEF PutAdmit, HasRoom
<1>14. CASE PutRefused
  BY <1>14 DEF PutRefused
<1>15. CASE PutLock
  BY <1>15 DEF PutLock
<1>16. CASE PutLink
  <2>1. pc' \notin {"lock", "link"}
    BY <1>16 DEF PutLink
  <2>2. bytes' = [bytes EXCEPT ![Target] = bytes[Target] + Outgoing.size]
    BY <1>16 DEF PutLink
  <2>3. pc = "link"
    BY <1>16 DEF PutLink
  <2> QED
    BY <2>1, <2>2, <2>3
<1>17. CASE Finish
  BY <1>17 DEF Finish
<1>18. CASE Fail
  BY <1>18 DEF Fail
<1>19. CASE Join
  BY <1>19 DEF Join
<1>20. CASE DestroyQueues
  BY <1>20 DEF DestroyQueues
<1>21. CASE CloseMedia
  BY <1>21 DEF CloseMedia
<1>22. CASE ThreadExit
  BY <1>22 DEF ThreadExit
<1>23. CASE \E t \in Streams : GetCheck(t)
  BY <1>23 DEF GetCheck
<1>24. CASE \E t \in Streams : GetLock(t)
  BY <1>24 DEF GetLock
<1>25. CASE \E t \in Streams : GetUnlink(t)
  <2> PICK t \in Streams : GetUnlink(t)
    BY <1>25
  <2>1. CASE queue[t] = <<>>
    BY <2>1 DEF GetUnlink
  <2>2. CASE queue[t] # <<>>
    <3>1. Head(queue[t]) \in Packet
      BY <2>2 DEF TypeOK
    <3>2. Discount(t) \in Nat
      BY <3>1, PacketFields DEF Discount
    <3>3. bytes' = [bytes EXCEPT ![t] = bytes[t] - Discount(t)]
      BY <2>2 DEF GetUnlink
    <3>4. bytes'[s] <= bytes[s]
      BY <3>2, <3>3
    <3>5. bytes'[s] \in Int /\ UNCHANGED <<pc, packet, pcm>>
      BY <3>2, <3>3 DEF GetUnlink
    <3> QED
      BY <3>4, <3>5
  <2> QED
    BY <2>1, <2>2
<1>26. CASE \E t \in Streams : GetEnded(t)
  BY <1>26 DEF GetEnded
<1>27. CASE \E t \in Streams : Use(t)
  BY <1>27 DEF Use
<1>28. CASE \E t \in Streams : FreePacket(t)
  BY <1>28 DEF FreePacket
<1>29. CASE VideoDecode
  BY <1>29 DEF VideoDecode
<1>30. CASE Stop
  BY <1>30 DEF Stop
<1>31. CASE TogglePause
  BY <1>31 DEF TogglePause
<1>32. CASE UNCHANGED vars
  BY <1>32 DEF vars
<1> QED
  BY <1>1, <1>2, <1>3, <1>4, <1>5, <1>6, <1>7, <1>8, <1>9, <1>10, <1>11,
     <1>12, <1>13, <1>14, <1>15, <1>16, <1>17, <1>18, <1>19, <1>20, <1>21,
     <1>22, <1>23, <1>24, <1>25, <1>26, <1>27, <1>28, <1>29, <1>30, <1>31,
     <1>32
  DEF Next, PlayerStep, WorkerStep, MainStep

\* An AVPacket is emptied when the thread leaves the places that use it.
LEMMA HoldingStep == TypeOK /\ Lifecycle /\ Holding /\ [Next]_vars => Holding'
<1> SUFFICES ASSUME TypeOK, Lifecycle, Holding, [Next]_vars PROVE Holding'
  OBVIOUS
<1>a. held \in [Streams -> Packet] /\ wpc \in [Streams -> WorkerPC]
  BY DEF TypeOK

<1> USE <1>a, StreamNames DEF Holding, shared, player, queues, workers
<1>1. CASE OpenInput
  BY <1>1 DEF OpenInput
<1>2. CASE OpenVideo
  BY <1>2 DEF OpenVideo
<1>3. CASE OpenAudio
  BY <1>3 DEF OpenAudio
<1>4. CASE InitQueues
  <2>1. pc = "queues" /\ UNCHANGED <<packet, pcm, held, wpc>>
    BY <1>4 DEF InitQueues
  <2> QED
    BY <2>1
<1>5. CASE StartVideo
  <2>1. wpc["video"] = "none"
    BY <1>5 DEF StartVideo, StartWorker, Lifecycle, Life, Before
  <2> QED
    BY <1>5, <2>1 DEF StartVideo, StartWorker
<1>6. CASE StartAudio
  <2>1. wpc["audio"] = "none"
    BY <1>6 DEF StartAudio, StartWorker, Lifecycle, Life, Before
  <2> QED
    BY <1>6, <2>1 DEF StartAudio, StartWorker
<1>7. CASE Play
  BY <1>7 DEF Play
<1>8. CASE ReadFrame
  BY <1>8 DEF ReadFrame
<1>9. CASE EndOfInput
  BY <1>9 DEF EndOfInput
<1>10. CASE Dispatch
  BY <1>10 DEF Dispatch
<1>11. CASE DecodeAudio
  BY <1>11 DEF DecodeAudio
<1>12. CASE AudioPacketDone
  BY <1>12 DEF AudioPacketDone
<1>13. CASE PutAdmit
  BY <1>13 DEF PutAdmit
<1>14. CASE PutRefused
  BY <1>14 DEF PutRefused, Target
<1>15. CASE PutLock
  BY <1>15 DEF PutLock
<1>16. CASE PutLink
  BY <1>16 DEF PutLink, Target, GivenAway
<1>17. CASE Finish
  BY <1>17 DEF Finish
<1>18. CASE Fail
  BY <1>18 DEF Fail
<1>19. CASE Join
  BY <1>19 DEF Join
<1>20. CASE DestroyQueues
  BY <1>20 DEF DestroyQueues
<1>21. CASE CloseMedia
  BY <1>21 DEF CloseMedia
<1>22. CASE ThreadExit
  BY <1>22 DEF ThreadExit
<1>23. CASE \E t \in Streams : GetCheck(t)
  BY <1>23 DEF GetCheck
<1>24. CASE \E t \in Streams : GetLock(t)
  BY <1>24 DEF GetLock
<1>25. CASE \E t \in Streams : GetUnlink(t)
  BY <1>25 DEF GetUnlink
<1>26. CASE \E t \in Streams : GetEnded(t)
  BY <1>26 DEF GetEnded
<1>27. CASE \E t \in Streams : Use(t)
  BY <1>27 DEF Use
<1>28. CASE \E t \in Streams : FreePacket(t)
  BY <1>28 DEF FreePacket
<1>29. CASE VideoDecode
  BY <1>29 DEF VideoDecode
<1>30. CASE Stop
  BY <1>30 DEF Stop
<1>31. CASE TogglePause
  BY <1>31 DEF TogglePause
<1>32. CASE UNCHANGED vars
  BY <1>32 DEF vars
<1> QED
  BY <1>1, <1>2, <1>3, <1>4, <1>5, <1>6, <1>7, <1>8, <1>9, <1>10, <1>11,
     <1>12, <1>13, <1>14, <1>15, <1>16, <1>17, <1>18, <1>19, <1>20, <1>21,
     <1>22, <1>23, <1>24, <1>25, <1>26, <1>27, <1>28, <1>29, <1>30, <1>31,
     <1>32
  DEF Next, PlayerStep, WorkerStep, MainStep

\* Only nine of the actions move payloads.
LEMMA PayloadSteps ==
  [Next]_vars =>
    \/ Still
    \/ ReadFrame \/ Dispatch \/ DecodeAudio \/ AudioPacketDone \/ PutRefused \/ PutLink
    \/ DestroyQueues
    \/ \E t \in Streams : GetUnlink(t)
    \/ \E t \in Streams : FreePacket(t)
<1> SUFFICES ASSUME [Next]_vars,
                    ~(ReadFrame \/ Dispatch \/ DecodeAudio \/ AudioPacketDone \/ PutRefused
                      \/ PutLink \/ DestroyQueues \/ (\E t \in Streams : GetUnlink(t))
                      \/ \E t \in Streams : FreePacket(t))
             PROVE Still
  OBVIOUS
<1> USE DEF Still, InHand, shared, player, queues, workers
<1>1. CASE OpenInput
  BY <1>1 DEF OpenInput
<1>2. CASE OpenVideo
  BY <1>2 DEF OpenVideo
<1>3. CASE OpenAudio
  BY <1>3 DEF OpenAudio
<1>4. CASE InitQueues
  BY <1>4 DEF InitQueues
<1>5. CASE StartVideo
  BY <1>5 DEF StartVideo, StartWorker
<1>6. CASE StartAudio
  BY <1>6 DEF StartAudio, StartWorker
<1>7. CASE Play
  BY <1>7 DEF Play
<1>8. CASE ReadFrame
  BY <1>8
<1>9. CASE EndOfInput
  BY <1>9 DEF EndOfInput
<1>10. CASE Dispatch
  BY <1>10
<1>11. CASE DecodeAudio
  BY <1>11
<1>12. CASE AudioPacketDone
  BY <1>12
<1>13. CASE PutAdmit
  BY <1>13 DEF PutAdmit
<1>14. CASE PutRefused
  BY <1>14
<1>15. CASE PutLock
  BY <1>15 DEF PutLock
<1>16. CASE PutLink
  BY <1>16
<1>17. CASE Finish
  BY <1>17 DEF Finish
<1>18. CASE Fail
  BY <1>18 DEF Fail
<1>19. CASE Join
  BY <1>19 DEF Join
<1>20. CASE DestroyQueues
  BY <1>20
<1>21. CASE CloseMedia
  BY <1>21 DEF CloseMedia
<1>22. CASE ThreadExit
  BY <1>22 DEF ThreadExit
<1>23. CASE \E t \in Streams : GetCheck(t)
  BY <1>23 DEF GetCheck
<1>24. CASE \E t \in Streams : GetLock(t)
  BY <1>24 DEF GetLock
<1>25. CASE \E t \in Streams : GetUnlink(t)
  BY <1>25
<1>26. CASE \E t \in Streams : GetEnded(t)
  BY <1>26 DEF GetEnded
<1>27. CASE \E t \in Streams : Use(t)
  BY <1>27 DEF Use
<1>28. CASE \E t \in Streams : FreePacket(t)
  BY <1>28
<1>29. CASE VideoDecode
  BY <1>29 DEF VideoDecode
<1>30. CASE Stop
  BY <1>30 DEF Stop
<1>31. CASE TogglePause
  BY <1>31 DEF TogglePause
<1>32. CASE UNCHANGED vars
  BY <1>32 DEF vars
<1> QED
  BY <1>1, <1>2, <1>3, <1>4, <1>5, <1>6, <1>7, <1>8, <1>9, <1>10, <1>11,
     <1>12, <1>13, <1>14, <1>15, <1>16, <1>17, <1>18, <1>19, <1>20, <1>21,
     <1>22, <1>23, <1>24, <1>25, <1>26, <1>27, <1>28, <1>29, <1>30, <1>31,
     <1>32
  DEF Next, PlayerStep, WorkerStep, MainStep

\* Ids grow, and the packet in hand is the newest.
LEMMA FreshStep == TypeOK /\ Holding /\ Fresh /\ [Next]_vars => Fresh'
<1> SUFFICES ASSUME TypeOK, Holding, Fresh, [Next]_vars PROVE Fresh'
  OBVIOUS
<1>a. /\ queue \in [Streams -> Seq(Packet)] /\ held \in [Streams -> Packet]
      /\ packet \in Packet /\ pcm \in Packet /\ nextid \in Nat
      /\ \A s \in Streams : \A i \in DOMAIN queue[s] : queue[s][i].id \in Nat
      /\ \A s \in Streams : held[s].id \in Nat
  BY PacketFields DEF TypeOK
<1>b. UNCHANGED <<packet, pcm, held, queue, nextid>> /\ (InHand' => InHand) => Fresh'
  BY DEF Fresh, Past, Outgoing

<1> USE <1>a DEF shared, player, queues, workers
<1>1. CASE Still
  BY <1>1, <1>b DEF Still
<1>2. CASE ReadFrame
  <2>1. /\ packet' = [id |-> nextid + 1, size |-> packet'.size, stream |-> packet'.stream]
        /\ nextid' = nextid + 1 /\ UNCHANGED <<pcm, held, queue>>
    BY <1>2 DEF ReadFrame
  <2>2. pcm = NoPacket
    BY <1>2 DEF ReadFrame, Holding
  <2> QED
    BY <2>1, <2>2 DEF Fresh, Past, Outgoing
<1>3. CASE Dispatch
  <2>1. /\ InHand' => pc = "got" /\ packet' = packet
        /\ UNCHANGED <<pcm, held, queue, nextid>>
    BY <1>3, StreamNames DEF Dispatch, InHand
  <2> QED
    BY <2>1 DEF Fresh, Past, InHand, Outgoing
<1>4. CASE DecodeAudio
  <2>1. /\ pcm'.id = nextid + 1
        /\ nextid' = nextid + 1 /\ UNCHANGED <<held, queue>>
    BY <1>4 DEF DecodeAudio
  <2> QED
    BY <2>1, NoPacketType DEF Fresh, Past, Outgoing
<1>5. CASE AudioPacketDone
  <2>1. ~InHand' /\ UNCHANGED <<held, queue, nextid>>
    BY <1>5 DEF AudioPacketDone, InHand
  <2> QED
    BY <2>1 DEF Fresh, Past
<1>6. CASE PutRefused
  <2>1. ~InHand' /\ UNCHANGED <<held, queue, nextid>>
    BY <1>6 DEF PutRefused, InHand
  <2> QED
    BY <2>1 DEF Fresh, Past
<1>7. CASE PutLink
  <2> DEFINE q == queue[Target]
  <2>1. Target \in Streams /\ q \in Seq(Packet) /\ Outgoing \in Packet
    BY StreamNames DEF Target, Outgoing
  <2>2. /\ queue' = [queue EXCEPT ![Target] = Append(q, Outgoing)]
        /\ UNCHANGED <<held, nextid>>
    BY <1>7 DEF PutLink, Enqueued
  <2>3. InHand /\ ~InHand'
    BY <1>7 DEF PutLink, InHand
  <2>4. \A i \in DOMAIN Append(q, Outgoing) :
          (i \in DOMAIN q /\ Append(q, Outgoing)[i] = q[i]) \/ Append(q, Outgoing)[i] = Outgoing
    BY <2>1, Appending
  <2> QED
    BY <2>1, <2>2, <2>3, <2>4 DEF Fresh, Past
<1>8. CASE DestroyQueues
  <2>1. queue' = [s \in Streams |-> <<>>] /\ UNCHANGED <<nextid, held>> /\ ~InHand'
    BY <1>8 DEF DestroyQueues, InHand
  <2> QED
    BY <2>1 DEF Fresh, Past
<1>9. CASE \E t \in Streams : GetUnlink(t)
  <2> PICK t \in Streams : GetUnlink(t)
    BY <1>9
  <2>1. CASE queue[t] = <<>>
    BY <1>b, <2>1 DEF GetUnlink, InHand
  <2>2. CASE queue[t] # <<>>
    <3>1. /\ queue' = [queue EXCEPT ![t] = Tail(queue[t])]
          /\ held' = [held EXCEPT ![t] = Head(queue[t])]
          /\ UNCHANGED <<pc, packet, pcm, nextid>>
      BY <2>2 DEF GetUnlink
    <3>2. /\ Head(queue[t]) = queue[t][1] /\ 1 \in DOMAIN queue[t]
          /\ \A i \in DOMAIN Tail(queue[t]) :
               i \in Nat /\ i + 1 \in DOMAIN queue[t] /\ Tail(queue[t])[i] = queue[t][i + 1]
      BY <2>2, HeadAndTail
    <3> QED
      BY <3>1, <3>2 DEF Fresh, Past, InHand, Outgoing
  <2> QED
    BY <2>1, <2>2
<1>10. CASE \E t \in Streams : FreePacket(t)
  <2> PICK t \in Streams : FreePacket(t)
    BY <1>10
  <2>1. held' = [held EXCEPT ![t] = NoPacket] /\ UNCHANGED <<pc, packet, pcm, queue, nextid>>
    BY DEF FreePacket
  <2> QED
    BY <2>1, NoPacketType DEF Fresh, Past, InHand, Outgoing
<1> QED
  BY PayloadSteps, <1>1, <1>2, <1>3, <1>4, <1>5, <1>6, <1>7, <1>8, <1>9, <1>10

\* packet_queue_put appends the newest packet; packet_queue_get takes the oldest.
LEMMA OrderedStep == TypeOK /\ Fresh /\ (\A s \in Streams : Ordered(s)) /\ [Next]_vars
         => \A s \in Streams : Ordered(s)'
<1> SUFFICES ASSUME TypeOK, Fresh, \A t \in Streams : Ordered(t), [Next]_vars, NEW s \in Streams
             PROVE Ordered(s)'
  OBVIOUS
<1>a. /\ queue \in [Streams -> Seq(Packet)] /\ held \in [Streams -> Packet]
      /\ Ordered(s)
  BY DEF TypeOK
<1>b. queue'[s] = queue[s] /\ held'[s] = held[s] => Ordered(s)'
  BY <1>a DEF Ordered

<1> USE <1>a DEF shared, player, queues, workers
<1>1. CASE Still
  BY <1>1, <1>b DEF Still
<1>2. CASE ReadFrame
  BY <1>2, <1>b DEF ReadFrame
<1>3. CASE Dispatch
  BY <1>3, <1>b DEF Dispatch
<1>4. CASE DecodeAudio
  BY <1>4, <1>b DEF DecodeAudio
<1>5. CASE AudioPacketDone
  BY <1>5, <1>b DEF AudioPacketDone
<1>6. CASE PutRefused
  BY <1>6, <1>b DEF PutRefused
<1>7. CASE PutLink
  <2>1. CASE s # Target
    <3>1. queue'[s] = queue[s] /\ held'[s] = held[s]
      BY <1>7, <2>1 DEF PutLink
    <3> QED
      BY <1>b, <3>1
  <2>2. CASE s = Target
    <3> DEFINE q == queue[s]
    <3>1. q \in Seq(Packet) /\ Outgoing \in Packet
      BY DEF Outgoing, TypeOK
    <3>2. queue'[s] = Append(q, Outgoing) /\ held'[s] = held[s]
      BY <1>7, <2>2 DEF PutLink, Enqueued
    <3>3. held[s].id < Outgoing.id /\ \A i \in DOMAIN q : q[i].id < Outgoing.id
      BY <1>7 DEF PutLink, Fresh, Past, InHand
    <3>4. \A i \in DOMAIN Append(q, Outgoing) :
           \/ i \in DOMAIN q /\ Append(q, Outgoing)[i] = q[i]
           \/ i = Len(q) + 1 /\ Append(q, Outgoing)[i] = Outgoing /\ \A j \in DOMAIN q : j < i
      BY <3>1, Appending
    <3>5. \A i \in DOMAIN q : i \in Nat /\ ~(Len(q) + 1 < i)
      BY <3>1
    <3>6. Len(q) + 1 \in Nat /\ ~(Len(q) + 1 < Len(q) + 1)
      BY <3>1
    <3> QED
      BY <3>2, <3>3, <3>4, <3>5, <3>6 DEF Ordered
  <2> QED
    BY <2>1, <2>2
<1>8. CASE DestroyQueues
  <2>1. queue'[s] = <<>>
    BY <1>8 DEF DestroyQueues
  <2> QED
    BY <2>1 DEF Ordered
<1>9. CASE \E t \in Streams : GetUnlink(t)
  <2> PICK t \in Streams : GetUnlink(t)
    BY <1>9
  <2>1. CASE queue[t] = <<>> \/ s # t
    <3>1. queue'[s] = queue[s] /\ held'[s] = held[s]
      BY <2>1 DEF GetUnlink
    <3> QED
      BY <1>b, <3>1
  <2>2. CASE queue[t] # <<>> /\ s = t
    <3>1. queue'[s] = Tail(queue[s]) /\ held'[s] = Head(queue[s])
      BY <2>2 DEF GetUnlink
    <3>2. /\ Head(queue[s]) = queue[s][1] /\ 1 \in DOMAIN queue[s]
          /\ \A i \in DOMAIN Tail(queue[s]) :
               i \in Nat \ {0} /\ i + 1 \in DOMAIN queue[s] /\ Tail(queue[s])[i] = queue[s][i + 1]
      BY <2>2, HeadAndTail
    <3> QED
      BY <3>1, <3>2 DEF Ordered
  <2> QED
    BY <2>1, <2>2
<1>10. CASE \E t \in Streams : FreePacket(t)
  <2>1. queue'[s] = queue[s] /\ held'[s] \in {held[s], NoPacket}
    BY <1>10 DEF FreePacket
  <2>2. \A i \in DOMAIN queue[s] : 0 < queue[s][i].id
    BY DEF Fresh
  <2> QED
    BY <2>1, <2>2, NoPacketType DEF Ordered
<1> QED
  BY PayloadSteps, <1>1, <1>2, <1>3, <1>4, <1>5, <1>6, <1>7, <1>8, <1>9, <1>10

\* No payload is dropped without being freed.
LEMMA NoOrphanStep ==
  TypeOK /\ Holding /\ NoOrphan /\ [Next]_vars => NoOrphan'
<1> SUFFICES ASSUME TypeOK, Holding, NoOrphan, [Next]_vars PROVE NoOrphan'
  OBVIOUS
<1>a. /\ queue \in [Streams -> Seq(Packet)] /\ held \in [Streams -> Packet]
      /\ packet \in Packet /\ pcm \in Packet /\ nextid \in Nat
  BY DEF TypeOK
<1>b. UNCHANGED <<alive, packet, pcm, held, queue>> => NoOrphan'
  BY DEF NoOrphan, HasOwner

<1> USE <1>a DEF av_free_packet, shared, player, queues, workers
<1>1. CASE Still
  BY <1>1, <1>b DEF Still
<1>2. CASE ReadFrame
  <2>1. packet.id = 0 /\ packet'.id = nextid + 1 /\ nextid + 1 # 0
    BY <1>2, NoPacketType DEF ReadFrame, Holding
  <2>2. alive' = alive \union {nextid + 1} /\ UNCHANGED <<pcm, held, queue>>
    BY <1>2 DEF ReadFrame
  <2> QED
    BY <2>1, <2>2 DEF NoOrphan, HasOwner
<1>3. CASE Dispatch
  <2>1. \/ UNCHANGED <<packet, alive>>
        \/ alive' = alive \ {packet.id}
    BY <1>3 DEF Dispatch
  <2>2. UNCHANGED <<pcm, held, queue>>
    BY <1>3 DEF Dispatch
  <2> QED
    BY <2>1, <2>2 DEF NoOrphan, HasOwner
<1>4. CASE DecodeAudio
  <2>1. pcm.id = 0 /\ pcm'.id = nextid + 1 /\ nextid + 1 # 0
    BY <1>4, NoPacketType DEF DecodeAudio, Holding
  <2>2. alive' = alive \union {nextid + 1} /\ UNCHANGED <<packet, held, queue>>
    BY <1>4 DEF DecodeAudio
  <2> QED
    BY <2>1, <2>2 DEF NoOrphan, HasOwner
<1>5. CASE AudioPacketDone
  <2>1. alive' = alive \ {packet.id} /\ UNCHANGED <<pcm, held, queue>>
    BY <1>5 DEF AudioPacketDone
  <2> QED
    BY <2>1 DEF NoOrphan, HasOwner
<1>6. CASE PutRefused
  <2>1. CASE Target = "video"
    <3>1. alive' = alive \ {packet.id} /\ UNCHANGED <<pcm, held, queue>>
      BY <1>6, <2>1 DEF PutRefused, Target, Outgoing
    <3> QED
      BY <3>1 DEF NoOrphan, HasOwner
  <2>2. CASE Target # "video"
    <3>1. alive' = alive \ {pcm.id} /\ UNCHANGED <<packet, held, queue>>
      BY <1>6, <2>2 DEF PutRefused, Target, Outgoing
    <3> QED
      BY <3>1 DEF NoOrphan, HasOwner
  <2> QED
    BY <2>1, <2>2
<1>7. CASE PutLink
  <2> DEFINE q == queue[Target]
  <2>1. Target \in Streams /\ q \in Seq(Packet) /\ Outgoing \in Packet
    BY StreamNames DEF Target, Outgoing
  <2>2. /\ queue' = [queue EXCEPT ![Target] = Append(q, Outgoing)]
        /\ UNCHANGED <<alive, held>>
    BY <1>7 DEF PutLink, Enqueued
  <2>3. /\ packet' = packet \/ Outgoing = packet
        /\ pcm' = pcm \/ Outgoing = pcm
    BY <1>7 DEF PutLink, Target, Outgoing
  <2>4. ASSUME NEW id \in alive PROVE HasOwner(id)'
    <3>1. HasOwner(id)
      BY DEF NoOrphan
    <3>2. CASE id = Outgoing.id
      <4>1. /\ Len(q) + 1 \in DOMAIN Append(q, Outgoing)
            /\ Append(q, Outgoing)[Len(q) + 1] = Outgoing
        BY <2>1
      <4> QED
        BY <3>2, <4>1, <2>1, <2>2 DEF HasOwner
    <3>3. CASE \E s \in Streams : \E i \in DOMAIN queue[s] : id = queue[s][i].id
      <4> PICK s \in Streams : \E i \in DOMAIN queue[s] : id = queue[s][i].id
        BY <3>3
      <4> PICK i \in DOMAIN queue[s] : id = queue[s][i].id
        OBVIOUS
      <4>1. s = Target => i \in DOMAIN Append(q, Outgoing) /\ Append(q, Outgoing)[i] = q[i]
        BY <2>1
      <4>2. i \in DOMAIN queue'[s] /\ queue'[s][i] = queue[s][i]
        BY <2>1, <2>2, <4>1
      <4> QED
        BY <4>2 DEF HasOwner
    <3> QED
      BY <3>1, <3>2, <3>3, <2>2, <2>3 DEF HasOwner
  <2> QED
    BY <2>2, <2>4 DEF NoOrphan
<1>8. CASE DestroyQueues
  <2>1. /\ alive' = alive \ UNION {{queue[s][i].id : i \in DOMAIN queue[s]} : s \in Streams}
        /\ UNCHANGED <<packet, pcm, held>>
    BY <1>8 DEF DestroyQueues
  <2>2. \A id \in alive' : id = packet.id \/ id = pcm.id \/ \E s \in Streams : id = held[s].id
    BY <2>1 DEF NoOrphan, HasOwner
  <2> QED
    BY <2>1, <2>2 DEF NoOrphan, HasOwner
<1>9. CASE \E t \in Streams : GetUnlink(t)
  <2> PICK t \in Streams : GetUnlink(t)
    BY <1>9
  <2>1. CASE queue[t] = <<>>
    BY <1>b, <2>1 DEF GetUnlink
  <2>2. CASE queue[t] # <<>>
    <3>1. /\ queue' = [queue EXCEPT ![t] = Tail(queue[t])]
          /\ held' = [held EXCEPT ![t] = Head(queue[t])]
          /\ UNCHANGED <<alive, pc, packet, pcm>>
      BY <2>2 DEF GetUnlink
    <3>2. held[t].id = 0
      BY NoPacketType DEF GetUnlink, Holding
    <3>3. ASSUME NEW id \in alive PROVE HasOwner(id)'
      <4>1. HasOwner(id) /\ id # 0
        BY <3>3 DEF NoOrphan
      <4>2. CASE id = packet.id \/ id = pcm.id
        BY <4>2, <3>1 DEF HasOwner
      <4>3. CASE \E s \in Streams : id = held[s].id
        BY <4>1, <4>3, <3>1, <3>2 DEF HasOwner
      <4>4. CASE \E s \in Streams : \E i \in DOMAIN queue[s] : id = queue[s][i].id
        <5> PICK s \in Streams : \E i \in DOMAIN queue[s] : id = queue[s][i].id
          BY <4>4
        <5> PICK i \in DOMAIN queue[s] : id = queue[s][i].id
          OBVIOUS
        <5>1. CASE s # t
          BY <5>1, <3>1 DEF HasOwner
        <5>2. CASE s = t /\ i = 1
          BY <5>2, <3>1, <2>2 DEF HasOwner
        <5>3. CASE s = t /\ i # 1
          <6>1. queue[t] \in Seq(Packet) /\ i \in 2..Len(queue[t])
            BY <5>3
          <6>2. i - 1 \in DOMAIN Tail(queue[t]) /\ Tail(queue[t])[i - 1] = queue[t][i]
            BY <6>1
          <6> QED
            BY <6>2, <5>3, <3>1 DEF HasOwner
        <5> QED
          BY <5>1, <5>2, <5>3
      <4> QED
        BY <4>1, <4>2, <4>3, <4>4 DEF HasOwner
    <3> QED
      BY <3>1, <3>3 DEF NoOrphan
  <2> QED
    BY <2>1, <2>2
<1>10. CASE \E t \in Streams : FreePacket(t)
  <2> PICK t \in Streams : FreePacket(t)
    BY <1>10
  <2>1. /\ alive' = alive \ {held[t].id}
        /\ held' = [held EXCEPT ![t] = NoPacket]
        /\ UNCHANGED <<packet, pcm, queue>>
    BY DEF FreePacket
  <2> QED
    BY <2>1 DEF NoOrphan, HasOwner
<1> QED
  BY PayloadSteps, <1>1, <1>2, <1>3, <1>4, <1>5, <1>6, <1>7, <1>8, <1>9, <1>10

\* packet_queue_destroy, after both workers were joined, frees the last payloads.
LEMMA EmptiedStep ==
  TypeOK /\ Lifecycle /\ Holding /\ NoOrphan /\ Emptied /\ [Next]_vars => Emptied'
<1> SUFFICES ASSUME TypeOK, Lifecycle, Holding, NoOrphan, Emptied, [Next]_vars PROVE Emptied'
  OBVIOUS

<1> USE DEF Emptied, av_free_packet, shared, player, queues, workers
<1>1. CASE OpenInput
  BY <1>1 DEF OpenInput
<1>2. CASE OpenVideo
  BY <1>2 DEF OpenVideo
<1>3. CASE OpenAudio
  BY <1>3 DEF OpenAudio
<1>4. CASE InitQueues
  BY <1>4 DEF InitQueues
<1>5. CASE StartVideo
  BY <1>5 DEF StartVideo, StartWorker
<1>6. CASE StartAudio
  BY <1>6 DEF StartAudio, StartWorker
<1>7. CASE Play
  BY <1>7 DEF Play
<1>8. CASE ReadFrame
  BY <1>8 DEF ReadFrame
<1>9. CASE EndOfInput
  BY <1>9 DEF EndOfInput
<1>10. CASE Dispatch
  BY <1>10 DEF Dispatch
<1>11. CASE DecodeAudio
  BY <1>11 DEF DecodeAudio
<1>12. CASE AudioPacketDone
  BY <1>12 DEF AudioPacketDone
<1>13. CASE PutAdmit
  BY <1>13 DEF PutAdmit
<1>14. CASE PutRefused
  BY <1>14 DEF PutRefused
<1>15. CASE PutLock
  BY <1>15 DEF PutLock
<1>16. CASE PutLink
  BY <1>16 DEF PutLink
<1>17. CASE Finish
  BY <1>17 DEF Finish
<1>18. CASE Fail
  BY <1>18 DEF Fail
<1>19. CASE Join
  BY <1>19 DEF Join
<1>20. CASE DestroyQueues
  <2>1. alive' = alive \ UNION {{queue[s][i].id : i \in DOMAIN queue[s]} : s \in Streams}
    BY <1>20 DEF DestroyQueues
  <2>2. packet.id = 0 /\ pcm.id = 0
    BY <1>20, NoPacketType DEF DestroyQueues, Holding
  <2>3. \A s \in Streams : held[s].id = 0
    BY <1>20, NoPacketType
       DEF DestroyQueues, Holding, Lifecycle, Life, Joining, Running
  <2>4. alive' = {}
    BY <2>1, <2>2, <2>3 DEF NoOrphan, HasOwner
  <2> QED
    BY <2>4
<1>21. CASE CloseMedia
  BY <1>21 DEF CloseMedia
<1>22. CASE ThreadExit
  BY <1>22 DEF ThreadExit
<1>23. CASE \E t \in Streams : GetCheck(t)
  BY <1>23 DEF GetCheck
<1>24. CASE \E t \in Streams : GetLock(t)
  BY <1>24 DEF GetLock
<1>25. CASE \E t \in Streams : GetUnlink(t)
  BY <1>25 DEF GetUnlink
<1>26. CASE \E t \in Streams : GetEnded(t)
  BY <1>26 DEF GetEnded
<1>27. CASE \E t \in Streams : Use(t)
  BY <1>27 DEF Use
<1>28. CASE \E t \in Streams : FreePacket(t)
  BY <1>28 DEF FreePacket
<1>29. CASE VideoDecode
  BY <1>29 DEF VideoDecode
<1>30. CASE Stop
  BY <1>30 DEF Stop
<1>31. CASE TogglePause
  BY <1>31 DEF TogglePause
<1>32. CASE UNCHANGED vars
  BY <1>32 DEF vars
<1> QED
  BY <1>1, <1>2, <1>3, <1>4, <1>5, <1>6, <1>7, <1>8, <1>9, <1>10, <1>11,
     <1>12, <1>13, <1>14, <1>15, <1>16, <1>17, <1>18, <1>19, <1>20, <1>21,
     <1>22, <1>23, <1>24, <1>25, <1>26, <1>27, <1>28, <1>29, <1>30, <1>31,
     <1>32
  DEF Next, PlayerStep, WorkerStep, MainStep

\* No place keeps a payload that was freed.
LEMMA LiveStep ==
  TypeOK /\ Holding /\ NoOrphan /\ Fresh /\ (\A s \in Streams : Ordered(s)) /\ Apart /\ Live
      /\ [Next]_vars => Live'
<1> SUFFICES ASSUME TypeOK, Holding, NoOrphan, Fresh, \A s \in Streams : Ordered(s),
                    Apart, Live, [Next]_vars
             PROVE Live'
  OBVIOUS
<1>a. /\ queue \in [Streams -> Seq(Packet)] /\ held \in [Streams -> Packet]
      /\ packet \in Packet /\ pcm \in Packet /\ nextid \in Nat /\ alive \in SUBSET Nat
  BY DEF TypeOK
<1>b. UNCHANGED <<alive, packet, pcm, held, queue, nextid>> => Live'
  BY DEF Live
<1>c. \A s \in Streams : held[s].id \in Nat /\ \A i \in DOMAIN queue[s] : queue[s][i].id \in Nat
  BY <1>a, PacketFields

<1> USE <1>a DEF av_free_packet, shared, player, queues, workers
<1>1. CASE Still
  BY <1>1, <1>b DEF Still
<1>2. CASE ReadFrame
  <2>1. packet.id = 0 /\ packet'.id = nextid + 1 /\ nextid' = nextid + 1
    BY <1>2, NoPacketType DEF ReadFrame, Holding
  <2>2. alive' = alive \union {nextid + 1} /\ UNCHANGED <<pcm, held, queue>>
    BY <1>2 DEF ReadFrame
  <2> QED
    BY <2>1, <2>2 DEF Live, Apart, NoOrphan, Ordered, Fresh
<1>3. CASE Dispatch
  <2>1. \/ UNCHANGED <<packet, alive>>
        \/ alive' = alive \ {packet.id} /\ packet' = NoPacket
    BY <1>3 DEF Dispatch
  <2>2. UNCHANGED <<pcm, held, queue, nextid>>
    BY <1>3 DEF Dispatch
  <2> QED
    BY <2>1, <2>2, NoPacketType DEF Live, Apart, NoOrphan, Ordered, Fresh
<1>4. CASE DecodeAudio
  <2>1. pcm.id = 0 /\ pcm'.id = nextid + 1 /\ nextid' = nextid + 1
    BY <1>4, NoPacketType DEF DecodeAudio, Holding
  <2>2. alive' = alive \union {nextid + 1} /\ UNCHANGED <<packet, held, queue>>
    BY <1>4 DEF DecodeAudio
  <2> QED
    BY <2>1, <2>2 DEF Live, Apart, NoOrphan, Ordered, Fresh
<1>5. CASE AudioPacketDone
  <2>1. /\ alive' = alive \ {packet.id} /\ packet' = NoPacket
        /\ UNCHANGED <<pcm, held, queue, nextid>>
    BY <1>5 DEF AudioPacketDone
  <2> QED
    BY <2>1, NoPacketType DEF Live, Apart, NoOrphan, Ordered, Fresh
<1>6. CASE PutRefused
  <2>1. \/ alive' = alive \ {packet.id} /\ packet' = NoPacket /\ pcm' = pcm
        \/ alive' = alive \ {pcm.id} /\ pcm' = NoPacket /\ packet' = packet
    BY <1>6 DEF PutRefused, Target, Outgoing
  <2>2. UNCHANGED <<held, queue, nextid>>
    BY <1>6 DEF PutRefused
  <2> QED
    BY <2>1, <2>2, NoPacketType DEF Live, Apart, NoOrphan, Ordered, Fresh
<1>7. CASE PutLink
  <2> DEFINE q == queue[Target]
  <2>1. Target \in Streams /\ q \in Seq(Packet) /\ Outgoing \in Packet
    BY StreamNames DEF Target, Outgoing
  <2>2. /\ queue' = [queue EXCEPT ![Target] = Append(q, Outgoing)]
        /\ UNCHANGED <<alive, held, nextid>>
    BY <1>7 DEF PutLink, Enqueued
  <2>3. \/ Outgoing = packet /\ packet' = NoPacket /\ pcm' = pcm
        \/ Outgoing = pcm /\ pcm' = NoPacket /\ packet' = packet
    BY <1>7 DEF PutLink, Target, Outgoing, GivenAway
  <2>4. \A i \in DOMAIN Append(q, Outgoing) :
          (i \in DOMAIN q /\ Append(q, Outgoing)[i] = q[i]) \/ Append(q, Outgoing)[i] = Outgoing
    BY <2>1, Appending
  <2>5. InHand
    BY <1>7 DEF PutLink, InHand
  <2>6. Outgoing.id # 0
    BY <2>5 DEF Fresh
  <2> QED
    BY <2>1, <2>2, <2>3, <2>4, <2>6, NoPacketType
       DEF Live, Apart, NoOrphan, Ordered, Fresh
<1>8. CASE DestroyQueues
  <2>1. /\ alive' = alive \ UNION {{queue[s][i].id : i \in DOMAIN queue[s]} : s \in Streams}
        /\ queue' = [s \in Streams |-> <<>>]
        /\ UNCHANGED <<packet, pcm, held, nextid>>
    BY <1>8 DEF DestroyQueues
  <2>2. ASSUME NEW id \in alive,
               \A s \in Streams : \A i \in DOMAIN queue[s] : queue[s][i].id # id
        PROVE  id \in alive'
    BY <2>1, <2>2
  <2>3. packet.id \in alive' \union {0} /\ pcm.id \in alive' \union {0}
    BY <2>2 DEF Live, Apart
  <2>4. ASSUME NEW s \in Streams, held[s].id # 0 PROVE held[s].id \in alive'
    <3>1. \A i \in DOMAIN queue[s] : queue[s][i].id # held[s].id
      BY <1>c DEF Ordered
    <3>2. \A t \in Streams : t # s => \A i \in DOMAIN queue[t] : queue[t][i].id # held[s].id
      BY DEF Apart
    <3> QED
      BY <2>4, <3>1, <3>2, <2>2 DEF Live
  <2> QED
    BY <2>1, <2>3, <2>4 DEF Live
<1>9. CASE \E t \in Streams : GetUnlink(t)
  <2> PICK u \in Streams : GetUnlink(u)
    BY <1>9
  <2>1. CASE queue[u] = <<>>
    BY <1>b, <2>1 DEF GetUnlink
  <2>2. CASE queue[u] # <<>>
    <3>1. /\ queue' = [queue EXCEPT ![u] = Tail(queue[u])]
          /\ held' = [held EXCEPT ![u] = Head(queue[u])]
          /\ UNCHANGED <<alive, packet, pcm, nextid>>
      BY <2>2 DEF GetUnlink
    <3>2. /\ Head(queue[u]) = queue[u][1] /\ 1 \in DOMAIN queue[u]
          /\ \A i \in DOMAIN Tail(queue[u]) :
               i \in Nat /\ i + 1 \in DOMAIN queue[u] /\ Tail(queue[u])[i] = queue[u][i + 1]
      BY <2>2, HeadAndTail
    <3> QED
      BY <3>1, <3>2 DEF Live, Apart, NoOrphan, Ordered, Fresh
  <2> QED
    BY <2>1, <2>2
<1>10. CASE \E t \in Streams : FreePacket(t)
  <2> PICK u \in Streams : FreePacket(u)
    BY <1>10
  <2>1. /\ alive' = alive \ {held[u].id}
        /\ held' = [held EXCEPT ![u] = NoPacket]
        /\ UNCHANGED <<packet, pcm, queue, nextid>>
    BY DEF FreePacket
  <2>2. \A s \in Streams : \A i \in DOMAIN queue[s] : queue[s][i].id # held[u].id
    <3>1. \A i \in DOMAIN queue[u] : queue[u][i].id # held[u].id
      BY <1>c DEF Ordered
    <3> QED
      BY <3>1 DEF Apart
  <2> QED
    BY <2>1, <2>2, NoPacketType DEF Live, Apart
<1> QED
  BY PayloadSteps, <1>1, <1>2, <1>3, <1>4, <1>5, <1>6, <1>7, <1>8, <1>9, <1>10

\* A payload is moved, never shared.
LEMMA ApartStep == TypeOK /\ Holding /\ Fresh /\ (\A s \in Streams : Ordered(s)) /\ Live /\ Apart
      /\ [Next]_vars => Apart'
<1> SUFFICES ASSUME TypeOK, Holding, Fresh, \A s \in Streams : Ordered(s), Live,
                    Apart, [Next]_vars
             PROVE Apart'
  OBVIOUS
<1>a. /\ queue \in [Streams -> Seq(Packet)] /\ held \in [Streams -> Packet]
      /\ packet \in Packet /\ pcm \in Packet /\ nextid \in Nat /\ alive \in SUBSET Nat
  BY DEF TypeOK
<1>b. UNCHANGED <<packet, pcm, held, queue>> => Apart'
  BY DEF Apart

<1> USE <1>a DEF av_free_packet, shared, player, queues, workers
<1>1. CASE Still
  BY <1>1, <1>b DEF Still
<1>2. CASE ReadFrame
  <2>1. packet.id = 0 /\ packet'.id = nextid + 1 /\ nextid' = nextid + 1
    BY <1>2, NoPacketType DEF ReadFrame, Holding
  <2>2. alive' = alive \union {nextid + 1} /\ UNCHANGED <<pcm, held, queue>>
    BY <1>2 DEF ReadFrame
  <2> QED
    BY <2>1, <2>2 DEF Live, Apart, Fresh
<1>3. CASE Dispatch
  <2>1. \/ UNCHANGED <<packet, alive>>
        \/ alive' = alive \ {packet.id} /\ packet' = NoPacket
    BY <1>3 DEF Dispatch
  <2>2. UNCHANGED <<pcm, held, queue, nextid>>
    BY <1>3 DEF Dispatch
  <2> QED
    BY <2>1, <2>2, NoPacketType DEF Live, Apart, Fresh
<1>4. CASE DecodeAudio
  <2>1. pcm.id = 0 /\ pcm'.id = nextid + 1 /\ nextid' = nextid + 1
    BY <1>4, NoPacketType DEF DecodeAudio, Holding
  <2>2. alive' = alive \union {nextid + 1} /\ UNCHANGED <<packet, held, queue>>
    BY <1>4 DEF DecodeAudio
  <2> QED
    BY <2>1, <2>2 DEF Live, Apart, Fresh
<1>5. CASE AudioPacketDone
  <2>1. /\ alive' = alive \ {packet.id} /\ packet' = NoPacket
        /\ UNCHANGED <<pcm, held, queue, nextid>>
    BY <1>5 DEF AudioPacketDone
  <2> QED
    BY <2>1, NoPacketType DEF Live, Apart, Fresh
<1>6. CASE PutRefused
  <2>1. \/ alive' = alive \ {packet.id} /\ packet' = NoPacket /\ pcm' = pcm
        \/ alive' = alive \ {pcm.id} /\ pcm' = NoPacket /\ packet' = packet
    BY <1>6 DEF PutRefused, Target, Outgoing
  <2>2. UNCHANGED <<held, queue, nextid>>
    BY <1>6 DEF PutRefused
  <2> QED
    BY <2>1, <2>2, NoPacketType DEF Live, Apart, Fresh
<1>7. CASE PutLink
  <2> DEFINE q == queue[Target]
  <2>1. Target \in Streams /\ q \in Seq(Packet) /\ Outgoing \in Packet
    BY StreamNames DEF Target, Outgoing
  <2>2. /\ queue' = [queue EXCEPT ![Target] = Append(q, Outgoing)]
        /\ UNCHANGED <<alive, held, nextid>>
    BY <1>7 DEF PutLink, Enqueued
  <2>3. \/ Outgoing = packet /\ packet' = NoPacket /\ pcm' = pcm
        \/ Outgoing = pcm /\ pcm' = NoPacket /\ packet' = packet
    BY <1>7 DEF PutLink, Target, Outgoing, GivenAway
  <2>4. \A i \in DOMAIN Append(q, Outgoing) :
          (i \in DOMAIN q /\ Append(q, Outgoing)[i] = q[i]) \/ Append(q, Outgoing)[i] = Outgoing
    BY <2>1, Appending
  <2>5. InHand
    BY <1>7 DEF PutLink, InHand
  <2>6. Outgoing.id # 0
    BY <2>5 DEF Fresh
  <2> QED
    BY <2>1, <2>2, <2>3, <2>4, <2>6, NoPacketType DEF Live, Apart, Fresh
<1>8. CASE DestroyQueues
  <2>1. /\ alive' = alive \ UNION {{queue[s][i].id : i \in DOMAIN queue[s]} : s \in Streams}
        /\ queue' = [s \in Streams |-> <<>>]
        /\ UNCHANGED <<packet, pcm, held, nextid>>
    BY <1>8 DEF DestroyQueues
  <2> QED
    BY <2>1 DEF Live, Apart, Fresh
<1>9. CASE \E t \in Streams : GetUnlink(t)
  <2> PICK u \in Streams : GetUnlink(u)
    BY <1>9
  <2>1. CASE queue[u] = <<>>
    BY <1>b, <2>1 DEF GetUnlink
  <2>2. CASE queue[u] # <<>>
    <3>1. /\ queue' = [queue EXCEPT ![u] = Tail(queue[u])]
          /\ held' = [held EXCEPT ![u] = Head(queue[u])]
          /\ UNCHANGED <<alive, packet, pcm, nextid>>
      BY <2>2 DEF GetUnlink
    <3>2. /\ Head(queue[u]) = queue[u][1] /\ 1 \in DOMAIN queue[u]
          /\ \A i \in DOMAIN Tail(queue[u]) :
               i \in Nat /\ i + 1 \in DOMAIN queue[u] /\ Tail(queue[u])[i] = queue[u][i + 1]
      BY <2>2, HeadAndTail
    <3> QED
      BY <3>1, <3>2 DEF Live, Apart, Fresh
  <2> QED
    BY <2>1, <2>2
<1>10. CASE \E t \in Streams : FreePacket(t)
  <2> PICK u \in Streams : FreePacket(u)
    BY <1>10
  <2>1. /\ alive' = alive \ {held[u].id}
        /\ held' = [held EXCEPT ![u] = NoPacket]
        /\ UNCHANGED <<packet, pcm, queue, nextid>>
    BY DEF FreePacket
  <2> QED
    BY <2>1, NoPacketType DEF Live, Apart, Fresh
<1> QED
  BY PayloadSteps, <1>1, <1>2, <1>3, <1>4, <1>5, <1>6, <1>7, <1>8, <1>9, <1>10

\* player_status changes in Play and ThreadExit only.
LEMMA OpenedStep == TypeOK /\ Lifecycle /\ Opened /\ [Next]_vars => Opened'
<1> SUFFICES ASSUME TypeOK, Lifecycle, Opened, [Next]_vars PROVE Opened'
  OBVIOUS
<1>a. pc \in PlayerPC /\ DOMAIN wpc = Streams /\ failed \in BOOLEAN
  BY DEF TypeOK

<1> USE <1>a, StreamNames DEF Opened, Before, PlayerPC, shared, player, queues, workers
<1>1. CASE OpenInput
  BY <1>1 DEF OpenInput
<1>2. CASE OpenVideo
  BY <1>2 DEF OpenVideo
<1>3. CASE OpenAudio
  BY <1>3 DEF OpenAudio
<1>4. CASE InitQueues
  BY <1>4 DEF InitQueues
<1>5. CASE StartVideo
  BY <1>5 DEF StartVideo, StartWorker
<1>6. CASE StartAudio
  BY <1>6 DEF StartAudio, StartWorker
<1>7. CASE Play
  BY <1>7 DEF Play
<1>8. CASE ReadFrame
  BY <1>8 DEF ReadFrame
<1>9. CASE EndOfInput
  BY <1>9 DEF EndOfInput
<1>10. CASE Dispatch
  BY <1>10 DEF Dispatch
<1>11. CASE DecodeAudio
  BY <1>11 DEF DecodeAudio
<1>12. CASE AudioPacketDone
  BY <1>12 DEF AudioPacketDone
<1>13. CASE PutAdmit
  BY <1>13 DEF PutAdmit
<1>14. CASE PutRefused
  BY <1>14 DEF PutRefused
<1>15. CASE PutLock
  BY <1>15 DEF PutLock
<1>16. CASE PutLink
  BY <1>16 DEF PutLink
<1>17. CASE Finish
  BY <1>17 DEF Finish
<1>18. CASE Fail
  BY <1>18 DEF Fail
<1>19. CASE Join
  BY <1>19 DEF Join
<1>20. CASE DestroyQueues
  BY <1>20 DEF DestroyQueues
<1>21. CASE CloseMedia
  BY <1>21 DEF CloseMedia
<1>22. CASE ThreadExit
  BY <1>22 DEF ThreadExit, ExitStatus
<1>23. CASE \E t \in Streams : GetCheck(t)
  BY <1>23 DEF GetCheck
<1>24. CASE \E t \in Streams : GetLock(t)
  BY <1>24 DEF GetLock
<1>25. CASE \E t \in Streams : GetUnlink(t)
  <2> PICK t \in Streams : GetUnlink(t)
    BY <1>25
  <2>1. CASE queue[t] = <<>>
    BY <2>1 DEF GetUnlink
  <2>2. CASE queue[t] # <<>>
    BY <2>2 DEF GetUnlink
  <2> QED
    BY <2>1, <2>2
<1>26. CASE \E t \in Streams : GetEnded(t)
  BY <1>26 DEF GetEnded
<1>27. CASE \E t \in Streams : Use(t)
  BY <1>27 DEF Use
<1>28. CASE \E t \in Streams : FreePacket(t)
  BY <1>28 DEF FreePacket
<1>29. CASE VideoDecode
  BY <1>29 DEF VideoDecode
<1>30. CASE Stop
  BY <1>30 DEF Stop
<1>31. CASE TogglePause
  BY <1>31 DEF TogglePause
<1>32. CASE UNCHANGED vars
  BY <1>32 DEF vars
<1> QED
  BY <1>1, <1>2, <1>3, <1>4, <1>5, <1>6, <1>7, <1>8, <1>9, <1>10, <1>11,
     <1>12, <1>13, <1>14, <1>15, <1>16, <1>17, <1>18, <1>19, <1>20, <1>21,
     <1>22, <1>23, <1>24, <1>25, <1>26, <1>27, <1>28, <1>29, <1>30, <1>31,
     <1>32
  DEF Next, PlayerStep, WorkerStep, MainStep

\* The invariant holds when the player thread starts.
LEMMA InvInit == Init => IInv
<1> SUFFICES ASSUME Init PROVE IInv
  OBVIOUS
<1>1. TypeOK
  BY TypeInit
<1>2. Lifecycle /\ LockHolders
  BY StreamNames DEF Init, Lifecycle, Resources, Life, LockHolders, Setup, Joining, Running, Streams
<1>3. Rooms /\ Holding
  BY PipelineAssumption DEF Init, Rooms, Room, Holding
<1>4. Fresh /\ \A s \in Streams : Ordered(s)
  BY NoPacketType DEF Init, Fresh, Past, InHand, Ordered
<1>5. NoOrphan /\ Emptied /\ Live /\ Apart
  BY NoPacketType DEF Init, NoOrphan, Emptied, Live, Apart
<1>6. Opened
  BY DEF Init, Opened
<1> QED
  BY <1>1, <1>2, <1>3, <1>4, <1>5, <1>6 DEF IInv

\* The invariant is inductive.
LEMMA InvStep == IInv /\ [Next]_vars => IInv'
<1> SUFFICES ASSUME IInv, [Next]_vars PROVE IInv'
  OBVIOUS
<1>1. TypeOK'
  BY TypeStep DEF IInv
<1>2. Lifecycle'
  BY ResourcesStep, LifeStep DEF IInv, Lifecycle
<1>3. LockHolders' /\ Rooms'
  BY LockStep, RoomStep DEF IInv
<1>4. Holding' /\ Fresh' /\ \A s \in Streams : Ordered(s)'
  BY HoldingStep, FreshStep, OrderedStep DEF IInv
<1>5. NoOrphan' /\ Emptied' /\ Live' /\ Apart'
  BY NoOrphanStep, EmptiedStep, LiveStep, ApartStep DEF IInv
<1>6. Opened'
  BY OpenedStep DEF IInv
<1> QED
  BY <1>1, <1>2, <1>3, <1>4, <1>5, <1>6 DEF IInv

\* The invariant holds in every reachable state.
THEOREM Invariance == Spec => []IInv
BY InvInit, InvStep, PTL DEF Spec

-----------------------------------------------------------------------------
(***************************************************************************)
(* What follows.                                                           *)
(***************************************************************************)
\* No queue ever holds more than Limit bytes, whatever the sizes of the packets,
\* although packet_queue_put looks for room before it takes the lock.
THEOREM QueuesAreBounded == Spec => []BytesBounded
<1>1. IInv => BytesBounded
  BY DEF IInv, Rooms, Room, BytesBounded
<1> QED
  BY <1>1, Invariance, PTL

\* The player thread and a worker are never inside the same queue together.
THEOREM QueuesAreExclusive == Spec => []MutualExclusion
<1>1. IInv => MutualExclusion
  BY StreamNames DEF IInv, LockHolders, MutualExclusion
<1> QED
  BY <1>1, Invariance, PTL

\* A running worker has its semaphore, its codec and the codec lock.
THEOREM WorkersAreSafe == Spec => []WorkersHaveTheirResources
<1>1. IInv => WorkersHaveTheirResources
  BY DEF IInv, Lifecycle, Life, WorkersHaveTheirResources
<1> QED
  BY <1>1, Invariance, PTL

\* Each stream's packets reach its worker in the order of the file.
THEOREM PacketsStayInOrder == Spec => []InOrder
<1>1. IInv => InOrder
  BY DEF IInv, Ordered, Fresh, Past, InHand, InOrder
<1> QED
  BY <1>1, Invariance, PTL

\* Every exit of decode_file leaves no payload, codec, semaphore or worker.
THEOREM SessionsLeaveNothing == Spec => []NothingLeft
<1>1. IInv => NothingLeft
  BY DEF IInv, Emptied, Lifecycle, Resources, Life, Joining, NothingLeft
<1> QED
  BY <1>1, Invariance, PTL

\* The four kinds of places that hold a payload.
LEMMA OwnerCases ==
  ASSUME NEW o
  PROVE  o \in Owners <=>
           \/ o = <<"packet", 0, packet.id>>
           \/ o = <<"pcm", 0, pcm.id>>
           \/ \E s \in Streams : o = <<s, 0, held[s].id>>
           \/ \E s \in Streams : \E i \in DOMAIN queue[s] : o = <<s, i, queue[s][i].id>>
BY DEF Owners

\* Two places that hold the same payload are the same place.
LEMMA OneOwner ==
  ASSUME TypeOK, Fresh, \A s \in Streams : Ordered(s), Apart,
         NEW o \in Owners, NEW p \in Owners, o[3] = p[3], o[3] # 0
  PROVE  o = p
<1>a. \A s \in Streams : held[s].id \in Nat /\ queue[s] \in Seq(Packet)
  BY PacketFields DEF TypeOK
<1>b. \A s \in Streams : \A i \in DOMAIN queue[s] : i \in Nat /\ queue[s][i].id \in Nat
  BY <1>a, PacketFields
<1>1. CASE o = <<"packet", 0, packet.id>>
  <2>1. p # <<"pcm", 0, pcm.id>>
    BY <1>1 DEF Apart
  <2>2. ASSUME NEW s \in Streams PROVE p # <<s, 0, held[s].id>>
    BY <1>1 DEF Apart
  <2>3. ASSUME NEW s \in Streams, NEW i \in DOMAIN queue[s] PROVE p # <<s, i, queue[s][i].id>>
    BY <1>1 DEF Apart
  <2> QED
    BY <1>1, <2>1, <2>2, <2>3, OwnerCases
<1>2. CASE o = <<"pcm", 0, pcm.id>>
  <2>1. p # <<"packet", 0, packet.id>>
    BY <1>2 DEF Apart
  <2>2. ASSUME NEW s \in Streams PROVE p # <<s, 0, held[s].id>>
    BY <1>2 DEF Apart
  <2>3. ASSUME NEW s \in Streams, NEW i \in DOMAIN queue[s] PROVE p # <<s, i, queue[s][i].id>>
    BY <1>2 DEF Apart
  <2> QED
    BY <1>2, <2>1, <2>2, <2>3, OwnerCases
<1>3. ASSUME NEW s \in Streams, o = <<s, 0, held[s].id>> PROVE o = p
  <2>1. p # <<"packet", 0, packet.id>> /\ p # <<"pcm", 0, pcm.id>>
    BY <1>3 DEF Apart
  <2>2. ASSUME NEW t \in Streams, p = <<t, 0, held[t].id>> PROVE t = s
    BY <1>3, <2>2 DEF Apart
  <2>3. ASSUME NEW t \in Streams, NEW i \in DOMAIN queue[t] PROVE p # <<t, i, queue[t][i].id>>
    <3>1. CASE t = s
      BY <1>3, <3>1, <1>a, <1>b DEF Ordered
    <3>2. CASE t # s
      BY <1>3, <3>2 DEF Apart
    <3> QED
      BY <3>1, <3>2
  <2> QED
    BY <1>3, <2>1, <2>2, <2>3, OwnerCases
<1>4. ASSUME NEW s \in Streams, NEW i \in DOMAIN queue[s], o = <<s, i, queue[s][i].id>> PROVE o = p
  <2>1. p # <<"packet", 0, packet.id>> /\ p # <<"pcm", 0, pcm.id>>
    BY <1>4 DEF Apart
  <2>2. ASSUME NEW t \in Streams PROVE p # <<t, 0, held[t].id>>
    <3>1. CASE t = s
      BY <1>4, <3>1, <1>a, <1>b DEF Ordered
    <3>2. CASE t # s
      BY <1>4, <3>2 DEF Apart
    <3> QED
      BY <3>1, <3>2
  <2>3. ASSUME NEW t \in Streams, NEW j \in DOMAIN queue[t], p = <<t, j, queue[t][j].id>>
        PROVE  t = s /\ j = i
    <3>1. queue[s][i].id = queue[t][j].id
      BY <1>4, <2>3
    <3>2. t = s
      BY <3>1 DEF Apart
    <3>3. ~(i < j) /\ ~(j < i)
      BY <3>1, <3>2, <1>b DEF Ordered
    <3> QED
      BY <3>2, <3>3, <1>b
  <2> QED
    BY <1>4, <2>1, <2>2, <2>3, OwnerCases
<1> QED
  BY <1>1, <1>2, <1>3, <1>4, OwnerCases

\* Alive payloads have one owner, freed ones none.
LEMMA SoleOwner ==
  TypeOK /\ Fresh /\ (\A s \in Streams : Ordered(s)) /\ NoOrphan /\ Live /\ Apart => SingleOwner
<1> SUFFICES ASSUME TypeOK, Fresh, \A s \in Streams : Ordered(s), NoOrphan, Live, Apart,
                    NEW id \in 1..nextid
             PROVE  Cardinality({o \in Owners : o[3] = id}) = IF id \in alive THEN 1 ELSE 0
  BY DEF SingleOwner
<1> DEFINE O == {o \in Owners : o[3] = id}
<1>1. id # 0
  BY DEF TypeOK
<1>2. CASE id \in alive
  <2>1. \E o \in Owners : o[3] = id
    <3>1. HasOwner(id)
      BY <1>2 DEF NoOrphan
    <3>2. CASE id = packet.id
      <4>1. <<"packet", 0, packet.id>> \in Owners
        BY OwnerCases
      <4> QED
        BY <4>1, <3>2
    <3>3. CASE id = pcm.id
      <4>1. <<"pcm", 0, pcm.id>> \in Owners
        BY OwnerCases
      <4> QED
        BY <4>1, <3>3
    <3>4. ASSUME NEW s \in Streams, id = held[s].id PROVE \E o \in Owners : o[3] = id
      <4>1. <<s, 0, held[s].id>> \in Owners
        BY OwnerCases
      <4> QED
        BY <4>1, <3>4
    <3>5. ASSUME NEW s \in Streams, NEW i \in DOMAIN queue[s], id = queue[s][i].id
          PROVE  \E o \in Owners : o[3] = id
      <4>1. <<s, i, queue[s][i].id>> \in Owners
        BY OwnerCases
      <4> QED
        BY <4>1, <3>5
    <3> QED
      BY <3>1, <3>2, <3>3, <3>4, <3>5 DEF HasOwner
  <2> PICK o \in Owners : o[3] = id
    BY <2>1
  <2>2. \A p \in O : p = o
    BY <1>1, OneOwner
  <2>3. O = {o}
    BY <2>2
  <2>4. Cardinality({o}) = 1
    BY FS_Singleton
  <2> QED
    BY <1>2, <2>3, <2>4
<1>3. CASE id \notin alive
  <2>1. \A o \in Owners : o[3] \in alive \union {0}
    <3> SUFFICES ASSUME NEW o \in Owners PROVE o[3] \in alive \union {0}
      OBVIOUS
    <3>1. ASSUME NEW s \in Streams, o = <<s, 0, held[s].id>> PROVE o[3] \in alive \union {0}
      BY <3>1 DEF Live
    <3>2. ASSUME NEW s \in Streams, NEW i \in DOMAIN queue[s], o = <<s, i, queue[s][i].id>>
          PROVE  o[3] \in alive
      BY <3>2 DEF Live
    <3> QED
      BY <3>1, <3>2, OwnerCases DEF Live
  <2>2. O = {}
    BY <1>1, <1>3, <2>1
  <2>3. Cardinality({}) = 0
    BY FS_EmptySet
  <2> QED
    BY <1>3, <2>2, <2>3
<1> QED
  BY <1>2, <1>3

\* Every allocated payload has exactly one owner until it is freed, and none
\* afterwards: no leak and no double free, for any number of payloads.
THEOREM PayloadsHaveOneOwner == Spec => []SingleOwner
<1>1. IInv => SingleOwner
  BY SoleOwner DEF IInv
<1> QED
  BY <1>1, Invariance, PTL

-----------------------------------------------------------------------------
(***************************************************************************)
(* PlayerPipeline implements PlayerSession.                                *)
(***************************************************************************)
\* Every step of the pipeline is a step of the session or leaves it alone.
LEMMA SessionStep ==
  TypeOK /\ Lifecycle /\ Opened /\ [Next]_vars => [Session!Next]_(Session!session)
<1> SUFFICES ASSUME TypeOK, Lifecycle, Opened, [Next]_vars
             PROVE [Session!Next]_(Session!session)
  OBVIOUS
<1>a. pc \in PlayerPC /\ Resources /\ live \in SUBSET Released
  BY DEF TypeOK, Lifecycle, Released

<1> USE <1>a DEF PlayerPC, Session!session, shared, player, queues, workers
<1>1. CASE OpenInput
  BY <1>1 DEF OpenInput, Resources
<1>2. CASE OpenVideo
  BY <1>2
     DEF OpenVideo, Resources, Opened, Before,
         Session!Next, Session!PlayerStep, Session!OpenDecoder
<1>3. CASE OpenAudio
  BY <1>3 DEF OpenAudio
<1>4. CASE InitQueues
  BY <1>4 DEF InitQueues
<1>5. CASE StartVideo
  BY <1>5 DEF StartVideo, StartWorker
<1>6. CASE StartAudio
  BY <1>6 DEF StartAudio, StartWorker
<1>7. CASE Play
  BY <1>7
     DEF Play, Opened, Before, Session!Next, Session!PlayerStep, Session!BeginPlay
<1>8. CASE ReadFrame
  BY <1>8 DEF ReadFrame
<1>9. CASE EndOfInput
  BY <1>9 DEF EndOfInput
<1>10. CASE Dispatch
  BY <1>10 DEF Dispatch
<1>11. CASE DecodeAudio
  BY <1>11 DEF DecodeAudio
<1>12. CASE AudioPacketDone
  BY <1>12 DEF AudioPacketDone
<1>13. CASE PutAdmit
  BY <1>13 DEF PutAdmit
<1>14. CASE PutRefused
  BY <1>14 DEF PutRefused
<1>15. CASE PutLock
  BY <1>15 DEF PutLock
<1>16. CASE PutLink
  BY <1>16 DEF PutLink
<1>17. CASE Finish
  BY <1>17 DEF Finish
<1>18. CASE Fail
  BY <1>18 DEF Fail
<1>19. CASE Join
  BY <1>19 DEF Join
<1>20. CASE DestroyQueues
  BY <1>20 DEF DestroyQueues
<1>21. CASE CloseMedia
  BY <1>21
     DEF CloseMedia, Opened, Session!Next, Session!PlayerStep, Session!CloseDecoder
<1>22. CASE ThreadExit
  BY <1>22
     DEF ThreadExit, ExitStatus, Opened,
         Session!Next, Session!PlayerStep, Session!End, Session!EndStatus
<1>23. CASE \E t \in Streams : GetCheck(t)
  BY <1>23 DEF GetCheck
<1>24. CASE \E t \in Streams : GetLock(t)
  BY <1>24 DEF GetLock
<1>25. CASE \E t \in Streams : GetUnlink(t)
  BY <1>25 DEF GetUnlink
<1>26. CASE \E t \in Streams : GetEnded(t)
  BY <1>26 DEF GetEnded
<1>27. CASE \E t \in Streams : Use(t)
  BY <1>27 DEF Use
<1>28. CASE \E t \in Streams : FreePacket(t)
  BY <1>28 DEF FreePacket
<1>29. CASE VideoDecode
  BY <1>29, StreamNames
     DEF VideoDecode, Lifecycle, Life, Joining, Running, Opened,
         Session!Next, Session!PlayerStep, Session!Publish
<1>30. CASE Stop
  BY <1>30 DEF Stop, Session!Next, Session!Stop
<1>31. CASE TogglePause
  BY <1>31 DEF TogglePause, Session!Next, Session!TogglePause
<1>32. CASE UNCHANGED vars
  BY <1>32 DEF vars
<1> QED
  BY <1>1, <1>2, <1>3, <1>4, <1>5, <1>6, <1>7, <1>8, <1>9, <1>10, <1>11,
     <1>12, <1>13, <1>14, <1>15, <1>16, <1>17, <1>18, <1>19, <1>20, <1>21,
     <1>22, <1>23, <1>24, <1>25, <1>26, <1>27, <1>28, <1>29, <1>30, <1>31,
     <1>32
  DEF Next, PlayerStep, WorkerStep, MainStep

\* What the main thread sees of the pipeline is a session of PlayerSession.
THEOREM ImplementsSession == Spec => SessionSpec
<1>1. Init => Session!Begin
  BY DEF Init, Session!Begin
<1>2. IInv /\ [Next]_vars => [Session!Next]_(Session!session)
  BY SessionStep DEF IInv
<1> QED
  BY <1>1, <1>2, Invariance, PTL DEF Spec, SessionSpec, Session!Spec
=============================================================================
