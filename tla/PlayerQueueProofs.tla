--------------------------- MODULE PlayerQueueProofs ---------------------------
(***************************************************************************)
(* Proofs about the packet queues of PlayerPipeline that need induction    *)
(* over the length of a queue or build on it: that q->bytes is the sum of  *)
(* the sizes in the queue, and that whoever waits for room, for a thread's *)
(* end or for a semaphore waits for a thread that can step.                *)
(***************************************************************************)
EXTENDS PlayerPipelineProofs, Counting

-----------------------------------------------------------------------------
(***************************************************************************)
(* The sizes of a sequence of packets, added up.                           *)
(***************************************************************************)

\* What it means to have added up the sizes of q.
Adds(q, sum) ==
  /\ DOMAIN sum = 0 .. Len(q) /\ sum[0] = 0
  /\ \A n \in 1 .. Len(q) : sum[n] = sum[n - 1] + q[n].size

\* The sizes of a sequence can be added up: one more step at a time.
LEMMA SumsExist ==
  ASSUME NEW q \in Seq(Packet)
  PROVE  \E sum \in [0 .. Len(q) -> Nat] : Adds(q, sum)
<1> DEFINE Upto(n) == \E sum \in [0 .. n -> Nat] :
                        sum[0] = 0 /\ \A i \in 1 .. n : sum[i] = sum[i - 1] + q[i].size
           H == {n \in 0 .. Len(q) : Upto(n)}
<1>1. Len(q) \in Nat /\ \A i \in 1 .. Len(q) : q[i].size \in Nat
  BY PacketFields
<1>2. 0 \in H
  <2> DEFINE zero == [i \in 0 .. 0 |-> 0]
  <2>1. zero \in [0 .. 0 -> Nat] /\ zero[0] = 0
    OBVIOUS
  <2>2. \A i \in 1 .. 0 : zero[i] = zero[i - 1] + q[i].size
    OBVIOUS
  <2>3. Upto(0)
    <3> HIDE DEF zero
    <3> QED
      BY <2>1, <2>2
  <2> QED
    BY <1>1, <2>3
<1>3. ASSUME NEW n \in 0 .. Len(q) - 1, n \in H PROVE n + 1 \in H
  <2>1. PICK sum \in [0 .. n -> Nat] :
          sum[0] = 0 /\ \A i \in 1 .. n : sum[i] = sum[i - 1] + q[i].size
    BY <1>3
  <2> DEFINE new == [i \in 0 .. n + 1 |-> IF i = n + 1 THEN sum[n] + q[n + 1].size ELSE sum[i]]
  <2>2. n \in Nat /\ n + 1 \in 1 .. Len(q) /\ n + 1 \in 0 .. Len(q)
    BY <1>1
  <2>3. new \in [0 .. n + 1 -> Nat]
    BY <1>1, <2>1, <2>2
  <2>4. new[0] = 0
    BY <2>1, <2>2
  <2>5. ASSUME NEW i \in 1 .. n + 1 PROVE new[i] = new[i - 1] + q[i].size
    <3>1. CASE i = n + 1
      <4>1. new[i] = sum[n] + q[n + 1].size /\ i - 1 = n /\ n \in 0 .. n + 1 /\ n # n + 1
        BY <2>2, <3>1
      <4>2. new[i - 1] = sum[n]
        BY <4>1
      <4> QED
        BY <3>1, <4>1, <4>2
    <3>2. CASE i \in 1 .. n
      <4>1. i # n + 1 /\ i - 1 # n + 1 /\ i \in 0 .. n + 1 /\ i - 1 \in 0 .. n + 1
        BY <2>2, <3>2
      <4>2. new[i] = sum[i] /\ new[i - 1] = sum[i - 1]
        BY <4>1
      <4> QED
        BY <2>1, <3>2, <4>2
    <3> QED
      BY <2>2, <3>1, <3>2
  <2>6. Upto(n + 1)
    <3> HIDE DEF new
    <3> QED
      BY <2>3, <2>4, <2>5
  <2> QED
    BY <2>2, <2>6
<1>4. Len(q) \in H
  <2> HIDE DEF H
  <2>1. 0 .. Len(q) \subseteq H
    BY <1>1, <1>2, <1>3, InductionUpTo
  <2> QED
    BY <1>1, <2>1
<1> QED
  BY <1>4 DEF Adds

\* Sizes adds them up.
LEMMA SizesAdd ==
  ASSUME NEW q \in Seq(Packet)
  PROVE  Adds(q, Sizes(q))
<1> DEFINE Summed(sum) == [n \in 0 .. Len(q) |-> IF n = 0 THEN 0 ELSE sum[n - 1] + q[n].size]
<1>1. PICK sum \in [0 .. Len(q) -> Nat] : Adds(q, sum)
  BY SumsExist
<1>2. Len(q) \in Nat
  OBVIOUS
<1>3. sum = Summed(sum)
  <2>1. \A n \in 0 .. Len(q) : n # 0 => n \in 1 .. Len(q)
    BY <1>2
  <2> QED
    BY <1>1, <2>1 DEF Adds
<1>4. Sizes(q) = CHOOSE s : s = Summed(s)
  BY DEF Sizes
<1>5. Sizes(q) = Summed(Sizes(q))
  <2> HIDE DEF Summed
  <2> QED
    BY <1>3, <1>4
<1> QED
  BY <1>2, <1>5 DEF Adds

\* The sums are natural numbers, and there is only one way to add up.
LEMMA SumsUnique ==
  ASSUME NEW q \in Seq(Packet), NEW sum, Adds(q, sum), NEW k \in 0 .. Len(q),
         NEW r \in Seq(Packet), NEW other, Adds(r, other), k <= Len(r),
         \A n \in 1 .. k : q[n].size = r[n].size
  PROVE  sum[k] \in Nat /\ sum[k] = other[k]
<1> DEFINE H == {n \in 0 .. k : sum[n] \in Nat /\ sum[n] = other[n]}
<1>1. k \in Nat /\ Len(q) \in Nat /\ Len(r) \in Nat /\ \A n \in 1 .. Len(q) : q[n].size \in Nat
  BY PacketFields
<1>2. 0 \in H
  BY <1>1 DEF Adds
<1>3. ASSUME NEW n \in 0 .. k - 1, n \in H PROVE n + 1 \in H
  <2>1. n + 1 \in 1 .. k /\ n + 1 \in 1 .. Len(q) /\ n + 1 \in 1 .. Len(r) /\ n + 1 - 1 = n
    BY <1>1
  <2>2. sum[n + 1] = sum[n] + q[n + 1].size /\ other[n + 1] = other[n] + r[n + 1].size
    BY <2>1 DEF Adds
  <2> QED
    BY <1>1, <1>3, <2>1, <2>2
<1>4. 0 .. k \subseteq H
  <2> HIDE DEF H
  <2> QED
    BY <1>1, <1>2, <1>3, InductionUpTo
<1> QED
  BY <1>1, <1>4

\* All of them.
Total(q) == Sizes(q)[Len(q)]

\* An empty queue adds up to nothing.
LEMMA TotalEmpty == Total(<<>>) = 0
<1>1. <<>> \in Seq(Packet) /\ Len(<<>>) = 0
  OBVIOUS
<1> QED
  BY <1>1, SizesAdd DEF Adds, Total

\* A queue adds up to a natural number.
LEMMA TotalType == ASSUME NEW q \in Seq(Packet) PROVE Total(q) \in Nat
<1>1. Len(q) \in 0 .. Len(q) /\ Len(q) <= Len(q)
  OBVIOUS
<1> QED
  BY <1>1, SizesAdd, SumsUnique DEF Total

\* Appending a packet adds its size.
LEMMA TotalAppend ==
  ASSUME NEW q \in Seq(Packet), NEW p \in Packet
  PROVE  Total(Append(q, p)) = Total(q) + p.size
<1> DEFINE r == Append(q, p)
<1>1. /\ r \in Seq(Packet) /\ Len(r) = Len(q) + 1 /\ r[Len(q) + 1] = p
      /\ \A n \in 1 .. Len(q) : q[n].size = r[n].size
      /\ Len(q) \in Nat
  OBVIOUS
<1> HIDE DEF r
<1>2. Adds(q, Sizes(q)) /\ Adds(r, Sizes(r))
  BY <1>1, SizesAdd
<1>3. Sizes(q)[Len(q)] = Sizes(r)[Len(q)]
  <2>1. Len(q) \in 0 .. Len(q) /\ Len(q) <= Len(r)
    BY <1>1
  <2> QED
    BY <1>1, <1>2, <2>1, SumsUnique
<1>4. Sizes(r)[Len(q) + 1] = Sizes(r)[Len(q)] + p.size
  <2>1. Len(q) + 1 \in 1 .. Len(r) /\ Len(q) + 1 - 1 = Len(q)
    BY <1>1
  <2> QED
    BY <1>1, <1>2, <2>1 DEF Adds
<1>5. Total(r) = Total(q) + p.size
  BY <1>1, <1>3, <1>4 DEF Total
<1> QED
  BY <1>5 DEF r

\* Taking the head off takes its size off.
LEMMA TotalTail ==
  ASSUME NEW q \in Seq(Packet), q # <<>>
  PROVE  Total(Tail(q)) = Total(q) - Head(q).size
<1> DEFINE r == Tail(q)
           H == {n \in 0 .. Len(r) : Sizes(q)[n + 1] = Sizes(r)[n] + q[1].size /\ Sizes(r)[n] \in Nat}
<1>1. /\ r \in Seq(Packet) /\ Len(r) = Len(q) - 1 /\ Head(q) = q[1]
      /\ Len(r) \in Nat /\ Len(q) \in Nat
      /\ \A n \in 1 .. Len(r) : r[n] = q[n + 1]
  OBVIOUS
<1>2. \A n \in 1 .. Len(q) : q[n].size \in Nat
  BY PacketFields
<1> HIDE DEF r
<1>3. Adds(q, Sizes(q)) /\ Adds(r, Sizes(r))
  BY <1>1, SizesAdd
<1>4. 0 \in H
  <2>1. 1 \in 1 .. Len(q) /\ 1 - 1 = 0 /\ 0 + 1 = 1 /\ 0 \in 0 .. Len(r)
    BY <1>1
  <2>2. Sizes(q)[1] = Sizes(q)[0] + q[1].size /\ Sizes(q)[0] = 0 /\ Sizes(r)[0] = 0
    BY <1>3, <2>1 DEF Adds
  <2> QED
    BY <1>2, <2>1, <2>2
<1>5. ASSUME NEW n \in 0 .. Len(r) - 1, n \in H PROVE n + 1 \in H
  <2>1. /\ n + 1 \in 1 .. Len(r) /\ n + 2 \in 1 .. Len(q) /\ n + 1 \in 0 .. Len(r)
        /\ n + 1 - 1 = n /\ n + 2 - 1 = n + 1 /\ n + 1 + 1 = n + 2
    BY <1>1
  <2>2. /\ Sizes(r)[n + 1] = Sizes(r)[n] + r[n + 1].size
        /\ Sizes(q)[n + 2] = Sizes(q)[n + 1] + q[n + 2].size
    BY <1>3, <2>1 DEF Adds
  <2>3. r[n + 1] = q[n + 2] /\ q[n + 2].size \in Nat /\ q[1].size \in Nat
    BY <1>1, <1>2, <2>1
  <2> QED
    BY <1>5, <2>1, <2>2, <2>3
<1>6. Len(r) \in H
  <2> HIDE DEF H
  <2>1. 0 .. Len(r) \subseteq H
    BY <1>1, <1>4, <1>5, InductionUpTo
  <2> QED
    BY <1>1, <2>1
<1>7. Total(q) = Total(r) + q[1].size /\ Total(r) \in Nat
  BY <1>1, <1>6 DEF Total
<1>8. 1 \in 1 .. Len(q)
  BY <1>1
<1>9. Total(r) = Total(q) - Head(q).size
  BY <1>1, <1>2, <1>7, <1>8
<1> QED
  BY <1>9 DEF r

-----------------------------------------------------------------------------
(***************************************************************************)
(* The bytes of a queue.                                                   *)
(***************************************************************************)

Gone == {"close", "exit", "done"}

Exact(s) == pc \notin Gone => bytes[s] = Total(queue[s])

\* Only a put adds, and only a get takes away, each what it counts.
LEMMA ExactStep ==
  ASSUME TypeOK, [Next]_vars, NEW s \in Streams, Exact(s)
  PROVE  Exact(s)'
<1> USE StreamNames DEF Exact, Gone, shared, player, queues, workers
<1>1. CASE OpenInput
  BY <1>1 DEF OpenInput
<1>2. CASE OpenVideo
  BY <1>2 DEF OpenVideo
<1>3. CASE OpenAudio
  BY <1>3 DEF OpenAudio
<1>4. CASE InitQueues
  BY <1>4 DEF InitQueues
<1>5. CASE StartVideo
  BY <1>5 DEF StartVideo, StartWorker
<1>6. CASE StartAudio
  BY <1>6 DEF StartAudio, StartWorker
<1>7. CASE Play
  BY <1>7 DEF Play
<1>8. CASE ReadFrame
  BY <1>8 DEF ReadFrame
<1>9. CASE EndOfInput
  BY <1>9 DEF EndOfInput
<1>10. CASE Dispatch
  BY <1>10 DEF Dispatch
<1>11. CASE DecodeAudio
  BY <1>11 DEF DecodeAudio
<1>12. CASE AudioPacketDone
  BY <1>12 DEF AudioPacketDone
<1>13. CASE PutAdmit
  BY <1>13 DEF PutAdmit
<1>14. CASE PutRefused
  BY <1>14 DEF PutRefused
<1>15. CASE PutLock
  BY <1>15 DEF PutLock
<1>16. CASE PutLink
  <2> USE <1>16 DEF PutLink
  <2>1. /\ Target \in Streams /\ Outgoing \in Packet
        /\ queue \in [Streams -> Seq(Packet)] /\ bytes \in [Streams -> Int]
    BY DEF TypeOK, Target, Outgoing
  <2>2. CASE s = Target
    <3>1. queue'[s] = Append(queue[s], Outgoing) /\ bytes'[s] = bytes[s] + Outgoing.size
      BY <2>1, <2>2 DEF Enqueued
    <3>2. Total(queue'[s]) = Total(queue[s]) + Outgoing.size
      BY <2>1, <3>1, TotalAppend
    <3> QED
      BY <3>1, <3>2
  <2>3. CASE s # Target
    <3>1. queue'[s] = queue[s] /\ bytes'[s] = bytes[s]
      BY <2>1, <2>3
    <3> QED
      BY <3>1
  <2> QED
    BY <2>2, <2>3
<1>17. CASE Finish
  BY <1>17 DEF Finish
<1>18. CASE Fail
  BY <1>18 DEF Fail
<1>19. CASE Join
  BY <1>19 DEF Join
<1>20. CASE DestroyQueues
  BY <1>20 DEF DestroyQueues
<1>21. CASE CloseMedia
  BY <1>21 DEF CloseMedia
<1>22. CASE ThreadExit
  BY <1>22 DEF ThreadExit
<1>23. CASE \E t \in Streams : GetCheck(t)
  BY <1>23 DEF GetCheck
<1>24. CASE \E t \in Streams : GetLock(t)
  BY <1>24 DEF GetLock
<1>25. CASE \E t \in Streams : GetUnlink(t)
  <2> PICK t \in Streams : GetUnlink(t)
    BY <1>25
  <2>1. queue \in [Streams -> Seq(Packet)] /\ bytes \in [Streams -> Int]
    BY DEF TypeOK
  <2>2. CASE queue[t] # <<>> /\ s = t
    <3>1. pc' = pc /\ queue'[s] = Tail(queue[s]) /\ bytes'[s] = bytes[s] - Head(queue[s]).size
      BY <2>1, <2>2 DEF GetUnlink, Discount
    <3>2. Total(queue'[s]) = Total(queue[s]) - Head(queue[s]).size
      BY <2>1, <2>2, <3>1, TotalTail
    <3> QED
      BY <3>1, <3>2
  <2>3. CASE queue[t] = <<>> \/ s # t
    <3>1. pc' = pc /\ queue'[s] = queue[s] /\ bytes'[s] = bytes[s]
      BY <2>1, <2>3 DEF GetUnlink
    <3> QED
      BY <3>1
  <2> QED
    BY <2>2, <2>3
<1>26. CASE \E t \in Streams : GetEnded(t)
  BY <1>26 DEF GetEnded
<1>27. CASE \E t \in Streams : Use(t)
  BY <1>27 DEF Use
<1>28. CASE \E t \in Streams : FreePacket(t)
  BY <1>28 DEF FreePacket
<1>29. CASE VideoDecode
  BY <1>29 DEF VideoDecode
<1>30. CASE Stop
  BY <1>30 DEF Stop
<1>31. CASE TogglePause
  BY <1>31 DEF TogglePause
<1>32. CASE UNCHANGED vars
  BY <1>32 DEF vars
<1> QED
  BY <1>1, <1>2, <1>3, <1>4, <1>5, <1>6, <1>7, <1>8, <1>9, <1>10, <1>11,
     <1>12, <1>13, <1>14, <1>15, <1>16, <1>17, <1>18, <1>19, <1>20, <1>21,
     <1>22, <1>23, <1>24, <1>25, <1>26, <1>27, <1>28, <1>29, <1>30, <1>31,
     <1>32
  DEF Next, PlayerStep, WorkerStep, MainStep

\* q->bytes is the size of what is in the queue: no get or put miscounts,
\* whichever way the two threads interleave.
THEOREM BytesAreExact == Spec => []BytesExact
<1> DEFINE I == TypeOK /\ \A s \in Streams : Exact(s)
<1>1. Init => I
  <2> SUFFICES ASSUME Init PROVE I
    OBVIOUS
  <2>1. TypeOK
    BY TypeInit
  <2>2. \A s \in Streams : bytes[s] = 0 /\ queue[s] = <<>>
    BY DEF Init
  <2> QED
    BY <2>1, <2>2, TotalEmpty DEF Exact
<1>2. I /\ [Next]_vars => I'
  BY TypeStep, ExactStep
<1>3. I /\ BytesBounded => BytesExact
  BY DEF BytesExact, Exact, Total, Gone
<1> QED
  BY <1>1, <1>2, <1>3, QueuesAreBounded, PTL DEF Spec

-----------------------------------------------------------------------------
(***************************************************************************)
(* Who waits for whom.                                                     *)
(***************************************************************************)
Loop == {"read", "got", "decode", "admit", "lock", "link"}
Over == {"join"} \union Joining

\* The workers are told to end by Finish or Fail, both of them, and not before.
Told(s) == pc \in Over <=> ended[s] \/ abort[s]

\* What the player thread puts into a queue, it puts there for a decoder.
Wanted ==
  /\ pc \in {"admit", "lock", "link"} => Target \in decoders
  /\ pc = "decode" => "audio" \in decoders

\* A decoder's worker runs while packets come, unless a stop was requested, and
\* its queue's semaphore is there.
Served(s) ==
  /\ s \in decoders /\ (pc \in Loop \union {"play", "finish"} \/ (pc = "startAudio" /\ s = "video"))
       => Running(s) \/ cancel
  /\ s \in decoders /\ pc \in Loop \union {"play"} => lock[s] # "none"
  /\ lock[s] \in {"free", "none", "player", s}

\* Ended and aborted are what Finish, Fail and DestroyQueues set, for good.
LEMMA ToldStep ==
  ASSUME TypeOK, [Next]_vars, NEW s \in Streams, Told(s)
  PROVE  Told(s)'
<1> USE StreamNames DEF Told, Over, Joining, TypeOK, shared, player, queues, workers
<1>1. CASE OpenInput
  BY <1>1 DEF OpenInput
<1>2. CASE OpenVideo
  BY <1>2 DEF OpenVideo
<1>3. CASE OpenAudio
  BY <1>3 DEF OpenAudio
<1>4. CASE InitQueues
  BY <1>4 DEF InitQueues
<1>5. CASE StartVideo
  BY <1>5 DEF StartVideo, StartWorker
<1>6. CASE StartAudio
  BY <1>6 DEF StartAudio, StartWorker
<1>7. CASE Play
  BY <1>7 DEF Play
<1>8. CASE ReadFrame
  BY <1>8 DEF ReadFrame
<1>9. CASE EndOfInput
  BY <1>9 DEF EndOfInput
<1>10. CASE Dispatch
  BY <1>10 DEF Dispatch
<1>11. CASE DecodeAudio
  BY <1>11 DEF DecodeAudio
<1>12. CASE AudioPacketDone
  BY <1>12 DEF AudioPacketDone
<1>13. CASE PutAdmit
  BY <1>13 DEF PutAdmit
<1>14. CASE PutRefused
  BY <1>14 DEF PutRefused
<1>15. CASE PutLock
  BY <1>15 DEF PutLock
<1>16. CASE PutLink
  BY <1>16 DEF PutLink
<1>17. CASE Finish
  BY <1>17 DEF Finish, FinishedQueues
<1>18. CASE Fail
  BY <1>18 DEF Fail
<1>19. CASE Join
  BY <1>19 DEF Join
<1>20. CASE DestroyQueues
  BY <1>20 DEF DestroyQueues
<1>21. CASE CloseMedia
  BY <1>21 DEF CloseMedia
<1>22. CASE ThreadExit
  BY <1>22 DEF ThreadExit
<1>23. CASE \E t \in Streams : GetCheck(t)
  BY <1>23 DEF GetCheck
<1>24. CASE \E t \in Streams : GetLock(t)
  BY <1>24 DEF GetLock
<1>25. CASE \E t \in Streams : GetUnlink(t)
  BY <1>25 DEF GetUnlink
<1>26. CASE \E t \in Streams : GetEnded(t)
  BY <1>26 DEF GetEnded
<1>27. CASE \E t \in Streams : Use(t)
  BY <1>27 DEF Use
<1>28. CASE \E t \in Streams : FreePacket(t)
  BY <1>28 DEF FreePacket
<1>29. CASE VideoDecode
  BY <1>29 DEF VideoDecode
<1>30. CASE Stop
  BY <1>30 DEF Stop
<1>31. CASE TogglePause
  BY <1>31 DEF TogglePause
<1>32. CASE UNCHANGED vars
  BY <1>32 DEF vars
<1> QED
  BY <1>1, <1>2, <1>3, <1>4, <1>5, <1>6, <1>7, <1>8, <1>9, <1>10, <1>11,
     <1>12, <1>13, <1>14, <1>15, <1>16, <1>17, <1>18, <1>19, <1>20, <1>21,
     <1>22, <1>23, <1>24, <1>25, <1>26, <1>27, <1>28, <1>29, <1>30, <1>31,
     <1>32
  DEF Next, PlayerStep, WorkerStep, MainStep

\* Dispatch lets only a packet through that a decoder wants.
LEMMA WantedStep ==
  ASSUME TypeOK, Holding, [Next]_vars, Wanted
  PROVE  Wanted'
<1> USE StreamNames DEF Wanted, Target, shared, player, queues, workers
<1>1. CASE OpenInput
  BY <1>1 DEF OpenInput
<1>2. CASE OpenVideo
  BY <1>2 DEF OpenVideo
<1>3. CASE OpenAudio
  BY <1>3 DEF OpenAudio
<1>4. CASE InitQueues
  BY <1>4 DEF InitQueues
<1>5. CASE StartVideo
  BY <1>5 DEF StartVideo, StartWorker
<1>6. CASE StartAudio
  BY <1>6 DEF StartAudio, StartWorker
<1>7. CASE Play
  BY <1>7 DEF Play
<1>8. CASE ReadFrame
  BY <1>8 DEF ReadFrame
<1>9. CASE EndOfInput
  BY <1>9 DEF EndOfInput
<1>10. CASE Dispatch
  <2> USE <1>10 DEF Dispatch
  <2>1. CASE pc' = "admit"
    <3>1. pcm' = NoPacket /\ decoders' = decoders /\ packet.stream \in decoders /\ packet.stream = "video"
      BY <2>1 DEF Holding
    <3> QED
      BY <2>1, <3>1
  <2>2. CASE pc' = "decode"
    <3>1. packet.stream \in decoders /\ packet.stream # "video" /\ decoders \subseteq {"video", "audio"}
      BY <2>2 DEF TypeOK, Streams
    <3> QED
      BY <2>2, <3>1
  <2> QED
    BY <2>1, <2>2
<1>11. CASE DecodeAudio
  <2>1. nextid \in Nat /\ NoPacket.id = 0
    BY NoPacketType DEF TypeOK
  <2>2. pcm' # NoPacket
    BY <1>11, <2>1 DEF DecodeAudio
  <2> QED
    BY <1>11, <2>2 DEF DecodeAudio
<1>12. CASE AudioPacketDone
  BY <1>12 DEF AudioPacketDone
<1>13. CASE PutAdmit
  BY <1>13 DEF PutAdmit
<1>14. CASE PutRefused
  BY <1>14 DEF PutRefused
<1>15. CASE PutLock
  BY <1>15 DEF PutLock
<1>16. CASE PutLink
  BY <1>16 DEF PutLink
<1>17. CASE Finish
  BY <1>17 DEF Finish
<1>18. CASE Fail
  BY <1>18 DEF Fail
<1>19. CASE Join
  BY <1>19 DEF Join
<1>20. CASE DestroyQueues
  BY <1>20 DEF DestroyQueues
<1>21. CASE CloseMedia
  BY <1>21 DEF CloseMedia
<1>22. CASE ThreadExit
  BY <1>22 DEF ThreadExit
<1>23. CASE \E t \in Streams : GetCheck(t)
  BY <1>23 DEF GetCheck
<1>24. CASE \E t \in Streams : GetLock(t)
  BY <1>24 DEF GetLock
<1>25. CASE \E t \in Streams : GetUnlink(t)
  BY <1>25 DEF GetUnlink
<1>26. CASE \E t \in Streams : GetEnded(t)
  BY <1>26 DEF GetEnded
<1>27. CASE \E t \in Streams : Use(t)
  BY <1>27 DEF Use
<1>28. CASE \E t \in Streams : FreePacket(t)
  BY <1>28 DEF FreePacket
<1>29. CASE VideoDecode
  BY <1>29 DEF VideoDecode
<1>30. CASE Stop
  BY <1>30 DEF Stop
<1>31. CASE TogglePause
  BY <1>31 DEF TogglePause
<1>32. CASE UNCHANGED vars
  BY <1>32 DEF vars
<1> QED
  BY <1>1, <1>2, <1>3, <1>4, <1>5, <1>6, <1>7, <1>8, <1>9, <1>10, <1>11,
     <1>12, <1>13, <1>14, <1>15, <1>16, <1>17, <1>18, <1>19, <1>20, <1>21,
     <1>22, <1>23, <1>24, <1>25, <1>26, <1>27, <1>28, <1>29, <1>30, <1>31,
     <1>32
  DEF Next, PlayerStep, WorkerStep, MainStep

\* A worker leaves its loop only when it was told to, or for a stop.
LEMMA ServedStep ==
  ASSUME TypeOK, Lifecycle, LockHolders, [Next]_vars, NEW s \in Streams, Told(s), Served(s)
  PROVE  Served(s)'
<1>a. /\ Life(s) /\ DOMAIN lock = Streams /\ DOMAIN wpc = Streams
      /\ cancel \in BOOLEAN /\ (pc \in Over <=> ended[s] \/ abort[s])
  BY DEF TypeOK, Lifecycle, Told
<1> USE <1>a, StreamNames DEF Served, Loop, Over, Joining, Running, shared, player, queues, workers
<1>1. CASE OpenInput
  BY <1>1 DEF OpenInput
<1>2. CASE OpenVideo
  BY <1>2 DEF OpenVideo
<1>3. CASE OpenAudio
  BY <1>3 DEF OpenAudio
<1>4. CASE InitQueues
  BY <1>4 DEF InitQueues
<1>5. CASE StartVideo
  BY <1>5 DEF StartVideo, StartWorker, Life, Before
<1>6. CASE StartAudio
  BY <1>6 DEF StartAudio, StartWorker, Life, Before, Streams
<1>7. CASE Play
  BY <1>7 DEF Play
<1>8. CASE ReadFrame
  BY <1>8 DEF ReadFrame
<1>9. CASE EndOfInput
  BY <1>9 DEF EndOfInput
<1>10. CASE Dispatch
  BY <1>10 DEF Dispatch
<1>11. CASE DecodeAudio
  BY <1>11 DEF DecodeAudio
<1>12. CASE AudioPacketDone
  BY <1>12 DEF AudioPacketDone
<1>13. CASE PutAdmit
  BY <1>13 DEF PutAdmit
<1>14. CASE PutRefused
  BY <1>14 DEF PutRefused
<1>15. CASE PutLock
  BY <1>15 DEF PutLock
<1>16. CASE PutLink
  BY <1>16 DEF PutLink
<1>17. CASE Finish
  BY <1>17 DEF Finish
<1>18. CASE Fail
  BY <1>18 DEF Fail
<1>19. CASE Join
  BY <1>19 DEF Join
<1>20. CASE DestroyQueues
  BY <1>20 DEF DestroyQueues
<1>21. CASE CloseMedia
  BY <1>21 DEF CloseMedia
<1>22. CASE ThreadExit
  BY <1>22 DEF ThreadExit
<1>23. CASE \E t \in Streams : GetCheck(t)
  BY <1>23 DEF GetCheck
<1>24. CASE \E t \in Streams : GetLock(t)
  BY <1>24 DEF GetLock
<1>25. CASE \E t \in Streams : GetUnlink(t)
  BY <1>25 DEF GetUnlink
<1>26. CASE \E t \in Streams : GetEnded(t)
  BY <1>26 DEF GetEnded
<1>27. CASE \E t \in Streams : Use(t)
  BY <1>27 DEF Use
<1>28. CASE \E t \in Streams : FreePacket(t)
  BY <1>28 DEF FreePacket
<1>29. CASE VideoDecode
  BY <1>29 DEF VideoDecode
<1>30. CASE Stop
  BY <1>30 DEF Stop
<1>31. CASE TogglePause
  BY <1>31 DEF TogglePause
<1>32. CASE UNCHANGED vars
  BY <1>32 DEF vars
<1> QED
  BY <1>1, <1>2, <1>3, <1>4, <1>5, <1>6, <1>7, <1>8, <1>9, <1>10, <1>11,
     <1>12, <1>13, <1>14, <1>15, <1>16, <1>17, <1>18, <1>19, <1>20, <1>21,
     <1>22, <1>23, <1>24, <1>25, <1>26, <1>27, <1>28, <1>29, <1>30, <1>31,
     <1>32
  DEF Next, PlayerStep, WorkerStep, MainStep

\* No thread of the session waits for one that waits, too: the threads cannot
\* block each other for ever.
THEOREM WaitersAreServed == Spec => []WaitsAreServed
<1> DEFINE I == /\ IInv /\ Wanted
                /\ \A s \in Streams : Exact(s) /\ Told(s) /\ Served(s)
<1>1. Init => I
  <2> SUFFICES ASSUME Init PROVE I
    OBVIOUS
  <2>1. \A s \in Streams : Exact(s)
    <3>1. \A s \in Streams : bytes[s] = 0 /\ queue[s] = <<>>
      BY DEF Init
    <3> QED
      BY <3>1, TotalEmpty DEF Exact
  <2>2. Wanted /\ \A s \in Streams : Told(s) /\ Served(s)
    BY DEF Init, Wanted, Told, Served, Loop, Over, Joining
  <2> QED
    BY InvInit, <2>1, <2>2
<1>2. I /\ [Next]_vars => I'
  <2> SUFFICES ASSUME I, [Next]_vars PROVE I'
    OBVIOUS
  <2>1. TypeOK /\ Holding /\ Lifecycle /\ LockHolders
    BY DEF IInv
  <2> QED
    BY <2>1, InvStep, ExactStep, ToldStep, WantedStep, ServedStep
<1>3. I => WaitsAreServed
  <2> SUFFICES ASSUME I PROVE WaitsAreServed
    OBVIOUS
  <2>1. /\ TypeOK /\ LockHolders /\ Target \in Streams /\ Outgoing.size \in Nat
        /\ \A s \in Streams : Life(s) /\ Told(s) /\ Served(s) /\ Exact(s)
    BY PacketFields DEF IInv, Lifecycle, Target, Outgoing, TypeOK, Streams
  <2>2. ASSUME pc = "admit", ~PutGivesUp, ~HasRoom(Target, Outgoing)
        PROVE  Outgoing.size > Limit \/ (Running(Target) /\ queue[Target] # <<>>)
    <3>1. Running(Target)
      BY <2>1, <2>2 DEF PutGivesUp, Wanted, Served, Loop
    <3>2. bytes[Target] = Total(queue[Target])
      BY <2>1, <2>2 DEF Exact, Gone
    <3>3. bytes[Target] \in Int /\ ~(bytes[Target] + Outgoing.size <= Limit)
      BY <2>1, <2>2 DEF TypeOK, HasRoom
    <3>4. CASE queue[Target] = <<>>
      BY <2>1, <3>2, <3>3, <3>4, TotalEmpty, PipelineAssumption DEF PipelineAssumption
    <3> QED
      BY <3>1, <3>4
  <2>3. pc = "join" => \A s \in Streams : Running(s) => ended[s] \/ abort[s]
    BY <2>1 DEF Told, Over
  <2>4. ASSUME pc = "lock", ~LockFree(Target) PROVE wpc[Target] = "unlink"
    BY <2>1, <2>4, StreamNames DEF Wanted, Served, Loop, LockHolders, LockFree
  <2>5. ASSUME NEW s \in Streams, wpc[s] = "lock", ~LockFree(s)
        PROVE  pc = "link" /\ Target = s
    BY <2>1, <2>5, StreamNames DEF Served, Life, Running, LockHolders, LockFree
  <2> QED
    BY <2>2, <2>3, <2>4, <2>5 DEF WaitsAreServed
<1> QED
  BY <1>1, <1>2, <1>3, PTL DEF Spec
=============================================================================
