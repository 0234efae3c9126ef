--------------------------- MODULE ThumbnailsProofs --------------------------
(***************************************************************************)
(* Proofs about Thumbnails, for any number of rows and any URLs.           *)
(***************************************************************************)
EXTENDS Thumbnails, TLAPS

USE DEF slots, worker

Working == wpc \in {"begin", "download", "decode", "fail"}

\* Which slot the worker is on: a slot it is about to mark may have been
\* emptied and queued again, but has not been filled; one it has marked is the
\* only one that is loading.
WorkerSlot ==
  /\ wpc = "mark" => state[found] \in {0, 1}
  /\ \A i \in Rows : state[i] = 2 => i = found /\ Working

\* What the file holds was downloaded for the slot, whose URL stays until the
\* worker is done with it.
SlotImage ==
  /\ file # None => wpc \in {"decode", "fail"} /\ url[found] = file
  /\ wpc = "download" => url[found] \notin Local
  /\ wpc = "decode" => url[found] # None

\* TypeOK in two halves, since the provers take Booleans apart from numbers.
Flags ==
  /\ thumb_cancel \in BOOLEAN /\ thumb_suspended \in BOOLEAN
  /\ playing \in BOOLEAN /\ saving \in BOOLEAN

Values ==
  /\ list \in [Rows -> Urls]
  /\ state \in [Rows -> States]
  /\ url \in [Rows -> Urls \union {None}]
  /\ pixels \in [Rows -> Urls \union {None}]
  /\ wpc \in {"check", "scan", "mark", "begin", "download", "decode", "fail"}
  /\ found \in Rows
  /\ file \in Remote \union {None}
  /\ main \in {"idle", "reset", "play", "save"}

IInv ==
  /\ TypeOK /\ WorkerSlot /\ SlotImage
  /\ SlotIsMine /\ ReadyIsWhole

-----------------------------------------------------------------------------
\* The halves make the whole.
LEMMA TypeHalves == TypeOK <=> Flags /\ Values
BY DEF TypeOK, Flags, Values

\* The cache starts empty, and the worker with it.
LEMMA InvInit == Init => IInv
<1> SUFFICES ASSUME Init PROVE IInv
  OBVIOUS
<1> USE DEF Init
<1>1. 1 \in Rows
  BY ThumbnailsAssumption DEF ThumbnailsAssumption, Rows
<1>2. TypeOK
  <2>1. Flags
    BY DEF Flags
  <2>2. Values
    BY <1>1 DEF Values, States, Urls
  <2> QED
    BY <2>1, <2>2, TypeHalves
<1>3. WorkerSlot /\ SlotImage
  BY DEF WorkerSlot, SlotImage
<1>4. SlotIsMine /\ ReadyIsWhole
  BY DEF SlotIsMine, ReadyIsWhole
<1> QED
  BY <1>2, <1>3, <1>4 DEF IInv

\* Every step keeps the Boolean variables Boolean.
LEMMA FlagsStep == Flags /\ [Next]_vars => Flags'
<1> SUFFICES ASSUME Flags, [Next]_vars PROVE Flags'
  OBVIOUS
<1> USE DEF Flags
<1>1. CASE Check
  BY <1>1 DEF Check
<1>2. CASE Scan
  BY <1>2 DEF Scan
<1>3. CASE Mark
  BY <1>3 DEF Mark
<1>4. CASE Begin
  BY <1>4 DEF Begin
<1>5. CASE Download
  BY <1>5 DEF Download
<1>6. CASE Decode
  BY <1>6 DEF Decode
<1>7. CASE Fail
  BY <1>7 DEF Fail
<1>8. CASE NewList
  BY <1>8 DEF NewList
<1>9. CASE ResetDone
  BY <1>9 DEF ResetDone
<1>10. CASE ReloadFavorites
  BY <1>10 DEF ReloadFavorites
<1>11. CASE Suspend
  BY <1>11 DEF Suspend
<1>12. CASE SuspendDone
  BY <1>12 DEF SuspendDone
<1>13. CASE LeavePlayer
  BY <1>13 DEF LeavePlayer
<1>14. CASE ShowPlayer
  BY <1>14 DEF ShowPlayer
<1>15. CASE \E i \in Rows : Draw(i)
  BY <1>15 DEF Draw
<1>16. CASE SaveDone
  BY <1>16 DEF SaveDone
<1>17. CASE UNCHANGED vars
  BY <1>17 DEF vars
<1> QED
  BY <1>1, <1>2, <1>3, <1>4, <1>5, <1>6, <1>7, <1>8, <1>9, <1>10, <1>11,
     <1>12, <1>13, <1>14, <1>15, <1>16, <1>17 DEF Next, MainStep, WorkerStep

\* Every step keeps the types of the others.
LEMMA ValuesStep == Values /\ WorkerSlot /\ SlotImage /\ [Next]_vars => Values'
<1> SUFFICES ASSUME Values, WorkerSlot, SlotImage, [Next]_vars PROVE Values'
  OBVIOUS
<1> USE DEF Values
<1>1. CASE Check
  BY <1>1, ThumbnailsAssumption DEF Check, ThumbnailsAssumption, Rows
<1>2. CASE Scan
  BY <1>2, ThumbnailsAssumption DEF Scan, ThumbnailsAssumption, Rows
<1>3. CASE Mark
  BY <1>3 DEF Mark, States
<1>4. CASE Begin
  BY <1>4 DEF Begin
<1>5. CASE Download
  BY <1>5 DEF Download, SlotImage, Urls
<1>6. CASE Decode
  BY <1>6 DEF Decode, Image, States, Urls
<1>7. CASE Fail
  BY <1>7 DEF Fail, GiveUp, States
<1>8. CASE NewList
  BY <1>8 DEF NewList
<1>9. CASE ResetDone
  BY <1>9 DEF ResetDone, States
<1>10. CASE ReloadFavorites
  BY <1>10 DEF ReloadFavorites
<1>11. CASE Suspend
  BY <1>11 DEF Suspend
<1>12. CASE SuspendDone
  BY <1>12 DEF SuspendDone
<1>13. CASE LeavePlayer
  BY <1>13 DEF LeavePlayer
<1>14. CASE ShowPlayer
  BY <1>14 DEF ShowPlayer
<1>15. CASE \E i \in Rows : Draw(i)
  BY <1>15 DEF Draw, States, Urls
<1>16. CASE SaveDone
  BY <1>16 DEF SaveDone
<1>17. CASE UNCHANGED vars
  BY <1>17 DEF vars
<1> QED
  BY <1>1, <1>2, <1>3, <1>4, <1>5, <1>6, <1>7, <1>8, <1>9, <1>10, <1>11,
     <1>12, <1>13, <1>14, <1>15, <1>16, <1>17 DEF Next, MainStep, WorkerStep

\* The worker's slot stays its own.
LEMMA SlotStep ==
  Values /\ WorkerSlot /\ SlotIsMine /\ [Next]_vars
    => WorkerSlot' /\ SlotIsMine'
<1> SUFFICES ASSUME Values, WorkerSlot, SlotIsMine, [Next]_vars
             PROVE  WorkerSlot' /\ SlotIsMine'
  OBVIOUS
<1> USE DEF Values, WorkerSlot, SlotIsMine, Working
<1>1. CASE Check
  BY <1>1 DEF Check
<1>2. CASE Scan
  BY <1>2 DEF Scan, Rows
<1>3. CASE Mark
  BY <1>3 DEF Mark
<1>4. CASE Begin
  BY <1>4 DEF Begin
<1>5. CASE Download
  BY <1>5 DEF Download
<1>6. CASE Decode
  BY <1>6 DEF Decode
<1>7. CASE Fail
  BY <1>7 DEF Fail, GiveUp
<1>8. CASE NewList
  BY <1>8 DEF NewList
<1>9. CASE ResetDone
  BY <1>9 DEF ResetDone, Quiet
<1>10. CASE ReloadFavorites
  BY <1>10 DEF ReloadFavorites
<1>11. CASE Suspend
  BY <1>11 DEF Suspend
<1>12. CASE SuspendDone
  BY <1>12 DEF SuspendDone
<1>13. CASE LeavePlayer
  BY <1>13 DEF LeavePlayer
<1>14. CASE ShowPlayer
  BY <1>14 DEF ShowPlayer
<1>15. CASE \E i \in Rows : Draw(i)
  BY <1>15 DEF Draw, Queueable
<1>16. CASE SaveDone
  BY <1>16 DEF SaveDone
<1>17. CASE UNCHANGED vars
  BY <1>17 DEF vars
<1> QED
  BY <1>1, <1>2, <1>3, <1>4, <1>5, <1>6, <1>7, <1>8, <1>9, <1>10, <1>11,
     <1>12, <1>13, <1>14, <1>15, <1>16, <1>17 DEF Next, MainStep, WorkerStep

\* What the worker decodes is its slot's URL.
LEMMA ImageStep ==
  Values /\ WorkerSlot /\ SlotIsMine /\ SlotImage /\ [Next]_vars
    => SlotImage'
<1> SUFFICES ASSUME Values, WorkerSlot, SlotIsMine, SlotImage, [Next]_vars
             PROVE  SlotImage'
  OBVIOUS
<1> USE DEF Values, WorkerSlot, SlotIsMine, SlotImage, Working
<1>1. CASE Check
  BY <1>1 DEF Check
<1>2. CASE Scan
  BY <1>2 DEF Scan
<1>3. CASE Mark
  BY <1>3 DEF Mark
<1>4. CASE Begin
  BY <1>4, ThumbnailsAssumption DEF Begin, ThumbnailsAssumption
<1>5. CASE Download
  BY <1>5 DEF Download
<1>6. CASE Decode
  BY <1>6 DEF Decode
<1>7. CASE Fail
  BY <1>7 DEF Fail
<1>8. CASE NewList
  BY <1>8 DEF NewList
<1>9. CASE ResetDone
  BY <1>9 DEF ResetDone, Quiet
<1>10. CASE ReloadFavorites
  BY <1>10 DEF ReloadFavorites
<1>11. CASE Suspend
  BY <1>11 DEF Suspend
<1>12. CASE SuspendDone
  BY <1>12 DEF SuspendDone
<1>13. CASE LeavePlayer
  BY <1>13 DEF LeavePlayer
<1>14. CASE ShowPlayer
  BY <1>14 DEF ShowPlayer
<1>15. CASE \E i \in Rows : Draw(i)
  BY <1>15 DEF Draw, Queueable
<1>16. CASE SaveDone
  BY <1>16 DEF SaveDone
<1>17. CASE UNCHANGED vars
  BY <1>17 DEF vars
<1> QED
  BY <1>1, <1>2, <1>3, <1>4, <1>5, <1>6, <1>7, <1>8, <1>9, <1>10, <1>11,
     <1>12, <1>13, <1>14, <1>15, <1>16, <1>17 DEF Next, MainStep, WorkerStep

\* Images stay whole, and none is lost.
LEMMA ReadyStep ==
  Values /\ WorkerSlot /\ SlotIsMine /\ SlotImage /\ ReadyIsWhole /\ [Next]_vars
    => ReadyIsWhole'
<1> SUFFICES ASSUME Values, WorkerSlot, SlotIsMine, SlotImage, ReadyIsWhole, [Next]_vars
             PROVE  ReadyIsWhole'
  OBVIOUS
<1> USE DEF Values, WorkerSlot, SlotIsMine, SlotImage, ReadyIsWhole, Working
<1>1. CASE Check
  BY <1>1 DEF Check
<1>2. CASE Scan
  BY <1>2 DEF Scan
<1>3. CASE Mark
  BY <1>3 DEF Mark
<1>4. CASE Begin
  BY <1>4 DEF Begin
<1>5. CASE Download
  BY <1>5 DEF Download
<1>6. CASE Decode
  <2>1. Image = url[found] /\ url[found] # None /\ state[found] = 2
    BY <1>6 DEF Decode, Image
  <2> QED
    BY <1>6, <2>1 DEF Decode
<1>7. CASE Fail
  BY <1>7 DEF Fail, GiveUp
<1>8. CASE NewList
  BY <1>8 DEF NewList
<1>9. CASE ResetDone
  BY <1>9 DEF ResetDone, Quiet
<1>10. CASE ReloadFavorites
  BY <1>10 DEF ReloadFavorites
<1>11. CASE Suspend
  BY <1>11 DEF Suspend
<1>12. CASE SuspendDone
  BY <1>12 DEF SuspendDone
<1>13. CASE LeavePlayer
  BY <1>13 DEF LeavePlayer
<1>14. CASE ShowPlayer
  BY <1>14 DEF ShowPlayer
<1>15. CASE \E i \in Rows : Draw(i)
  BY <1>15 DEF Draw, Queueable
<1>16. CASE SaveDone
  BY <1>16 DEF SaveDone
<1>17. CASE UNCHANGED vars
  BY <1>17 DEF vars
<1> QED
  BY <1>1, <1>2, <1>3, <1>4, <1>5, <1>6, <1>7, <1>8, <1>9, <1>10, <1>11,
     <1>12, <1>13, <1>14, <1>15, <1>16, <1>17 DEF Next, MainStep, WorkerStep

-----------------------------------------------------------------------------
\* The inductive invariant.
THEOREM Invariance == Spec => []IInv
<1>1. IInv /\ [Next]_vars => IInv'
  <2> SUFFICES ASSUME IInv, [Next]_vars PROVE IInv'
    OBVIOUS
  <2>1. Flags /\ Values
    BY TypeHalves DEF IInv
  <2>2. Flags' /\ Values'
    BY <2>1, FlagsStep, ValuesStep DEF IInv
  <2>3. TypeOK'
    BY <2>2, TypeHalves, PTL
  <2>4. WorkerSlot' /\ SlotIsMine' /\ SlotImage' /\ ReadyIsWhole'
    BY <2>1, SlotStep, ImageStep, ReadyStep DEF IInv
  <2> QED
    BY <2>3, <2>4 DEF IInv
<1> QED
  BY InvInit, <1>1, PTL DEF Spec

\* Every variable has its type.
THEOREM TypeCorrect == Spec => []TypeOK
<1>1. IInv => TypeOK
  BY DEF IInv
<1> QED
  BY Invariance, <1>1, PTL

\* No reset and no drawing takes a slot from the worker while it fills it.
THEOREM SlotsAreTheWorkers == Spec => []SlotIsMine
<1>1. IInv => SlotIsMine
  BY DEF IInv
<1> QED
  BY Invariance, <1>1, PTL

\* A ready image was decoded from its slot's URL, one slot at most loads, and
\* every image is in a ready slot, where the next reset frees it.
THEOREM ImagesAreWhole == Spec => []ReadyIsWhole
<1>1. IInv => ReadyIsWhole
  BY DEF IInv
<1> QED
  BY Invariance, <1>1, PTL

\* The main thread that waits for a loading slot waits for a worker that is at
\* work on that very slot, and not for one that sleeps because it is suspended.
THEOREM WaitsForTheWorker ==
  Spec => [](\A i \in Rows : state[i] = 2 => i = found /\ Working)
<1>1. IInv => \A i \in Rows : state[i] = 2 => i = found /\ Working
  BY DEF IInv, WorkerSlot
<1> QED
  BY Invariance, <1>1, PTL

-----------------------------------------------------------------------------
(***************************************************************************)
(* Thumbnails implements ThumbnailCache.                                   *)
(***************************************************************************)

\* What a row is drawn with.
Shown == [i \in Rows |-> IF state[i] = 3 THEN pixels[i] ELSE None]

\* A step that changes no list, no URL and nothing that is drawn is hidden.
LEMMA HiddenStep ==
  ASSUME UNCHANGED <<list, url>>,
         \A i \in Rows : (state'[i] = 3 <=> state[i] = 3)
                        /\ (state[i] = 3 => pixels'[i] = pixels[i])
  PROVE  UNCHANGED Cache!cache
<1>1. Shown' = Shown
  BY DEF Shown
<1> QED
  BY <1>1 DEF Shown, Cache!cache

\* Every step is one of the cache, or hidden.
LEMMA CacheStep == IInv /\ [Next]_vars => [Cache!Next]_(Cache!cache)
<1> SUFFICES ASSUME IInv, [Next]_vars PROVE Cache!Next \/ UNCHANGED Cache!cache
  OBVIOUS
<1>0. Values /\ WorkerSlot /\ SlotImage /\ SlotIsMine /\ ReadyIsWhole
  BY TypeHalves DEF IInv
<1>1. CASE Check
  BY <1>1, HiddenStep DEF Check
<1>2. CASE Scan
  BY <1>2, HiddenStep DEF Scan
<1>3. CASE Mark
  <2>1. state[found] # 3
    BY <1>0, <1>3 DEF Mark, WorkerSlot
  <2> QED
    BY <1>0, <1>3, <2>1, HiddenStep DEF Mark, Values
<1>4. CASE Begin
  BY <1>4, HiddenStep DEF Begin
<1>5. CASE Download
  BY <1>5, HiddenStep DEF Download
<1>6. CASE Decode
  <2>1. state[found] = 2 /\ found \in Rows /\ UNCHANGED <<list, url>>
    BY <1>0, <1>6 DEF Decode, SlotIsMine, Values
  <2>2. CASE UNCHANGED <<pixels, state>>
    BY <2>1, <2>2, HiddenStep
  <2>3. CASE /\ pixels' = [pixels EXCEPT ![found] = Image]
             /\ state' = [state EXCEPT ![found] = 3]
    <3>1. Image = url[found] /\ url[found] # None
      BY <1>0, <1>6 DEF Decode, Image, SlotImage
    <3>2. \A i \in Rows : /\ state'[i] = IF i = found THEN 3 ELSE state[i]
                          /\ pixels'[i] = IF i = found THEN url[found] ELSE pixels[i]
      BY <1>0, <2>3, <3>1 DEF Values
    <3>3. Shown[found] = None
      BY <2>1 DEF Shown
    <3>4. Shown' = [Shown EXCEPT ![found] = url[found]]
      BY <3>2 DEF Shown
    <3> PICK i \in Rows : i = found
      BY <2>1
    <3>5. Cache!Fill(i)
      BY <2>1, <3>1, <3>3, <3>4 DEF Cache!Fill, Shown
    <3> QED
      BY <3>5 DEF Cache!Next
  <2> QED
    BY <1>6, <2>2, <2>3 DEF Decode
<1>7. CASE Fail
  <2>1. state[found] = 2 /\ GiveUp # 3
    BY <1>0, <1>7 DEF Fail, SlotIsMine, GiveUp
  <2> QED
    BY <1>0, <1>7, <2>1, HiddenStep DEF Fail, Values
<1>8. CASE NewList
  BY <1>8, HiddenStep DEF NewList
<1>9. CASE ResetDone
  <2>1. Shown' = Cache!Blank
    BY <1>9 DEF ResetDone, Shown, Cache!Blank
  <2>2. Cache!Replace
    BY <1>9, <2>1 DEF ResetDone, Shown, Cache!Replace, Cache!Blank
  <2> QED
    BY <2>2 DEF Cache!Next
<1>10. CASE ReloadFavorites
  <2>1. Cache!Relist
    BY <1>10 DEF ReloadFavorites, Cache!Relist
  <2> QED
    BY <2>1 DEF Cache!Next
<1>11. CASE Suspend
  BY <1>11, HiddenStep DEF Suspend
<1>12. CASE SuspendDone
  BY <1>12, HiddenStep DEF SuspendDone
<1>13. CASE LeavePlayer
  BY <1>13, HiddenStep DEF LeavePlayer
<1>14. CASE ShowPlayer
  BY <1>14, HiddenStep DEF ShowPlayer
<1>15. CASE \E i \in Rows : Draw(i)
  <2> PICK i \in Rows : Draw(i)
    BY <1>15
  <2>1. Shown[i] = None /\ Shown' = Shown
    BY <1>0 DEF Draw, Queueable, Shown, Values
  <2>2. Cache!Want(i)
    BY <2>1 DEF Draw, Shown, Cache!Want
  <2> QED
    BY <2>2 DEF Cache!Next
<1>16. CASE SaveDone
  BY <1>16, HiddenStep DEF SaveDone
<1>17. CASE UNCHANGED vars
  BY <1>17, HiddenStep DEF vars
<1> QED
  BY <1>1, <1>2, <1>3, <1>4, <1>5, <1>6, <1>7, <1>8, <1>9, <1>10, <1>11,
     <1>12, <1>13, <1>14, <1>15, <1>16, <1>17 DEF Next, MainStep, WorkerStep

\* What is drawn comes from a cache as ThumbnailCache specifies it.
THEOREM ImplementsCache == Spec => CacheSpec
<1>1. Init => Cache!Init
  BY DEF Init, Cache!Init, Cache!Blank
<1> QED
  BY <1>1, CacheStep, Invariance, PTL DEF Spec, CacheSpec, Cache!Spec
=============================================================================
