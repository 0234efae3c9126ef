---------------------------- MODULE ThumbnailCache ----------------------------
(***************************************************************************)
(* What the drawing of the result list relies on of the thumbnail cache    *)
(* (src/src/gui/thumbnail.c): a row that is drawn asks for its thumbnail,  *)
(* and the image it gets some time later is the whole image that it asked  *)
(* for, and stays until all images go because the list changes.  Slots in  *)
(* the making, the worker, its download and its cancellations are hidden.  *)
(* Thumbnails implements this specification.                               *)
(***************************************************************************)
CONSTANTS Rows, Urls, None

VARIABLES
  list,     \* the URLs of the thumbnails of the list
  wanted,   \* the URL that a row has asked for
  shown     \* the image that a row is drawn with

cache == <<list, wanted, shown>>

Blank == [i \in Rows |-> None]

Init == list \in [Rows -> Urls] /\ wanted = Blank /\ shown = Blank

\* A row without an image asks, perhaps again, and perhaps for another URL.
Want(i) ==
  /\ shown[i] = None
  /\ wanted' = [wanted EXCEPT ![i] = list[i]]
  /\ UNCHANGED <<list, shown>>

\* The image is there, at once.
Fill(i) ==
  /\ wanted[i] # None /\ shown[i] = None
  /\ shown' = [shown EXCEPT ![i] = wanted[i]]
  /\ UNCHANGED <<list, wanted>>

\* Another list.
Replace ==
  /\ list' \in [Rows -> Urls]
  /\ wanted' = Blank /\ shown' = Blank

\* Another list, of which the cache is not told.
Relist == list' \in [Rows -> Urls] /\ UNCHANGED <<wanted, shown>>

Next == Replace \/ Relist \/ \E i \in Rows : Want(i) \/ Fill(i)

Spec == Init /\ [][Next]_cache
=============================================================================
