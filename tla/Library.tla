------------------------------- MODULE Library -------------------------------
(***************************************************************************)
(* Browsing and saving together, on one memory stick: the save thread      *)
(* creates, empties and removes files that the main thread lists, renames  *)
(* and deletes.                                                            *)
(***************************************************************************)
EXTENDS Browse, SaveJob

vars == <<stick, browse, save>>

Init == StickInit /\ BrowseInit /\ SaveInit

\* The user saves a row of a site, below the Favorites directory: the menu of
\* the playlist and of a feed's items has no Save.
SaveAs ==
  /\ source = "Site"
  /\ rows # {}
  /\ \E n \in Media : DirOf[n] = Root /\ SaveStart(n)
  /\ UNCHANGED browse

\* While the main thread waits for an old save thread, it handles no button.
Browsing == main = "free" /\ BrowseNext /\ UNCHANGED save

Saving == SaveNext /\ UNCHANGED browse

Next == SaveAs \/ Browsing \/ Saving

Spec == Init /\ [][Next]_vars

-----------------------------------------------------------------------------
(***************************************************************************)
(* What must hold.                                                         *)
(***************************************************************************)

\* Every variable has its type (the statics of local.c, menu.c, save.c and
\* input.c).
TypeOK ==
  /\ StickTypeOK
  /\ source \in Sources /\ folder \in Folders
  /\ rows \subseteq Rows /\ first \in Nat /\ last \in Nat /\ total \in Nat
  /\ page \in Nat \ {0} /\ turned \in BOOLEAN
  /\ playlist \in Seq(Rows) /\ Len(playlist) <= PlaylistMax
  /\ cursor \in -1 .. PlaylistMax
  /\ save_state \in {-1, 0, 1, 2}
  /\ path \in Media \union {NoPath}
  /\ main \in {"free", "joining"}
  /\ worker \in {"none", "thumb", "thumb body", "video", "video body", "leaving"}

\* The playlist has no item twice, so that removing one by its URL removes it,
\* and an item is found where the cursor points.
PlaylistUnique ==
  \A i, j \in DOMAIN playlist : playlist[i] = playlist[j] => i = j

\* A file that is in the playlist can be played: what GoTube renames or
\* deletes leaves it.  Only a failed save takes a file away behind its back.
PlaylistPlayable ==
  \A i \in DOMAIN playlist :
    playlist[i] \in Media => Present(playlist[i]) \/ playlist[i] \in lost

\* R always finds rows, if the list has as many as when it was loaded, they all
\* got one, and the page is the one that was asked for: the next page of the
\* source is not empty.  A site counts its pages itself.
PagingFindsRows ==
  CanNext /\ ~turned /\ source # "Site" =>
    CASE source = "Favorites" ->
           LET all == Entries(content, folder)
           IN  total = Cardinality(all) /\ (\A e \in all : Appended(content, e))
                 => EntriesOn(content, folder, page + 1) # {}
      [] source = "Playlist" -> total = Len(playlist) => SongsOn(page + 1) # {}

\* The save thread's URL and paths are not written while it may read them.
Reading == worker \in {"thumb", "thumb body", "video", "video body"}

BuffersUndisturbed == [][Reading => UNCHANGED path]_vars

\* When no save is on, no download that failed has left a part of its file, at
\* whichever point it failed, unless the user renamed it while it was written.
\* A file that the server cut short is no failure to the code (http.c:192): it
\* stays, as "short", and the save says that it succeeded.
NoPartLeft ==
  save_state # 1 /\ ~touched => \A p \in Paths : content[p] # "part"
=============================================================================
