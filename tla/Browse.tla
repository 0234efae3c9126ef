-------------------------------- MODULE Browse -------------------------------
(***************************************************************************)
(* The lists a user browses: Favorites, which scans a directory of the     *)
(* stick (src/src/media/local.c), Playlist, an array in memory             *)
(* (src/src/gui/menu.c), and a site, whose results are some videos; their  *)
(* pages as src/src/boot/input.c turns them; renaming and deleting a file. *)
(* The row a button acts on is any row of the list, so that the rows are a *)
(* set: their order within a page makes no difference.                     *)
(***************************************************************************)
EXTENDS Stick, FiniteSets

CONSTANTS
  Slot,         \* where in its directory a scan meets an entry
  Parent,       \* the row ".." of a directory other than Root
  Videos,       \* what a site lists
  SiteTotal,    \* bound on the number of results a site announces
  Items,        \* what a feed lists
  PageRows,     \* rows of a page, 10 in local.c and menu.c
  PlaylistMax   \* PLAYLIST_MAX, 64

Rows == Media \union Folders \union {Parent} \union Videos \union Items

ASSUME BrowseAssumption ==
  /\ Slot \in [Media \union Folders \union {Parent} -> Nat]
  /\ \A d, e \in DOMAIN Slot : Slot[d] = Slot[e] => d = e
  /\ IsFiniteSet(Media) /\ IsFiniteSet(Folders)
  /\ PageRows \in Nat \ {0} /\ PlaylistMax \in Nat /\ SiteTotal \in Nat
  /\ Parent \notin Media \union Folders \union Videos \union Items
  /\ (Videos \union Items) \intersect (Media \union Folders) = {}

VARIABLES
  source,    \* g_site_sel
  folder,    \* favorite_dir
  rows,      \* g_results
  first,     \* g_result_start
  last,      \* g_result_end
  total,     \* g_result_total
  page,      \* g_current_page
  turned,    \* history: the rows are not those of page number page
  playlist,  \* playlist
  cursor     \* playlist_cursor, from 0, or -1

shown == <<rows, first, last, total>>
place == <<source, folder, page, turned>>
songs == <<playlist, cursor>>
browse == <<shown, place, songs>>

Sources == {"Favorites", "Playlist", "Site"}

BrowseInit ==
  /\ source = "Favorites" /\ folder = Root
  /\ rows = {} /\ first = 0 /\ last = 0 /\ total = 0
  /\ page = 1 /\ turned = FALSE
  /\ playlist = <<>> /\ cursor = -1

-----------------------------------------------------------------------------
(***************************************************************************)
(* Loading a page.                                                         *)
(***************************************************************************)

\* The entries of a directory that are not hidden: ".." but in Root, the
\* directories, the files but sidecars.
Listed(c, f, e) ==
  \/ e = Parent /\ f # Root
  \/ e \in Folders \ {Root} /\ DirOf[e] = f
  \/ e \in Media /\ DirOf[e] = f /\ c[e] # "none"

Entries(c, f) == {e \in DOMAIN Slot : Listed(c, f, e)}

\* An .ashx that does not parse as a feed gets no row.
Appended(c, e) == e \in Feeds => c[e] = "feed"

\* What comes n-th, from 0, is on the p-th page.
OnPage(n, p) == (p - 1) * PageRows <= n /\ n < p * PageRows

\* The entries of a page, by the number of entries that a scan has met before.
EntriesOn(c, f, p) ==
  LET all == Entries(c, f)
  IN  {e \in all : OnPage(Cardinality({x \in all : Slot[x] < Slot[e]}), p)}

\* The indices of the playlist that are on a page.
SongsOn(p) == {i \in DOMAIN playlist : OnPage(i - 1, p)}

\* The limits of a page as the code counts them: k rows, of n in all.
Shows(new, k, p, n) ==
  /\ rows' = new
  /\ first' = IF k = 0 THEN 0 ELSE (p - 1) * PageRows + 1
  /\ last' = (p - 1) * PageRows + k
  /\ total' = n

\* load_favorites, which empties the list if the directory does not open.  All
\* entries count for the total, those that got a row for the end of the page.
LoadFavorites(c, f, p) ==
  \/ LET new == {e \in EntriesOn(c, f, p) : Appended(c, e)}
     IN  Shows(new, Cardinality(new), p, Cardinality(Entries(c, f)))
  \/ rows' = {} /\ total' = 0 /\ UNCHANGED <<first, last>>

\* go_playlist_load_page: past the end, the count is zero.
LoadPlaylist(p) ==
  Shows({playlist[i] : i \in SongsOn(p)}, Cardinality(SongsOn(p)), p, Len(playlist))

\* A site's script answers with a video, one of the results that it announces,
\* or with nothing.
LoadSite(p) ==
  \/ Shows({}, 0, 1, 0)
  \/ \E e \in Videos, n \in 1 .. SiteTotal : Shows({e}, 1, p, n)

LoadPage(p) ==
  CASE source = "Favorites" -> LoadFavorites(content, folder, p)
    [] source = "Playlist" -> LoadPlaylist(p)
    [] source = "Site" -> LoadSite(p)

\* search_page.
SearchPage(p) ==
  /\ LoadPage(p)
  /\ page' = p /\ turned' = FALSE
  /\ UNCHANGED <<source, folder, songs, stick>>

-----------------------------------------------------------------------------
(***************************************************************************)
(* The buttons of the list.                                                *)
(***************************************************************************)

\* Select: the list is emptied, and searched some frames later.
SelectSource ==
  /\ source' \in Sources \ {source}
  /\ rows' = {} /\ first' = 0 /\ last' = 0 /\ total' = 0
  /\ page' = 1 /\ turned' = FALSE
  /\ UNCHANGED <<folder, songs, stick>>

\* The first page of the source: at the start, some frames after a Select, or
\* for a tag of a video.
FirstPage == (rows = {} \/ source = "Site") /\ SearchPage(1)

\* R.
CanNext == last > 0 /\ last < total
NextPage == CanNext /\ SearchPage(page + 1)

\* L.
CanPrevious == first > 1
PreviousPage == CanPrevious /\ SearchPage(IF page > 1 THEN page - 1 ELSE 1)

MutantGoTo(f) ==
  /\ folder' = f
  /\ LoadFavorites(content, f, 1)
  /\ turned' = (source # "Favorites")
  /\ UNCHANGED <<source, page, songs, stick>>

\* go_source_enter and go_source_parent: the folder's first page.
GoTo(f) ==
  /\ folder' = f
  /\ LoadFavorites(content, f, 1)
  /\ page' = 1 /\ turned' = (source # "Favorites")
  /\ UNCHANGED <<source, songs, stick>>

\* Also of a folder in the playlist: the rows are then those of Favorites.
EnterFolder(e) == e \in Folders /\ GoTo(e)
EnterParent(e) == e = Parent /\ folder # Root /\ GoTo(DirOf[folder])

\* A feed that still parses replaces the list by its items, which have no other
\* page.
EnterFeed(e) ==
  /\ e \in Feeds /\ content[e] = "feed"
  /\ \/ Shows({}, 0, 1, 0)
     \/ \E i \in Items : Shows({i}, 1, 1, 1)
  /\ page' = 1 /\ turned' = FALSE
  /\ UNCHANGED <<source, folder, songs, stick>>

\* A feed that no longer parses, or ".." of the playlist when Favorites is at its
\* root: go_source_enter fails, and the page number is reset all the same.
EnterFails(e) ==
  /\ \/ e \in Feeds /\ content[e] # "feed"
     \/ e = Parent /\ folder = Root
  /\ page' = 1 /\ turned' = (turned \/ page # 1)
  /\ UNCHANGED <<source, folder, shown, songs, stick>>

Enter ==
  \E e \in rows :
    EnterFolder(e) \/ EnterParent(e) \/ EnterFeed(e) \/ EnterFails(e)

-----------------------------------------------------------------------------
(***************************************************************************)
(* The menu's actions on a row.                                            *)
(***************************************************************************)

\* playlist_index, and the removal of what it finds first.
IsFirst(s, e, i) == s[i] = e /\ \A j \in 1 .. i - 1 : s[j] # e

Without(s, e) ==
  IF \E i \in DOMAIN s : IsFirst(s, e, i)
  THEN LET i == CHOOSE i \in DOMAIN s : IsFirst(s, e, i)
       IN  [k \in 1 .. Len(s) - 1 |-> s[IF k < i THEN k ELSE k + 1]]
  ELSE s

MutantAdd(e) ==
  /\ Len(playlist) < PlaylistMax
  /\ playlist' = Append(playlist, e)

\* go_playlist_add: an item is in the list once, and there are not too many.
Add(e) ==
  /\ \A i \in DOMAIN playlist : playlist[i] # e
  /\ Len(playlist) < PlaylistMax
  /\ playlist' = Append(playlist, e)

AddToPlaylist ==
  /\ source # "Playlist"
  /\ \E e \in rows : Add(e)
  /\ UNCHANGED <<shown, place, cursor, stick>>

\* go_playlist_remove: the rows shown stay, the cursor too.
RemoveFromPlaylist ==
  /\ source = "Playlist"
  /\ \E e \in rows : playlist' = Without(playlist, e)
  /\ UNCHANGED <<shown, place, cursor, stick>>

\* go_playlist_first.
PlayFirst ==
  /\ source # "Playlist" /\ playlist # <<>>
  /\ cursor' = 0
  /\ UNCHANGED <<shown, place, playlist, stick>>

MutantStepped(d) == IF cursor + d < 0 THEN Len(playlist) - 1 ELSE cursor + d

\* go_playlist_step: the cursor wraps round at both ends.
Stepped(d) ==
  CASE cursor + d < 0 -> Len(playlist) - 1
    [] cursor + d >= Len(playlist) -> 0
    [] OTHER -> cursor + d

PlayNext ==
  /\ playlist # <<>> /\ cursor >= 0
  /\ \E d \in {-1, 1} : cursor' = Stepped(d)
  /\ UNCHANGED <<shown, place, playlist, stick>>

\* The row is a file that go_local_rename and go_local_delete accept.
OwnFile(n) == n \in rows \intersect (Media \ Feeds)

\* The page shown is the first one, whatever g_current_page says.
BackToFirst(c) ==
  /\ LoadFavorites(c, folder, 1)
  /\ turned' = (page # 1)
  /\ UNCHANGED <<source, folder, page, cursor>>

MutantRename(n, m) ==
  /\ source # "Playlist" /\ OwnFile(n) /\ m \in Media /\ DirOf[m] = DirOf[n]
  /\ Present(n) /\ ~Present(m)
  /\ content' = Renamed(Renamed(content, n, m), Sidecar[n], Sidecar[m])
  /\ fd' = CASE fd = n -> m [] OTHER -> fd
  /\ touched' = (touched \/ fd # NoPath)
  /\ lost' = lost \ {m}
  /\ UNCHANGED playlist
  /\ BackToFirst(content')

\* go_local_rename, when the firmware can: the sidecar follows if it can, the
\* old path leaves the playlist.  An open file goes on being written.
Rename(n, m) ==
  /\ source # "Playlist" /\ OwnFile(n) /\ m \in Media /\ DirOf[m] = DirOf[n]
  /\ Present(n) /\ ~Present(m)
  /\ content' = Renamed(Renamed(content, n, m), Sidecar[n], Sidecar[m])
  /\ fd' = CASE fd = n -> m
             [] fd = Sidecar[n] /\ content'[fd] = "none" -> Sidecar[m]
             [] OTHER -> fd
  /\ touched' = (touched \/ fd # fd')
  /\ playlist' = Without(playlist, n)
  /\ lost' = lost \ {m}
  /\ BackToFirst(content')

\* go_local_delete: the sidecar goes too.  The bytes of an open file go
\* nowhere from now on.
Delete(n) ==
  /\ source # "Playlist" /\ OwnFile(n) /\ Present(n)
  /\ content' = Removed(Removed(content, n), Sidecar[n])
  /\ fd' = IF fd \in {n, Sidecar[n]} THEN NoPath ELSE fd
  /\ playlist' = Without(playlist, n)
  /\ UNCHANGED <<lost, touched>>
  /\ BackToFirst(content')

BrowseNext ==
  \/ SelectSource \/ FirstPage \/ NextPage \/ PreviousPage \/ Enter
  \/ AddToPlaylist \/ RemoveFromPlaylist \/ PlayFirst \/ PlayNext
  \/ \E n \in Media : Delete(n)
  \/ \E n, m \in Media : Rename(n, m)
=============================================================================
