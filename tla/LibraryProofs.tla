---------------------------- MODULE LibraryProofs ---------------------------
(***************************************************************************)
(* Proofs about Library, for any files, folders, sidecars and directories, *)
(* any length of a page and of the playlist.                               *)
(***************************************************************************)
EXTENDS Library, Counting, SequenceTheorems

USE DEF stick, shown, place, songs, browse, save

\* A save thread that has not ended its work holds the state at 1, which keeps
\* the main thread from the buffers; whoever uses the path has one.
Threads ==
  /\ Reading => save_state = 1 /\ path \in Media
  /\ main = "joining" => save_state # 1 /\ path \in Media

Writing == worker \in {"thumb body", "video body"}

\* Only the file that the save thread has open is a part, and it is the
\* one the thread is after, unless the user took it away.
OpenFile ==
  /\ fd # NoPath => Writing
  /\ ~touched => fd \in {Goal, NoPath}
  /\ ~touched => \A p \in Paths : content[p] = "part" => p = fd

\* The rows are files that are there, or were lost to a failed save.
RowsThere == \A e \in rows \intersect Media : Present(e) \/ e \in lost

\* TypeOK in parts.
Flags == touched \in BOOLEAN /\ turned \in BOOLEAN

StickOK ==
  /\ content \in [Paths -> {"none", "part", "short", "whole", "feed"}]
  /\ fd \in Paths \union {NoPath}
  /\ lost \subseteq Media

ShownOK == rows \subseteq Rows /\ first \in Nat /\ last \in Nat /\ total \in Nat

PlaceOK == source \in Sources /\ folder \in Folders /\ page \in Nat \ {0}

SongsOK ==
  /\ playlist \in Seq(Rows) /\ Len(playlist) <= PlaylistMax
  /\ cursor \in -1 .. PlaylistMax

SaveOK ==
  /\ save_state \in {-1, 0, 1, 2}
  /\ path \in Media \union {NoPath}
  /\ main \in {"free", "joining"}
  /\ worker \in {"none", "thumb", "thumb body", "video", "video body", "leaving"}

IInv ==
  /\ TypeOK /\ Threads /\ OpenFile
  /\ PlaylistUnique /\ PlaylistPlayable /\ RowsThere

-----------------------------------------------------------------------------
\* The parts make the whole.
LEMMA TypeParts ==
  TypeOK <=> Flags /\ StickOK /\ ShownOK /\ PlaceOK /\ SongsOK /\ SaveOK
BY DEF TypeOK, StickTypeOK, Flags, StickOK, ShownOK, PlaceOK, SongsOK, SaveOK

\* Files, folders and ".." are finitely many.
LEMMA EntriesFinite ==
  ASSUME NEW T \in SUBSET DOMAIN Slot
  PROVE  Cardinality(T) \in Nat
<1>1. IsFiniteSet(Media \union Folders \union {Parent})
  BY BrowseAssumption, FS_Union, FS_AddElement DEF BrowseAssumption
<1>2. T \subseteq Media \union Folders \union {Parent}
  BY BrowseAssumption DEF BrowseAssumption
<1> QED
  BY <1>1, <1>2, FS_Subset, FS_CardinalityType

\* Where a page begins.
LEMMA PageStart ==
  ASSUME NEW p \in Nat \ {0}
  PROVE  (p - 1) * PageRows \in Nat
<1>1. p - 1 \in Nat /\ PageRows \in Nat
  BY BrowseAssumption DEF BrowseAssumption
<1> QED
  BY <1>1

\* The counts of a page are numbers.
LEMMA CountsOfPage ==
  ASSUME NEW R \in SUBSET Rows, NEW k \in Nat, NEW p \in Nat \ {0},
         NEW n \in Nat, Shows(R, k, p, n)
  PROVE  ShownOK' /\ rows' = R
BY PageStart DEF Shows, ShownOK

\* Favorites' rows are entries of the directory, so that a file among them is
\* on the stick.
LEMMA FavoritesLoaded ==
  ASSUME NEW c, NEW f, NEW p \in Nat \ {0}, ShownOK, LoadFavorites(c, f, p)
  PROVE  ShownOK' /\ \A e \in rows' \intersect Media : c[e] # "none"
<1> DEFINE new == {e \in EntriesOn(c, f, p) : Appended(c, e)}
<1>1. /\ Entries(c, f) \subseteq DOMAIN Slot
      /\ EntriesOn(c, f, p) \subseteq Entries(c, f)
  BY DEF Entries, EntriesOn
<1>2. DOMAIN Slot \subseteq Rows
  BY BrowseAssumption DEF BrowseAssumption, Rows
<1>3. CASE Shows(new, Cardinality(new), p, Cardinality(Entries(c, f)))
  <2>1. Cardinality(new) \in Nat /\ Cardinality(Entries(c, f)) \in Nat
    BY <1>1, EntriesFinite
  <2>2. ShownOK' /\ rows' = new
    BY <1>1, <1>2, <1>3, <2>1, CountsOfPage
  <2>3. \A e \in new \intersect Media : c[e] # "none"
    BY StickAssumption, BrowseAssumption
    DEF StickAssumption, BrowseAssumption, EntriesOn, Entries, Listed
  <2> QED
    BY <2>2, <2>3
<1>4. CASE rows' = {} /\ total' = 0 /\ UNCHANGED <<first, last>>
  BY <1>4 DEF ShownOK
<1> QED
  BY <1>3, <1>4 DEF LoadFavorites

\* The rows of the playlist are in it.
LEMMA PlaylistLoaded ==
  ASSUME NEW p \in Nat \ {0}, SongsOK, LoadPlaylist(p)
  PROVE  ShownOK' /\ \A e \in rows' : \E i \in DOMAIN playlist : e = playlist[i]
<1>1. Len(playlist) \in Nat /\ DOMAIN playlist = 1 .. Len(playlist)
  BY DEF SongsOK
<1>2. Cardinality(SongsOn(p)) \in Nat
  <2>1. IsFiniteSet(1 .. Len(playlist)) /\ SongsOn(p) \subseteq 1 .. Len(playlist)
    BY <1>1, FS_Interval DEF SongsOn
  <2> QED
    BY <2>1, FS_Subset, FS_CardinalityType
<1>3. {playlist[i] : i \in SongsOn(p)} \subseteq Rows
  BY <1>1 DEF SongsOn, SongsOK
<1>4. ShownOK' /\ rows' = {playlist[i] : i \in SongsOn(p)}
  BY <1>1, <1>2, <1>3, CountsOfPage DEF LoadPlaylist
<1> QED
  BY <1>4 DEF SongsOn

\* A site's page has one row at most, a video.
LEMMA SiteLoaded ==
  ASSUME NEW p \in Nat \ {0}, LoadSite(p)
  PROVE  ShownOK' /\ rows' \subseteq Videos
<1>1. CASE Shows({}, 0, 1, 0)
  BY <1>1, CountsOfPage
<1>2. CASE \E e \in Videos, n \in 1 .. SiteTotal : Shows({e}, 1, p, n)
  <2>1. PICK e \in Videos, n \in 1 .. SiteTotal : Shows({e}, 1, p, n)
    BY <1>2
  <2>2. {e} \in SUBSET Rows /\ n \in Nat
    BY BrowseAssumption DEF BrowseAssumption, Rows
  <2> QED
    BY <2>1, <2>2, CountsOfPage
<1> QED
  BY <1>1, <1>2 DEF LoadSite

\* A page of any source has numbers for limits, and rows that are there.
LEMMA PageLoaded ==
  ASSUME NEW p \in Nat \ {0}, TypeOK, PlaylistPlayable, SearchPage(p)
  PROVE  ShownOK' /\ RowsThere'
<1> USE TypeParts
<1>1. LoadPage(p) /\ UNCHANGED <<content, lost>>
  BY DEF SearchPage
<1>2. CASE source = "Favorites"
  <2>1. LoadFavorites(content, folder, p)
    BY <1>1, <1>2 DEF LoadPage
  <2> QED
    BY <1>1, <2>1, FavoritesLoaded DEF RowsThere, Present
<1>3. CASE source = "Playlist"
  <2>1. LoadPlaylist(p)
    BY <1>1, <1>3 DEF LoadPage
  <2>2. ShownOK' /\ \A e \in rows' : \E i \in DOMAIN playlist : e = playlist[i]
    BY <2>1, PlaylistLoaded
  <2> QED
    BY <1>1, <2>2 DEF RowsThere, Present, PlaylistPlayable
<1>4. CASE source = "Site"
  <2>1. LoadSite(p)
    BY <1>1, <1>4 DEF LoadPage
  <2>2. ShownOK' /\ rows' \subseteq Videos
    BY <2>1, SiteLoaded
  <2>3. Videos \intersect Media = {}
    BY BrowseAssumption DEF BrowseAssumption
  <2> QED
    BY <2>2, <2>3 DEF RowsThere
<1> QED
  BY <1>2, <1>3, <1>4 DEF PlaceOK, Sources

\* So has a folder that is entered, and a feed.
LEMMA FolderLoaded ==
  ASSUME NEW f, TypeOK, GoTo(f)
  PROVE  ShownOK' /\ RowsThere'
<1>1. LoadFavorites(content, f, 1) /\ UNCHANGED <<content, lost>>
  BY DEF GoTo
<1> QED
  BY <1>1, FavoritesLoaded, TypeParts DEF RowsThere, Present

LEMMA FeedLoaded ==
  ASSUME NEW e, EnterFeed(e)
  PROVE  ShownOK' /\ RowsThere'
<1>1. ShownOK' /\ rows' \subseteq Items
  <2>1. CASE Shows({}, 0, 1, 0)
    BY <2>1, CountsOfPage
  <2>2. CASE \E i \in Items : Shows({i}, 1, 1, 1)
    BY <2>2, CountsOfPage DEF Rows
  <2> QED
    BY <2>1, <2>2 DEF EnterFeed
<1>2. Items \intersect Media = {}
  BY BrowseAssumption DEF BrowseAssumption
<1> QED
  BY <1>1, <1>2 DEF RowsThere

-----------------------------------------------------------------------------
\* Removing an item from a list without repetitions leaves one that has none,
\* nor the item.
LEMMA WithoutRemoves ==
  ASSUME NEW S, NEW s \in Seq(S), NEW e,
         \A i, j \in DOMAIN s : s[i] = s[j] => i = j
  PROVE  /\ Without(s, e) \in Seq(S) /\ Len(Without(s, e)) <= Len(s)
         /\ \A i, j \in DOMAIN Without(s, e) :
              Without(s, e)[i] = Without(s, e)[j] => i = j
         /\ \A k \in DOMAIN Without(s, e) :
              /\ Without(s, e)[k] # e
              /\ \E i \in DOMAIN s : Without(s, e)[k] = s[i]
<1> DEFINE w == Without(s, e)
<1>1. Len(s) \in Nat /\ DOMAIN s = 1 .. Len(s)
  OBVIOUS
<1>2. CASE ~\E i \in DOMAIN s : s[i] = e
  <2>1. w = s
    BY <1>2 DEF Without, IsFirst
  <2> QED
    BY <1>2, <2>1
<1>3. CASE \E i \in DOMAIN s : s[i] = e
  <2>1. \E i \in DOMAIN s : IsFirst(s, e, i)
    BY <1>1, <1>3 DEF IsFirst
  <2> DEFINE d == CHOOSE i \in DOMAIN s : IsFirst(s, e, i)
  <2>2. d \in DOMAIN s /\ s[d] = e
    BY <2>1 DEF IsFirst
  <2>3. w = [k \in 1 .. Len(s) - 1 |-> s[IF k < d THEN k ELSE k + 1]]
    BY <2>1 DEF Without
  <2> HIDE DEF d, w
  <2>4. Len(s) - 1 \in Nat
    BY <1>1, <2>2
  <2>5. \A k \in 1 .. Len(s) - 1 :
          IF k < d THEN k \in DOMAIN s ELSE k + 1 \in DOMAIN s
    BY <1>1, <2>2
  <2>6. w \in [1 .. Len(s) - 1 -> S]
    BY <1>1, <2>3, <2>5
  <2>7. w \in Seq(S) /\ Len(w) = Len(s) - 1 /\ DOMAIN w = 1 .. Len(s) - 1
    BY <2>4, <2>6, SeqDef, LenProperties
  <2>8. \A i, j \in DOMAIN w : w[i] = w[j] => i = j
    <3> SUFFICES ASSUME NEW i \in 1 .. Len(s) - 1, NEW j \in 1 .. Len(s) - 1,
                        w[i] = w[j]
                 PROVE  i = j
      BY <2>7
    <3> DEFINE a == IF i < d THEN i ELSE i + 1
               b == IF j < d THEN j ELSE j + 1
    <3>1. w[i] = s[a] /\ w[j] = s[b]
      BY <2>3
    <3>2. a \in DOMAIN s /\ b \in DOMAIN s
      BY <2>5
    <3>3. a = b
      BY <3>1, <3>2
    <3> QED
      BY <1>1, <2>2, <3>3
  <2>9. \A k \in DOMAIN w : w[k] # e /\ \E i \in DOMAIN s : w[k] = s[i]
    <3> SUFFICES ASSUME NEW k \in 1 .. Len(s) - 1
                 PROVE  w[k] # e /\ \E i \in DOMAIN s : w[k] = s[i]
      BY <2>7
    <3> DEFINE a == IF k < d THEN k ELSE k + 1
    <3>1. w[k] = s[a] /\ a \in DOMAIN s
      BY <2>3, <2>5
    <3>2. a # d
      BY <1>1, <2>2
    <3> QED
      BY <2>2, <3>1, <3>2
  <2> QED
    BY <1>1, <2>7, <2>8, <2>9 DEF w
<1> QED
  BY <1>2, <1>3

\* What a renaming may change: the two paths, of which the new one was free.
LEMMA RenamedContent ==
  ASSUME NEW c, NEW a \in Paths, NEW b \in Paths,
         c \in [Paths -> {"none", "part", "short", "whole", "feed"}]
  PROVE  /\ Renamed(c, a, b) \in [Paths -> {"none", "part", "short", "whole", "feed"}]
         /\ \A p \in Paths \ {a, b} : Renamed(c, a, b)[p] = c[p]
         /\ c[a] # "none" /\ c[b] = "none" =>
              Renamed(c, a, b)[a] = "none" /\ Renamed(c, a, b)[b] = c[a]
         /\ ~(c[a] # "none" /\ c[b] = "none") => Renamed(c, a, b) = c
<1>1. CASE c[a] # "none" /\ c[b] = "none"
  BY <1>1 DEF Renamed
<1>2. CASE ~(c[a] # "none" /\ c[b] = "none")
  BY <1>2 DEF Renamed
<1> QED
  BY <1>1, <1>2

\* A sidecar is a path, and no media file.
LEMMA Sidecars ==
  ASSUME NEW n \in Media
  PROVE  n \in Paths /\ Sidecar[n] \in Paths /\ Sidecar[n] \notin Media
<1>1. Sidecar[n] \in Thumbs
  BY DEF Thumbs
<1> QED
  BY <1>1, StickAssumption DEF StickAssumption, Paths

\* What a rename does to the stick: the media file moves, the other media
\* files stay, and a part that moves is of the open one.
LEMMA RenameStick ==
  ASSUME StickOK, NEW n \in Media, NEW m \in Media, Rename(n, m)
  PROVE  /\ StickOK' /\ n # m
         /\ content'[m] # "none"
         /\ \A e \in Media \ {n, m} : content'[e] = content[e]
         /\ fd = NoPath <=> fd' = NoPath
<1> DEFINE c1 == Renamed(content, n, m)
           c2 == Renamed(c1, Sidecar[n], Sidecar[m])
           Files == [Paths -> {"none", "part", "short", "whole", "feed"}]
<1>1. n # m /\ content[n] # "none" /\ content[m] = "none" /\ content' = c2
  BY DEF Rename, Present
<1>2. n \in Paths /\ m \in Paths /\ Sidecar[n] \in Paths \ Media
        /\ Sidecar[m] \in Paths \ Media
  BY Sidecars
<1>3. content \in Files
  BY DEF StickOK
<1>4. /\ c1 \in Files /\ c1[m] # "none"
      /\ \A e \in Media \ {n, m} : c1[e] = content[e]
  BY <1>1, <1>2, <1>3, RenamedContent DEF Paths
<1> HIDE DEF c1
<1>5. c2 \in Files /\ \A p \in Paths \ {Sidecar[n], Sidecar[m]} : c2[p] = c1[p]
  BY <1>2, <1>4, RenamedContent
<1> HIDE DEF c2
<1>6. lost' \subseteq Media
  BY DEF Rename, StickOK
<1>7. fd' \in {fd, m, Sidecar[m]} /\ (fd = NoPath => fd' = NoPath)
        /\ (fd # NoPath => fd' # NoPath)
  BY <1>2, StickAssumption DEF Rename, StickAssumption
<1>8. fd' \in Paths \union {NoPath}
  BY <1>2, <1>7 DEF StickOK
<1> QED
  BY <1>1, <1>2, <1>4, <1>5, <1>6, <1>7, <1>8 DEF StickOK, Paths

\* A rename that leaves the open file alone makes no part of a file.
LEMMA RenameParts ==
  ASSUME StickOK, OpenFile, NEW n \in Media, NEW m \in Media, Rename(n, m),
         ~touched'
  PROVE  ~touched /\ fd' = fd /\ \A p \in Paths : content'[p] = "part" => p = fd
<1> DEFINE c1 == Renamed(content, n, m)
           c2 == Renamed(c1, Sidecar[n], Sidecar[m])
           Files == [Paths -> {"none", "part", "short", "whole", "feed"}]
<1>1. n # m /\ content[n] # "none" /\ content[m] = "none" /\ content' = c2
  BY DEF Rename, Present
<1>2. n \in Paths /\ m \in Paths /\ Sidecar[n] \in Paths \ Media
        /\ Sidecar[m] \in Paths \ Media
  BY Sidecars
<1>3. ~touched /\ fd' = fd
  <2>1. touched' = (touched \/ fd # fd')
    BY DEF Rename
  <2> QED
    BY <2>1
<1>4. fd # n
  <2>1. fd = n => fd' = m
    BY <1>2 DEF Rename
  <2> QED
    BY <1>1, <1>3, <2>1
<1>5. content \in Files /\ \A p \in Paths : content[p] = "part" => p = fd
  BY <1>3 DEF StickOK, OpenFile
<1>6. c1 \in Files /\ \A p \in Paths : c1[p] = "part" => p = fd
  <2>1. /\ c1 \in Files /\ c1[n] = "none" /\ c1[m] = content[n]
        /\ \A p \in Paths \ {n, m} : c1[p] = content[p]
    BY <1>1, <1>2, <1>5, RenamedContent
  <2> QED
    BY <1>2, <1>4, <1>5, <2>1
<1> HIDE DEF c1
<1>7. CASE c1[Sidecar[n]] # "none" /\ c1[Sidecar[m]] = "none"
  <2>1. /\ c2[Sidecar[n]] = "none" /\ c2[Sidecar[m]] = c1[Sidecar[n]]
        /\ \A p \in Paths \ {Sidecar[n], Sidecar[m]} : c2[p] = c1[p]
    BY <1>2, <1>6, <1>7, RenamedContent
  <2>2. fd # Sidecar[n]
    <3>1. Sidecar[m] # Sidecar[n]
      BY <1>7
    <3>2. fd = Sidecar[n] => fd' = Sidecar[m]
      BY <1>1, <1>4, <2>1 DEF Rename
    <3> QED
      BY <1>3, <3>1, <3>2
  <2> QED
    BY <1>1, <1>2, <1>3, <1>6, <2>1, <2>2
<1>8. CASE ~(c1[Sidecar[n]] # "none" /\ c1[Sidecar[m]] = "none")
  BY <1>1, <1>2, <1>3, <1>6, <1>8, RenamedContent
<1> QED
  BY <1>7, <1>8

\* A deletion takes the file, and no other media file.
LEMMA DeleteStick ==
  ASSUME StickOK, NEW n \in Media, Delete(n)
  PROVE  /\ StickOK'
         /\ content' = [content EXCEPT ![n] = "none", ![Sidecar[n]] = "none"]
         /\ \A e \in Media \ {n} : content'[e] = content[e]
<1>1. content' = [content EXCEPT ![n] = "none", ![Sidecar[n]] = "none"]
  BY DEF Delete, Removed
<1>2. n \in Paths /\ Sidecar[n] \in Paths /\ Sidecar[n] \notin Media
  BY Sidecars
<1>3. content' \in [Paths -> {"none", "part", "short", "whole", "feed"}]
  BY <1>1 DEF StickOK
<1>4. \A e \in Media \ {n} : content'[e] = content[e]
  BY <1>1, <1>2 DEF StickOK, Paths
<1>5. fd' \in Paths \union {NoPath} /\ lost' \subseteq Media
  BY DEF Delete, StickOK
<1> QED
  BY <1>1, <1>3, <1>4, <1>5 DEF StickOK

-----------------------------------------------------------------------------
\* The program starts in Favorites, with an empty list, and saves nothing.
LEMMA InvInit == Init => IInv
<1> SUFFICES ASSUME Init PROVE IInv
  OBVIOUS
<1> USE DEF Init, StickInit, BrowseInit, SaveInit
<1>1. TypeOK
  <2>1. Flags /\ StickOK /\ ShownOK /\ SaveOK
    BY StickAssumption DEF StickAssumption, Flags, StickOK, ShownOK, SaveOK
  <2>2. PlaceOK
    BY StickAssumption DEF StickAssumption, PlaceOK, Sources
  <2>3. SongsOK
    BY BrowseAssumption DEF BrowseAssumption, SongsOK
  <2> QED
    BY <2>1, <2>2, <2>3, TypeParts
<1>2. Threads
  BY DEF Threads, Reading
<1>3. OpenFile
  BY StickAssumption DEF StickAssumption, OpenFile, Writing
<1>4. PlaylistUnique /\ PlaylistPlayable /\ RowsThere
  BY DEF PlaylistUnique, PlaylistPlayable, RowsThere
<1> QED
  BY <1>1, <1>2, <1>3, <1>4 DEF IInv

\* The histories stay Boolean.
LEMMA FlagsStep ==
  TypeOK /\ [Next]_vars
    => Flags'
<1> SUFFICES ASSUME TypeOK, [Next]_vars
             PROVE  Flags'
  OBVIOUS
<1>1. CASE SaveAs
  BY <1>1, TypeParts DEF SaveAs, SaveStart, Flags
<1>2. CASE SelectSource /\ UNCHANGED save
  BY <1>2, TypeParts DEF SelectSource, Flags
<1>3. CASE FirstPage /\ UNCHANGED save
  BY <1>3, TypeParts DEF FirstPage, SearchPage, Flags
<1>4. CASE NextPage /\ UNCHANGED save
  BY <1>4, TypeParts DEF NextPage, SearchPage, Flags
<1>5. CASE PreviousPage /\ UNCHANGED save
  BY <1>5, TypeParts DEF PreviousPage, SearchPage, Flags
<1>6. CASE Enter /\ UNCHANGED save
  BY <1>6, TypeParts
  DEF Enter, EnterFolder, EnterParent, EnterFeed, EnterFails, GoTo, Flags
<1>7. CASE AddToPlaylist /\ UNCHANGED save
  BY <1>7, TypeParts DEF AddToPlaylist, Flags
<1>8. CASE RemoveFromPlaylist /\ UNCHANGED save
  BY <1>8, TypeParts DEF RemoveFromPlaylist, Flags
<1>9. CASE PlayFirst /\ UNCHANGED save
  BY <1>9, TypeParts DEF PlayFirst, Flags
<1>10. CASE PlayNext /\ UNCHANGED save
  BY <1>10, TypeParts DEF PlayNext, Flags
<1>11. CASE (\E n \in Media : Delete(n)) /\ UNCHANGED save
  BY <1>11, TypeParts DEF Delete, BackToFirst, Flags
<1>12. CASE (\E n, m \in Media : Rename(n, m)) /\ UNCHANGED save
  BY <1>12, TypeParts DEF Rename, BackToFirst, Flags
<1>13. CASE SaveBegins /\ UNCHANGED browse
  BY <1>13, TypeParts DEF SaveBegins, Flags
<1>14. CASE SaveCannotBegin /\ UNCHANGED browse
  BY <1>14, TypeParts DEF SaveCannotBegin, Flags
<1>15. CASE NoNetwork /\ UNCHANGED browse
  BY <1>15, TypeParts DEF NoNetwork, Flags
<1>16. CASE Opens /\ UNCHANGED browse
  BY <1>16, TypeParts DEF Opens, Flags
<1>17. CASE Fails /\ UNCHANGED browse
  BY <1>17, TypeParts DEF Fails, Flags
<1>18. CASE Completes /\ UNCHANGED browse
  BY <1>18, TypeParts DEF Completes, Flags
<1>19. CASE WorkerEnds /\ UNCHANGED browse
  BY <1>19, TypeParts DEF WorkerEnds, Flags
<1>20. CASE UNCHANGED vars
  BY <1>20, TypeParts DEF vars, Flags
<1> QED
  BY <1>1, <1>2, <1>3, <1>4, <1>5, <1>6, <1>7, <1>8, <1>9, <1>10, <1>11,
     <1>12, <1>13, <1>14, <1>15, <1>16, <1>17, <1>18, <1>19, <1>20
  DEF Next, Browsing, BrowseNext, Saving, SaveNext, SaveThread

\* Source, directory and page stay what they are.
LEMMA PlaceStep ==
  TypeOK /\ [Next]_vars
    => PlaceOK'
<1> SUFFICES ASSUME TypeOK, [Next]_vars
             PROVE  PlaceOK'
  OBVIOUS
<1>1. CASE SaveAs
  BY <1>1, TypeParts DEF SaveAs, PlaceOK
<1>2. CASE SelectSource /\ UNCHANGED save
  BY <1>2, TypeParts DEF SelectSource, PlaceOK
<1>3. CASE FirstPage /\ UNCHANGED save
  BY <1>3, TypeParts DEF FirstPage, SearchPage, PlaceOK
<1>4. CASE NextPage /\ UNCHANGED save
  BY <1>4, TypeParts DEF NextPage, SearchPage, PlaceOK
<1>5. CASE PreviousPage /\ UNCHANGED save
  BY <1>5, TypeParts DEF PreviousPage, SearchPage, PlaceOK
<1>6. CASE Enter /\ UNCHANGED save
  <2>1. CASE \E e \in rows : EnterFolder(e)
    BY <1>6, <2>1, TypeParts DEF EnterFolder, GoTo, PlaceOK
  <2>2. CASE \E e \in rows : EnterParent(e)
    BY <1>6, <2>2, TypeParts, StickAssumption
    DEF EnterParent, GoTo, PlaceOK, StickAssumption
  <2>3. CASE \E e \in rows : EnterFeed(e)
    BY <1>6, <2>3, TypeParts DEF EnterFeed, PlaceOK
  <2>4. CASE \E e \in rows : EnterFails(e)
    BY <1>6, <2>4, TypeParts DEF EnterFails, PlaceOK
  <2> QED
    BY <1>6, <2>1, <2>2, <2>3, <2>4 DEF Enter
<1>7. CASE AddToPlaylist /\ UNCHANGED save
  BY <1>7, TypeParts DEF AddToPlaylist, PlaceOK
<1>8. CASE RemoveFromPlaylist /\ UNCHANGED save
  BY <1>8, TypeParts DEF RemoveFromPlaylist, PlaceOK
<1>9. CASE PlayFirst /\ UNCHANGED save
  BY <1>9, TypeParts DEF PlayFirst, PlaceOK
<1>10. CASE PlayNext /\ UNCHANGED save
  BY <1>10, TypeParts DEF PlayNext, PlaceOK
<1>11. CASE (\E n \in Media : Delete(n)) /\ UNCHANGED save
  BY <1>11, TypeParts DEF Delete, BackToFirst, PlaceOK
<1>12. CASE (\E n, m \in Media : Rename(n, m)) /\ UNCHANGED save
  BY <1>12, TypeParts DEF Rename, BackToFirst, PlaceOK
<1>13. CASE SaveBegins /\ UNCHANGED browse
  BY <1>13, TypeParts DEF SaveBegins, PlaceOK
<1>14. CASE SaveCannotBegin /\ UNCHANGED browse
  BY <1>14, TypeParts DEF SaveCannotBegin, PlaceOK
<1>15. CASE NoNetwork /\ UNCHANGED browse
  BY <1>15, TypeParts DEF NoNetwork, PlaceOK
<1>16. CASE Opens /\ UNCHANGED browse
  BY <1>16, TypeParts DEF Opens, PlaceOK
<1>17. CASE Fails /\ UNCHANGED browse
  BY <1>17, TypeParts DEF Fails, PlaceOK
<1>18. CASE Completes /\ UNCHANGED browse
  BY <1>18, TypeParts DEF Completes, PlaceOK
<1>19. CASE WorkerEnds /\ UNCHANGED browse
  BY <1>19, TypeParts DEF WorkerEnds, PlaceOK
<1>20. CASE UNCHANGED vars
  BY <1>20, TypeParts DEF vars, PlaceOK
<1> QED
  BY <1>1, <1>2, <1>3, <1>4, <1>5, <1>6, <1>7, <1>8, <1>9, <1>10, <1>11,
     <1>12, <1>13, <1>14, <1>15, <1>16, <1>17, <1>18, <1>19, <1>20
  DEF Next, Browsing, BrowseNext, Saving, SaveNext, SaveThread

\* The job's variables keep their types.
LEMMA SaveStep ==
  TypeOK /\ [Next]_vars
    => SaveOK'
<1> SUFFICES ASSUME TypeOK, [Next]_vars
             PROVE  SaveOK'
  OBVIOUS
<1>1. CASE SaveAs
  BY <1>1, TypeParts DEF SaveAs, SaveStart, SaveOK
<1>2. CASE SelectSource /\ UNCHANGED save
  BY <1>2, TypeParts DEF SaveOK
<1>3. CASE FirstPage /\ UNCHANGED save
  BY <1>3, TypeParts DEF SaveOK
<1>4. CASE NextPage /\ UNCHANGED save
  BY <1>4, TypeParts DEF SaveOK
<1>5. CASE PreviousPage /\ UNCHANGED save
  BY <1>5, TypeParts DEF SaveOK
<1>6. CASE Enter /\ UNCHANGED save
  BY <1>6, TypeParts DEF SaveOK
<1>7. CASE AddToPlaylist /\ UNCHANGED save
  BY <1>7, TypeParts DEF SaveOK
<1>8. CASE RemoveFromPlaylist /\ UNCHANGED save
  BY <1>8, TypeParts DEF SaveOK
<1>9. CASE PlayFirst /\ UNCHANGED save
  BY <1>9, TypeParts DEF SaveOK
<1>10. CASE PlayNext /\ UNCHANGED save
  BY <1>10, TypeParts DEF SaveOK
<1>11. CASE (\E n \in Media : Delete(n)) /\ UNCHANGED save
  BY <1>11, TypeParts DEF SaveOK
<1>12. CASE (\E n, m \in Media : Rename(n, m)) /\ UNCHANGED save
  BY <1>12, TypeParts DEF SaveOK
<1>13. CASE SaveBegins /\ UNCHANGED browse
  BY <1>13, TypeParts DEF SaveBegins, SaveOK
<1>14. CASE SaveCannotBegin /\ UNCHANGED browse
  BY <1>14, TypeParts DEF SaveCannotBegin, SaveOK
<1>15. CASE NoNetwork /\ UNCHANGED browse
  BY <1>15, TypeParts DEF NoNetwork, Follows, SaveOK
<1>16. CASE Opens /\ UNCHANGED browse
  BY <1>16, TypeParts DEF Opens, Follows, SaveOK
<1>17. CASE Fails /\ UNCHANGED browse
  BY <1>17, TypeParts DEF Fails, Follows, SaveOK
<1>18. CASE Completes /\ UNCHANGED browse
  BY <1>18, TypeParts DEF Completes, Follows, SaveOK
<1>19. CASE WorkerEnds /\ UNCHANGED browse
  BY <1>19, TypeParts DEF WorkerEnds, SaveOK
<1>20. CASE UNCHANGED vars
  BY <1>20, TypeParts DEF vars, SaveOK
<1> QED
  BY <1>1, <1>2, <1>3, <1>4, <1>5, <1>6, <1>7, <1>8, <1>9, <1>10, <1>11,
     <1>12, <1>13, <1>14, <1>15, <1>16, <1>17, <1>18, <1>19, <1>20
  DEF Next, Browsing, BrowseNext, Saving, SaveNext, SaveThread

\* The playlist keeps its bound, and has no item twice.
LEMMA SongsStep ==
  TypeOK /\ PlaylistUnique /\ [Next]_vars
    => SongsOK' /\ PlaylistUnique'
<1> SUFFICES ASSUME TypeOK, PlaylistUnique, [Next]_vars
             PROVE  SongsOK' /\ PlaylistUnique'
  OBVIOUS
<1>1. CASE SaveAs
  BY <1>1, TypeParts DEF SaveAs, SongsOK, PlaylistUnique
<1>2. CASE SelectSource /\ UNCHANGED save
  BY <1>2, TypeParts DEF SelectSource, SongsOK, PlaylistUnique
<1>3. CASE FirstPage /\ UNCHANGED save
  BY <1>3, TypeParts DEF FirstPage, SearchPage, SongsOK, PlaylistUnique
<1>4. CASE NextPage /\ UNCHANGED save
  BY <1>4, TypeParts DEF NextPage, SearchPage, SongsOK, PlaylistUnique
<1>5. CASE PreviousPage /\ UNCHANGED save
  BY <1>5, TypeParts DEF PreviousPage, SearchPage, SongsOK, PlaylistUnique
<1>6. CASE Enter /\ UNCHANGED save
  BY <1>6, TypeParts
  DEF Enter, EnterFolder, EnterParent, EnterFeed, EnterFails, GoTo,
      SongsOK, PlaylistUnique
<1>7. CASE AddToPlaylist /\ UNCHANGED save
  <2> SUFFICES ASSUME NEW e \in rows, Add(e), UNCHANGED cursor
               PROVE  SongsOK' /\ PlaylistUnique'
    BY <1>7 DEF AddToPlaylist
  <2>1. e \in Rows /\ playlist \in Seq(Rows) /\ playlist' = Append(playlist, e)
    BY TypeParts DEF ShownOK, SongsOK, Add
  <2>2. playlist' \in Seq(Rows) /\ Len(playlist') = Len(playlist) + 1
          /\ playlist'[Len(playlist) + 1] = e
          /\ \A i \in DOMAIN playlist : playlist'[i] = playlist[i]
    BY <2>1
  <2>3. SongsOK'
    BY <2>1, <2>2, TypeParts, BrowseAssumption DEF SongsOK, Add, BrowseAssumption
  <2>4. PlaylistUnique'
    BY <2>1, <2>2 DEF PlaylistUnique, Add
  <2> QED
    BY <2>3, <2>4
<1>8. CASE RemoveFromPlaylist /\ UNCHANGED save
  <2> SUFFICES ASSUME NEW e \in rows, playlist' = Without(playlist, e),
                      UNCHANGED cursor
               PROVE  SongsOK' /\ PlaylistUnique'
    BY <1>8 DEF RemoveFromPlaylist
  <2>1. playlist \in Seq(Rows) /\ \A i, j \in DOMAIN playlist :
                                    playlist[i] = playlist[j] => i = j
    BY TypeParts DEF SongsOK, PlaylistUnique
  <2>2. /\ playlist' \in Seq(Rows) /\ Len(playlist') <= Len(playlist)
        /\ \A i, j \in DOMAIN playlist' : playlist'[i] = playlist'[j] => i = j
    BY <2>1, WithoutRemoves
  <2>3. Len(playlist') <= PlaylistMax
    BY <2>1, <2>2, TypeParts, BrowseAssumption DEF SongsOK, BrowseAssumption
  <2> QED
    BY <2>2, <2>3, TypeParts DEF SongsOK, PlaylistUnique
<1>9. CASE PlayFirst /\ UNCHANGED save
  BY <1>9, TypeParts, BrowseAssumption
  DEF PlayFirst, SongsOK, PlaylistUnique, BrowseAssumption
<1>10. CASE PlayNext /\ UNCHANGED save
  <2> PICK d \in {-1, 1} : cursor' = Stepped(d)
    BY <1>10 DEF PlayNext
  <2>1. playlist' = playlist /\ playlist # <<>> /\ cursor >= 0
    BY <1>10 DEF PlayNext
  <2>2. Len(playlist) \in Nat \ {0} /\ PlaylistMax \in Nat
    BY <2>1, TypeParts, BrowseAssumption, EmptySeq DEF SongsOK, BrowseAssumption
  <2>3. cursor' \in -1 .. PlaylistMax
    BY <2>1, <2>2, TypeParts DEF Stepped, SongsOK
  <2> QED
    BY <2>1, <2>3, TypeParts DEF SongsOK, PlaylistUnique
<1>11. CASE (\E n \in Media : Delete(n)) /\ UNCHANGED save
  <2> PICK n \in Media : playlist' = Without(playlist, n) /\ cursor' = cursor
    BY <1>11 DEF Delete, BackToFirst
  <2>1. playlist \in Seq(Rows) /\ \A i, j \in DOMAIN playlist :
                                    playlist[i] = playlist[j] => i = j
    BY TypeParts DEF SongsOK, PlaylistUnique
  <2>2. /\ playlist' \in Seq(Rows) /\ Len(playlist') <= Len(playlist)
        /\ \A i, j \in DOMAIN playlist' : playlist'[i] = playlist'[j] => i = j
    BY <2>1, WithoutRemoves
  <2>3. Len(playlist') <= PlaylistMax
    BY <2>1, <2>2, TypeParts, BrowseAssumption DEF SongsOK, BrowseAssumption
  <2> QED
    BY <2>2, <2>3, TypeParts DEF SongsOK, PlaylistUnique
<1>12. CASE (\E n, m \in Media : Rename(n, m)) /\ UNCHANGED save
  <2> PICK n \in Media : playlist' = Without(playlist, n) /\ cursor' = cursor
    BY <1>12 DEF Rename, BackToFirst
  <2>1. playlist \in Seq(Rows) /\ \A i, j \in DOMAIN playlist :
                                    playlist[i] = playlist[j] => i = j
    BY TypeParts DEF SongsOK, PlaylistUnique
  <2>2. /\ playlist' \in Seq(Rows) /\ Len(playlist') <= Len(playlist)
        /\ \A i, j \in DOMAIN playlist' : playlist'[i] = playlist'[j] => i = j
    BY <2>1, WithoutRemoves
  <2>3. Len(playlist') <= PlaylistMax
    BY <2>1, <2>2, TypeParts, BrowseAssumption DEF SongsOK, BrowseAssumption
  <2> QED
    BY <2>2, <2>3, TypeParts DEF SongsOK, PlaylistUnique
<1>13. CASE SaveBegins /\ UNCHANGED browse
  BY <1>13, TypeParts DEF SongsOK, PlaylistUnique
<1>14. CASE SaveCannotBegin /\ UNCHANGED browse
  BY <1>14, TypeParts DEF SongsOK, PlaylistUnique
<1>15. CASE NoNetwork /\ UNCHANGED browse
  BY <1>15, TypeParts DEF SongsOK, PlaylistUnique
<1>16. CASE Opens /\ UNCHANGED browse
  BY <1>16, TypeParts DEF SongsOK, PlaylistUnique
<1>17. CASE Fails /\ UNCHANGED browse
  BY <1>17, TypeParts DEF SongsOK, PlaylistUnique
<1>18. CASE Completes /\ UNCHANGED browse
  BY <1>18, TypeParts DEF SongsOK, PlaylistUnique
<1>19. CASE WorkerEnds /\ UNCHANGED browse
  BY <1>19, TypeParts DEF SongsOK, PlaylistUnique
<1>20. CASE UNCHANGED vars
  BY <1>20, TypeParts DEF vars, SongsOK, PlaylistUnique
<1> QED
  BY <1>1, <1>2, <1>3, <1>4, <1>5, <1>6, <1>7, <1>8, <1>9, <1>10, <1>11,
     <1>12, <1>13, <1>14, <1>15, <1>16, <1>17, <1>18, <1>19, <1>20
  DEF Next, Browsing, BrowseNext, Saving, SaveNext, SaveThread

-----------------------------------------------------------------------------
\* The main thread and the save thread keep off each other's buffers.
LEMMA ThreadsStep ==
  TypeOK /\ Threads /\ [Next]_vars
    => Threads'
<1> SUFFICES ASSUME TypeOK, Threads, [Next]_vars
             PROVE  Threads'
  OBVIOUS
<1> USE DEF Threads, Reading
<1>1. CASE SaveAs
  BY <1>1, TypeParts DEF SaveAs, SaveStart, Busy, SaveOK
<1>2. CASE SelectSource /\ UNCHANGED save
  BY <1>2
<1>3. CASE FirstPage /\ UNCHANGED save
  BY <1>3
<1>4. CASE NextPage /\ UNCHANGED save
  BY <1>4
<1>5. CASE PreviousPage /\ UNCHANGED save
  BY <1>5
<1>6. CASE Enter /\ UNCHANGED save
  BY <1>6
<1>7. CASE AddToPlaylist /\ UNCHANGED save
  BY <1>7
<1>8. CASE RemoveFromPlaylist /\ UNCHANGED save
  BY <1>8
<1>9. CASE PlayFirst /\ UNCHANGED save
  BY <1>9
<1>10. CASE PlayNext /\ UNCHANGED save
  BY <1>10
<1>11. CASE (\E n \in Media : Delete(n)) /\ UNCHANGED save
  BY <1>11
<1>12. CASE (\E n, m \in Media : Rename(n, m)) /\ UNCHANGED save
  BY <1>12
<1>13. CASE SaveBegins /\ UNCHANGED browse
  BY <1>13 DEF SaveBegins, Joined
<1>14. CASE SaveCannotBegin /\ UNCHANGED browse
  BY <1>14 DEF SaveCannotBegin, Joined
<1>15. CASE NoNetwork /\ UNCHANGED browse
  BY <1>15 DEF NoNetwork, Follows
<1>16. CASE Opens /\ UNCHANGED browse
  BY <1>16 DEF Opens
<1>17. CASE Fails /\ UNCHANGED browse
  BY <1>17 DEF Fails, Follows
<1>18. CASE Completes /\ UNCHANGED browse
  BY <1>18 DEF Completes, Follows
<1>19. CASE WorkerEnds /\ UNCHANGED browse
  BY <1>19 DEF WorkerEnds
<1>20. CASE UNCHANGED vars
  BY <1>20 DEF vars
<1> QED
  BY <1>1, <1>2, <1>3, <1>4, <1>5, <1>6, <1>7, <1>8, <1>9, <1>10, <1>11,
     <1>12, <1>13, <1>14, <1>15, <1>16, <1>17, <1>18, <1>19, <1>20
  DEF Next, Browsing, BrowseNext, Saving, SaveNext, SaveThread

\* Half-written files stay the save thread's.
LEMMA OpenFileStep ==
  TypeOK /\ Threads /\ OpenFile /\ [Next]_vars
    => OpenFile'
<1> SUFFICES ASSUME TypeOK, Threads, OpenFile, [Next]_vars
             PROVE  OpenFile'
  OBVIOUS
<1> USE DEF OpenFile, Writing
<1>1. CASE SaveAs
  <2>1. ~Writing /\ UNCHANGED <<content, fd, touched, worker>>
    BY <1>1 DEF SaveAs, SaveStart, Busy, Threads, Reading
  <2> QED
    BY <2>1
<1>2. CASE SelectSource /\ UNCHANGED save
  BY <1>2 DEF SelectSource, Goal
<1>3. CASE FirstPage /\ UNCHANGED save
  BY <1>3 DEF FirstPage, SearchPage, Goal
<1>4. CASE NextPage /\ UNCHANGED save
  BY <1>4 DEF NextPage, SearchPage, Goal
<1>5. CASE PreviousPage /\ UNCHANGED save
  BY <1>5 DEF PreviousPage, SearchPage, Goal
<1>6. CASE Enter /\ UNCHANGED save
  <2>1. UNCHANGED <<content, fd, touched>>
    BY <1>6 DEF Enter, EnterFolder, EnterParent, EnterFeed, EnterFails, GoTo
  <2>2. Goal' = Goal /\ worker' = worker
    BY <1>6 DEF Goal
  <2> QED
    BY <2>1, <2>2
<1>7. CASE AddToPlaylist /\ UNCHANGED save
  BY <1>7 DEF AddToPlaylist, Goal
<1>8. CASE RemoveFromPlaylist /\ UNCHANGED save
  BY <1>8 DEF RemoveFromPlaylist, Goal
<1>9. CASE PlayFirst /\ UNCHANGED save
  BY <1>9 DEF PlayFirst, Goal
<1>10. CASE PlayNext /\ UNCHANGED save
  BY <1>10 DEF PlayNext, Goal
<1>11. CASE (\E n \in Media : Delete(n)) /\ UNCHANGED save
  <2> PICK n \in Media : Delete(n)
    BY <1>11
  <2>1. Goal' = Goal /\ worker' = worker
    BY <1>11 DEF Goal
  <2>2. touched' = touched
          /\ \/ fd' = fd /\ fd \notin {n, Sidecar[n]}
             \/ fd' = NoPath /\ fd \in {n, Sidecar[n]}
    BY DEF Delete
  <2>3. \A p \in Paths : content'[p] = "part" =>
                           content[p] = "part" /\ p \notin {n, Sidecar[n]}
    <3>1. content' = [content EXCEPT ![n] = "none", ![Sidecar[n]] = "none"]
      BY DeleteStick, TypeParts
    <3>2. n \in Paths /\ Sidecar[n] \in Paths
      BY Sidecars
    <3> QED
      BY <3>1, <3>2, TypeParts DEF StickOK
  <2> QED
    BY <2>1, <2>2, <2>3
<1>12. CASE (\E n, m \in Media : Rename(n, m)) /\ UNCHANGED save
  <2> PICK n \in Media, m \in Media : Rename(n, m)
    BY <1>12
  <2>1. Goal' = Goal /\ worker' = worker
    BY <1>12 DEF Goal
  <2>2. fd = NoPath <=> fd' = NoPath
    BY RenameStick, TypeParts
  <2>3. ~touched' =>
          ~touched /\ fd' = fd /\ \A p \in Paths : content'[p] = "part" => p = fd
    BY RenameParts, TypeParts
  <2> QED
    BY <2>1, <2>2, <2>3
<1>13. CASE SaveBegins /\ UNCHANGED browse
  BY <1>13 DEF SaveBegins, Joined, Goal
<1>14. CASE SaveCannotBegin /\ UNCHANGED browse
  BY <1>14 DEF SaveCannotBegin, Joined, Goal
<1>15. CASE NoNetwork /\ UNCHANGED browse
  BY <1>15 DEF NoNetwork, Follows, Goal
<1>16. CASE Opens /\ UNCHANGED browse
  <2>1. path \in Media /\ Goal' = Goal /\ fd' = Goal /\ ~Writing /\ Writing'
    BY <1>16 DEF Opens, Threads, Reading, Goal
  <2>2. Goal \in Paths
    BY <2>1, Sidecars DEF Goal
  <2>3. content' = [content EXCEPT ![Goal] = "part"] /\ touched' = touched
    BY <1>16 DEF Opens
  <2>4. NoPath \notin Paths
    BY StickAssumption DEF StickAssumption
  <2>5. ~touched => \A p \in Paths : content[p] # "part"
    BY <2>1, <2>4
  <2> QED
    BY <2>1, <2>2, <2>3, <2>5, TypeParts DEF StickOK
<1>17. CASE Fails /\ UNCHANGED browse
  <2>1. path \in Media /\ fd' = NoPath /\ touched' = touched /\ ~Writing'
    BY <1>17 DEF Fails, Follows, Threads, Reading
  <2>2. Goal \in Paths /\ content' = [content EXCEPT ![Goal] = "none"]
    BY <1>17, <2>1, Sidecars DEF Goal, Fails, Removes, Removed
  <2>3. ~touched => \A p \in Paths : content[p] = "part" => p = Goal
    BY StickAssumption DEF StickAssumption
  <2> QED
    BY <2>1, <2>2, <2>3, TypeParts DEF StickOK
<1>18. CASE Completes /\ UNCHANGED browse
  <2>1. fd' = NoPath /\ touched' = touched /\ ~Writing' /\ Writing
    BY <1>18 DEF Completes, Follows
  <2>2. PICK end \in {"whole", "short"} :
          content' = IF fd = NoPath THEN content ELSE [content EXCEPT ![fd] = end]
    BY <1>18 DEF Completes, Ended
  <2>3. \A p \in Paths : content'[p] = "part" => content[p] = "part" /\ p # fd
    BY <2>2, TypeParts, StickAssumption DEF StickOK, StickAssumption
  <2> QED
    BY <2>1, <2>3
<1>19. CASE WorkerEnds /\ UNCHANGED browse
  BY <1>19 DEF WorkerEnds, Goal
<1>20. CASE UNCHANGED vars
  BY <1>20 DEF vars, Goal
<1> QED
  BY <1>1, <1>2, <1>3, <1>4, <1>5, <1>6, <1>7, <1>8, <1>9, <1>10, <1>11,
     <1>12, <1>13, <1>14, <1>15, <1>16, <1>17, <1>18, <1>19, <1>20
  DEF Next, Browsing, BrowseNext, Saving, SaveNext, SaveThread

\* The stick's variables keep their types.
LEMMA StickStep ==
  TypeOK /\ Threads /\ [Next]_vars
    => StickOK'
<1> SUFFICES ASSUME TypeOK, Threads, [Next]_vars
             PROVE  StickOK'
  OBVIOUS
<1>1. CASE SaveAs
  BY <1>1, TypeParts DEF SaveAs, SaveStart, StickOK
<1>2. CASE SelectSource /\ UNCHANGED save
  BY <1>2, TypeParts DEF SelectSource, StickOK
<1>3. CASE FirstPage /\ UNCHANGED save
  BY <1>3, TypeParts DEF FirstPage, SearchPage, StickOK
<1>4. CASE NextPage /\ UNCHANGED save
  BY <1>4, TypeParts DEF NextPage, SearchPage, StickOK
<1>5. CASE PreviousPage /\ UNCHANGED save
  BY <1>5, TypeParts DEF PreviousPage, SearchPage, StickOK
<1>6. CASE Enter /\ UNCHANGED save
  BY <1>6, TypeParts
  DEF Enter, EnterFolder, EnterParent, EnterFeed, EnterFails, GoTo, StickOK
<1>7. CASE AddToPlaylist /\ UNCHANGED save
  BY <1>7, TypeParts DEF AddToPlaylist, StickOK
<1>8. CASE RemoveFromPlaylist /\ UNCHANGED save
  BY <1>8, TypeParts DEF RemoveFromPlaylist, StickOK
<1>9. CASE PlayFirst /\ UNCHANGED save
  BY <1>9, TypeParts DEF PlayFirst, StickOK
<1>10. CASE PlayNext /\ UNCHANGED save
  BY <1>10, TypeParts DEF PlayNext, StickOK
<1>11. CASE (\E n \in Media : Delete(n)) /\ UNCHANGED save
  BY <1>11, TypeParts, DeleteStick
<1>12. CASE (\E n, m \in Media : Rename(n, m)) /\ UNCHANGED save
  BY <1>12, TypeParts, RenameStick
<1>13. CASE SaveBegins /\ UNCHANGED browse
  BY <1>13, TypeParts DEF SaveBegins, StickOK
<1>14. CASE SaveCannotBegin /\ UNCHANGED browse
  BY <1>14, TypeParts DEF SaveCannotBegin, StickOK
<1>15. CASE NoNetwork /\ UNCHANGED browse
  BY <1>15, TypeParts DEF NoNetwork, StickOK
<1>16. CASE Opens /\ UNCHANGED browse
  <2>1. Goal \in Paths
    BY <1>16, Sidecars DEF Opens, Threads, Reading, Goal
  <2> QED
    BY <1>16, <2>1, TypeParts DEF Opens, Removes, Removed, StickOK
<1>17. CASE Fails /\ UNCHANGED browse
  <2>1. Goal \in Paths
    BY <1>17, Sidecars DEF Fails, Threads, Reading, Goal
  <2> QED
    BY <1>17, <2>1, TypeParts DEF Fails, Removes, Removed, StickOK
<1>18. CASE Completes /\ UNCHANGED browse
  BY <1>18, TypeParts DEF Completes, Ended, StickOK
<1>19. CASE WorkerEnds /\ UNCHANGED browse
  BY <1>19, TypeParts DEF WorkerEnds, StickOK
<1>20. CASE UNCHANGED vars
  BY <1>20, TypeParts DEF vars, StickOK
<1> QED
  BY <1>1, <1>2, <1>3, <1>4, <1>5, <1>6, <1>7, <1>8, <1>9, <1>10, <1>11,
     <1>12, <1>13, <1>14, <1>15, <1>16, <1>17, <1>18, <1>19, <1>20
  DEF Next, Browsing, BrowseNext, Saving, SaveNext, SaveThread

\* Rows and playlist are of files that are there, or were lost.
LEMMA RowsStep ==
  TypeOK /\ Threads /\ PlaylistUnique /\ PlaylistPlayable /\ RowsThere /\ [Next]_vars
    => ShownOK' /\ RowsThere' /\ PlaylistPlayable'
<1> SUFFICES ASSUME TypeOK, Threads, PlaylistUnique, PlaylistPlayable, RowsThere, [Next]_vars
             PROVE  ShownOK' /\ RowsThere' /\ PlaylistPlayable'
  OBVIOUS
<1>1. CASE SaveAs
  BY <1>1, TypeParts
  DEF SaveAs, SaveStart, ShownOK, RowsThere, PlaylistPlayable, Present
<1>2. CASE SelectSource /\ UNCHANGED save
  BY <1>2, TypeParts
  DEF SelectSource, ShownOK, RowsThere, PlaylistPlayable, Present
<1>3. CASE FirstPage /\ UNCHANGED save
  <2>1. SearchPage(1) /\ 1 \in Nat \ {0}
    BY <1>3 DEF FirstPage
  <2> QED
    BY <2>1, PageLoaded DEF SearchPage, PlaylistPlayable, Present
<1>4. CASE NextPage /\ UNCHANGED save
  <2>1. SearchPage(page + 1) /\ page + 1 \in Nat \ {0}
    BY <1>4, TypeParts DEF NextPage, PlaceOK
  <2> QED
    BY <2>1, PageLoaded DEF SearchPage, PlaylistPlayable, Present
<1>5. CASE PreviousPage /\ UNCHANGED save
  <2> DEFINE p == IF page > 1 THEN page - 1 ELSE 1
  <2>1. SearchPage(p) /\ p \in Nat \ {0}
    BY <1>5, TypeParts DEF PreviousPage, PlaceOK
  <2> QED
    BY <2>1, PageLoaded DEF SearchPage, PlaylistPlayable, Present
<1>6. CASE Enter /\ UNCHANGED save
  <2> PICK e \in rows :
        EnterFolder(e) \/ EnterParent(e) \/ EnterFeed(e) \/ EnterFails(e)
    BY <1>6 DEF Enter
  <2>1. UNCHANGED <<playlist, content, lost>>
    BY DEF EnterFolder, EnterParent, EnterFeed, EnterFails, GoTo
  <2>2. ShownOK' /\ RowsThere'
    <3>1. CASE EnterFails(e)
      BY <2>1, <3>1, TypeParts DEF EnterFails, ShownOK, RowsThere, Present
    <3>2. CASE ~EnterFails(e)
      BY <3>2, FolderLoaded, FeedLoaded DEF EnterFolder, EnterParent
    <3> QED
      BY <3>1, <3>2
  <2> QED
    BY <2>1, <2>2 DEF PlaylistPlayable, Present
<1>7. CASE AddToPlaylist /\ UNCHANGED save
  <2> PICK e \in rows : Add(e)
    BY <1>7 DEF AddToPlaylist
  <2>1. UNCHANGED <<shown, content, lost>>
    BY <1>7 DEF AddToPlaylist
  <2>2. playlist \in Seq(Rows) /\ e \in Rows /\ playlist' = Append(playlist, e)
    BY TypeParts DEF SongsOK, ShownOK, Add
  <2>3. \A i \in DOMAIN playlist' :
          playlist'[i] = e \/ \E j \in DOMAIN playlist : playlist'[i] = playlist[j]
    BY <2>2
  <2>4. PlaylistPlayable'
    BY <2>1, <2>3 DEF PlaylistPlayable, RowsThere, Present
  <2> QED
    BY <2>1, <2>4, TypeParts DEF ShownOK, RowsThere, Present
<1>8. CASE RemoveFromPlaylist /\ UNCHANGED save
  <2> PICK e \in rows : playlist' = Without(playlist, e)
    BY <1>8 DEF RemoveFromPlaylist
  <2>1. UNCHANGED <<shown, content, lost>>
    BY <1>8 DEF RemoveFromPlaylist
  <2>2. \A k \in DOMAIN playlist' : \E i \in DOMAIN playlist : playlist'[k] = playlist[i]
    BY WithoutRemoves, TypeParts DEF SongsOK, PlaylistUnique
  <2>3. PlaylistPlayable'
    BY <2>1, <2>2 DEF PlaylistPlayable, Present
  <2> QED
    BY <2>1, <2>3, TypeParts DEF ShownOK, RowsThere, Present
<1>9. CASE PlayFirst /\ UNCHANGED save
  BY <1>9, TypeParts
  DEF PlayFirst, ShownOK, RowsThere, PlaylistPlayable, Present
<1>10. CASE PlayNext /\ UNCHANGED save
  BY <1>10, TypeParts
  DEF PlayNext, ShownOK, RowsThere, PlaylistPlayable, Present
<1>11. CASE (\E n \in Media : Delete(n)) /\ UNCHANGED save
  <2> PICK n \in Media : Delete(n)
    BY <1>11
  <2>1. LoadFavorites(content', folder, 1) /\ lost' = lost
          /\ playlist' = Without(playlist, n)
    BY DEF Delete, BackToFirst
  <2>2. ShownOK' /\ RowsThere'
    BY <2>1, FavoritesLoaded, TypeParts DEF RowsThere, Present
  <2>3. \A k \in DOMAIN playlist' :
          playlist'[k] # n /\ \E i \in DOMAIN playlist : playlist'[k] = playlist[i]
    BY <2>1, WithoutRemoves, TypeParts DEF SongsOK, PlaylistUnique
  <2>4. \A e \in Media \ {n} : content'[e] = content[e]
    BY DeleteStick, TypeParts
  <2>5. PlaylistPlayable'
    BY <2>1, <2>3, <2>4 DEF PlaylistPlayable, Present
  <2> QED
    BY <2>2, <2>5
<1>12. CASE (\E n, m \in Media : Rename(n, m)) /\ UNCHANGED save
  <2> PICK n \in Media, m \in Media : Rename(n, m)
    BY <1>12
  <2>1. LoadFavorites(content', folder, 1) /\ playlist' = Without(playlist, n)
          /\ lost' = lost \ {m}
    BY DEF Rename, BackToFirst
  <2>2. ShownOK' /\ RowsThere'
    BY <2>1, FavoritesLoaded, TypeParts DEF RowsThere, Present
  <2>3. \A k \in DOMAIN playlist' :
          playlist'[k] # n /\ \E i \in DOMAIN playlist : playlist'[k] = playlist[i]
    BY <2>1, WithoutRemoves, TypeParts DEF SongsOK, PlaylistUnique
  <2>4. content'[m] # "none" /\ \A e \in Media \ {n, m} : content'[e] = content[e]
    BY RenameStick, TypeParts
  <2>5. PlaylistPlayable'
    BY <2>1, <2>3, <2>4 DEF PlaylistPlayable, Present
  <2> QED
    BY <2>2, <2>5
<1>13. CASE SaveBegins /\ UNCHANGED browse
  BY <1>13, TypeParts
  DEF SaveBegins, ShownOK, RowsThere, PlaylistPlayable, Present
<1>14. CASE SaveCannotBegin /\ UNCHANGED browse
  BY <1>14, TypeParts
  DEF SaveCannotBegin, ShownOK, RowsThere, PlaylistPlayable, Present
<1>15. CASE NoNetwork /\ UNCHANGED browse
  BY <1>15, TypeParts
  DEF NoNetwork, ShownOK, RowsThere, PlaylistPlayable, Present
<1>16. CASE Opens /\ UNCHANGED browse
  <2>1. UNCHANGED <<shown, playlist>>
    BY <1>16
  <2>2. \A e \in Media : Present(e) \/ e \in lost => (Present(e) \/ e \in lost)'
    BY <1>16, TypeParts, StickAssumption
    DEF Opens, Removes, Removed, StickOK, Present, Paths, StickAssumption
  <2> QED
    BY <2>1, <2>2, TypeParts DEF ShownOK, RowsThere, PlaylistPlayable
<1>17. CASE Fails /\ UNCHANGED browse
  <2>1. UNCHANGED <<shown, playlist>>
    BY <1>17
  <2>2. \A e \in Media : Present(e) \/ e \in lost => (Present(e) \/ e \in lost)'
    BY <1>17, TypeParts, StickAssumption
    DEF Fails, Removes, Removed, StickOK, Present, Paths, StickAssumption
  <2> QED
    BY <2>1, <2>2, TypeParts DEF ShownOK, RowsThere, PlaylistPlayable
<1>18. CASE Completes /\ UNCHANGED browse
  <2>1. UNCHANGED <<shown, playlist>>
    BY <1>18
  <2>2. \A e \in Media : Present(e) \/ e \in lost => (Present(e) \/ e \in lost)'
    BY <1>18, TypeParts, StickAssumption
    DEF Completes, Ended, StickOK, Present, Paths, StickAssumption
  <2> QED
    BY <2>1, <2>2, TypeParts DEF ShownOK, RowsThere, PlaylistPlayable
<1>19. CASE WorkerEnds /\ UNCHANGED browse
  BY <1>19, TypeParts
  DEF WorkerEnds, ShownOK, RowsThere, PlaylistPlayable, Present
<1>20. CASE UNCHANGED vars
  BY <1>20, TypeParts
  DEF vars, ShownOK, RowsThere, PlaylistPlayable, Present
<1> QED
  BY <1>1, <1>2, <1>3, <1>4, <1>5, <1>6, <1>7, <1>8, <1>9, <1>10, <1>11,
     <1>12, <1>13, <1>14, <1>15, <1>16, <1>17, <1>18, <1>19, <1>20
  DEF Next, Browsing, BrowseNext, Saving, SaveNext, SaveThread

-----------------------------------------------------------------------------
\* The inductive invariant.
THEOREM Invariance == Spec => []IInv
<1>1. IInv /\ [Next]_vars => IInv'
  <2> SUFFICES ASSUME IInv, [Next]_vars PROVE IInv'
    OBVIOUS
  <2>1. Flags' /\ PlaceOK' /\ SaveOK' /\ SongsOK' /\ PlaylistUnique'
    BY FlagsStep, PlaceStep, SaveStep, SongsStep DEF IInv
  <2>2. StickOK' /\ ShownOK' /\ RowsThere' /\ PlaylistPlayable'
    BY StickStep, RowsStep DEF IInv
  <2>3. TypeOK'
    BY <2>1, <2>2, TypeParts, PTL
  <2>4. Threads' /\ OpenFile'
    BY ThreadsStep, OpenFileStep DEF IInv
  <2> QED
    BY <2>1, <2>2, <2>3, <2>4 DEF IInv
<1> QED
  BY InvInit, <1>1, PTL DEF Spec

\* Every variable has its type.
THEOREM TypeCorrect == Spec => []TypeOK
<1>1. IInv => TypeOK
  BY DEF IInv
<1> QED
  BY Invariance, <1>1, PTL

\* go_playlist_add and go_playlist_remove keep the playlist free of repetitions.
THEOREM NoItemTwice == Spec => []PlaylistUnique
<1>1. IInv => PlaylistUnique
  BY DEF IInv
<1> QED
  BY Invariance, <1>1, PTL

\* What GoTube renames or deletes leaves the playlist; only a failed save takes a
\* file away from it.
THEOREM SongsArePlayable == Spec => []PlaylistPlayable
<1>1. IInv => PlaylistPlayable
  BY DEF IInv
<1> QED
  BY Invariance, <1>1, PTL

\* A download that failed, at whichever point, leaves no part of its file
\* behind.  One that its server cut short is no failure to the code.
THEOREM SavesLeaveNoParts == Spec => []NoPartLeft
<1>1. IInv => NoPartLeft
  BY StickAssumption
  DEF StickAssumption, IInv, OpenFile, Threads, Writing, Reading, NoPartLeft
<1> QED
  BY Invariance, <1>1, PTL

\* go_save_start never writes what the save thread may still read.
THEOREM BuffersAreUndisturbed == Spec => BuffersUndisturbed
<1>1. IInv /\ [Next]_vars => [Reading => UNCHANGED path]_vars
  <2> SUFFICES ASSUME IInv, [Next]_vars, Reading PROVE UNCHANGED path
    OBVIOUS
  <2>1. save_state = 1 /\ main # "joining"
    BY DEF IInv, Threads
  <2>2. ~SaveAs
    BY <2>1 DEF SaveAs, SaveStart, Busy
  <2>3. CASE Browsing \/ UNCHANGED vars
    BY <2>3 DEF Browsing, vars
  <2>4. CASE Saving
    BY <2>4 DEF Saving, SaveNext, SaveThread, SaveBegins, SaveCannotBegin,
                NoNetwork, Opens, Fails, Completes, WorkerEnds
  <2> QED
    BY <2>2, <2>3, <2>4 DEF Next
<1> QED
  BY Invariance, <1>1, PTL DEF Spec, BuffersUndisturbed

-----------------------------------------------------------------------------
(***************************************************************************)
(* Pages.                                                                  *)
(***************************************************************************)

\* A scan meets the entries of a directory in an order, and they are finitely
\* many.
LEMMA EntriesRanked ==
  ASSUME NEW c, NEW f
  PROVE  Ranked(Entries(c, f), Slot) /\ Cardinality(Entries(c, f)) \in Nat
<1>1. Entries(c, f) \subseteq DOMAIN Slot
  BY DEF Entries
<1>2. DOMAIN Slot = Media \union Folders \union {Parent}
  BY BrowseAssumption DEF BrowseAssumption
<1>3. IsFiniteSet(Media \union Folders \union {Parent})
  BY BrowseAssumption, FS_Union, FS_AddElement DEF BrowseAssumption
<1>4. IsFiniteSet(Entries(c, f))
  BY <1>1, <1>2, <1>3, FS_Subset
<1>5. /\ \A e \in DOMAIN Slot : Slot[e] \in Nat
      /\ \A d, e \in DOMAIN Slot : Slot[d] = Slot[e] => d = e
  BY BrowseAssumption DEF BrowseAssumption
<1> QED
  BY <1>1, <1>4, <1>5, FS_CardinalityType DEF Ranked

\* Where a page begins, where it ends, and where the next one does.
LEMMA PageLimits ==
  ASSUME NEW p \in Nat \ {0}
  PROVE  /\ (p - 1) * PageRows \in Nat /\ p * PageRows \in Nat
         /\ p * PageRows = (p - 1) * PageRows + PageRows
         /\ ((p + 1) - 1) * PageRows = p * PageRows
         /\ (p + 1) * PageRows = p * PageRows + PageRows
         /\ PageRows \in Nat \ {0}
<1>1. PageRows \in Nat \ {0}
  BY BrowseAssumption DEF BrowseAssumption
<1> QED
  BY <1>1

\* load_favorites fills an array of PageRows items: a page has no more.
THEOREM PagesFit ==
  ASSUME NEW c, NEW f, NEW p \in Nat \ {0}
  PROVE  /\ IsFiniteSet(EntriesOn(c, f, p))
         /\ Cardinality(EntriesOn(c, f, p)) \in 0 .. PageRows
<1> DEFINE E == Entries(c, f)
           a == (p - 1) * PageRows
           b == p * PageRows
           S == {e \in E : a <= Rank(E, Slot, e) /\ Rank(E, Slot, e) < b}
<1>1. EntriesOn(c, f, p) = S
  BY DEF EntriesOn, OnPage, Rank
<1>2. a \in Nat /\ b \in Nat /\ b = a + PageRows /\ PageRows \in Nat \ {0}
  BY PageLimits
<1>3. Ranked(E, Slot)
  BY EntriesRanked
<1> HIDE DEF E, a, b
<1>4. a <= b
  BY <1>2
<1>5. IsFiniteSet(S) /\ Cardinality(S) \in Nat /\ Cardinality(S) <= b - a
  BY <1>2, <1>3, <1>4, RankedBetween
<1> QED
  BY <1>1, <1>2, <1>5

\* Paging shows every entry of a directory, and shows none twice.
THEOREM PagesPartition ==
  ASSUME NEW c, NEW f, NEW e \in Entries(c, f)
  PROVE  /\ \E p \in Nat \ {0} : e \in EntriesOn(c, f, p)
         /\ \A p, q \in Nat \ {0} :
              e \in EntriesOn(c, f, p) /\ e \in EntriesOn(c, f, q) => p = q
<1> DEFINE n == Rank(Entries(c, f), Slot, e)
           T == {p \in Nat : n < p * PageRows}
<1>1. n \in Nat
  BY EntriesRanked, RankOrder
<1>2. PageRows \in Nat \ {0}
  BY BrowseAssumption DEF BrowseAssumption
<1>3. \A p \in Nat \ {0} : e \in EntriesOn(c, f, p) <=> OnPage(n, p)
  BY DEF EntriesOn, Rank
<1> HIDE DEF n
<1>4. n + 1 \in T
  <2>1. (n + 1) * (PageRows - 1) \in Nat
    BY <1>1, <1>2
  <2>2. (n + 1) * PageRows = (n + 1) * (PageRows - 1) + n + 1
    BY <1>1, <1>2
  <2> QED
    BY <1>1, <2>1, <2>2
<1>5. PICK p \in T : \A m \in T : p <= m
  <2>1. T \in SUBSET Nat /\ T # {}
    BY <1>4
  <2> HIDE DEF T
  <2> QED
    BY <2>1, LeastNatural
<1>6. p \in Nat \ {0} /\ OnPage(n, p)
  <2>1. p # 0
    BY <1>1, <1>2
  <2>2. p - 1 \in Nat /\ p - 1 \notin T
    BY <1>5, <2>1
  <2>3. (p - 1) * PageRows \in Nat
    BY <1>2, <2>2
  <2> QED
    BY <1>1, <2>1, <2>2, <2>3 DEF OnPage
<1>7. ASSUME NEW k \in Nat \ {0}, NEW m \in Nat \ {0}, OnPage(n, k), OnPage(n, m), k < m
      PROVE  FALSE
  <2>1. (m - 1 - k) * PageRows \in Nat
    BY <1>2, <1>7
  <2>2. (m - 1) * PageRows = (m - 1 - k) * PageRows + k * PageRows
    BY <1>2
  <2>3. k * PageRows \in Nat
    BY <1>2
  <2> QED
    BY <1>1, <1>7, <2>1, <2>2, <2>3 DEF OnPage
<1> QED
  BY <1>3, <1>6, <1>7

\* R turns only where there is something: as long as a page and those before it
\* have fewer entries than the directory, the next page is not empty.
THEOREM PagesReach ==
  ASSUME NEW c, NEW f, NEW p \in Nat \ {0},
         (p - 1) * PageRows + Cardinality(EntriesOn(c, f, p)) < Cardinality(Entries(c, f))
  PROVE  EntriesOn(c, f, p + 1) # {}
<1> DEFINE E == Entries(c, f)
           a == (p - 1) * PageRows
           b == p * PageRows
           R(e) == Rank(E, Slot, e)
           Lower == {e \in E : 0 <= R(e) /\ R(e) < a}
<1>1. Ranked(E, Slot) /\ Cardinality(E) \in Nat
  BY EntriesRanked
<1>2. a \in Nat /\ b \in Nat /\ PageRows \in Nat \ {0}
        /\ ((p + 1) - 1) * PageRows = b /\ (p + 1) * PageRows = b + PageRows
  BY PageLimits
<1>3. /\ EntriesOn(c, f, p) = {e \in E : a <= R(e) /\ R(e) < b}
      /\ EntriesOn(c, f, p + 1) =
           {e \in E : ((p + 1) - 1) * PageRows <= R(e) /\ R(e) < (p + 1) * PageRows}
  BY DEF EntriesOn, OnPage, Rank
<1>4. \A e \in E : R(e) \in Nat /\ R(e) < Cardinality(E)
  <2> HIDE DEF E
  <2> QED
    BY <1>1, RankOrder
<1>5. CASE b < Cardinality(E)
  <2>1. \E e \in E : R(e) = b
    <3> HIDE DEF E, b
    <3> QED
      BY <1>1, <1>2, <1>5, RankTaken
  <2> QED
    BY <1>2, <1>3, <2>1
<1>6. CASE Cardinality(E) <= b
  <2> DEFINE On == EntriesOn(c, f, p)
  <2>1. IsFiniteSet(Lower) /\ Cardinality(Lower) \in Nat /\ Cardinality(Lower) <= a
    <3> HIDE DEF E, a
    <3>1. 0 \in Nat /\ 0 <= a /\ a - 0 = a
      BY <1>2
    <3> QED
      BY <1>1, <1>2, <3>1, RankedBetween
  <2>2. IsFiniteSet(On) /\ Cardinality(On) \in Nat
    BY PagesFit
  <2>3. E = Lower \union On
    <3> HIDE DEF E, a, b
    <3>1. \A e \in E : (0 <= R(e) /\ R(e) < a) \/ (a <= R(e) /\ R(e) < b)
      BY <1>1, <1>2, <1>4, <1>6
    <3> QED
      BY <1>3, <3>1
  <2>4. a + Cardinality(On) < Cardinality(E)
    OBVIOUS
  <2> HIDE DEF E, Lower, On, a, b
  <2>5. Cardinality(Lower \cap On) \in Nat
    BY <2>1, FS_Intersection, FS_CardinalityType
  <2>6. Cardinality(E) = Cardinality(Lower) + Cardinality(On) - Cardinality(Lower \cap On)
    BY <2>1, <2>2, <2>3, FS_Union
  <2> QED
    BY <1>1, <1>2, <2>1, <2>2, <2>4, <2>5, <2>6
<1> QED
  BY <1>1, <1>2, <1>5, <1>6

-----------------------------------------------------------------------------
(***************************************************************************)
(* R finds rows.  While a page of Favorites is shown the save thread may   *)
(* add the file that it writes, take it away, and turn a feed into a       *)
(* video: the counts are those of a stick c that was, which differs from   *)
(* the present one by no more than that.                                   *)
(***************************************************************************)

\* The counts are those of a page of the stick c.
Counted(c) ==
  /\ total = Cardinality(Entries(c, folder))
  /\ last = (page - 1) * PageRows
              + Cardinality({e \in EntriesOn(c, folder, page) : Appended(c, e)})

\* What the save thread may have done to c.
SavedSince(c) ==
  /\ \A e \in Media : content[e] = "feed" => c[e] = "feed"
  /\ \A e \in Media \ {path} : c[e] = "none" <=> content[e] = "none"

FavoritesCounted ==
  source = "Favorites" /\ ~turned /\ CanNext =>
    \E c \in [Paths -> {"none", "part", "short", "whole", "feed"}] : Counted(c) /\ SavedSince(c)

\* A page of the playlist that is not its last one is full.
SongsCounted ==
  source = "Playlist" /\ ~turned /\ CanNext => last >= page * PageRows

\* A media file that is open is listed.
OpenListed == fd \in Media => Present(fd)

PInv == FavoritesCounted /\ SongsCounted /\ OpenListed

\* After a page of Favorites is loaded, the counts are those of the stick.
LEMMA FavoritesCount ==
  ASSUME ShownOK, StickOK',
         turned' \/ source' # "Favorites" \/ LoadFavorites(content', folder', page')
  PROVE  FavoritesCounted'
<1> SUFFICES ASSUME LoadFavorites(content', folder', page'), CanNext'
             PROVE  \E c \in [Paths -> {"none", "part", "short", "whole", "feed"}] :
                      Counted(c)' /\ SavedSince(c)'
  BY DEF FavoritesCounted
<1>1. ~(total' = 0 /\ last' = last)
  BY DEF CanNext, ShownOK
<1>2. Counted(content)' /\ SavedSince(content)'
  BY <1>1 DEF LoadFavorites, Shows, Counted, SavedSince
<1>3. content' \in [Paths -> {"none", "part", "short", "whole", "feed"}]
  BY DEF StickOK
<1> QED
  BY <1>2, <1>3 DEF Counted, SavedSince

\* The songs of a page are an interval of the playlist.
LEMMA SongsInterval ==
  ASSUME NEW p \in Nat \ {0}, SongsOK
  PROVE  SongsOn(p) = {i \in 1 .. Len(playlist) :
                         (p - 1) * PageRows + 1 <= i /\ i <= p * PageRows}
<1>1. DOMAIN playlist = 1 .. Len(playlist) /\ Len(playlist) \in Nat
  BY DEF SongsOK
<1>2. (p - 1) * PageRows \in Nat /\ p * PageRows \in Nat
  BY PageLimits
<1>3. SongsOn(p) = {i \in 1 .. Len(playlist) :
                      (p - 1) * PageRows <= i - 1 /\ i - 1 < p * PageRows}
  BY <1>1 DEF SongsOn, OnPage
<1>4. \A i \in 1 .. Len(playlist) :
        /\ (p - 1) * PageRows <= i - 1 <=> (p - 1) * PageRows + 1 <= i
        /\ i - 1 < p * PageRows <=> i <= p * PageRows
  BY <1>1, <1>2
<1> QED
  BY <1>3, <1>4

\* So are the songs of a page that was loaded, if R may turn it.
LEMMA SongsCount ==
  ASSUME NEW p \in Nat \ {0}, SongsOK, LoadPlaylist(p), CanNext'
  PROVE  last' >= p * PageRows
<1> DEFINE a == (p - 1) * PageRows
           b == p * PageRows
           n == Len(playlist)
<1>1. a \in Nat /\ b \in Nat /\ b = a + PageRows /\ PageRows \in Nat \ {0}
  BY PageLimits
<1>2. n \in Nat
  BY DEF SongsOK
<1>3. last' = a + Cardinality(SongsOn(p)) /\ total' = n
  BY DEF LoadPlaylist, Shows
<1>4. a + Cardinality(SongsOn(p)) < n
  BY <1>3 DEF CanNext
<1>5. SongsOn(p) = {i \in 1 .. n : a + 1 <= i /\ i <= b}
  BY SongsInterval
<1> HIDE DEF a, b, n
<1>6. a + 1 \in Int /\ b \in Int /\ n \in Int
  BY <1>1, <1>2
<1>7. CASE b <= n
  <2>1. SongsOn(p) = a + 1 .. b
    BY <1>1, <1>2, <1>5, <1>7
  <2>2. Cardinality(a + 1 .. b) = IF a + 1 > b THEN 0 ELSE b - (a + 1) + 1
    BY <1>6, FS_Interval
  <2>3. Cardinality(SongsOn(p)) = PageRows
    BY <1>1, <2>1, <2>2
  <2> QED
    BY <1>1, <1>3, <2>3 DEF b
<1>8. CASE n < b
  <2>1. SongsOn(p) = a + 1 .. n
    BY <1>1, <1>2, <1>5, <1>8
  <2>2. Cardinality(a + 1 .. n) = IF a + 1 > n THEN 0 ELSE n - (a + 1) + 1
    BY <1>6, FS_Interval
  <2>3. a + Cardinality(SongsOn(p)) >= n
    BY <1>1, <1>2, <2>1, <2>2
  <2> QED
    BY <1>1, <1>2, <1>4, <2>1, <2>2
<1> QED
  BY <1>1, <1>2, <1>7, <1>8

\* A page that search_page loads is counted, whatever the source.
LEMMA PageCounted ==
  ASSUME TypeOK, NEW p \in Nat \ {0}, SearchPage(p)
  PROVE  FavoritesCounted' /\ SongsCounted'
<1> USE TypeParts
<1>1. UNCHANGED <<source, folder, content, fd, lost, playlist>> /\ page' = p /\ LoadPage(p)
  BY DEF SearchPage
<1>2. StickOK'
  BY <1>1 DEF StickOK
<1>3. source = "Favorites" => LoadFavorites(content, folder, p)
  BY <1>1 DEF LoadPage
<1>4. source = "Playlist" => LoadPlaylist(p)
  BY <1>1 DEF LoadPage
<1>5. FavoritesCounted'
  BY <1>1, <1>2, <1>3, FavoritesCount
<1>6. SongsCounted'
  BY <1>1, <1>4, SongsCount DEF SongsCounted
<1> QED
  BY <1>5, <1>6

\* A step that leaves the page alone, and does to the stick what the save
\* thread does, leaves it counted.
LEMMA CountsKept ==
  ASSUME FavoritesCounted, SongsCounted, UNCHANGED <<shown, place, path>>,
         \A e \in Media : content'[e] = "feed" => content[e] = "feed",
         \A e \in Media \ {path} : content'[e] = "none" <=> content[e] = "none"
  PROVE  FavoritesCounted' /\ SongsCounted'
<1>1. ASSUME NEW c, Counted(c) PROVE Counted(c)'
  BY <1>1 DEF Counted
<1>2. ASSUME NEW c, SavedSince(c) PROVE SavedSince(c)'
  BY <1>2 DEF SavedSince
<1>3. CanNext' = CanNext
  BY DEF CanNext
<1> QED
  BY <1>1, <1>2, <1>3 DEF FavoritesCounted, SongsCounted

\* What the save thread is after is its path, or the sidecar of it.
LEMMA GoalPaths ==
  ASSUME Threads, Reading
  PROVE  Goal \in Paths /\ (Goal \in Media => Goal = path)
<1>1. path \in Media
  BY DEF Threads
<1>2. Goal = path \/ Goal = Sidecar[path]
  BY DEF Goal
<1> QED
  BY <1>1, <1>2, Sidecars

\* Every step keeps the pages counted.
LEMMA CountedStep ==
  IInv /\ PInv /\ [Next]_vars => PInv'
<1> SUFFICES ASSUME TypeOK, Threads, PInv, [Next]_vars PROVE PInv'
  BY DEF IInv
<1> USE DEF PInv
<1>1. CASE SaveAs
  BY <1>1 DEF SaveAs, SaveStart, FavoritesCounted, SongsCounted, OpenListed, Present
<1>2. CASE SelectSource /\ UNCHANGED save
  BY <1>2 DEF SelectSource, FavoritesCounted, SongsCounted, CanNext, OpenListed, Present
<1>3. CASE FirstPage /\ UNCHANGED save
  <2>1. SearchPage(1) /\ 1 \in Nat \ {0}
    BY <1>3 DEF FirstPage
  <2> QED
    BY <2>1, PageCounted DEF SearchPage, OpenListed, Present
<1>4. CASE NextPage /\ UNCHANGED save
  <2>1. SearchPage(page + 1) /\ page + 1 \in Nat \ {0}
    BY <1>4, TypeParts DEF NextPage, PlaceOK
  <2> QED
    BY <2>1, PageCounted DEF SearchPage, OpenListed, Present
<1>5. CASE PreviousPage /\ UNCHANGED save
  <2> DEFINE p == IF page > 1 THEN page - 1 ELSE 1
  <2>1. SearchPage(p) /\ p \in Nat \ {0}
    BY <1>5, TypeParts DEF PreviousPage, PlaceOK
  <2> QED
    BY <2>1, PageCounted DEF SearchPage, OpenListed, Present
<1>6. CASE Enter /\ UNCHANGED save
  <2> PICK e \in rows :
        EnterFolder(e) \/ EnterParent(e) \/ EnterFeed(e) \/ EnterFails(e)
    BY <1>6 DEF Enter
  <2>1. UNCHANGED <<content, fd>>
    BY DEF EnterFolder, EnterParent, EnterFeed, EnterFails, GoTo
  <2>2. ASSUME NEW f, GoTo(f) PROVE FavoritesCounted' /\ SongsCounted'
    <3>1. LoadFavorites(content', folder', page') /\ source' = source
            /\ turned' = (source # "Favorites")
      BY <2>1, <2>2 DEF GoTo
    <3>2. StickOK'
      BY <2>2, TypeParts DEF GoTo, StickOK
    <3> QED
      BY <3>1, <3>2, FavoritesCount, TypeParts DEF SongsCounted
  <2>3. CASE EnterFeed(e)
    <3>1. (1 - 1) * PageRows = 0
      BY BrowseAssumption DEF BrowseAssumption
    <3>2. (last' = 0 /\ total' = 0) \/ (last' = 1 /\ total' = 1)
      BY <2>3, <3>1 DEF EnterFeed, Shows
    <3> QED
      BY <2>1, <3>2 DEF FavoritesCounted, SongsCounted, CanNext, OpenListed, Present
  <2>4. CASE EnterFails(e)
    <3>1. UNCHANGED shown /\ page' = 1 /\ turned' = (turned \/ page # 1)
            /\ UNCHANGED <<source, folder, path>>
      BY <1>6, <2>4 DEF EnterFails
    <3>2. CASE page = 1
      <4>1. turned' = turned
        BY <3>1, <3>2, TypeParts DEF Flags
      <4>2. FavoritesCounted' /\ SongsCounted'
        BY <2>1, <3>1, <3>2, <4>1, CountsKept
      <4> QED
        BY <2>1, <4>2 DEF OpenListed, Present
    <3>3. CASE page # 1
      <4>1. turned'
        BY <3>1, <3>3
      <4> QED
        BY <2>1, <4>1 DEF FavoritesCounted, SongsCounted, OpenListed, Present
    <3> QED
      BY <3>2, <3>3
  <2> QED
    BY <2>1, <2>2, <2>3, <2>4 DEF EnterFolder, EnterParent, OpenListed, Present
<1>7. CASE AddToPlaylist /\ UNCHANGED save
  BY <1>7, CountsKept DEF AddToPlaylist, OpenListed, Present
<1>8. CASE RemoveFromPlaylist /\ UNCHANGED save
  BY <1>8, CountsKept DEF RemoveFromPlaylist, OpenListed, Present
<1>9. CASE PlayFirst /\ UNCHANGED save
  BY <1>9, CountsKept DEF PlayFirst, OpenListed, Present
<1>10. CASE PlayNext /\ UNCHANGED save
  BY <1>10, CountsKept DEF PlayNext, OpenListed, Present
<1>11. CASE (\E n \in Media : Delete(n)) /\ UNCHANGED save
  <2> PICK n \in Media : Delete(n)
    BY <1>11
  <2>1. LoadFavorites(content', folder, 1) /\ UNCHANGED <<source, folder, page>>
          /\ turned' = (page # 1) /\ source # "Playlist"
    BY DEF Delete, BackToFirst
  <2>2. StickOK'
    BY DeleteStick, TypeParts
  <2>3. FavoritesCounted' /\ SongsCounted'
    BY <2>1, <2>2, FavoritesCount, TypeParts DEF SongsCounted
  <2>4. OpenListed'
    <3>1. \A e \in Media \ {n} : content'[e] = content[e]
      BY DeleteStick, TypeParts
    <3>2. fd' = IF fd \in {n, Sidecar[n]} THEN NoPath ELSE fd
      BY DEF Delete
    <3>3. NoPath \notin Media
      BY StickAssumption DEF StickAssumption, Paths
    <3> QED
      BY <3>1, <3>2, <3>3 DEF OpenListed, Present
  <2> QED
    BY <2>3, <2>4
<1>12. CASE (\E n, m \in Media : Rename(n, m)) /\ UNCHANGED save
  <2> PICK n \in Media, m \in Media : Rename(n, m)
    BY <1>12
  <2>1. LoadFavorites(content', folder, 1) /\ UNCHANGED <<source, folder, page>>
          /\ turned' = (page # 1) /\ source # "Playlist"
    BY DEF Rename, BackToFirst
  <2>2. StickOK'
    BY RenameStick, TypeParts
  <2>3. FavoritesCounted' /\ SongsCounted'
    BY <2>1, <2>2, FavoritesCount, TypeParts DEF SongsCounted
  <2>4. OpenListed'
    <3>1. content'[m] # "none" /\ \A e \in Media \ {n, m} : content'[e] = content[e]
      BY RenameStick, TypeParts
    <3>2. Sidecar[n] \notin Media /\ Sidecar[m] \notin Media
      BY Sidecars
    <3>3. fd' \in Media => fd' = m \/ (fd' = fd /\ fd # n)
      BY <3>2 DEF Rename
    <3> QED
      BY <3>1, <3>3 DEF OpenListed, Present
  <2> QED
    BY <2>3, <2>4
<1>13. CASE SaveBegins /\ UNCHANGED browse
  BY <1>13, CountsKept DEF SaveBegins, OpenListed, Present
<1>14. CASE SaveCannotBegin /\ UNCHANGED browse
  BY <1>14, CountsKept DEF SaveCannotBegin, OpenListed, Present
<1>15. CASE NoNetwork /\ UNCHANGED browse
  BY <1>15, CountsKept DEF NoNetwork, OpenListed, Present
<1>16. CASE Opens /\ UNCHANGED browse
  <2>1. Goal \in Paths /\ (Goal \in Media => Goal = path)
    BY <1>16, GoalPaths DEF Opens, Reading
  <2>2. fd' = Goal /\ path' = path /\ content' = [content EXCEPT ![Goal] = "part"]
    BY <1>16 DEF Opens
  <2>3. content'[Goal] = "part" /\ \A e \in Paths \ {Goal} : content'[e] = content[e]
    BY <2>1, <2>2, TypeParts DEF StickOK
  <2> QED
    BY <1>16, <2>1, <2>2, <2>3, CountsKept DEF Paths, OpenListed, Present
<1>17. CASE Fails /\ UNCHANGED browse
  <2>1. Goal \in Paths /\ (Goal \in Media => Goal = path)
    BY <1>17, GoalPaths DEF Fails, Reading
  <2>2. fd' = NoPath /\ path' = path /\ content' = [content EXCEPT ![Goal] = "none"]
    BY <1>17 DEF Fails, Removes, Removed
  <2>3. content'[Goal] = "none" /\ \A e \in Paths \ {Goal} : content'[e] = content[e]
    BY <2>1, <2>2, TypeParts DEF StickOK
  <2>4. NoPath \notin Media
    BY StickAssumption DEF StickAssumption, Paths
  <2> QED
    BY <1>17, <2>1, <2>2, <2>3, <2>4, CountsKept DEF Paths, OpenListed, Present
<1>18. CASE Completes /\ UNCHANGED browse
  <2> PICK end \in {"whole", "short"} :
        content' = IF fd = NoPath THEN content ELSE [content EXCEPT ![fd] = end]
    BY <1>18 DEF Completes, Ended
  <2>1. fd' = NoPath /\ path' = path
    BY <1>18 DEF Completes
  <2>2. \A e \in Media : (content'[e] = content[e])
                           \/ (e = fd /\ content'[e] \in {"whole", "short"})
    BY TypeParts DEF StickOK, Paths
  <2>3. \A e \in Media : content'[e] = "none" <=> content[e] = "none"
    BY <2>2 DEF OpenListed, Present
  <2>4. NoPath \notin Media
    BY StickAssumption DEF StickAssumption, Paths
  <2> QED
    BY <1>18, <2>1, <2>2, <2>3, <2>4, CountsKept DEF OpenListed
<1>19. CASE WorkerEnds /\ UNCHANGED browse
  BY <1>19, CountsKept DEF WorkerEnds, OpenListed, Present
<1>20. CASE UNCHANGED vars
  BY <1>20, CountsKept DEF vars, OpenListed, Present
<1> QED
  BY <1>1, <1>2, <1>3, <1>4, <1>5, <1>6, <1>7, <1>8, <1>9, <1>10, <1>11,
     <1>12, <1>13, <1>14, <1>15, <1>16, <1>17, <1>18, <1>19, <1>20
  DEF Next, Browsing, BrowseNext, Saving, SaveNext, SaveThread

\* Two sticks that differ at most by one file, and of whose folder as many
\* entries are listed, list the same.
LEMMA SameEntries ==
  ASSUME NEW c, NEW d, NEW f, NEW x,
         \A e \in Media \ {x} : c[e] = "none" <=> d[e] = "none",
         Cardinality(Entries(c, f)) = Cardinality(Entries(d, f))
  PROVE  Entries(c, f) = Entries(d, f)
<1>1. ASSUME NEW a, NEW b, x \in Entries(a, f), x \notin Entries(b, f),
             Entries(b, f) = Entries(a, f) \ {x}
      PROVE  Cardinality(Entries(a, f)) # Cardinality(Entries(b, f))
  <2> DEFINE A == Entries(a, f)
             B == Entries(b, f)
  <2>1. IsFiniteSet(B) /\ Cardinality(B) \in Nat /\ A = B \union {x} /\ x \notin B
    BY <1>1, EntriesRanked DEF Ranked
  <2> HIDE DEF A, B
  <2>2. Cardinality(A) = Cardinality(B) + 1
    BY <2>1, FS_AddElement
  <2> QED
    BY <2>1, <2>2 DEF A, B
<1>2. \A e : e # x => (e \in Entries(c, f) <=> e \in Entries(d, f))
  BY DEF Entries, Listed
<1>3. CASE x \in Entries(c, f) /\ x \notin Entries(d, f)
  BY <1>1, <1>2, <1>3
<1>4. CASE x \notin Entries(c, f) /\ x \in Entries(d, f)
  BY <1>1, <1>2, <1>4
<1> QED
  BY <1>2, <1>3, <1>4

\* R finds rows: the page it turns to is not empty, if the list has as many
\* entries as when it was counted and each of them got a row.
THEOREM NextPageHasRows == Spec => []PagingFindsRows
<1>1. Init => PInv
  BY StickAssumption
  DEF Init, StickInit, BrowseInit, StickAssumption, PInv, FavoritesCounted, SongsCounted,
      CanNext, OpenListed, Paths
<1>2. IInv /\ PInv => PagingFindsRows
  <2> SUFFICES ASSUME IInv, PInv, CanNext, ~turned
               PROVE  /\ source = "Favorites"
                           /\ total = Cardinality(Entries(content, folder))
                           /\ (\A e \in Entries(content, folder) : Appended(content, e))
                         => EntriesOn(content, folder, page + 1) # {}
                      /\ source = "Playlist" /\ total = Len(playlist)
                         => SongsOn(page + 1) # {}
    BY DEF PagingFindsRows, IInv, TypeOK, Sources
  <2> USE DEF IInv, PInv
  <2>1. page \in Nat \ {0} /\ last \in Nat /\ total \in Nat /\ SongsOK
    BY TypeParts DEF PlaceOK, ShownOK
  <2>2. last < total
    BY DEF CanNext
  <2>3. ASSUME source = "Favorites", total = Cardinality(Entries(content, folder)),
               \A e \in Entries(content, folder) : Appended(content, e)
        PROVE  EntriesOn(content, folder, page + 1) # {}
    <3>1. PICK c : Counted(c) /\ SavedSince(c)
      BY <2>3 DEF FavoritesCounted
    <3>2. Entries(c, folder) = Entries(content, folder)
      <4>1. Cardinality(Entries(c, folder)) = Cardinality(Entries(content, folder))
        BY <2>3, <3>1 DEF Counted
      <4>2. \A e \in Media \ {path} : c[e] = "none" <=> content[e] = "none"
        BY <3>1 DEF SavedSince
      <4> QED
        BY <4>1, <4>2, SameEntries
    <3>3. \A p \in Nat : EntriesOn(c, folder, p) = EntriesOn(content, folder, p)
      BY <3>2 DEF EntriesOn
    <3>4. \A e \in EntriesOn(c, folder, page) : Appended(c, e)
      <4>1. Feeds \subseteq Media
        BY StickAssumption DEF StickAssumption
      <4> QED
        BY <2>3, <3>1, <3>2, <4>1 DEF EntriesOn, Appended, SavedSince
    <3>5. {e \in EntriesOn(c, folder, page) : Appended(c, e)} = EntriesOn(c, folder, page)
      BY <3>4
    <3>6. (page - 1) * PageRows + Cardinality(EntriesOn(c, folder, page))
            < Cardinality(Entries(c, folder))
      BY <2>2, <3>1, <3>5 DEF Counted
    <3> QED
      BY <2>1, <3>3, <3>6, PagesReach
  <2>4. ASSUME source = "Playlist", total = Len(playlist)
        PROVE  SongsOn(page + 1) # {}
    <3> DEFINE b == page * PageRows
    <3>1. b <= last
      BY <2>4 DEF SongsCounted
    <3>2. b \in Nat /\ ((page + 1) - 1) * PageRows = b
            /\ (page + 1) * PageRows = b + PageRows /\ PageRows \in Nat \ {0}
      BY <2>1, PageLimits
    <3>3. page + 1 \in Nat \ {0}
      BY <2>1
    <3>4. SongsOn(page + 1) = {i \in 1 .. Len(playlist) : b + 1 <= i /\ i <= b + PageRows}
      BY <2>1, <3>2, <3>3, SongsInterval
    <3> HIDE DEF b
    <3>5. b + 1 \in 1 .. Len(playlist) /\ b + 1 <= b + PageRows
      BY <2>1, <2>2, <2>4, <3>1, <3>2
    <3>6. b + 1 \in SongsOn(page + 1)
      BY <3>2, <3>4, <3>5
    <3> QED
      BY <3>6
  <2> QED
    BY <2>3, <2>4
<1> QED
  BY Invariance, CountedStep, <1>1, <1>2, PTL DEF Spec
=============================================================================
