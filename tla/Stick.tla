-------------------------------- MODULE Stick --------------------------------
(***************************************************************************)
(* The files of the memory stick that GoTube lists, saves, renames and     *)
(* deletes: media files and feeds below the Favorites directory, and the   *)
(* .THM sidecar that go_sidecar_path (src/src/media/save.c) names after a  *)
(* media file by replacing its extension.  Names are abstracted to values. *)
(* The .xml sidecar of comments is renamed and deleted as the .THM is, and *)
(* left out.                                                               *)
(***************************************************************************)
EXTENDS Integers, Sequences

CONSTANTS
  Media,     \* paths of files a directory shows
  Feeds,     \* those with the extension .ashx
  Folders,   \* directories
  Root,      \* the Favorites directory
  DirOf,     \* the directory of a file, and of a directory but Root
  Sidecar,   \* the .THM path of a file: two files may share one
  Before     \* what the stick may hold at the start

Thumbs == {Sidecar[n] : n \in Media}
Paths == Media \union Thumbs
NoPath == "no path"

ASSUME StickAssumption ==
  /\ Root \in Folders /\ Feeds \subseteq Media
  /\ DirOf \in [Media \union (Folders \ {Root}) -> Folders]
  /\ Media \intersect Folders = {} /\ Media \intersect Thumbs = {}
  /\ Before \subseteq [Paths -> {"none", "whole", "feed"}]
  /\ NoPath \notin Paths

VARIABLES
  content,   \* what a path holds: nothing, a file that is written or was given
             \* up (part), one cut short by its server, a whole file, a feed
  fd,        \* the path of the file that the save thread has open
  lost,      \* history: files that are missing because a save failed
  touched    \* history: the user renamed the open file

stick == <<content, fd, lost, touched>>

Present(p) == content[p] # "none"

StickTypeOK ==
  /\ content \in [Paths -> {"none", "part", "short", "whole", "feed"}]
  /\ fd \in Paths \union {NoPath}
  /\ lost \subseteq Media
  /\ touched \in BOOLEAN

StickInit == content \in Before /\ fd = NoPath /\ lost = {} /\ touched = FALSE

\* sceIoRename, which fails on a missing file and on a name that is taken.
Renamed(c, from, to) ==
  IF c[from] # "none" /\ c[to] = "none"
  THEN [c EXCEPT ![to] = c[from], ![from] = "none"]
  ELSE c

\* sceIoRemove.
Removed(c, p) == [c EXCEPT ![p] = "none"]
=============================================================================
