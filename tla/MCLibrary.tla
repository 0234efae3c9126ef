------------------------------ MODULE MCLibrary ------------------------------
(***************************************************************************)
(* Library with a folder in Favorites, that holds nothing but "..", and    *)
(* two files that share a sidecar, one of them a feed by its name.         *)
(***************************************************************************)
EXTENDS Library

CONSTANTS root, sub, clip, feed, side, up, video

MCMedia == {clip, feed}
MCFeeds == {feed}
MCFolders == {root, sub}
MCDirOf == [e \in {clip, feed, sub} |-> root]
MCSidecar == [e \in {clip, feed} |-> side]
MCBefore == {[p \in Paths |-> CASE p = clip -> "whole" [] p = feed -> f [] OTHER -> "none"] :
               f \in {"none", "feed"}}
MCSlot == [e \in {up, sub, clip, feed} \union MCFolders |->
             CASE e = up -> 1 [] e = sub -> 2 [] e = clip -> 3 [] e = feed -> 4
               [] e = root -> 5]
=============================================================================
