--------------------------- MODULE MCFilterUpdate ---------------------------
(***************************************************************************)
(* Instances of FilterUpdate for TLC.                                      *)
(***************************************************************************)
EXTENDS FilterUpdate

\* Sequences of lists, as the configurations name them.
NoLists     == <<>>
OneArchive  == <<"blacklists">>
Trackers    == <<"trackers">>
EasyList    == <<"easylist">>
BothAds     == <<"easylist", "easyprivacy">>

=============================================================================
