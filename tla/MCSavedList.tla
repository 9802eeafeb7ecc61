----------------------------- MODULE MCSavedList -----------------------------
(* The change log of a cluster, as an instance of SavedList for TLC.         *)
EXTENDS SavedList
=============================================================================
