------------------------------ MODULE MCPhotos ------------------------------
(***************************************************************************)
(* Small instances of Photos for TLC.                                      *)
(***************************************************************************)
EXTENDS Photos
=============================================================================
