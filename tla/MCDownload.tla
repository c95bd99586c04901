----------------------------- MODULE MCDownload -----------------------------
(***************************************************************************)
(* Instances of Download for TLC; the sizes are those of MCUpload, and 0.  *)
(***************************************************************************)
EXTENDS Download

AllSizes   == 0..8
LargeSizes == 4..8

=============================================================================
