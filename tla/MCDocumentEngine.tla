-------------------------- MODULE MCDocumentEngine --------------------------
(* Small instances of DocumentEngine for TLC.                              *)
EXTENDS DocumentEngine
=============================================================================
