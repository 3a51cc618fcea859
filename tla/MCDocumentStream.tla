-------------------------- MODULE MCDocumentStream --------------------------
(***************************************************************************)
(* Instances of DocumentStream: one anchor name, the handle "!" and a      *)
(* named one, three documents to a stream and two parses.                  *)
(***************************************************************************)
EXTENDS DocumentStream
=============================================================================
