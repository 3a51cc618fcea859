-------------------------- MODULE MCBufferedSource --------------------------
(***************************************************************************)
(* BufferedSource on every text of up to MaxText characters: a letter, the *)
(* character that begins the match targets, a blank, a control character   *)
(* and the line feed.                                                      *)
(***************************************************************************)
EXTENDS BufferedSource, TLC

CONSTANTS MaxText, x, dash, blank, ctrl

MCChar == {x, dash, blank, ctrl, LF}
MCTexts == UNION {[1..n -> MCChar] : n \in 0..MaxText}
MCBlank == {blank}
MCForbidden == {ctrl}

\* kStartDocument is a run of one character, ": " two different ones; a caller
\* of ISource::match may also pass a string with a line feed.
MCTargets == {<<dash, dash, dash>>, <<dash, blank>>, <<LF, dash>>}
=============================================================================
