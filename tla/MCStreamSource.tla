--------------------------- MODULE MCStreamSource ---------------------------
(***************************************************************************)
(* StreamSource on every text of up to MaxText characters: a letter, the   *)
(* character that begins the match targets, a blank, the line feed and a   *)
(* carriage return that is not part of a CR LF.                            *)
(***************************************************************************)
EXTENDS StreamSource, TLC

CONSTANTS MaxText, x, dash, blank, ctrl

MCChar == {x, dash, blank, LF, CR, ctrl}
MCBlank == {blank}
MCForbidden == {ctrl}
MCTargets == {<<dash, dash, dash>>, <<dash, blank>>, <<LF, dash>>}

HasCRLF(t) == \E i \in 1..(Len(t) - 1) : t[i] = CR /\ t[i + 1] = LF

PlainTexts ==
    {t \in UNION {[1..n -> MCChar \ {ctrl}] : n \in 0..MaxText} : ~HasCRLF(t)}
=============================================================================
