--------------------------- MODULE MCMessagePath ---------------------------
(***************************************************************************)
(* Instances of MessagePath for TLC: every string of up to MaxText bytes   *)
(* over NUL, 'a', '*' and the bytes of a character of two, one of three    *)
(* and one of four bytes, every payload of up to PayloadLen + 1 bytes over *)
(* 0 and 7, and stamps on both sides of a byte boundary.                   *)
(***************************************************************************)
EXTENDS MessagePath

CONSTANTS MaxText, MaxPattern

Strings(alphabet, n) == UNION {[1 .. k -> alphabet] : k \in 0 .. n}

MCTexts == {s \in Strings({0, 97, Star, 195, 226, 240, 169}, MaxText) : ValidUtf8(s)}
MCPatterns == {s \in Strings({97, Star, 195, 226, 169}, MaxPattern) : ValidUtf8(s)}
MCPayloads == Strings({0, 7}, PayloadLen + 1)
MCStamps == {0, 1, 255, 256, 65535}
=============================================================================
