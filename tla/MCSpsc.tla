------------------------------- MODULE MCSpsc -------------------------------
(***************************************************************************)
(* Instances of Spsc for TLC.  Word is far smaller than 2^64 so that the   *)
(* cursors wrap around within a few sends.                                 *)
(***************************************************************************)
EXTENDS Spsc, TLC, FiniteSets

LOCAL INSTANCE Bitwise

(* `c & mask` of the code is the remainder modulo the capacity.            *)
ASSUME MaskIsRemainder == \A c \in Cursor : (c & (Cap - 1)) = Index(c)

ValueSymmetry == Permutations(Values)
=============================================================================
