------------------------------- MODULE Filter -------------------------------
(***************************************************************************)
(* Topic matching of crates/bus/src/lib.rs: the enum Filter with `parse`   *)
(* and `matches`, on sequences of bytes.                                   *)
(***************************************************************************)
EXTENDS Integers, Sequences

Star == 42   \* '*'

(* Filter::parse: a trailing '*' makes a prefix rule.                      *)
KeepsStar_Parse(pattern) ==
  IF pattern # <<>> /\ pattern[Len(pattern)] = Star
    THEN [kind |-> "Prefix", text |-> pattern]
    ELSE [kind |-> "Exact", text |-> pattern]
Parse(pattern) ==
  IF pattern # <<>> /\ pattern[Len(pattern)] = Star
    THEN [kind |-> "Prefix", text |-> SubSeq(pattern, 1, Len(pattern) - 1)]
    ELSE [kind |-> "Exact", text |-> pattern]

StartsWith(s, p) == Len(p) <= Len(s) /\ SubSeq(s, 1, Len(p)) = p

(* Filter::matches                                                         *)
Matches(filter, topic) ==
  IF filter.kind = "Exact" THEN filter.text = topic ELSE StartsWith(topic, filter.text)
=============================================================================
