------------------------------- MODULE MCBus -------------------------------
(***************************************************************************)
(* Instances of Bus for TLC: messages on topic "ab", subscriptions to "a", *)
(* which does not match it, and to "a*", which does.                       *)
(***************************************************************************)
EXTENDS Bus, TLC

MCTopics == {<<97, 98>>}
MCPatterns == {<<97>>, <<97, Star>>}

ThreadSymmetry == Permutations(Threads)
=============================================================================
