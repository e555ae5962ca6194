----------------------------- MODULE MCBusTrial -----------------------------
(***************************************************************************)
(* An instance of BusTrial for TLC; the topic "b" stands for "bench".      *)
(***************************************************************************)
EXTENDS BusTrial

MCTopic == <<98>>
MCTopics == {MCTopic}
=============================================================================
