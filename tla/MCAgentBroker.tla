--------------------------- MODULE MCAgentBroker ---------------------------
(* Instances of AgentBroker for TLC. *)
EXTENDS AgentBroker, TLC

\* The second request fills a batch that has anything else in it.
MCSize == [i \in Ids |-> IF i = 2 THEN 2 ELSE 1]
MCSymmetry == Permutations(Exchanges)
=============================================================================
