---------------------------- MODULE MCAgentLoop ----------------------------
(* AgentLoop on small instances. *)
EXTENDS AgentLoop

\* New prompts only: any two sessions are alike.
MCNothingLeft == <<>>
Symmetry == Permutations(Sids)

\* One prompt left by the previous process, or two, and new ones.
MCSids == {"r", "a", "b"}
MCOneLeft == <<"r">>
MCTwoLeft == <<"r", "a">>

MCOneCall == {<<>>, <<"now">>}
MCTwoCalls == {<<>>, <<"now", "now">>}
============================================================================
