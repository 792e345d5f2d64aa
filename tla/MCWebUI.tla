------------------------------ MODULE MCWebUI ------------------------------
(* WebUI on a small instance: every tab follows the same session. *)
EXTENDS WebUI

MCFollows == [t \in Tabs |-> CHOOSE s \in Sids : TRUE]

\* The other sessions' prompts and replies hold line separators.
MCSeparated == {m \in Message : \A t \in Tabs : m.sid # MCFollows[t]}
============================================================================
