--------------------------- MODULE DurablePrompts ---------------------------
(***************************************************************************)
(* What the core promises about a prompt, whatever the process goes        *)
(* through: once accepted it stays pending until its session ends or the   *)
(* operator wipes it.  A crash, a restart and a new process are steps that *)
(* change nothing here.                                                    *)
(***************************************************************************)
CONSTANT Sids

VARIABLE fate    \* what became of each session id

Fate == {"new", "refused", "pending", "wiped", "ended"}

Init == fate = [s \in Sids |-> "new"]

Become(S, f) == fate' = [s \in Sids |-> IF s \in S THEN f ELSE fate[s]]

\* submit_prompt returned the id.
Accept(s) == fate[s] = "new" /\ Become({s}, "pending")

\* The process died before the id was returned: the client knows of no prompt.
Refuse(s) == fate[s] = "new" /\ Become({s}, "refused")

\* Sessions end, with a reply or a failure, each at most once.  A session that
\* was running when its prompt was wiped still ends.
End(S) == /\ S # {} /\ \A s \in S : fate[s] \in {"pending", "wiped"}
          /\ Become(S, "ended")

\* reset all.
Wipe(S) == (\A s \in S : fate[s] = "pending") /\ Become(S, "wiped")

Next == \/ \E s \in Sids : Accept(s) \/ Refuse(s)
        \/ \E S \in SUBSET Sids : End(S) \/ Wipe(S)

Spec == Init /\ [][Next]_fate
============================================================================
