---------------------------- MODULE MCAgentTurn ----------------------------
(* AgentTurn on small instances. *)
EXTENDS AgentTurn

MCSids == {"r", "b"}
MCOneLeft == <<"r">>
MCNoPlans == {<<>>}

MCPathOf ==
    [on \in {"", "a/b", "link/x", "t"} |->
        CASE on = ""          -> [kind |-> "blank", parts |-> <<>>]
          [] on = "t"         -> [kind |-> "relative", parts |-> <<"t">>]
          [] on = "a/b"       -> [kind |-> "relative", parts |-> <<"a", "b">>]
          [] on = "link/x"    -> [kind |-> "relative", parts |-> <<"link", "chat.jsonl">>]]
MCTopics == {"t"}
MCLinks == (Root \o <<"link">>) :> State

Final == Answer(<<>>, <<>>)
One(name, form, on, text) == Answer(<<>>, <<Call("", name, Raw(form, Arguments(on, text)))>>)
Two(c, d) == Answer(<<c, d>>, <<>>)
\* Answers of the v1 API hold one call, answers of the v2 API two.
MCAnswers ==
    [functions |-> {Final,
                    One("echo", "junk", "", ""),
                    One("echo", "string", "", "NaN"),
                    One("file_write", "object", "a/b", "number"),
                    One("knowledge_write", "string", "t", "words")},
     tools |-> {Final,
                Two(Call("c1", "echo", Raw("string", Arguments("", "number"))),
                    Call("c2", "echo", Raw("junk", Arguments("", "")))),
                Two(Call("c1", "knowledge_write", Raw("object", Arguments("t", "half"))),
                    Call("c2", "file_write", Raw("string", Arguments("link/x", "words"))))}]
============================================================================
