-------------------------------- MODULE Wire --------------------------------
(***************************************************************************)
(* The conversions between the agent's messages and the provider's wire    *)
(* format: _parse_args of agent.py, and _parse_response, the serializers   *)
(* and the payload of chat() in llm/gigachat.py.  Pure operators.          *)
(***************************************************************************)
EXTENDS Integers, Sequences, SequencesExt

\* The classes of texts the code tells apart: "number" is JSON, "NaN" is JSON to
\* Python only, "blank" is white space, "half" holds half a surrogate pair,
\* "huge" exceeds the cap of the file tools, "words" is none of these.
Text == {"", "words", "number", "NaN", "blank", "half", "huge"}
IsJson(text) == text = "number"
PythonLoads(text) == text \in {"number", "NaN"}

\* Arguments of a call: what it is on (a path, a topic) and a text.
Arguments(on, text) == [on |-> on, text |-> text]
NoArguments == Arguments("", "")

\* How the model sent them: an "object", a "string" that parses as one, or
\* "junk": a string that does not, another JSON value, or nothing.
Raw(form, args) == [form |-> form, args |-> args]
Call(id, name, raw) == [id |-> id, name |-> name, raw |-> raw]

\* Message of llm/base.py; `quoted` is set on the wire only.
Message(role, content, calls, name, id) ==
    [role |-> role, content |-> content, calls |-> calls, name |-> name, id |-> id,
     quoted |-> FALSE]
Prompt == Message("user", "words", <<>>, "", "")

\* An answer of the provider: tool_calls, or at most one function_call.
Answer(toolCalls, functionCall) == [toolCalls |-> toolCalls, functionCall |-> functionCall]

----------------------------------------------------------------------------
(* From the wire. *)

\* A function_call becomes one tool call, its arguments a string.
FromFunctionCall(fc) ==
    Call("fresh", fc.name, IF fc.raw.form = "object" THEN Raw("string", fc.raw.args) ELSE fc.raw)

\* _parse_response
ParseResponse(answer) ==
    Message("assistant", "words",
            IF answer.toolCalls # <<>> THEN answer.toolCalls
            ELSE [i \in DOMAIN answer.functionCall |-> FromFunctionCall(answer.functionCall[i])],
            "", "")

\* _parse_args
ParseArgs(raw) == IF raw.form \in {"object", "string"} THEN raw.args ELSE NoArguments

\* The tool message handle appends after a call.
ToolMessage(call, text) == Message("tool", text, <<>>, call.name, call.id)

----------------------------------------------------------------------------
(* To the wire. *)

\* The content of a function result is quoted unless json.loads accepts it.
Quoted(text) == ~PythonLoads(text)

\* Mutation of EchoedArgs: the string is echoed, not the object in it.
EchoedString(raw) == NoArguments

\* The arguments of an echoed function_call, as an object.
EchoedArgs(raw) == IF raw.form \in {"object", "string"} THEN raw.args ELSE NoArguments

\* _serialize_message: only the first call of an answer is echoed, and neither
\* calls nor results have ids.
SerializeFunctions(m) ==
    IF m.role = "tool"
    THEN [m EXCEPT !.role = "function", !.calls = <<>>, !.id = "", !.quoted = Quoted(m.content)]
    ELSE IF m.calls # <<>>
    THEN [m EXCEPT !.name = "", !.id = "",
                   !.calls = <<Call("", Head(@).name, Raw("object", EchoedArgs(Head(@).raw)))>>]
    ELSE [m EXCEPT !.id = ""]

\* _serialize_message_openai: a result goes out with its id and name, any other
\* message with its calls, as they came.
SerializeTools(m) == IF m.role = "tool" THEN [m EXCEPT !.calls = <<>>] ELSE [m EXCEPT !.id = ""]

\* function_call ("functions") or tool_choice ("tools"): the agent gives no
\* tool_choice of its own.
Choice(format, sent) ==
    IF format = "functions" /\ \E i \in DOMAIN sent : sent[i].role = "function"
    THEN "none sent" ELSE "auto"

\* The messages of chat()'s payload.
Sent(format, messages) ==
    [i \in DOMAIN messages |-> IF format = "tools" THEN SerializeTools(messages[i])
                               ELSE SerializeFunctions(messages[i])]
============================================================================
