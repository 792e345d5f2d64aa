------------------------------ MODULE Toolbox ------------------------------
(***************************************************************************)
(* The registry's execute and the bundled tools that keep state: the       *)
(* sandboxed files of tools/files.py and the knowledge of                  *)
(* tools/knowledge.py and memory/files.py.  Each handler is an operator    *)
(* from what is on disk to the outcomes of the call, those of failing file *)
(* operations among them; no handler of these suspends.                    *)
(***************************************************************************)
EXTENDS Wire, Functions, FiniteSets

CONSTANTS
    PathOf,   \* the path each argument stands for: blank, absolute or relative parts
    Topics,   \* the arguments that are well-formed topics
    Links     \* symbolic links the operator put on disk: a path to its target

\* A path on disk is the sequence of its names.  The sandbox exists: every
\* handler creates it first.
State == <<"state">>
ChatLogPath == <<"state", "chat.jsonl">>
Root == <<"state", "sandbox">>
Dir == "directory"
Name == STRING \cup {"..", "state", "sandbox", "chat.jsonl"}

\* An argument stands for a path: "" does too, in the calls without arguments.
ASSUME ToolboxAssumption ==
    /\ "" \in DOMAIN PathOf
    /\ \A on \in DOMAIN PathOf : PathOf[on].parts \in Seq(Name)
    /\ \A path \in DOMAIN Links : Links[path] \in Seq(Name)

\* What is on disk: directories and texts by path, links, and texts by topic.
Disk0 == [tree |-> [path \in {State, Root, ChatLogPath} |->
                       IF path \in {State, Root} THEN Dir ELSE "words"],
          links |-> Links, knowledge |-> << >>]

\* reset all: the chat log goes first, then the knowledge, then the files of
\* `state`, those of a directory before it.
Wiped == [tree |-> [path \in {State, Root} |-> Dir], links |-> << >>, knowledge |-> << >>]

\* What it leaves when a removal raises.
Parts(f) == {Restrict(f, kept) : kept \in SUBSET DOMAIN f}
Rooted(tree) ==
    {part \in Parts(tree) : /\ {State, Root} \subseteq DOMAIN part
                            /\ \A path \in DOMAIN part \ {State} : Front(path) \in DOMAIN part}
HalfWiped(disk) ==
    LET tree == Restrict(disk.tree, DOMAIN disk.tree \ {ChatLogPath}) IN
    [tree : {tree}, links : {disk.links}, knowledge : Parts(disk.knowledge)]
    \cup [tree : Rooted(tree), links : Parts(disk.links), knowledge : {<< >>}]

\* A handler returns a text, which may be a warning, or raises.
Returns(disk, text) == [disk |-> disk, raised |-> FALSE, text |-> text]
Warns(disk) == Returns(disk, "words")
Raises(disk) == [disk |-> disk, raised |-> TRUE, text |-> "words"]

----------------------------------------------------------------------------
(* Files. *)

IsBelow(dir, path) == IsPrefix(dir, path)

Follow(disk, path) == IF path \in DOMAIN disk.links THEN disk.links[path] ELSE path

\* One name further along a path: "..", or a name that may be a link.
Walk(disk, path, part) ==
    IF part = ".." THEN (IF path = <<>> THEN path ELSE Front(path))
    ELSE Follow(disk, Append(path, part))

\* pathlib's resolve(): "..", and links wherever they come.
Resolve(disk, parts) ==
    LET at[n \in 0..Len(parts)] == IF n = 0 THEN Root ELSE Walk(disk, at[n - 1], parts[n])
    IN at[Len(parts)]

\* Mutation of Safe: the parts are tested, not what they resolve to.
SafeParts(disk, path) == path.kind = "relative" /\ path.parts # <<>> /\ Head(path.parts) # ".."

\* _resolve_safe
Safe(disk, path) == path.kind = "relative" /\ IsBelow(Root, Resolve(disk, path.parts))

IsFile(disk, path) == path \in DOMAIN disk.tree /\ disk.tree[path] # Dir

\* The path is refused, or a file operation fails: that of a tool's try
\* statement with a warning, that of _sandbox_root, resolve or is_file with an
\* exception.
Failing(disk, path) ==
    {Warns(disk)} \cup (IF path.kind = "relative" THEN {Raises(disk)} ELSE {})

FileRead(disk, args) ==
    LET path == PathOf[args.on]
        target == Resolve(disk, path.parts) IN
    Failing(disk, path)
    \cup (IF Safe(disk, path) /\ IsFile(disk, target) /\ disk.tree[target] # "huge"
          THEN {Returns(disk, disk.tree[target])} ELSE {})

\* What a failing write_text leaves of a text, in the file it truncated:
\* nothing, a part, taken for words, or all of it.
Cut(text) == {"", "words", text}

\* The first n names of a path are directories, made where there is nothing.
Made(disk, path, n) ==
    [disk EXCEPT !.tree = [p \in DOMAIN @ \cup {SubSeq(path, 1, k) : k \in 1..n} |->
                              IF p \in DOMAIN @ THEN @[p] ELSE Dir]]

Written(disk, path, text) ==
    [Made(disk, path, Len(path) - 1) EXCEPT !.tree =
        [p \in DOMAIN @ \cup {path} |-> IF p = path THEN text ELSE @[p]]]

\* A file among the parents, or a directory in the place of the file, is an
\* OSError before anything changes.
Blocked(disk, path) ==
    \/ \E n \in 1..(Len(path) - 1) : IsFile(disk, SubSeq(path, 1, n))
    \/ path \in DOMAIN disk.tree /\ disk.tree[path] = Dir

\* The text is encoded, to be measured, before anything is written.  Parents
\* are created from the top; then the file is truncated and written.
FileWrite(disk, args) ==
    LET path == PathOf[args.on]
        target == Resolve(disk, path.parts) IN
    IF ~Safe(disk, path) THEN Failing(disk, path)
    ELSE IF args.text = "half" THEN {Raises(disk)}
    ELSE IF args.text = "huge" \/ Blocked(disk, target) THEN Failing(disk, path)
    ELSE Failing(disk, path)
         \cup {Warns(Made(disk, target, n)) : n \in 1..(Len(target) - 1)}
         \cup {Warns(Written(disk, target, cut)) : cut \in Cut(args.text)}
         \cup {Returns(Written(disk, target, args.text), "words")}

----------------------------------------------------------------------------
(* Knowledge. *)

\* Nothing catches what read_text raises.
KnowledgeRead(disk, args) ==
    IF args.on \notin Topics THEN {Warns(disk)}
    ELSE {Raises(disk),
          IF args.on \in DOMAIN disk.knowledge THEN Returns(disk, disk.knowledge[args.on])
                                              ELSE Warns(disk)}

Stored(disk, topic, text) ==
    [disk EXCEPT !.knowledge =
        [t \in DOMAIN @ \cup {topic} |-> IF t = topic THEN text ELSE @[t]]]

\* Mutation of KnowledgeWrite: an OSError is caught, as file_write does.
KnowledgeWriteCaught(disk, args) ==
    IF args.on \notin Topics \/ args.text \in {"", "blank"} THEN {Warns(disk)}
    ELSE {Warns(Stored(disk, args.on, cut)) : cut \in Cut(args.text)}

\* write_text may fail to open the file, with nothing changed; once it has
\* truncated it, the text may fail to be encoded or written, and nothing
\* catches that.
KnowledgeWrite(disk, args) ==
    IF args.on \notin Topics \/ args.text \in {"", "blank"} THEN {Warns(disk)}
    ELSE {Raises(disk)}
         \cup {Raises(Stored(disk, args.on, cut)) : cut \in Cut(args.text) \ {"half"}}
         \cup (IF args.text = "half" THEN {}
               ELSE {Returns(Stored(disk, args.on, args.text), "words")})

----------------------------------------------------------------------------
(* execute of tools/registry.py, with the other bundled tools by what they  *)
(* may return: echo its text, now a date or a number of seconds, read_url a *)
(* text or an exception that is no HTTPError, the lists a text or an        *)
(* exception of the file system, an unknown name a warning.                 *)

Execute(disk, name, args) ==
    CASE name = "file_read"       -> FileRead(disk, args)
      [] name = "file_write"      -> FileWrite(disk, args)
      [] name = "knowledge_read"  -> KnowledgeRead(disk, args)
      [] name = "knowledge_write" -> KnowledgeWrite(disk, args)
      [] name = "echo"            -> {Returns(disk, args.text)}
      [] name = "now"             -> {Returns(disk, "words"), Returns(disk, "number")}
      [] name \in {"read_url", "file_list", "knowledge_list"}
                                  -> {Returns(disk, "words"), Raises(disk)}
      [] OTHER                    -> {Warns(disk)}
============================================================================
