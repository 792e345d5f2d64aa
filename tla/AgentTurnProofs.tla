-------------------------- MODULE AgentTurnProofs --------------------------
(***************************************************************************)
(* Theorems of AgentTurn, for any answers of the model, any paths and any  *)
(* links: what the tools do to the disk, what the model is sent and what   *)
(* the cards list of the calls.                                            *)
(***************************************************************************)
EXTENDS AgentTurn, AgentLoopProofs

----------------------------------------------------------------------------
(* The disk.  d is what is on it, a the arguments of a call.               *)

IsDisk(d) ==
    /\ d = [tree |-> d.tree, links |-> d.links, knowledge |-> d.knowledge]
    /\ d.tree \in [DOMAIN d.tree -> Text \cup {Dir}]
    /\ State \in DOMAIN d.tree
    /\ \A path \in DOMAIN d.links : d.links[path] \in Seq(Name)
    /\ d.knowledge \in [DOMAIN d.knowledge -> Text]

\* f is what resolve() goes through with the first n parts.
Walked(f, d, parts, n) ==
    f = [i \in 0..n |-> IF i = 0 THEN Root ELSE Walk(d, f[i - 1], parts[i])]

\* Every list of parts can be walked.
LEMMA WalkExists ==
    ASSUME NEW d, NEW parts, NEW n \in Nat
    PROVE  \E f : Walked(f, d, parts, n)
<1> DEFINE N == {k \in 0..n : ~ \E f : Walked(f, d, parts, k)}
<1>1. SUFFICES ASSUME N # {} PROVE FALSE
  OBVIOUS
<1>0. N \in SUBSET Nat
  OBVIOUS
<1>2. PICK k \in N : \A j \in N : k <= j
  <2> HIDE DEF N
  <2>. QED BY <1>0, <1>1, LeastNat
<1>3. CASE k = 0
  <2>1. Walked([i \in 0..0 |-> Root], d, parts, 0)
    BY DEF Walked
  <2>. QED BY <2>1, <1>2, <1>3
<1>4. CASE k # 0
  <2>1. k - 1 \in 0..n /\ k - 1 \notin N
    BY <1>2, <1>4
  <2>2. PICK g : Walked(g, d, parts, k - 1)
    BY <2>1
  <2> DEFINE f == [i \in 0..k |-> IF i = k THEN Walk(d, g[k - 1], parts[k]) ELSE g[i]]
  <2>3. \A i \in 0..(k - 1) : g[i] = IF i = 0 THEN Root ELSE Walk(d, g[i - 1], parts[i])
    BY <2>2 DEF Walked
  <2>4. ASSUME NEW i \in 0..k
        PROVE  f[i] = IF i = 0 THEN Root ELSE Walk(d, f[i - 1], parts[i])
    BY <2>3, <1>4
  <2>5. Walked(f, d, parts, k)
    BY <2>4 DEF Walked
  <2>. QED BY <2>5, <1>2
<1>. QED BY <1>3, <1>4

\* One name further, a path is a path.
LEMMA WalkIsPath ==
    ASSUME NEW d, IsDisk(d), NEW path \in Seq(Name), NEW part \in Name
    PROVE  Walk(d, path, part) \in Seq(Name)
<1>1. CASE part = ".."
  <2>1. ASSUME path # <<>> PROVE Front(path) \in Seq(Name)
    <3>1. SubSeq(path, 1, Len(path) - 1) \in Seq(Name)
      <4>1. Len(path) \in Nat /\ \A i \in 1..Len(path) : path[i] \in Name
        OBVIOUS
      <4>. QED BY <4>1
    <3>. QED BY <3>1 DEF Front
  <2>. QED BY <1>1, <2>1 DEF Walk
<1>2. CASE part # ".."
  <2>1. Append(path, part) \in Seq(Name)
    OBVIOUS
  <2>. QED BY <1>2, <2>1 DEF Walk, Follow, IsDisk
<1>. QED BY <1>1, <1>2

LEMMA RootIsPath == Root \in Seq(Name) /\ Len(Root) = 2 /\ State \in Seq(Name) /\ Len(State) = 1
BY DEF Root, State, Name

\* What a path resolves to is a path, whatever links are on it.
LEMMA ResolveIsPath ==
    ASSUME NEW d, IsDisk(d), NEW parts \in Seq(Name)
    PROVE  Resolve(d, parts) \in Seq(Name)
<1>1. Len(parts) \in Nat /\ \A i \in 1..Len(parts) : parts[i] \in Name
  OBVIOUS
<1>2. \E f : f = [n \in 0..Len(parts) |-> IF n = 0 THEN Root ELSE Walk(d, f[n - 1], parts[n])]
  <2>1. \E f : Walked(f, d, parts, Len(parts))
    BY <1>1, WalkExists
  <2>. QED BY <2>1 DEF Walked
<1> DEFINE at == CHOOSE f : f = [n \in 0..Len(parts) |->
                                 IF n = 0 THEN Root ELSE Walk(d, f[n - 1], parts[n])]
<1>3. Walked(at, d, parts, Len(parts))
  BY <1>2 DEF Walked
<1>4. Resolve(d, parts) = at[Len(parts)]
  BY DEF Resolve
<1> HIDE DEF at
<1>5. \A n \in 0..Len(parts) : at[n] = IF n = 0 THEN Root ELSE Walk(d, at[n - 1], parts[n])
  BY <1>3 DEF Walked
<1> DEFINE N == {n \in 0..Len(parts) : at[n] \notin Seq(Name)}
<1>6. N = {}
  <2>1. SUFFICES ASSUME N # {} PROVE FALSE
    OBVIOUS
  <2>2. N \in SUBSET Nat
    BY <1>1
  <2>3. PICK n \in N : \A k \in N : n <= k
    <3> HIDE DEF N
    <3>. QED BY <2>1, <2>2, LeastNat
  <2>4. n # 0
    BY <1>1, <1>5, RootIsPath
  <2>5. n - 1 \in 0..Len(parts) /\ n \in 1..Len(parts) /\ n - 1 < n
    BY <2>4, <1>1
  <2>6. at[n - 1] \in Seq(Name)
    <3>1. ~ (n - 1 \in N)
      <4> HIDE DEF N
      <4>. QED BY <2>2, <2>3, <2>5
    <3>. QED BY <3>1, <2>5
  <2>7. at[n] = Walk(d, at[n - 1], parts[n])
    BY <2>4, <1>5
  <2>8. parts[n] \in Name
    BY <2>5, <1>1
  <2>. QED BY <2>6, <2>7, <2>8, WalkIsPath
<1>7. Len(parts) \in 0..Len(parts)
  BY <1>1
<1>. QED BY <1>4, <1>6, <1>7

\* What is not below the sandbox is the same on d and on e.
Spares(d, e) ==
    \A path \in DOMAIN d.tree \cup DOMAIN e.tree :
        ~IsBelow(Root, path) => path \in DOMAIN d.tree /\ path \in DOMAIN e.tree
                                /\ e.tree[path] = d.tree[path]

\* A parent of a path in the sandbox is in the sandbox, or `state` itself.
LEMMA ParentsOfBelow ==
    ASSUME NEW target \in Seq(Name), IsBelow(Root, target), NEW n \in 1..(Len(target) - 1)
    PROVE  IsBelow(Root, SubSeq(target, 1, n)) \/ SubSeq(target, 1, n) = State
<1>1. Len(target) \in Nat /\ Len(Root) = 2 /\ Root \in Seq(Name) /\ State \in Seq(Name) /\ Len(State) = 1
  BY RootIsPath
<1>2. 2 <= Len(target) /\ SubSeq(Root, 1, 2) = SubSeq(target, 1, 2)
  BY <1>1 DEF IsBelow, IsPrefix
<1>3. target[1] = Root[1] /\ target[2] = Root[2]
  <2>1. SubSeq(Root, 1, 2)[1] = Root[1] /\ SubSeq(Root, 1, 2)[2] = Root[2]
    BY <1>1
  <2>2. SubSeq(target, 1, 2)[1] = target[1] /\ SubSeq(target, 1, 2)[2] = target[2]
    BY <1>1, <1>2
  <2>. QED BY <1>2, <2>1, <2>2
<1> DEFINE parent == SubSeq(target, 1, n)
<1>4. /\ parent \in Seq(Name) /\ Len(parent) = n /\ n \in Nat
      /\ \A i \in 1..n : parent[i] = target[i]
  BY <1>1
<1> HIDE DEF parent
<1>5. CASE n = 1
  <2>1. State[1] = Root[1]
    BY DEF State, Root
  <2>2. parent = State
    BY <1>1, <1>3, <1>4, <1>5, <2>1
  <2>. QED BY <2>2 DEF parent
<1>6. CASE n >= 2
  <2>1. parent[1] = Root[1] /\ parent[2] = Root[2]
    BY <1>3, <1>4, <1>6
  <2> DEFINE a == SubSeq(parent, 1, 2)
             b == SubSeq(Root, 1, 2)
  <2>2. a \in Seq(Name) /\ Len(a) = 2 /\ a[1] = parent[1] /\ a[2] = parent[2]
    BY <1>4, <1>6
  <2>3. b \in Seq(Name) /\ Len(b) = 2 /\ b[1] = Root[1] /\ b[2] = Root[2]
    <3>1. PICK root \in Seq(Name) : root = Root /\ Len(root) = 2
      BY <1>1
    <3>0. \A i \in 1..Len(root) : root[i] \in Name
      OBVIOUS
    <3>2. SubSeq(root, 1, 2) \in Seq(Name) /\ Len(SubSeq(root, 1, 2)) = 2
      BY <3>0, <3>1
    <3>3. SubSeq(root, 1, 2)[1] = root[1] /\ SubSeq(root, 1, 2)[2] = root[2]
      BY <3>1
    <3>. QED BY <3>1, <3>2, <3>3
  <2> HIDE DEF a, b
  <2>4. \A i \in 1..2 : a[i] = b[i]
    BY <2>1, <2>2, <2>3
  <2>5. a = b
    BY <2>2, <2>3, <2>4
  <2>6. IsBelow(Root, parent)
    BY <1>1, <1>4, <1>6, <2>5 DEF IsBelow, IsPrefix, a, b
  <2>. QED BY <2>6 DEF parent
<1>. QED BY <1>5, <1>6

----------------------------------------------------------------------------
(* The tools. *)

\* A topic has the same entry on d and on e.
Same(d, e, topic) ==
    /\ topic \in DOMAIN d.knowledge /\ topic \in DOMAIN e.knowledge
    /\ e.knowledge[topic] = d.knowledge[topic]

AllButOne(d, e, on) ==
    \A topic \in DOMAIN d.knowledge \cup DOMAIN e.knowledge : topic # on => Same(d, e, topic)

\* The entry is the text that was to be written.
Holds(e, a) ==
    /\ a.on \in DOMAIN e.knowledge /\ e.knowledge[a.on] = a.text
    /\ a.text \notin {"", "blank"}

\* What became of the knowledge in the call of a tool with outcome r.
Remembers(d, r, name, a) ==
    \/ r.disk.knowledge = d.knowledge
    \/ /\ name = "knowledge_write" /\ AllButOne(d, r.disk, a.on)
       /\ r.raised \/ Holds(r.disk, a)

\* The outcome r of a call leaves a disk, with nothing changed out of the
\* sandbox, and a text.
Outcome(d, name, a, r) ==
    /\ r = [disk |-> r.disk, raised |-> r.raised, text |-> r.text]
    /\ IsDisk(r.disk) /\ Spares(d, r.disk) /\ Remembers(d, r, name, a)
    /\ r.text \in Text /\ r.raised \in BOOLEAN

LEMMA WordsAreText == "words" \in Text /\ "number" \in Text /\ "" \in Text
BY DEF Text

\* A call that leaves the knowledge alone.
LEMMA ReturnsNew ==
    ASSUME NEW d, NEW e, NEW name, NEW a, NEW text \in Text,
           IsDisk(e), Spares(d, e), e.knowledge = d.knowledge
    PROVE  /\ Outcome(d, name, a, Returns(e, text)) /\ Outcome(d, name, a, Warns(e))
           /\ Outcome(d, name, a, Raises(e))
BY WordsAreText DEF Outcome, Remembers, Returns, Warns, Raises

LEMMA ReturnsSame ==
    ASSUME NEW d, IsDisk(d), NEW name, NEW a, NEW text \in Text
    PROVE  /\ Outcome(d, name, a, Returns(d, text)) /\ Outcome(d, name, a, Warns(d))
           /\ Outcome(d, name, a, Raises(d))
<1>1. Spares(d, d)
  BY DEF Spares
<1>. QED BY <1>1, ReturnsNew

LEMMA WarnsSame ==
    ASSUME NEW d, IsDisk(d), NEW name, NEW a
    PROVE  Outcome(d, name, a, Warns(d)) /\ Outcome(d, name, a, Raises(d))
<1>1. PICK text \in Text : text = "words"
  BY WordsAreText
<1>. QED BY <1>1, ReturnsSame

LEMMA FailingOutcome ==
    ASSUME NEW d, IsDisk(d), NEW name, NEW a, NEW path, NEW r \in Failing(d, path)
    PROVE  Outcome(d, name, a, r)
BY WarnsSame DEF Failing

\* The path of an argument.
LEMMA ArgumentIsPath ==
    ASSUME NEW d, IsDisk(d), NEW a \in ArgumentsType
    PROVE  Resolve(d, PathOf[a.on].parts) \in Seq(Name) /\ a.text \in Text
<1>1. a.on \in DOMAIN PathOf /\ a.text \in Text
  BY DEF ArgumentsType
<1>2. PathOf[a.on].parts \in Seq(Name)
  BY <1>1, ToolboxAssumption
<1>. QED BY <1>1, <1>2, ResolveIsPath

LEMMA FileReadOutcome ==
    ASSUME NEW d, IsDisk(d), NEW a \in ArgumentsType, NEW name, NEW r \in FileRead(d, a)
    PROVE  Outcome(d, name, a, r)
<1> DEFINE path == PathOf[a.on]
           target == Resolve(d, path.parts)
<1>1. CASE r \in Failing(d, path)
  BY <1>1, FailingOutcome
<1>2. CASE r \notin Failing(d, path)
  <2>1. IsFile(d, target) /\ r = Returns(d, d.tree[target])
    BY <1>2 DEF FileRead
  <2>2. d.tree[target] \in Text
    BY <2>1 DEF IsFile, IsDisk
  <2>. QED BY <2>1, <2>2, ReturnsSame
<1>. QED BY <1>1, <1>2

\* Directories made on the way to a path below the sandbox are below it.
LEMMA MadeIsDisk ==
    ASSUME NEW d, IsDisk(d), NEW target \in Seq(Name), IsBelow(Root, target),
           NEW n \in Nat, n <= Len(target) - 1, NEW e, e = Made(d, target, n)
    PROVE  IsDisk(e) /\ Spares(d, e) /\ e.knowledge = d.knowledge
<1> DEFINE parents == {SubSeq(target, 1, k) : k \in 1..n}
           tree == [p \in DOMAIN d.tree \cup parents |->
                       IF p \in DOMAIN d.tree THEN d.tree[p] ELSE Dir]
<1>1. e = [d EXCEPT !.tree = tree]
  BY DEF Made
<1>2. \A p \in parents : IsBelow(Root, p) \/ p = State
  <2>1. ASSUME NEW k \in 1..n
        PROVE  IsBelow(Root, SubSeq(target, 1, k)) \/ SubSeq(target, 1, k) = State
    <3>1. k \in 1..(Len(target) - 1)
      OBVIOUS
    <3>. QED BY <3>1, ParentsOfBelow
  <2>. QED BY <2>1
<1> HIDE DEF parents
<1>3. tree \in [DOMAIN tree -> Text \cup {Dir}] /\ State \in DOMAIN tree
  BY DEF IsDisk
<1>4. ASSUME NEW p \in DOMAIN d.tree \cup DOMAIN tree, ~IsBelow(Root, p)
      PROVE  p \in DOMAIN d.tree /\ p \in DOMAIN tree /\ tree[p] = d.tree[p]
  <2>1. p \in parents => p \in DOMAIN d.tree
    BY <1>2, <1>4 DEF IsDisk
  <2>. QED BY <1>4, <2>1
<1> HIDE DEF tree
<1>5. e = [tree |-> tree, links |-> d.links, knowledge |-> d.knowledge]
  <2>1. PICK x, y, z : d = [tree |-> x, links |-> y, knowledge |-> z]
    BY Zenon DEF IsDisk
  <2>. QED BY <1>1, <2>1
<1>6. IsDisk(e)
  BY <1>3, <1>5 DEF IsDisk
<1>7. Spares(d, e)
  BY <1>4, <1>5 DEF Spares
<1>. QED BY <1>5, <1>6, <1>7

\* A file is written below the sandbox, and so are the directories made for it.
LEMMA WrittenIsDisk ==
    ASSUME NEW d, IsDisk(d), NEW target \in Seq(Name), IsBelow(Root, target),
           NEW text \in Text, NEW e, e = Written(d, target, text)
    PROVE  IsDisk(e) /\ Spares(d, e) /\ e.knowledge = d.knowledge
<1>1. PICK n : n = Len(target) - 1
  OBVIOUS
<1>2. n \in Nat /\ n <= Len(target) - 1
  <2>1. Len(target) \in Nat /\ Len(Root) = 2
    BY RootIsPath
  <2>2. Len(Root) <= Len(target)
    BY DEF IsBelow, IsPrefix
  <2>. QED BY <1>1, <2>1, <2>2
<1>3. PICK f : f = Made(d, target, n)
  OBVIOUS
<1>4. IsDisk(f) /\ Spares(d, f) /\ f.knowledge = d.knowledge
  BY <1>2, <1>3, MadeIsDisk
<1> DEFINE tree == [p \in DOMAIN f.tree \cup {target} |-> IF p = target THEN text ELSE f.tree[p]]
<1>5. e = [f EXCEPT !.tree = tree]
  BY <1>1, <1>3 DEF Written
<1>6. tree \in [DOMAIN tree -> Text \cup {Dir}] /\ State \in DOMAIN tree
  BY <1>4 DEF IsDisk
<1>7. DOMAIN tree = DOMAIN f.tree \cup {target} /\ \A p \in DOMAIN f.tree : p # target => tree[p] = f.tree[p]
  OBVIOUS
<1> HIDE DEF tree
<1>8. e = [tree |-> tree, links |-> f.links, knowledge |-> f.knowledge]
  <2>1. PICK x, y, z : f = [tree |-> x, links |-> y, knowledge |-> z]
    BY <1>4, Zenon DEF IsDisk
  <2>. QED BY <1>5, <2>1
<1>9. IsDisk(e)
  BY <1>4, <1>6, <1>8 DEF IsDisk
<1>10. Spares(d, e)
  BY <1>4, <1>7, <1>8 DEF Spares
<1>. QED BY <1>4, <1>8, <1>9, <1>10

\* What was written of a text is a text.
LEMMA CutIsText ==
    ASSUME NEW text \in Text
    PROVE  Cut(text) \subseteq Text
BY WordsAreText DEF Cut

\* Wherever it failed, file_write leaves the rest of the disk alone.
LEMMA FileWriteOutcome ==
    ASSUME NEW d, IsDisk(d), NEW a \in ArgumentsType, NEW name, NEW r \in FileWrite(d, a)
    PROVE  Outcome(d, name, a, r)
<1> DEFINE path == PathOf[a.on]
           target == Resolve(d, path.parts)
<1>1. target \in Seq(Name) /\ a.text \in Text
  BY ArgumentIsPath
<1>2. CASE r \in Failing(d, path) \/ r = Raises(d)
  BY <1>2, FailingOutcome, WarnsSame
<1>3. CASE ~(r \in Failing(d, path) \/ r = Raises(d))
  <2>1. /\ Safe(d, path)
        /\ \/ \E n \in 1..(Len(target) - 1) : r = Warns(Made(d, target, n))
           \/ \E cut \in Cut(a.text) : r = Warns(Written(d, target, cut))
           \/ r = Returns(Written(d, target, a.text), "words")
    BY <1>3 DEF FileWrite
  <2>2. IsBelow(Root, target)
    BY <2>1 DEF Safe
  <2>3. PICK words \in Text : words = "words"
    BY WordsAreText
  <2> HIDE DEF target
  <2>4. CASE \E n \in 1..(Len(target) - 1) : r = Warns(Made(d, target, n))
    <3>1. PICK n \in 1..(Len(target) - 1) : r = Warns(Made(d, target, n))
      BY <2>4
    <3>2. PICK e : e = Made(d, target, n)
      OBVIOUS
    <3>3. n \in Nat /\ n <= Len(target) - 1
      BY <1>1
    <3>4. IsDisk(e) /\ Spares(d, e) /\ e.knowledge = d.knowledge
      BY <1>1, <2>2, <3>2, <3>3, MadeIsDisk
    <3>. QED BY <2>3, <3>1, <3>2, <3>4, ReturnsNew
  <2>5. ASSUME NEW text \in Text, NEW e, e = Written(d, target, text)
        PROVE  Outcome(d, name, a, Returns(e, words)) /\ Outcome(d, name, a, Warns(e))
    <3>1. IsDisk(e) /\ Spares(d, e) /\ e.knowledge = d.knowledge
      BY <1>1, <2>2, <2>5, WrittenIsDisk
    <3>. QED BY <3>1, ReturnsNew
  <2>6. CASE \E cut \in Cut(a.text) : r = Warns(Written(d, target, cut))
    <3>1. PICK cut \in Cut(a.text) : r = Warns(Written(d, target, cut))
      BY <2>6
    <3>2. cut \in Text
      BY <1>1, CutIsText
    <3>. QED BY <2>5, <3>1, <3>2
  <2>7. CASE r = Returns(Written(d, target, a.text), "words")
    BY <1>1, <2>3, <2>5, <2>7
  <2>. QED BY <2>1, <2>4, <2>6, <2>7
<1>. QED BY <1>2, <1>3

LEMMA KnowledgeReadOutcome ==
    ASSUME NEW d, IsDisk(d), NEW a \in ArgumentsType, NEW name, NEW r \in KnowledgeRead(d, a)
    PROVE  Outcome(d, name, a, r)
<1>1. CASE r \in {Warns(d), Raises(d)}
  BY <1>1, WarnsSame
<1>2. CASE r \notin {Warns(d), Raises(d)}
  <2>1. a.on \in DOMAIN d.knowledge /\ r = Returns(d, d.knowledge[a.on])
    BY <1>2 DEF KnowledgeRead
  <2>2. d.knowledge[a.on] \in Text
    BY <2>1 DEF IsDisk
  <2>. QED BY <2>1, <2>2, ReturnsSame
<1>. QED BY <1>1, <1>2

\* Knowledge of one topic is replaced, that of the others kept.
LEMMA StoredIsDisk ==
    ASSUME NEW d, IsDisk(d), NEW topic, NEW text \in Text, NEW e, e = Stored(d, topic, text)
    PROVE  /\ IsDisk(e) /\ Spares(d, e)
           /\ topic \in DOMAIN e.knowledge /\ e.knowledge[topic] = text
           /\ AllButOne(d, e, topic)
<1> DEFINE known == [t \in DOMAIN d.knowledge \cup {topic} |->
                        IF t = topic THEN text ELSE d.knowledge[t]]
<1>1. e = [d EXCEPT !.knowledge = known]
  BY DEF Stored
<1>2. known \in [DOMAIN known -> Text]
  BY DEF IsDisk
<1>3. /\ DOMAIN known = DOMAIN d.knowledge \cup {topic}
      /\ \A t \in DOMAIN known : known[t] = IF t = topic THEN text ELSE d.knowledge[t]
  OBVIOUS
<1> HIDE DEF known
<1>4. e = [tree |-> d.tree, links |-> d.links, knowledge |-> known]
  <2>1. PICK x, y, z : d = [tree |-> x, links |-> y, knowledge |-> z]
    BY Zenon DEF IsDisk
  <2>. QED BY <1>1, <2>1
<1>5. IsDisk(e)
  BY <1>2, <1>4 DEF IsDisk
<1>6. Spares(d, e)
  BY <1>4 DEF Spares
<1>7. AllButOne(d, e, topic)
  BY <1>3, <1>4 DEF AllButOne, Same
<1>. QED BY <1>3, <1>4, <1>5, <1>6, <1>7

\* An empty text is refused; a write returns when it was whole, and else raises.
LEMMA KnowledgeWriteOutcome ==
    ASSUME NEW d, IsDisk(d), NEW a \in ArgumentsType, NEW name, name = "knowledge_write",
           NEW r \in KnowledgeWrite(d, a)
    PROVE  Outcome(d, name, a, r)
<1>0. PICK words \in Text : words = "words"
  BY WordsAreText
<1>1. a.text \in Text
  BY DEF ArgumentsType
<1>2. CASE r \in {Warns(d), Raises(d)}
  BY <1>2, WarnsSame
<1>3. ASSUME NEW text \in Text, NEW e, e = Stored(d, a.on, text)
      PROVE  /\ Outcome(d, name, a, Raises(e))
             /\ text = a.text /\ a.text \notin {"", "blank"}
                => Outcome(d, name, a, Returns(e, words))
  <2>1. PICK topic : topic = a.on
    OBVIOUS
  <2>2. e = Stored(d, topic, text)
    BY <1>3, <2>1
  <2>3. /\ IsDisk(e) /\ Spares(d, e) /\ topic \in DOMAIN e.knowledge
        /\ e.knowledge[topic] = text /\ AllButOne(d, e, topic)
    BY <2>2, StoredIsDisk
  <2>4. Outcome(d, name, a, Raises(e))
    BY <2>1, <2>3, WordsAreText DEF Outcome, Remembers, Raises
  <2>5. ASSUME text = a.text, a.text \notin {"", "blank"}
        PROVE  Outcome(d, name, a, Returns(e, words))
    <3>1. Holds(e, a)
      BY <2>1, <2>3, <2>5 DEF Holds
    <3>. QED BY <2>1, <2>3, <3>1 DEF Outcome, Remembers, Returns
  <2>. QED BY <2>4, <2>5
<1>4. CASE r \notin {Warns(d), Raises(d)}
  <2>1. /\ a.text \notin {"", "blank"}
        /\ \/ \E cut \in Cut(a.text) : r = Raises(Stored(d, a.on, cut))
           \/ r = Returns(Stored(d, a.on, a.text), words)
    BY <1>0, <1>4 DEF KnowledgeWrite
  <2>2. CASE \E cut \in Cut(a.text) : r = Raises(Stored(d, a.on, cut))
    <3>1. PICK cut \in Cut(a.text) : r = Raises(Stored(d, a.on, cut))
      BY <2>2
    <3>2. cut \in Text
      BY <1>1, CutIsText
    <3>. QED BY <1>3, <3>1, <3>2
  <2>3. CASE r = Returns(Stored(d, a.on, a.text), words)
    BY <1>1, <1>3, <2>1, <2>3
  <2>. QED BY <2>1, <2>2, <2>3
<1>. QED BY <1>2, <1>4

\* Whatever tool is called.
LEMMA ExecuteOutcome ==
    ASSUME NEW d, IsDisk(d), NEW name, NEW a \in ArgumentsType, NEW r \in Execute(d, name, a)
    PROVE  Outcome(d, name, a, r)
<1>1. CASE name = "file_read"
  BY <1>1, FileReadOutcome DEF Execute
<1>2. CASE name = "file_write"
  BY <1>2, FileWriteOutcome DEF Execute
<1>3. CASE name = "knowledge_read"
  BY <1>3, KnowledgeReadOutcome DEF Execute
<1>4. CASE name = "knowledge_write"
  <2>1. r \in KnowledgeWrite(d, a)
    BY <1>4 DEF Execute
  <2>. QED BY <1>4, <2>1, KnowledgeWriteOutcome
<1>5. CASE name = "echo"
  <2>1. r = Returns(d, a.text) /\ a.text \in Text
    BY <1>5 DEF Execute, ArgumentsType
  <2>. QED BY <2>1, ReturnsSame
<1>6. CASE name = "now"
  <2>1. PICK text \in Text : r = Returns(d, text)
    BY <1>6, WordsAreText DEF Execute
  <2>. QED BY <2>1, ReturnsSame
<1>7. CASE name \in {"read_url", "file_list", "knowledge_list"}
  <2>1. CASE r = Raises(d)
    BY <2>1, WarnsSame
  <2>2. CASE r # Raises(d)
    <3>1. PICK text \in Text : r = Returns(d, text)
      BY <1>7, <2>2, WordsAreText DEF Execute
    <3>. QED BY <3>1, ReturnsSame
  <2>. QED BY <2>1, <2>2
<1>8. CASE name \notin {"file_read", "file_write", "knowledge_read", "knowledge_write",
                        "echo", "now", "read_url", "file_list", "knowledge_list"}
  <2>1. r = Warns(d)
    BY <1>8 DEF Execute
  <2>. QED BY <2>1, WarnsSame
<1>. QED BY <1>1, <1>2, <1>3, <1>4, <1>5, <1>6, <1>7, <1>8

----------------------------------------------------------------------------
(* The sessions. *)

\* What a step of session s does to the others: one that waits in the replay
\* may enter handle, or be refused.
Elsewhere(s) ==
    \A t \in Sids \ {s} :
        \/ pc'[t] = pc[t] /\ round'[t] = round[t] /\ calls'[t] = calls[t]
        \/ pc[t] = "waiting" /\ pc'[t] = "llm" /\ round'[t] = 1
        \/ pc[t] = "waiting" /\ pc'[t] = "over"

LEMMA LoopTypes ==
    ASSUME LoopInv
    PROVE  /\ pc \in [Sids -> {"new", "waiting", "created", "llm", "tool", "over"}]
           /\ round \in [Sids -> 0..MaxRounds] /\ calls \in [Sids -> Seq(STRING)]
BY DEF LoopInv, TypeOK

\* A session goes on, and no other one moves.
LEMMA OneMoves ==
    ASSUME LoopInv, NEW s \in Sids, NEW p, pc' = [pc EXCEPT ![s] = p],
           NEW r, round' = [round EXCEPT ![s] = r], NEW plan, calls' = [calls EXCEPT ![s] = plan]
    PROVE  pc'[s] = p /\ round'[s] = r /\ calls'[s] = plan /\ Elsewhere(s)
BY LoopTypes DEF Elsewhere

LEMMA SameRound ==
    ASSUME LoopInv, NEW s \in Sids
    PROVE  round = [round EXCEPT ![s] = round[s]] /\ calls = [calls EXCEPT ![s] = calls[s]]
BY LoopTypes

LEMMA OverMoves ==
    ASSUME LoopInv, NEW s \in Sids, pc[s] \in {"created", "llm", "tool"},
           NEW o, NEW events, Over(s, o, events)
    PROVE  pc'[s] = "over" /\ Elsewhere(s)
<1>1. /\ \A t \in Sids : pc'[t] = IF t = s \/ t \in Refused(s) THEN "over"
                                  ELSE IF t \in NextUp(s) THEN "llm" ELSE pc[t]
      /\ \A t \in Sids : round'[t] = IF t \in NextUp(s) THEN 1 ELSE round[t]
      /\ calls' = [calls EXCEPT ![s] = <<>>]
  BY OverParts
<1>2. \A t \in Sids \ {s} : calls'[t] = calls[t]
  BY <1>1, LoopTypes
<1>3. \A t : t \in NextUp(s) \/ t \in Refused(s) => pc[t] = "waiting"
  BY NextWaits
<1>. QED BY <1>1, <1>2, <1>3 DEF Elsewhere

LEMMA LeaveMoves ==
    ASSUME LoopInv, NEW s \in Sids, pc[s] \in {"created", "llm", "tool"}, NEW events, Leave(s, events)
    PROVE  pc'[s] = "over" /\ Elsewhere(s)
BY OverMoves DEF Leave

LEMMA SubmitMoves ==
    ASSUME LoopInv, NEW s \in Sids, Submit(s)
    PROVE  pc[s] = "new" /\ pc'[s] = "created" /\ Elsewhere(s)
<1>1. /\ pc[s] = "new" /\ pc' = [pc EXCEPT ![s] = "created"] /\ round' = round /\ calls' = calls
  BY DEF Submit
<1>. QED BY <1>1, LoopTypes DEF Elsewhere

LEMMA BeginMoves ==
    ASSUME LoopInv, NEW s \in Sids, Begin(s)
    PROVE  /\ pc[s] = "created" /\ Elsewhere(s)
           /\ \/ pc'[s] = "over"
              \/ pc'[s] = "llm" /\ round'[s] = 1
<1>1. pc[s] = "created"
  BY DEF Begin
<1>2. CASE \E events : Over(s, "failed", events)
  BY <1>1, <1>2, OverMoves
<1>3. CASE /\ pc' = [pc EXCEPT ![s] = "llm"] /\ round' = [round EXCEPT ![s] = 1]
           /\ calls' = calls
  BY <1>1, <1>3, LoopTypes DEF Elsewhere
<1>. QED BY <1>1, <1>2, <1>3 DEF Begin

LEMMA InvokeMoves ==
    ASSUME LoopInv, NEW s \in Sids, NEW plan, NEW events, Invoke(s, plan, events)
    PROVE  pc'[s] = "tool" /\ calls'[s] = plan /\ round'[s] = round[s] /\ Elsewhere(s)
<1>1. /\ pc' = [pc EXCEPT ![s] = "tool"] /\ calls' = [calls EXCEPT ![s] = plan] /\ round' = round
  BY DEF Invoke
<1>2. round' = [round EXCEPT ![s] = round[s]]
  BY <1>1, SameRound
<1>. QED BY <1>1, <1>2, OneMoves

LEMMA AnsweredMoves ==
    ASSUME LoopInv, NEW s \in Sids, NEW plan, Answered(s, plan)
    PROVE  /\ pc[s] = "llm" /\ Elsewhere(s)
           /\ \/ pc'[s] = "over"
              \/ plan # <<>> /\ pc'[s] = "tool" /\ calls'[s] = plan /\ round'[s] = round[s]
<1>1. pc[s] = "llm"
  BY DEF Answered
<1>2. CASE plan = <<>>
  BY <1>1, <1>2, LeaveMoves DEF Answered
<1>3. CASE plan # <<>>
  BY <1>1, <1>3, InvokeMoves DEF Answered
<1>. QED BY <1>1, <1>2, <1>3

LEMMA InvokedMoves ==
    ASSUME LoopInv, NEW s \in Sids, NEW ok, Invoked(s, ok)
    PROVE  /\ pc[s] = "tool" /\ Elsewhere(s)
           /\ \/ pc'[s] = "over"
              \/ /\ Tail(calls[s]) # <<>> /\ pc'[s] = "tool" /\ calls'[s] = Tail(calls[s])
                 /\ round'[s] = round[s]
              \/ Tail(calls[s]) = <<>> /\ pc'[s] = "llm" /\ round'[s] = round[s] + 1
<1>1. pc[s] = "tool"
  BY DEF Invoked
<1>2. CASE Tail(calls[s]) # <<>>
  BY <1>1, <1>2, InvokeMoves DEF Invoked
<1>3. CASE Tail(calls[s]) = <<>>
  <2>1. PICK events : NextRound(s, events)
    BY <1>3 DEF Invoked
  <2>2. CASE Leave(s, events)
    BY <1>1, <2>2, LeaveMoves
  <2>3. CASE /\ pc' = [pc EXCEPT ![s] = "llm"] /\ round' = [round EXCEPT ![s] = @ + 1]
             /\ calls' = [calls EXCEPT ![s] = <<>>]
    BY <1>1, <1>3, <2>3, OneMoves
  <2>. QED BY <2>1, <2>2, <2>3 DEF NextRound
<1>. QED BY <1>2, <1>3

LEMMA LlmFailsMoves ==
    ASSUME LoopInv, NEW s \in Sids, LlmFails(s)
    PROVE  pc[s] = "llm" /\ pc'[s] = "over" /\ Elsewhere(s)
BY OverMoves DEF LlmFails

LEMMA CancelledMoves ==
    ASSUME LoopInv, NEW s \in Sids, Cancelled(s)
    PROVE  pc[s] \in {"created", "llm", "tool"} /\ pc'[s] = "over" /\ Elsewhere(s)
<1>1. pc[s] \in {"created", "llm", "tool"}
  BY DEF Cancelled
<1>2. CASE Over(s, "failed", <<>>)
  BY <1>1, <1>2, OverMoves
<1>3. CASE /\ pc' = [pc EXCEPT ![s] = "over"] /\ calls' = [calls EXCEPT ![s] = <<>>] /\ round' = round
  <2>1. round' = [round EXCEPT ![s] = round[s]]
    BY <1>3, SameRound
  <2>. QED BY <1>1, <1>3, <2>1, OneMoves
<1>. QED BY <1>1, <1>2, <1>3 DEF Cancelled

----------------------------------------------------------------------------
(* What a session says: msgs are its messages, left the calls of the answer *)
(* that are not finished, done the calls that were executed.                *)

MessageType == [role : {"user", "assistant", "tool"}, content : Text, calls : Seq(CallType),
                name : Label, id : Label, quoted : BOOLEAN]
RunType == [name : STRING, args : ArgumentsType, raised : BOOLEAN]

IsResult(msg, call) == msg.role = "tool" /\ msg.name = call.name /\ msg.id = call.id

\* Each call of an answer has its result, at its place, or is left; each result
\* has its call; and what is left belongs to the last answer.
Dialogue(msgs, left) ==
    /\ \A i \in DOMAIN msgs : \A k \in DOMAIN CallsAt(msgs, i) :
          /\ i + k <= Len(msgs) => IsResult(msgs[i + k], CallsAt(msgs, i)[k])
          /\ i + k > Len(msgs) => /\ i + k - Len(msgs) \in DOMAIN left
                                  /\ left[i + k - Len(msgs)] = CallsAt(msgs, i)[k]
    /\ \A j \in DOMAIN msgs : msgs[j].role = "tool" =>
          \E i \in 1..(j - 1) : j - i \in DOMAIN CallsAt(msgs, i)
    /\ left # <<>> => \E i \in DOMAIN msgs : Len(msgs) + Len(left) = i + Len(CallsAt(msgs, i))

\* The answer msg asked for what was run.
Told(msg, run) ==
    /\ msg.role = "assistant" /\ Len(msg.calls) = 1
    /\ msg.calls[1].name = run.name /\ ParseArgs(msg.calls[1].raw) = run.args

\* Answers with one call: after the prompt, each call is followed by its result.
Single(msgs, left, done) ==
    /\ Len(left) <= 1 /\ Len(msgs) = 2 * Len(done) + 1 + Len(left)
    /\ \A i \in DOMAIN msgs : Len(CallsAt(msgs, i)) <= 1
    /\ \A i \in DOMAIN done : Told(msgs[2 * i], done[i])
    /\ left # <<>> => msgs[Len(msgs)].role = "assistant" /\ msgs[Len(msgs)].calls = left

Conversation(f, msgs, left, done) ==
    /\ msgs \in Seq(MessageType) /\ left \in Seq(CallType) /\ done \in Seq(RunType)
    /\ Dialogue(msgs, left)
    /\ f = "functions" => Single(msgs, left, done)

LEMMA AppendAt ==
    ASSUME NEW T, NEW q \in Seq(T), NEW x \in T
    PROVE  /\ Append(q, x) \in Seq(T) /\ Len(Append(q, x)) = Len(q) + 1 /\ Len(q) \in Nat
           /\ DOMAIN Append(q, x) = 1..(Len(q) + 1) /\ DOMAIN q = 1..Len(q)
           /\ \A i \in 1..Len(q) : Append(q, x)[i] = q[i]
           /\ Append(q, x)[Len(q) + 1] = x
           /\ q \o <<x>> = Append(q, x)
<1>1. /\ Append(q, x) \in Seq(T) /\ Len(Append(q, x)) = Len(q) + 1 /\ Len(q) \in Nat
      /\ DOMAIN Append(q, x) = 1..(Len(q) + 1) /\ DOMAIN q = 1..Len(q)
      /\ \A i \in 1..Len(q) : Append(q, x)[i] = q[i]
      /\ Append(q, x)[Len(q) + 1] = x
  OBVIOUS
<1>2. PICK one \in Seq(T) : one = <<x>> /\ Len(one) = 1 /\ one[1] = x
  <2>1. <<x>> \in Seq(T) /\ Len(<<x>>) = 1 /\ <<x>>[1] = x
    OBVIOUS
  <2>. QED BY <2>1
<1>3. /\ q \o one \in Seq(T) /\ Len(q \o one) = Len(q) + 1
      /\ \A i \in 1..Len(q) : (q \o one)[i] = q[i]
      /\ (q \o one)[Len(q) + 1] = x
  <2>1. q \o one \in Seq(T) /\ Len(q \o one) = Len(q) + Len(one)
    OBVIOUS
  <2>2. \A i \in 1..(Len(q) + Len(one)) :
           (q \o one)[i] = IF i <= Len(q) THEN q[i] ELSE one[i - Len(q)]
    OBVIOUS
  <2>3. \A i \in 1..Len(q) : (q \o one)[i] = q[i]
    BY <1>1, <1>2, <2>2
  <2>4. (q \o one)[Len(q) + 1] = one[1]
    BY <1>1, <1>2, <2>2
  <2>. QED BY <1>2, <2>1, <2>3, <2>4
<1>4. \A i \in 1..(Len(q) + 1) : (q \o one)[i] = Append(q, x)[i]
  BY <1>1, <1>3
<1>5. q \o one = Append(q, x)
  BY <1>1, <1>3, <1>4
<1>. QED BY <1>1, <1>2, <1>5

LEMMA TailAt ==
    ASSUME NEW T, NEW q \in Seq(T), q # <<>>
    PROVE  /\ Tail(q) \in Seq(T) /\ Len(Tail(q)) = Len(q) - 1 /\ Len(q) \in Nat \ {0}
           /\ DOMAIN q = 1..Len(q) /\ DOMAIN Tail(q) = 1..(Len(q) - 1)
           /\ \A i \in 1..(Len(q) - 1) : Tail(q)[i] = q[i + 1]
           /\ Head(q) = q[1] /\ q[1] \in T
OBVIOUS

\* The prompt opens a conversation.
LEMMA PromptOpens ==
    ASSUME NEW f
    PROVE  Conversation(f, <<Prompt>>, <<>>, <<>>)
<1> DEFINE msgs == <<Prompt>>
           none == <<>>
<1>1. Prompt.role = "user" /\ Prompt \in MessageType
  <2>1. none \in Seq(CallType)
    OBVIOUS
  <2>. QED BY <2>1 DEF Prompt, Message, MessageType, Text, Label
<1>2. msgs \in Seq(MessageType) /\ Len(msgs) = 1 /\ DOMAIN msgs = {1} /\ msgs[1] = Prompt
  BY <1>1
<1>3. none \in Seq(CallType) /\ none \in Seq(RunType) /\ Len(none) = 0 /\ DOMAIN none = {}
  OBVIOUS
<1> HIDE DEF msgs
<1>4. \A i \in DOMAIN msgs : CallsAt(msgs, i) = none
  BY <1>1, <1>2 DEF CallsAt
<1>5. Dialogue(msgs, none)
  <2> HIDE DEF none
  <2>1. \A i \in DOMAIN msgs : DOMAIN CallsAt(msgs, i) = {}
    BY <1>3, <1>4
  <2>2. \A j \in DOMAIN msgs : msgs[j].role # "tool"
    BY <1>1, <1>2
  <2>. QED BY <2>1, <2>2 DEF Dialogue, none
<1>6. Single(msgs, none, none)
  <2>1. \A i \in DOMAIN msgs : Len(CallsAt(msgs, i)) <= 1
    BY <1>3, <1>4
  <2>. QED BY <1>2, <1>3, <2>1 DEF Single
<1>. QED BY <1>2, <1>3, <1>5, <1>6 DEF Conversation, msgs

\* An answer joins the messages, and its calls are left.
LEMMA AnswerJoins ==
    ASSUME NEW f, NEW msgs, NEW done, Conversation(f, msgs, <<>>, done),
           NEW msg \in MessageType, msg.role = "assistant", msg.calls # <<>>,
           f = "functions" => Len(msg.calls) <= 1
    PROVE  Conversation(f, Append(msgs, msg), msg.calls, done)
<1> DEFINE new == Append(msgs, msg)
           left == msg.calls
           n == Len(msgs)
           none == <<>>
<1>1. msgs \in Seq(MessageType) /\ done \in Seq(RunType) /\ Dialogue(msgs, none)
  BY DEF Conversation
<1>2. /\ new \in Seq(MessageType) /\ Len(new) = n + 1 /\ n \in Nat
      /\ DOMAIN new = 1..(n + 1) /\ DOMAIN msgs = 1..n
      /\ \A i \in 1..n : new[i] = msgs[i]
      /\ new[n + 1] = msg
  BY <1>1, AppendAt
<1>3. left \in Seq(CallType) /\ DOMAIN left = 1..Len(left) /\ Len(left) \in Nat \ {0}
  <2>1. left \in Seq(CallType)
    BY DEF MessageType
  <2>. QED BY <2>1, TailAt
<1>4. Len(none) = 0 /\ DOMAIN none = {}
  OBVIOUS
<1> HIDE DEF new, left, none, n
<1>5. /\ \A i \in 1..n : CallsAt(new, i) = CallsAt(msgs, i)
      /\ CallsAt(new, n + 1) = left
  BY <1>2 DEF CallsAt, left
<1>6. Dialogue(new, left)
  <2>1. ASSUME NEW i \in DOMAIN new, NEW k \in DOMAIN CallsAt(new, i)
        PROVE  /\ i + k <= Len(new) => IsResult(new[i + k], CallsAt(new, i)[k])
               /\ i + k > Len(new) => /\ i + k - Len(new) \in DOMAIN left
                                      /\ left[i + k - Len(new)] = CallsAt(new, i)[k]
    <3>1. CASE i = n + 1
      <4>1. CallsAt(new, i) = left /\ k \in 1..Len(left)
        BY <3>1, <1>3, <1>5
      <4>2. i + k > Len(new) /\ i + k - Len(new) = k
        BY <3>1, <4>1, <1>2, <1>3
      <4>. QED BY <4>1, <4>2, <1>3
    <3>2. CASE i \in 1..n
      <4>1. CallsAt(new, i) = CallsAt(msgs, i)
        BY <3>2, <1>5
      <4>2. CallsAt(msgs, i) \in Seq(CallType)
        <5>1. msgs[i] \in MessageType
          BY <3>2, <1>1, <1>2
        <5>2. none \in Seq(CallType)
          BY DEF none
        <5>. QED BY <5>1, <5>2 DEF CallsAt, MessageType, none
      <4>3. k \in Nat \ {0}
        BY <2>1, <4>1, <4>2
      <4>4. /\ i + k <= n => IsResult(msgs[i + k], CallsAt(msgs, i)[k])
            /\ i + k > n => i + k - n \in DOMAIN none
        BY <2>1, <3>2, <4>1, <1>1, <1>2 DEF Dialogue, n
      <4>5. i + k <= n /\ i + k \in 1..n
        BY <3>2, <4>3, <4>4, <1>2, <1>4
      <4>. QED BY <4>1, <4>4, <4>5, <1>2
    <3>. QED BY <3>1, <3>2, <1>2
  <2>2. ASSUME NEW j \in DOMAIN new, new[j].role = "tool"
        PROVE  \E i \in 1..(j - 1) : j - i \in DOMAIN CallsAt(new, i)
    <3>1. j \in 1..n /\ msgs[j].role = "tool"
      BY <2>2, <1>2
    <3>2. PICK i \in 1..(j - 1) : j - i \in DOMAIN CallsAt(msgs, i)
      BY <3>1, <1>1, <1>2 DEF Dialogue
    <3>3. i \in 1..n
      BY <3>1, <3>2, <1>2
    <3>. QED BY <3>2, <3>3, <1>5
  <2>3. \E i \in DOMAIN new : Len(new) + Len(left) = i + Len(CallsAt(new, i))
    <3>1. n + 1 \in DOMAIN new /\ Len(new) + Len(left) = (n + 1) + Len(CallsAt(new, n + 1))
      BY <1>2, <1>5
    <3>. QED BY <3>1
  <2>. QED BY <2>1, <2>2, <2>3 DEF Dialogue
<1>7. ASSUME f = "functions" PROVE Single(new, left, done)
  <2>1. Single(msgs, none, done) /\ Len(left) = 1
    <3>1. Single(msgs, none, done)
      BY <1>7 DEF Conversation, none
    <3>2. Len(left) <= 1
      BY <1>7 DEF left
    <3>. QED BY <3>1, <3>2, <1>3
  <2>2. Len(new) = 2 * Len(done) + 1 + Len(left)
    BY <2>1, <1>1, <1>2, <1>4 DEF Single, n
  <2>3. ASSUME NEW i \in DOMAIN new PROVE Len(CallsAt(new, i)) <= 1
    <3>1. CASE i = n + 1
      <4>1. CallsAt(new, i) = left
        BY <3>1, <1>5
      <4>. QED BY <4>1, <2>1
    <3>2. CASE i \in 1..n
      <4>1. Len(CallsAt(msgs, i)) <= 1
        BY <2>1, <3>2, <1>2 DEF Single
      <4>. QED BY <3>2, <4>1, <1>5
    <3>. QED BY <3>1, <3>2, <1>2
  <2>4. ASSUME NEW i \in DOMAIN done PROVE Told(new[2 * i], done[i])
    <3>1. i \in 1..Len(done) /\ Len(done) \in Nat /\ n = 2 * Len(done) + 1
      BY <2>1, <1>1, <1>4 DEF Single, n
    <3>2. 2 * i \in 1..n
      BY <3>1
    <3>3. Told(msgs[2 * i], done[i])
      BY <2>1 DEF Single
    <3>. QED BY <3>2, <3>3, <1>2
  <2>. QED BY <2>1, <2>2, <2>3, <2>4, <1>2 DEF Single, left
<1>. QED BY <1>1, <1>2, <1>3, <1>6, <1>7 DEF Conversation, new, left

\* A result joins the messages, and its call was executed.
LEMMA ResultJoins ==
    ASSUME NEW f, NEW msgs, NEW left, NEW done, Conversation(f, msgs, left, done), left # <<>>,
           NEW r \in MessageType, IsResult(r, Head(left)), r.calls = <<>>,
           NEW run \in RunType, run.name = Head(left).name, run.args = ParseArgs(Head(left).raw)
    PROVE  Conversation(f, Append(msgs, r), Tail(left), Append(done, run))
<1> DEFINE new == Append(msgs, r)
           rest == Tail(left)
           ran2 == Append(done, run)
           n == Len(msgs)
<1>1. /\ msgs \in Seq(MessageType) /\ left \in Seq(CallType) /\ done \in Seq(RunType)
      /\ Dialogue(msgs, left)
  BY DEF Conversation
<1>2. /\ new \in Seq(MessageType) /\ Len(new) = n + 1 /\ n \in Nat
      /\ DOMAIN new = 1..(n + 1) /\ DOMAIN msgs = 1..n
      /\ \A i \in 1..n : new[i] = msgs[i]
      /\ new[n + 1] = r
  BY <1>1, AppendAt
<1>3. /\ rest \in Seq(CallType) /\ Len(rest) = Len(left) - 1 /\ Len(left) \in Nat \ {0}
      /\ DOMAIN left = 1..Len(left) /\ DOMAIN rest = 1..(Len(left) - 1)
      /\ \A i \in 1..(Len(left) - 1) : rest[i] = left[i + 1]
      /\ Head(left) = left[1]
  BY <1>1, TailAt
<1>4. /\ ran2 \in Seq(RunType) /\ Len(ran2) = Len(done) + 1 /\ Len(done) \in Nat
      /\ DOMAIN ran2 = 1..(Len(done) + 1) /\ DOMAIN done = 1..Len(done)
      /\ \A i \in 1..Len(done) : ran2[i] = done[i]
      /\ ran2[Len(done) + 1] = run
  BY <1>1, AppendAt
<1> HIDE DEF new, rest, ran2, n
<1>5. /\ \A i \in 1..n : CallsAt(new, i) = CallsAt(msgs, i)
      /\ CallsAt(new, n + 1) = <<>>
  BY <1>2 DEF CallsAt, IsResult
<1>6. \A i \in 1..n : CallsAt(msgs, i) \in Seq(CallType)
  <2>1. ASSUME NEW i \in 1..n PROVE CallsAt(msgs, i) \in Seq(CallType)
    <3>1. msgs[i] \in MessageType
      BY <1>1, <1>2
    <3> DEFINE none == <<>>
    <3>2. none \in Seq(CallType)
      OBVIOUS
    <3>. QED BY <3>1, <3>2 DEF CallsAt, MessageType
  <2>. QED BY <2>1
<1>7. Dialogue(new, rest)
  <2>1. ASSUME NEW i \in DOMAIN new, NEW k \in DOMAIN CallsAt(new, i)
        PROVE  /\ i + k <= Len(new) => IsResult(new[i + k], CallsAt(new, i)[k])
               /\ i + k > Len(new) => /\ i + k - Len(new) \in DOMAIN rest
                                      /\ rest[i + k - Len(new)] = CallsAt(new, i)[k]
    <3>1. i # n + 1
      <4> DEFINE none == <<>>
      <4>1. DOMAIN none = {}
        OBVIOUS
      <4>. QED BY <4>1, <1>5
    <3>2. i \in 1..n /\ CallsAt(new, i) = CallsAt(msgs, i)
      BY <3>1, <1>2, <1>5
    <3>3. k \in Nat \ {0}
      BY <2>1, <3>2, <1>6
    <3>4. /\ i + k <= n => IsResult(msgs[i + k], CallsAt(msgs, i)[k])
          /\ i + k > n => i + k - n \in DOMAIN left /\ left[i + k - n] = CallsAt(msgs, i)[k]
      BY <2>1, <3>2, <1>1, <1>2 DEF Dialogue, n
    <3>5. CASE i + k <= n
      <4>1. i + k \in 1..n
        BY <3>2, <3>3, <3>5, <1>2
      <4>. QED BY <3>2, <3>4, <3>5, <4>1, <1>2
    <3>6. CASE i + k = n + 1
      <4>1. i + k - n = 1
        BY <3>2, <3>3, <3>6, <1>2
      <4>2. CallsAt(msgs, i)[k] = Head(left)
        BY <3>4, <3>6, <4>1, <1>2, <1>3
      <4>. QED BY <3>2, <3>6, <4>2, <1>2
    <3>7. CASE i + k > n + 1
      <4>1. i + k - n \in 1..Len(left) /\ left[i + k - n] = CallsAt(msgs, i)[k]
        BY <3>2, <3>3, <3>4, <3>7, <1>2, <1>3
      <4>2. PICK j \in Nat : j = i + k - n
        BY <4>1, <1>3
      <4>3. j - 1 \in 1..(Len(left) - 1) /\ i + k - Len(new) = j - 1 /\ j - 1 + 1 = j
        BY <3>2, <3>3, <3>7, <4>1, <4>2, <1>2, <1>3
      <4>4. rest[j - 1] = left[j]
        BY <4>3, <1>3
      <4>5. i + k - Len(new) \in DOMAIN rest /\ rest[i + k - Len(new)] = CallsAt(new, i)[k]
        BY <3>2, <4>1, <4>2, <4>3, <4>4, <1>3
      <4>6. ~(i + k <= Len(new))
        BY <3>2, <3>3, <3>7, <1>2
      <4>. QED BY <4>5, <4>6
    <3>. QED BY <3>2, <3>3, <3>5, <3>6, <3>7, <1>2
  <2>2. PICK i \in 1..n : n + Len(left) = i + Len(CallsAt(msgs, i))
    BY <1>1, <1>2 DEF Dialogue, n
  <2>3. ASSUME NEW j \in DOMAIN new, new[j].role = "tool"
        PROVE  \E h \in 1..(j - 1) : j - h \in DOMAIN CallsAt(new, h)
    <3>1. CASE j \in 1..n
      <4>1. msgs[j].role = "tool"
        BY <2>3, <3>1, <1>2
      <4>2. PICK h \in 1..(j - 1) : j - h \in DOMAIN CallsAt(msgs, h)
        BY <3>1, <4>1, <1>1, <1>2 DEF Dialogue
      <4>3. h \in 1..n
        BY <3>1, <4>2, <1>2
      <4>. QED BY <4>2, <4>3, <1>5
    <3>2. CASE j = n + 1
      <4>1. CallsAt(msgs, i) \in Seq(CallType) /\ CallsAt(new, i) = CallsAt(msgs, i)
        BY <2>2, <1>5, <1>6
      <4>2. DOMAIN CallsAt(msgs, i) = 1..Len(CallsAt(msgs, i)) /\ Len(CallsAt(msgs, i)) \in Nat
        BY <4>1
      <4>3. j - i \in 1..Len(CallsAt(msgs, i)) /\ i \in 1..(j - 1)
        BY <2>2, <3>2, <4>2, <1>2, <1>3
      <4>. QED BY <4>1, <4>2, <4>3
    <3>. QED BY <3>1, <3>2, <1>2
  <2>4. \E h \in DOMAIN new : Len(new) + Len(rest) = h + Len(CallsAt(new, h))
    <3>1. i \in DOMAIN new /\ CallsAt(new, i) = CallsAt(msgs, i)
      BY <2>2, <1>2, <1>5
    <3>2. Len(new) + Len(rest) = n + Len(left)
      BY <1>2, <1>3
    <3>. QED BY <2>2, <3>1, <3>2
  <2>. QED BY <2>1, <2>3, <2>4 DEF Dialogue
<1>8. ASSUME f = "functions" PROVE Single(new, rest, ran2)
  <2>1. Single(msgs, left, done)
    BY <1>8 DEF Conversation
  <2>2. Len(left) = 1 /\ Len(rest) = 0 /\ n = 2 * Len(done) + 2
    <3>1. Len(left) <= 1 /\ n = 2 * Len(done) + 1 + Len(left)
      BY <2>1 DEF Single, n
    <3>2. Len(left) \in Nat \ {0} /\ Len(rest) = Len(left) - 1 /\ Len(done) \in Nat
      BY <1>3, <1>4
    <3>3. Len(left) = 1
      BY <3>1, <3>2
    <3>. QED BY <3>1, <3>2, <3>3
  <2>3. rest = <<>>
    BY <2>2, <1>3
  <2>4. Len(new) = 2 * Len(ran2) + 1 + Len(rest)
    BY <2>2, <1>2, <1>4
  <2>5. ASSUME NEW i \in DOMAIN new PROVE Len(CallsAt(new, i)) <= 1
    <3>1. CASE i = n + 1
      <4> DEFINE none == <<>>
      <4>1. Len(none) = 0
        OBVIOUS
      <4>. QED BY <3>1, <4>1, <1>5
    <3>2. CASE i \in 1..n
      <4>1. Len(CallsAt(msgs, i)) <= 1
        BY <2>1, <3>2, <1>2 DEF Single
      <4>. QED BY <3>2, <4>1, <1>5
    <3>. QED BY <3>1, <3>2, <1>2
  <2>6. ASSUME NEW i \in DOMAIN ran2 PROVE Told(new[2 * i], ran2[i])
    <3>1. CASE i \in 1..Len(done)
      <4>1. 2 * i \in 1..n
        BY <2>2, <3>1, <1>4
      <4>2. Told(msgs[2 * i], done[i])
        BY <2>1, <3>1, <1>4 DEF Single
      <4>. QED BY <3>1, <4>1, <4>2, <1>2, <1>4
    <3>2. CASE i = Len(done) + 1
      <4>1. 2 * i = n /\ n \in 1..n
        BY <2>2, <3>2, <1>4
      <4>2. msgs[n].role = "assistant" /\ msgs[n].calls = left
        BY <2>1 DEF Single, n
      <4>3. new[2 * i] = msgs[n] /\ ran2[i] = run
        BY <3>2, <4>1, <1>2, <1>4
      <4>. QED BY <2>2, <4>2, <4>3, <1>3 DEF Told
    <3>. QED BY <3>1, <3>2, <1>4
  <2>. QED BY <2>2, <2>3, <2>4, <2>5, <2>6 DEF Single
<1>. QED BY <1>2, <1>3, <1>4, <1>7, <1>8 DEF Conversation, new, rest, ran2

----------------------------------------------------------------------------
(* Every session, through every step. *)

Inside(p) == p \in {"llm", "tool"}

\* What is known of a session at p, in round r of handle, with the names of the
\* calls not finished.
Says(p, r, names, f, msgs, left, done) ==
    IF Inside(p)
    THEN /\ Conversation(f, msgs, left, done) /\ r \in Nat \ {0}
         /\ p = "llm" => /\ left = <<>>
                         /\ IF r = 1 THEN msgs = <<Prompt>>
                                     ELSE \E j \in DOMAIN msgs : msgs[j].role = "tool"
         /\ p = "tool" => left # <<>> /\ names = [i \in DOMAIN left |-> left[i].name]
    ELSE msgs = <<>> /\ left = <<>> /\ done = <<>>

Talks(s) == Says(pc[s], round[s], calls[s], format, messages[s], todo[s], ran[s])

TurnInv ==
    /\ LoopInv
    /\ IsDisk(disk)
    /\ format \in {"functions", "tools"}
    /\ \A s \in Sids : Talks(s)

\* The invariant of the sessions after a step.
TalksOn == \A s \in Sids :
    Says(pc'[s], round'[s], calls'[s], format', messages'[s], todo'[s], ran'[s])

LEMMA TalkBegins ==
    ASSUME NEW f, NEW names
    PROVE  Says("llm", 1, names, f, <<Prompt>>, <<>>, <<>>)
BY PromptOpens DEF Says, Inside

\* The locals of a session that is not in handle are gone; one that enters it
\* begins with the prompt; the others keep theirs.
LEMMA LocalsAre ==
    ASSUME NEW s, NEW msgs, NEW left, NEW done, Locals(s, msgs, left, done), NEW t \in Sids
    PROVE  /\ ~Inside(pc'[t]) => messages'[t] = <<>> /\ todo'[t] = <<>> /\ ran'[t] = <<>>
           /\ Inside(pc'[t]) /\ ~Inside(pc[t])
              => messages'[t] = <<Prompt>> /\ todo'[t] = <<>> /\ ran'[t] = <<>>
           /\ Inside(pc'[t]) /\ Inside(pc[t])
              => IF t = s THEN messages'[t] = msgs /\ todo'[t] = left /\ ran'[t] = done
                 ELSE messages'[t] = messages[t] /\ todo'[t] = todo[t] /\ ran'[t] = ran[t]
BY DEF Locals, Scope, Inside

\* A step of session s that others follow as they must: it remains to see what
\* it makes of s.
LEMMA StepKeeps ==
    ASSUME TurnInv, format' = format, NEW s \in Sids, Elsewhere(s),
           NEW msgs, NEW left, NEW done, Locals(s, msgs, left, done),
           \/ ~Inside(pc'[s])
           \/ ~Inside(pc[s]) /\ pc'[s] = "llm" /\ round'[s] = 1
           \/ Inside(pc[s]) /\ Says(pc'[s], round'[s], calls'[s], format, msgs, left, done)
    PROVE  TalksOn
<1>1. ASSUME NEW t \in Sids
      PROVE  Says(pc'[t], round'[t], calls'[t], format', messages'[t], todo'[t], ran'[t])
  <2>0. Talks(t)
    BY DEF TurnInv
  <2>1. CASE ~Inside(pc'[t])
    BY <2>1, LocalsAre DEF Says
  <2>2. CASE ~Inside(pc[t]) /\ pc'[t] = "llm" /\ round'[t] = 1
    <3>1. Inside(pc'[t])
      BY <2>2 DEF Inside
    <3>2. messages'[t] = <<Prompt>> /\ todo'[t] = <<>> /\ ran'[t] = <<>>
      BY <2>2, <3>1, LocalsAre
    <3>. QED BY <2>2, <3>2, TalkBegins
  <2>3. CASE t = s /\ Inside(pc[t]) /\ Inside(pc'[t])
    <3>1. messages'[t] = msgs /\ todo'[t] = left /\ ran'[t] = done
      BY <2>3, LocalsAre
    <3>2. Says(pc'[t], round'[t], calls'[t], format, msgs, left, done)
      BY <2>3
    <3>. QED BY <3>1, <3>2
  <2>4. CASE t # s /\ Inside(pc'[t]) /\ pc'[t] = pc[t] /\ round'[t] = round[t] /\ calls'[t] = calls[t]
    <3>1. messages'[t] = messages[t] /\ todo'[t] = todo[t] /\ ran'[t] = ran[t]
      BY <2>4, LocalsAre
    <3>. QED BY <2>0, <2>4, <3>1 DEF Talks
  <2>5. CASE t # s
    <3>1. pc[t] = "waiting" => ~Inside(pc[t])
      BY DEF Inside
    <3>2. pc'[t] = "over" => ~Inside(pc'[t])
      BY DEF Inside
    <3>. QED BY <2>1, <2>2, <2>4, <2>5, <3>1, <3>2 DEF Elsewhere
  <2>6. CASE t = s
    BY <2>1, <2>2, <2>3, <2>6
  <2>. QED BY <2>5, <2>6
<1>. QED BY <1>1 DEF TalksOn

LEMMA OverIsOutside == \A p : p \in {"over", "created", "new", "waiting"} => ~Inside(p)
BY DEF Inside

LEMMA TurnBeginTalks ==
    ASSUME TurnInv, NEW s \in Sids, TurnBegin(s)
    PROVE  TalksOn
<1>1. /\ pc[s] = "created" /\ Elsewhere(s)
      /\ \/ pc'[s] = "over"
         \/ pc'[s] = "llm" /\ round'[s] = 1
  BY BeginMoves DEF TurnBegin, TurnInv
<1>2. format' = format /\ Locals(s, messages[s], todo[s], ran[s])
  BY DEF TurnBegin, SameLocals
<1>3. ~Inside(pc[s]) /\ (pc'[s] = "over" => ~Inside(pc'[s]))
  BY <1>1, OverIsOutside
<1>. QED BY <1>1, <1>2, <1>3, StepKeeps

LEMMA TurnEndTalks ==
    ASSUME TurnInv, NEW s \in Sids, TurnFails(s) \/ TurnCancelled(s)
    PROVE  TalksOn
<1>1. pc'[s] = "over" /\ Elsewhere(s)
  BY LlmFailsMoves, CancelledMoves DEF TurnFails, TurnCancelled, TurnInv
<1>2. format' = format /\ Locals(s, messages[s], todo[s], ran[s])
  BY DEF TurnFails, TurnCancelled, SameLocals
<1>3. ~Inside(pc'[s])
  BY <1>1, OverIsOutside
<1>. QED BY <1>1, <1>2, <1>3, StepKeeps

LEMMA MessageIs ==
    ASSUME NEW role \in {"user", "assistant", "tool"}, NEW content \in Text,
           NEW c \in Seq(CallType), NEW name \in Label, NEW id \in Label,
           NEW msg, msg = Message(role, content, c, name, id)
    PROVE  /\ msg \in MessageType
           /\ msg.role = role /\ msg.calls = c /\ msg.name = name /\ msg.id = id
BY DEF Message, MessageType

\* _parse_response makes a message of any answer.
LEMMA ParsedAnswer ==
    ASSUME NEW f \in {"functions", "tools"}, NEW answer \in Answers[f],
           NEW msg, msg = ParseResponse(answer)
    PROVE  /\ msg \in MessageType /\ msg.role = "assistant"
           /\ f = "functions" => Len(msg.calls) <= 1
<1>1. /\ answer.toolCalls \in Seq(CallType) /\ answer.functionCall \in Seq(CallType)
      /\ Len(answer.functionCall) <= 1
      /\ f = "functions" => Len(answer.toolCalls) <= 1
  BY TurnAssumption
<1> DEFINE fc == answer.functionCall
           parsed == [i \in DOMAIN fc |-> FromFunctionCall(fc[i])]
           c == IF answer.toolCalls # <<>> THEN answer.toolCalls ELSE parsed
<1>2. DOMAIN fc = 1..Len(fc) /\ Len(fc) \in Nat /\ \A i \in 1..Len(fc) : fc[i] \in CallType
  BY <1>1
<1>3. ASSUME NEW call \in CallType PROVE FromFunctionCall(call) \in CallType
  BY DEF FromFunctionCall, Call, Raw, CallType, Label
<1>4. parsed \in Seq(CallType) /\ Len(parsed) = Len(fc)
  <2>1. \A i \in 1..Len(fc) : parsed[i] \in CallType
    BY <1>2, <1>3
  <2>2. parsed \in [1..Len(fc) -> CallType]
    BY <1>2, <2>1
  <2> HIDE DEF parsed
  <2>. QED BY <1>2, <2>2
<1> HIDE DEF parsed, fc
<1>5. c \in Seq(CallType) /\ (f = "functions" => Len(c) <= 1)
  BY <1>1, <1>4 DEF fc
<1>6. msg = Message("assistant", "words", c, "", "")
  BY DEF ParseResponse, parsed, fc
<1> HIDE DEF c
<1>7. PICK role \in {"user", "assistant", "tool"} : role = "assistant"
  OBVIOUS
<1>8. PICK content \in Text : content = "words"
  BY WordsAreText
<1>9. PICK none \in Label : none = ""
  BY DEF Label
<1>10. msg = Message(role, content, c, none, none)
  BY <1>6, <1>7, <1>8, <1>9
<1>11. msg \in MessageType /\ msg.role = role /\ msg.calls = c
  BY <1>5, <1>10, MessageIs
<1>. QED BY <1>5, <1>7, <1>11

LEMMA TurnAnswerTalks ==
    ASSUME TurnInv, NEW s \in Sids, TurnAnswer(s)
    PROVE  TalksOn
<1>1. PICK answer \in Answers[format] : LET msg == ParseResponse(answer) IN
         /\ Answered(s, [i \in DOMAIN msg.calls |-> msg.calls[i].name])
         /\ Locals(s, Append(messages[s], msg), msg.calls, ran[s])
         /\ UNCHANGED <<format, disk>>
  BY DEF TurnAnswer
<1>2. PICK msg : msg = ParseResponse(answer)
  OBVIOUS
<1>3. /\ msg \in MessageType /\ msg.role = "assistant"
      /\ format = "functions" => Len(msg.calls) <= 1
  BY <1>2, ParsedAnswer DEF TurnInv
<1> DEFINE plan == [i \in DOMAIN msg.calls |-> msg.calls[i].name]
<1>4. Answered(s, plan) /\ Locals(s, Append(messages[s], msg), msg.calls, ran[s]) /\ format' = format
  BY <1>1, <1>2
<1>5. plan # <<>> => msg.calls # <<>>
  OBVIOUS
<1>6. PICK names : names = plan
  OBVIOUS
<1>7. /\ pc[s] = "llm" /\ Elsewhere(s)
      /\ \/ pc'[s] = "over"
         \/ names # <<>> /\ pc'[s] = "tool" /\ calls'[s] = names /\ round'[s] = round[s]
  BY <1>4, <1>6, AnsweredMoves DEF TurnInv
<1>8. CASE pc'[s] = "over"
  <2>1. ~Inside(pc'[s])
    BY <1>8, OverIsOutside
  <2>. QED BY <1>4, <1>7, <2>1, StepKeeps
<1>9. CASE names # <<>> /\ pc'[s] = "tool" /\ calls'[s] = names /\ round'[s] = round[s]
  <2>1. Inside(pc[s]) /\ Inside(pc'[s]) /\ pc'[s] # "llm"
    BY <1>7, <1>9 DEF Inside
  <2>2. Conversation(format, messages[s], <<>>, ran[s]) /\ round[s] \in Nat \ {0}
    BY <1>7, <2>1 DEF TurnInv, Talks, Says
  <2>3. msg.calls # <<>>
    BY <1>5, <1>6, <1>9
  <2>4. Conversation(format, Append(messages[s], msg), msg.calls, ran[s])
    BY <1>3, <2>2, <2>3, AnswerJoins
  <2>5. Says(pc'[s], round'[s], calls'[s], format, Append(messages[s], msg), msg.calls, ran[s])
    BY <1>6, <1>9, <2>1, <2>2, <2>3, <2>4 DEF Says
  <2>. QED BY <1>4, <1>7, <2>1, <2>5, StepKeeps
<1>. QED BY <1>7, <1>8, <1>9

\* The call in execution, and its arguments.
LEMMA CallIs ==
    ASSUME TurnInv, NEW s \in Sids, pc[s] = "tool"
    PROVE  /\ Conversation(format, messages[s], todo[s], ran[s]) /\ round[s] \in Nat \ {0}
           /\ todo[s] # <<>> /\ calls[s] = [i \in DOMAIN todo[s] |-> todo[s][i].name]
           /\ todo[s] \in Seq(CallType) /\ Head(todo[s]) \in CallType
<1>1. Inside(pc[s])
  BY DEF Inside
<1>2. /\ Conversation(format, messages[s], todo[s], ran[s]) /\ round[s] \in Nat \ {0}
      /\ todo[s] # <<>> /\ calls[s] = [i \in DOMAIN todo[s] |-> todo[s][i].name]
  BY <1>1 DEF TurnInv, Talks, Says
<1>3. todo[s] \in Seq(CallType)
  BY <1>2 DEF Conversation
<1>. QED BY <1>2, <1>3, TailAt

LEMMA ParsedArgs ==
    ASSUME NEW call \in CallType
    PROVE  ParseArgs(call.raw) \in ArgumentsType
<1>1. NoArguments \in ArgumentsType
  <2>1. PICK on \in DOMAIN PathOf : on = ""
    BY ToolboxAssumption
  <2>2. PICK text \in Text : text = ""
    BY WordsAreText
  <2>. QED BY <2>1, <2>2 DEF NoArguments, Arguments, ArgumentsType
<1>2. call.raw.args \in ArgumentsType
  BY DEF CallType
<1>. QED BY <1>1, <1>2 DEF ParseArgs

\* What a tool leaves, says and adds to the history.
LEMMA ToolOutcome ==
    ASSUME TurnInv, NEW s \in Sids, TurnTool(s)
    PROVE  \E r : \E run \in RunType :
              /\ Outcome(disk, Head(todo[s]).name, ParseArgs(Head(todo[s]).raw), r)
              /\ disk' = r.disk /\ format' = format
              /\ Invoked(s, ~r.raised)
              /\ run.name = Head(todo[s]).name /\ run.args = ParseArgs(Head(todo[s]).raw)
              /\ run.raised = r.raised
              /\ Locals(s, messages[s] \o Result(Head(todo[s]), r), Tail(todo[s]),
                        Append(ran[s], run))
<1> DEFINE call == Head(todo[s])
           args == ParseArgs(call.raw)
<1>1. pc[s] = "tool" /\ format' = format
  BY DEF TurnTool
<1>2. call \in CallType /\ args \in ArgumentsType
  BY <1>1, CallIs, ParsedArgs
<1>3. PICK r \in Execute(disk, call.name, args) :
         /\ Invoked(s, ~r.raised)
         /\ disk' = r.disk
         /\ Locals(s, messages[s] \o Result(call, r), Tail(todo[s]),
                   Append(ran[s], [name |-> call.name, args |-> args, raised |-> r.raised]))
  BY DEF TurnTool
<1> HIDE DEF call, args
<1>4. Outcome(disk, call.name, args, r)
  BY <1>2, <1>3, ExecuteOutcome DEF TurnInv
<1> DEFINE run == [name |-> call.name, args |-> args, raised |-> r.raised]
<1>5. run \in RunType
  BY <1>2, <1>4 DEF RunType, CallType, Outcome
<1>6. run.name = call.name /\ run.args = args /\ run.raised = r.raised
  OBVIOUS
<1> HIDE DEF run
<1>7. Locals(s, messages[s] \o Result(call, r), Tail(todo[s]), Append(ran[s], run))
  BY <1>3 DEF run
<1>. QED BY <1>1, <1>3, <1>4, <1>5, <1>6, <1>7 DEF call, args

LEMMA EmptyIs ==
    ASSUME NEW T, NEW q \in Seq(T)
    PROVE  q = <<>> <=> Len(q) = 0
OBVIOUS

\* The names of the calls left, when one of them is finished.
LEMMA TailNames ==
    ASSUME NEW left \in Seq(CallType), left # <<>>,
           NEW names, names = [i \in DOMAIN left |-> left[i].name]
    PROVE  /\ Tail(names) = [i \in DOMAIN Tail(left) |-> Tail(left)[i].name]
           /\ Tail(names) = <<>> <=> Tail(left) = <<>>
<1>1. /\ Tail(left) \in Seq(CallType) /\ Len(Tail(left)) = Len(left) - 1
      /\ Len(left) \in Nat \ {0}
      /\ DOMAIN left = 1..Len(left) /\ DOMAIN Tail(left) = 1..(Len(left) - 1)
      /\ \A i \in 1..(Len(left) - 1) : Tail(left)[i] = left[i + 1]
  BY TailAt
<1>2. \A i \in 1..Len(left) : left[i].name \in STRING
  <2>1. \A i \in 1..Len(left) : left[i] \in CallType
    OBVIOUS
  <2>. QED BY <2>1 DEF CallType
<1>3. names \in Seq(STRING) /\ Len(names) = Len(left) /\ names # <<>>
  BY <1>1, <1>2
<1>4. /\ Tail(names) \in Seq(STRING) /\ Len(Tail(names)) = Len(left) - 1
      /\ DOMAIN Tail(names) = 1..(Len(left) - 1)
      /\ \A i \in 1..(Len(left) - 1) : Tail(names)[i] = names[i + 1]
  BY <1>3, TailAt
<1> DEFINE rest == [i \in DOMAIN Tail(left) |-> Tail(left)[i].name]
<1>5. rest \in Seq(STRING) /\ Len(rest) = Len(left) - 1
  BY <1>1, <1>2
<1>6. ASSUME NEW i \in 1..(Len(left) - 1) PROVE Tail(names)[i] = rest[i]
  <2>1. i + 1 \in 1..Len(left)
    BY <1>1
  <2>2. rest[i] = left[i + 1].name
    BY <1>1
  <2>3. names[i + 1] = left[i + 1].name
    BY <1>1, <2>1
  <2>. QED BY <1>4, <2>2, <2>3
<1>7. Tail(names) = rest
  BY <1>4, <1>5, <1>6
<1>8. Tail(names) = <<>> <=> Len(left) - 1 = 0
  BY <1>4, EmptyIs
<1>9. Tail(left) = <<>> <=> Len(left) - 1 = 0
  BY <1>1, EmptyIs
<1>. QED BY <1>7, <1>8, <1>9

LEMMA TurnToolTalks ==
    ASSUME TurnInv, NEW s \in Sids, TurnTool(s)
    PROVE  TalksOn
<1>1. PICK r : \E run \in RunType :
              /\ Outcome(disk, Head(todo[s]).name, ParseArgs(Head(todo[s]).raw), r)
              /\ disk' = r.disk /\ format' = format
              /\ Invoked(s, ~r.raised)
              /\ run.name = Head(todo[s]).name /\ run.args = ParseArgs(Head(todo[s]).raw)
              /\ run.raised = r.raised
              /\ Locals(s, messages[s] \o Result(Head(todo[s]), r), Tail(todo[s]),
                        Append(ran[s], run))
  BY ToolOutcome
<1>2. PICK run \in RunType :
              /\ Outcome(disk, Head(todo[s]).name, ParseArgs(Head(todo[s]).raw), r)
              /\ disk' = r.disk /\ format' = format
              /\ Invoked(s, ~r.raised)
              /\ run.name = Head(todo[s]).name /\ run.args = ParseArgs(Head(todo[s]).raw)
              /\ run.raised = r.raised
              /\ Locals(s, messages[s] \o Result(Head(todo[s]), r), Tail(todo[s]),
                        Append(ran[s], run))
  BY <1>1
<1> DEFINE call == Head(todo[s])
           left == Tail(todo[s])
<1>3. PICK ok : ok = ~r.raised
  OBVIOUS
<1>4. /\ pc[s] = "tool" /\ Elsewhere(s)
      /\ \/ pc'[s] = "over"
         \/ /\ Tail(calls[s]) # <<>> /\ pc'[s] = "tool" /\ calls'[s] = Tail(calls[s])
            /\ round'[s] = round[s]
         \/ Tail(calls[s]) = <<>> /\ pc'[s] = "llm" /\ round'[s] = round[s] + 1
  BY <1>2, <1>3, InvokedMoves DEF TurnInv
<1>5. /\ Conversation(format, messages[s], todo[s], ran[s]) /\ round[s] \in Nat \ {0}
      /\ todo[s] # <<>> /\ calls[s] = [i \in DOMAIN todo[s] |-> todo[s][i].name]
      /\ todo[s] \in Seq(CallType) /\ call \in CallType
  BY <1>4, CallIs
<1>6. /\ Tail(calls[s]) = [i \in DOMAIN left |-> left[i].name]
      /\ Tail(calls[s]) = <<>> <=> left = <<>>
  BY <1>5, TailNames
<1> DEFINE msg == ToolMessage(call, r.text)
<1>7. msg \in MessageType /\ msg.calls = <<>> /\ IsResult(msg, call)
  <2>1. PICK role \in {"user", "assistant", "tool"} : role = "tool"
    OBVIOUS
  <2>2. PICK none \in Seq(CallType) : none = <<>>
    <3> DEFINE e == <<>>
    <3>1. e \in Seq(CallType)
      OBVIOUS
    <3> HIDE DEF e
    <3>2. \E none \in Seq(CallType) : none = e
      BY <3>1
    <3>. QED BY <3>2 DEF e
  <2>3. call.name \in Label /\ call.id \in Label /\ r.text \in Text
    BY <1>2, <1>5 DEF CallType, Label, Outcome
  <2>4. msg = Message(role, r.text, none, call.name, call.id)
    BY <2>1, <2>2 DEF ToolMessage
  <2> HIDE DEF msg, call
  <2>5. /\ msg \in MessageType /\ msg.role = role /\ msg.calls = none
        /\ msg.name = call.name /\ msg.id = call.id
    BY <2>3, <2>4, MessageIs
  <2>. QED BY <2>1, <2>2, <2>5 DEF IsResult
<1> DEFINE msgs == messages[s] \o Result(call, r)
           done == Append(ran[s], run)
<1>8. msgs = Append(messages[s], msg) /\ messages[s] \in Seq(MessageType)
  <2>1. messages[s] \in Seq(MessageType)
    BY <1>5 DEF Conversation
  <2> HIDE DEF msg
  <2>2. messages[s] \o <<msg>> = Append(messages[s], msg)
    BY <1>7, <2>1, AppendAt
  <2>. QED BY <2>1, <2>2 DEF Result, msg
<1>9. Conversation(format, msgs, left, done)
  <2> HIDE DEF msg, msgs
  <2>. QED BY <1>2, <1>5, <1>7, <1>8, ResultJoins
<1>10. \E j \in DOMAIN msgs : msgs[j].role = "tool"
  <2> HIDE DEF msg, msgs
  <2>1. msgs[Len(messages[s]) + 1] = msg /\ Len(messages[s]) + 1 \in DOMAIN msgs
    BY <1>7, <1>8, AppendAt
  <2>. QED BY <1>7, <2>1 DEF IsResult
<1> HIDE DEF msgs, left, done, msg, call
<1>11. Inside(pc[s])
  BY <1>4 DEF Inside
<1>12. Locals(s, msgs, left, done) /\ format' = format
  BY <1>2 DEF msgs, left, done, call
<1>13. CASE pc'[s] = "over"
  <2>1. ~Inside(pc'[s])
    BY <1>13, OverIsOutside
  <2>. QED BY <1>4, <1>12, <2>1, StepKeeps
<1>14. CASE Tail(calls[s]) # <<>> /\ pc'[s] = "tool" /\ calls'[s] = Tail(calls[s])
            /\ round'[s] = round[s]
  <2>1. Inside(pc'[s]) /\ pc'[s] # "llm"
    BY <1>14 DEF Inside
  <2>2. Says(pc'[s], round'[s], calls'[s], format, msgs, left, done)
    BY <1>5, <1>6, <1>9, <1>14, <2>1 DEF Says
  <2>. QED BY <1>4, <1>11, <1>12, <2>2, StepKeeps
<1>15. CASE Tail(calls[s]) = <<>> /\ pc'[s] = "llm" /\ round'[s] = round[s] + 1
  <2>1. Inside(pc'[s]) /\ pc'[s] # "tool"
    BY <1>15 DEF Inside
  <2>2. round'[s] \in Nat \ {0} /\ round'[s] # 1
    BY <1>5, <1>15
  <2>3. Says(pc'[s], round'[s], calls'[s], format, msgs, left, done)
    BY <1>6, <1>9, <1>10, <1>15, <2>1, <2>2 DEF Says
  <2>. QED BY <1>4, <1>11, <1>12, <2>3, StepKeeps
<1>. QED BY <1>4, <1>13, <1>14, <1>15

\* A step that no locals move in, and no session enters or leaves handle.
LEMMA QuietTalks ==
    ASSUME TurnInv, UNCHANGED <<format, messages, todo, ran>>,
           \A s \in Sids : \/ pc'[s] = pc[s] /\ round'[s] = round[s] /\ calls'[s] = calls[s]
                           \/ ~Inside(pc[s]) /\ ~Inside(pc'[s])
    PROVE  TalksOn
<1>1. ASSUME NEW t \in Sids
      PROVE  Says(pc'[t], round'[t], calls'[t], format', messages'[t], todo'[t], ran'[t])
  <2>1. Talks(t) /\ messages'[t] = messages[t] /\ todo'[t] = todo[t] /\ ran'[t] = ran[t]
    BY DEF TurnInv
  <2>2. CASE pc'[t] = pc[t] /\ round'[t] = round[t] /\ calls'[t] = calls[t]
    BY <2>1, <2>2 DEF Talks
  <2>3. CASE ~Inside(pc[t]) /\ ~Inside(pc'[t])
    BY <2>1, <2>3 DEF Talks, Says
  <2>. QED BY <2>2, <2>3
<1>. QED BY <1>1 DEF TalksOn

LEMMA SubmitTalks ==
    ASSUME TurnInv, UNCHANGED <<format, messages, todo, ran>>, NEW s \in Sids, Submit(s)
    PROVE  TalksOn
<1>1. pc[s] = "new" /\ pc'[s] = "created"
  BY SubmitMoves DEF TurnInv
<1>2. ~Inside(pc[s]) /\ ~Inside(pc'[s])
  BY <1>1 DEF Inside
<1>3. pc' = [pc EXCEPT ![s] = "created"] /\ round' = round /\ calls' = calls
  BY DEF Submit
<1>4. pc \in [Sids -> {"new", "waiting", "created", "llm", "tool", "over"}]
  BY LoopTypes DEF TurnInv
<1>5. ASSUME NEW t \in Sids, t # s
      PROVE  pc'[t] = pc[t] /\ round'[t] = round[t] /\ calls'[t] = calls[t]
  BY <1>3, <1>4, <1>5
<1>. QED BY <1>2, <1>5, QuietTalks

\* The call of session s with outcome r is on record, if s goes on.
Records(s, r) ==
    pc'[s] \in {"llm", "tool"} =>
        Len(ran'[s]) = Len(ran[s]) + 1 /\ Last(ran'[s]).raised = r.raised

\* What the disk is after a step, and what became of the sandbox and the
\* knowledge: they are wiped, wholly or in part, as they were, or what a tool
\* made of them.
Disks ==
    \/ disk' = disk
    \/ disk' \in {Wiped} \cup HalfWiped(disk)
    \/ \E s \in Sids : \E r :
          /\ pc[s] = "tool" /\ Head(todo[s]) \in CallType
          /\ Outcome(disk, Head(todo[s]).name, ParseArgs(Head(todo[s]).raw), r)
          /\ disk' = r.disk /\ Records(s, r)

LEMMA WipedIsDisk == IsDisk(Wiped) /\ IsDisk(Disk0)
<1>1. IsDisk(Wiped)
  <2> DEFINE tree == [path \in {State, Root} |-> Dir]
             none == << >>
  <2>1. Wiped = [tree |-> tree, links |-> none, knowledge |-> none]
    BY DEF Wiped
  <2>2. DOMAIN none = {} /\ none \in [DOMAIN none -> Text]
    OBVIOUS
  <2>3. tree \in [DOMAIN tree -> Text \cup {Dir}] /\ State \in DOMAIN tree
    OBVIOUS
  <2> HIDE DEF tree, none
  <2>. QED BY <2>1, <2>2, <2>3 DEF IsDisk
<1>2. IsDisk(Disk0)
  <2> DEFINE log == ChatLogPath
             tree == [path \in {State, Root, log} |-> IF path \in {State, Root} THEN Dir ELSE "words"]
             none == << >>
  <2>1. Disk0 = [tree |-> tree, links |-> Links, knowledge |-> none]
    BY DEF Disk0
  <2>2. DOMAIN none = {} /\ none \in [DOMAIN none -> Text]
    OBVIOUS
  <2> HIDE DEF log
  <2>3. tree \in [DOMAIN tree -> Text \cup {Dir}] /\ State \in DOMAIN tree
    BY WordsAreText
  <2> HIDE DEF tree, none
  <2>. QED BY <2>1, <2>2, <2>3, ToolboxAssumption DEF IsDisk
<1>. QED BY <1>1, <1>2

\* A reset that failed on its way leaves a disk, and adds or changes no entry.
LEMMA HalfWipedIsDisk ==
    ASSUME NEW d, IsDisk(d), NEW e \in HalfWiped(d)
    PROVE  IsDisk(e) /\ \A topic \in DOMAIN e.knowledge : Same(d, e, topic)
<1> DEFINE tree == Restrict(d.tree, DOMAIN d.tree \ {ChatLogPath})
<1>1. State # ChatLogPath
  <2>1. Len(State) = 1 /\ Len(ChatLogPath) = 2
    BY DEF State, ChatLogPath
  <2>. QED BY <2>1
<1>2. tree \in [DOMAIN tree -> Text \cup {Dir}] /\ State \in DOMAIN tree
  BY <1>1 DEF IsDisk, Restrict
<1> HIDE DEF tree
<1> DEFINE none == << >>
<1>3. DOMAIN none = {} /\ none \in [DOMAIN none -> Text]
  OBVIOUS
<1> HIDE DEF none
<1>4. /\ e = [tree |-> e.tree, links |-> e.links, knowledge |-> e.knowledge]
      /\ \/ e.tree = tree /\ e.links = d.links /\ e.knowledge \in Parts(d.knowledge)
         \/ e.tree \in Rooted(tree) /\ e.links \in Parts(d.links) /\ e.knowledge = none
  BY DEF HalfWiped, tree, none
<1>5. e.tree \in [DOMAIN e.tree -> Text \cup {Dir}] /\ State \in DOMAIN e.tree
  <2>1. CASE e.tree \in Rooted(tree)
    <3>1. PICK kept \in SUBSET DOMAIN tree : e.tree = Restrict(tree, kept)
      BY <2>1 DEF Rooted, Parts
    <3>2. State \in DOMAIN e.tree
      BY <2>1 DEF Rooted
    <3>. QED BY <1>2, <3>1, <3>2 DEF Restrict
  <2>. QED BY <1>2, <1>4, <2>1
<1>6. \A path \in DOMAIN e.links : e.links[path] \in Seq(Name)
  <2>1. CASE e.links \in Parts(d.links)
    <3>1. PICK kept \in SUBSET DOMAIN d.links : e.links = Restrict(d.links, kept)
      BY <2>1 DEF Parts
    <3>. QED BY <3>1 DEF Restrict, IsDisk
  <2>. QED BY <1>4, <2>1 DEF IsDisk
<1>7. /\ e.knowledge \in [DOMAIN e.knowledge -> Text]
      /\ \A topic \in DOMAIN e.knowledge : Same(d, e, topic)
  <2>1. CASE e.knowledge \in Parts(d.knowledge)
    <3>1. PICK kept \in SUBSET DOMAIN d.knowledge : e.knowledge = Restrict(d.knowledge, kept)
      BY <2>1 DEF Parts
    <3>. QED BY <3>1 DEF Restrict, IsDisk, Same
  <2>. QED BY <1>3, <1>4, <2>1
<1>. QED BY <1>4, <1>5, <1>6, <1>7 DEF IsDisk

\* Everything a step keeps, and what it makes of the disk.
Kept == LoopInv' /\ TalksOn /\ Disks /\ format' = format

LEMMA TurnBeginKeeps ==
    ASSUME TurnInv, NEW s \in Sids, TurnBegin(s)
    PROVE  Kept
<1>1. Begin(s) /\ disk' = disk /\ format' = format
  BY DEF TurnBegin
<1>2. LoopInv'
  BY <1>1, BeginKeeps DEF TurnInv
<1>. QED BY <1>1, <1>2, TurnBeginTalks DEF Kept, Disks

LEMMA TurnEndKeeps ==
    ASSUME TurnInv, NEW s \in Sids, TurnFails(s) \/ TurnCancelled(s)
    PROVE  Kept
<1>1. (LlmFails(s) \/ Cancelled(s)) /\ disk' = disk /\ format' = format
  BY DEF TurnFails, TurnCancelled
<1>2. LoopInv'
  BY <1>1, LlmFailsKeeps, CancelledKeeps DEF TurnInv
<1>. QED BY <1>1, <1>2, TurnEndTalks DEF Kept, Disks

\* What the model answered, and the calls of it.
LEMMA AnswerIs ==
    ASSUME TurnInv, NEW s \in Sids, TurnAnswer(s)
    PROVE  \E msg \in MessageType : \E plan \in Seq(STRING) :
              /\ Answered(s, plan) /\ format' = format /\ disk' = disk
              /\ Locals(s, Append(messages[s], msg), msg.calls, ran[s])
<1>1. PICK answer \in Answers[format] : LET msg == ParseResponse(answer) IN
         /\ Answered(s, [i \in DOMAIN msg.calls |-> msg.calls[i].name])
         /\ Locals(s, Append(messages[s], msg), msg.calls, ran[s])
         /\ UNCHANGED <<format, disk>>
  BY DEF TurnAnswer
<1>2. PICK msg : msg = ParseResponse(answer)
  OBVIOUS
<1>3. msg \in MessageType
  BY <1>2, ParsedAnswer DEF TurnInv
<1>4. PICK plan : plan = [i \in DOMAIN msg.calls |-> msg.calls[i].name]
  OBVIOUS
<1>5. /\ Answered(s, plan) /\ format' = format /\ disk' = disk
      /\ Locals(s, Append(messages[s], msg), msg.calls, ran[s])
  BY <1>1, <1>2, <1>4
<1>6. plan \in Seq(STRING)
  <2>1. msg.calls \in Seq(CallType)
    BY <1>3 DEF MessageType
  <2>2. \A i \in 1..Len(msg.calls) : msg.calls[i] \in CallType
    BY <2>1
  <2>3. \A i \in 1..Len(msg.calls) : msg.calls[i].name \in STRING
    BY <2>2 DEF CallType
  <2>. QED BY <1>4, <2>1, <2>3
<1>. QED BY <1>3, <1>5, <1>6

LEMMA TurnAnswerKeeps ==
    ASSUME TurnInv, NEW s \in Sids, TurnAnswer(s)
    PROVE  Kept
<1>1. PICK plan \in Seq(STRING) : Answered(s, plan) /\ format' = format /\ disk' = disk
  BY AnswerIs
<1>2. LoopInv'
  BY <1>1, AnsweredKeeps DEF TurnInv
<1>. QED BY <1>1, <1>2, TurnAnswerTalks DEF Kept, Disks

LEMMA TurnToolKeeps ==
    ASSUME TurnInv, NEW s \in Sids, TurnTool(s)
    PROVE  Kept
<1>1. PICK r : \E run \in RunType :
         /\ Outcome(disk, Head(todo[s]).name, ParseArgs(Head(todo[s]).raw), r)
         /\ disk' = r.disk /\ format' = format
         /\ Invoked(s, ~r.raised)
         /\ run.raised = r.raised
         /\ Locals(s, messages[s] \o Result(Head(todo[s]), r), Tail(todo[s]),
                   Append(ran[s], run))
  BY ToolOutcome
<1>2. LoopInv'
  <2>1. PICK ok : ok = ~r.raised
    OBVIOUS
  <2>2. Invoked(s, ok)
    BY <1>1, <2>1
  <2>. QED BY <2>2, InvokedKeeps DEF TurnInv
<1>3. pc[s] = "tool" /\ Head(todo[s]) \in CallType
  <2>1. pc[s] = "tool"
    BY DEF TurnTool
  <2>. QED BY <2>1, CallIs
<1>4. Records(s, r)
  <2>1. PICK run \in RunType :
           /\ run.raised = r.raised
           /\ Locals(s, messages[s] \o Result(Head(todo[s]), r), Tail(todo[s]),
                     Append(ran[s], run))
    BY <1>1
  <2>2. PICK done : done = Append(ran[s], run)
    OBVIOUS
  <2>3. \E msgs, left : Locals(s, msgs, left, done)
    BY <2>1, <2>2
  <2>4. PICK msgs, left : Locals(s, msgs, left, done)
    BY <2>3
  <2>5. Inside(pc[s]) /\ (pc'[s] \in {"llm", "tool"} => Inside(pc'[s]))
    BY <1>3 DEF Inside
  <2>6. pc'[s] \in {"llm", "tool"} => ran'[s] = done
    BY <2>4, <2>5, LocalsAre
  <2>7. ran[s] \in Seq(RunType)
    BY <1>3, CallIs DEF Conversation
  <2>8. Len(done) = Len(ran[s]) + 1 /\ done[Len(done)] = run
    BY <2>2, <2>7
  <2>. QED BY <2>1, <2>6, <2>8 DEF Records, Last
<1>5. Disks
  BY <1>1, <1>3, <1>4 DEF Disks
<1>. QED BY <1>1, <1>2, <1>5, TurnToolTalks DEF Kept

LEMMA OthersKeep ==
    ASSUME TurnInv,
           \/ TurnReset
           \/ /\ Subscribe \/ Stop \/ \E s \in Sids : Submit(s)
              /\ UNCHANGED <<format, messages, todo, ran, disk>>
           \/ UNCHANGED turnVars
    PROVE  Kept
<1>1. UNCHANGED <<format, messages, todo, ran>>
  BY DEF TurnReset, turnVars
<1>2. Disks
  BY DEF TurnReset, turnVars, Disks
<1>3. LoopInv
  BY DEF TurnInv
<1>4. CASE \E s \in Sids : Submit(s)
  <2>1. PICK s \in Sids : Submit(s)
    BY <1>4
  <2>2. LoopInv'
    BY <1>3, <2>1, SubmitKeeps
  <2>. QED BY <1>1, <1>2, <2>1, <2>2, SubmitTalks DEF Kept
<1>5. CASE Subscribe \/ Stop \/ ResetMetrics \/ UNCHANGED vars
  <2>1. pc' = pc /\ round' = round /\ calls' = calls
    BY <1>5 DEF Subscribe, Stop, ResetMetrics, vars
  <2>2. TalksOn
    BY <1>1, <2>1, QuietTalks
  <2>3. [Next]_vars
    BY <1>5 DEF Next
  <2>4. LoopInv'
    BY <1>3, <2>3, NextLoopInv
  <2>. QED BY <1>1, <1>2, <2>2, <2>4 DEF Kept
<1>. QED BY <1>4, <1>5 DEF TurnReset, turnVars

LEMMA NextKeeps ==
    ASSUME TurnInv, [TurnNext]_turnVars
    PROVE  TurnInv' /\ Disks
<1>1. Kept
  BY TurnBeginKeeps, TurnEndKeeps, TurnAnswerKeeps, TurnToolKeeps, OthersKeep
     DEF TurnNext, TurnHandle
<1>2. IsDisk(disk')
  <2>1. IsDisk(disk)
    BY DEF TurnInv
  <2>2. \A d, name, a, r : Outcome(d, name, a, r) => IsDisk(r.disk)
    BY DEF Outcome
  <2>. QED BY <1>1, <2>1, <2>2, WipedIsDisk, HalfWipedIsDisk DEF Kept, Disks
<1>3. (\A s \in Sids : Talks(s))'
  BY <1>1 DEF Kept, TalksOn, Talks
<1>4. format' \in {"functions", "tools"}
  BY <1>1 DEF Kept, TurnInv
<1>. QED BY <1>1, <1>2, <1>3, <1>4 DEF TurnInv, Kept

LEMMA InitTurnInv == TurnInit => TurnInv
<1>1. SUFFICES ASSUME TurnInit PROVE TurnInv
  OBVIOUS
<1>2. Init /\ disk = Disk0 /\ format \in {"functions", "tools"}
  BY <1>1 DEF TurnInit
<1>3. ASSUME NEW s \in Sids PROVE Talks(s)
  <2>1. /\ messages[s] = IF pc[s] = "llm" THEN <<Prompt>> ELSE <<>>
        /\ todo[s] = <<>> /\ ran[s] = <<>>
    BY <1>1 DEF TurnInit
  <2>2. (pc[s] = "llm" /\ round[s] = 1) \/ pc[s] \in {"waiting", "new"}
    BY <1>2 DEF Init
  <2>3. CASE pc[s] = "llm" /\ round[s] = 1
    BY <2>1, <2>3, TalkBegins DEF Talks
  <2>4. CASE pc[s] \in {"waiting", "new"}
    <3>1. ~Inside(pc[s]) /\ pc[s] # "llm"
      BY <2>4 DEF Inside
    <3>. QED BY <2>1, <3>1 DEF Talks, Says
  <2>. QED BY <2>2, <2>3, <2>4
<1>. QED BY <1>2, <1>3, InitLoopInv, WipedIsDisk DEF TurnInv

\* The sessions, the monitor and the disk as the proofs need them; every
\* invariant of AgentLoop holds with the answers and the tools in place.
THEOREM TurnInvariant == TurnSpec => []TurnInv
<1>1. TurnInv /\ [TurnNext]_turnVars => TurnInv'
  BY NextKeeps
<1>. QED BY <1>1, InitTurnInv, PTL DEF TurnSpec

\* No tool changes anything on disk but below state/sandbox: whatever paths the
\* model gives it, with ".." or through links, whatever links are there, and
\* wherever a file operation fails.
THEOREM OnlySandboxChanges == TurnSpec => Confined
<1> DEFINE Sparing ==
      \A path \in DOMAIN disk.tree \cup DOMAIN disk'.tree :
          \/ IsBelow(Root, path)
          \/ /\ path \in DOMAIN disk.tree /\ path \in DOMAIN disk'.tree
             /\ disk'.tree[path] = disk.tree[path]
          \/ disk' \in {Wiped} \cup HalfWiped(disk)
<1>1. ASSUME TurnInv, [TurnNext]_turnVars PROVE Sparing
  <2>1. CASE disk' = disk
    BY <2>1
  <2>2. CASE disk' \in {Wiped} \cup HalfWiped(disk)
    BY <2>2
  <2>3. CASE \E s \in Sids : \E r :
                /\ pc[s] = "tool" /\ Head(todo[s]) \in CallType
                /\ Outcome(disk, Head(todo[s]).name, ParseArgs(Head(todo[s]).raw), r)
                /\ disk' = r.disk /\ Records(s, r)
    <3>1. PICK e : e = disk' /\ Spares(disk, e)
      BY <2>3 DEF Outcome
    <3>. QED BY <3>1 DEF Spares
  <2>4. Disks
    BY <1>1, NextKeeps
  <2>. QED BY <2>1, <2>2, <2>3, <2>4 DEF Disks
<1>2. TurnInv /\ [TurnNext]_turnVars => [Sparing]_turnVars
  BY <1>1
<1>. QED BY <1>2, TurnInvariant, PTL DEF TurnSpec, Confined

\* What is known of a topic changes only by a reset, which may fail on its way,
\* or by a knowledge_write of that topic; and a write that did not leave its whole
\* text, because a file operation failed, is on record as failed.
THEOREM KnowledgeIsKept == TurnSpec => KnowledgeKept
<1> DEFINE Keeping ==
      \A topic \in DOMAIN disk.knowledge \cup DOMAIN disk'.knowledge :
          Untouched(topic) \/ \E s \in Sids : Writes(s, topic)
<1>1. ASSUME TurnInv, [TurnNext]_turnVars PROVE Keeping
  <2>1. CASE disk'.knowledge = disk.knowledge
    BY <2>1 DEF Untouched
  <2>2. CASE disk' \in {Wiped} \cup HalfWiped(disk)
    <3>1. \A topic \in DOMAIN disk'.knowledge : Same(disk, disk', topic)
      <4>1. CASE disk' = Wiped
        <5>1. DOMAIN disk'.knowledge = {}
          BY <4>1 DEF Wiped
        <5>. QED BY <5>1
      <4>2. CASE disk' \in HalfWiped(disk)
        <5>1. PICK e \in HalfWiped(disk) : e = disk'
          BY <4>2
        <5>2. \A topic \in DOMAIN e.knowledge : Same(disk, e, topic)
          BY <1>1, HalfWipedIsDisk DEF TurnInv
        <5>. QED BY <5>1, <5>2
      <4>. QED BY <2>2, <4>1, <4>2
    <3>. QED BY <2>2, <3>1 DEF Same, Untouched
  <2>3. ASSUME NEW s \in Sids, NEW r, pc[s] = "tool",
               Outcome(disk, Head(todo[s]).name, ParseArgs(Head(todo[s]).raw), r),
               disk' = r.disk, Records(s, r), disk'.knowledge # disk.knowledge
        PROVE  Keeping
    <3>1. PICK a : a = ParseArgs(Head(todo[s]).raw)
      OBVIOUS
    <3>2. PICK e : e = disk'
      OBVIOUS
    <3>3. /\ Head(todo[s]).name = "knowledge_write" /\ AllButOne(disk, e, a.on)
          /\ r.raised \/ Holds(e, a)
      BY <2>3, <3>1, <3>2 DEF Outcome, Remembers
    <3>4. ASSUME NEW topic \in DOMAIN disk.knowledge \cup DOMAIN e.knowledge, topic # a.on
          PROVE  Untouched(topic)
      <4>1. Same(disk, e, topic)
        BY <3>3, <3>4 DEF AllButOne
      <4>. QED BY <3>2, <4>1 DEF Same, Untouched
    <3>5. ASSUME NEW topic, topic = a.on PROVE Writes(s, topic)
      BY <2>3, <3>1, <3>2, <3>3, <3>5 DEF Records, Holds, Writes
    <3>. QED BY <3>2, <3>4, <3>5
  <2>4. Disks
    BY <1>1, NextKeeps
  <2>. QED BY <2>1, <2>2, <2>3, <2>4 DEF Disks
<1>2. TurnInv /\ [TurnNext]_turnVars => [Keeping]_turnVars
  BY <1>1
<1>. QED BY <1>2, TurnInvariant, PTL DEF TurnSpec, KnowledgeKept

----------------------------------------------------------------------------
(* What the model is sent. *)

\* A message on the wire, in the format of the OpenAI API.
LEMMA OnWireTools ==
    ASSUME NEW msg \in MessageType, NEW w, w = SerializeTools(msg)
    PROVE  /\ w.role = msg.role /\ w.name = msg.name
           /\ msg.role = "tool" => w.id = msg.id
           /\ msg.role # "tool" => w.calls = msg.calls
<1>1. PICK role, content, c, name, id, quoted :
         msg = [role |-> role, content |-> content, calls |-> c, name |-> name, id |-> id,
                quoted |-> quoted]
  BY Zenon DEF MessageType
<1>. QED BY <1>1 DEF SerializeTools

\* A message on the wire, in the format of the v1 API.
LEMMA OnWireFunctions ==
    ASSUME NEW msg \in MessageType, NEW w, w = SerializeFunctions(msg)
    PROVE  /\ msg.role = "tool" => /\ w.role = "function" /\ w.name = msg.name /\ w.id = ""
                                   /\ w.content = msg.content /\ w.quoted = Quoted(msg.content)
           /\ msg.role # "tool" => w.role = msg.role
           /\ msg.role # "tool" /\ msg.calls = <<>> => w.calls = <<>>
           /\ msg.role # "tool" /\ msg.calls # <<>> =>
                 w.calls = <<Call("", Head(msg.calls).name,
                                  Raw("object", ParseArgs(Head(msg.calls).raw)))>>
<1>1. PICK role, content, c, name, id, quoted :
         msg = [role |-> role, content |-> content, calls |-> c, name |-> name, id |-> id,
                quoted |-> quoted]
  BY Zenon DEF MessageType
<1>2. EchoedArgs(Head(msg.calls).raw) = ParseArgs(Head(msg.calls).raw)
  BY DEF EchoedArgs, ParseArgs
<1>3. PICK args : args = ParseArgs(Head(msg.calls).raw)
  OBVIOUS
<1>4. PICK echo : echo = <<Call("", Head(c).name, Raw("object", args))>>
  OBVIOUS
<1>5. SerializeFunctions(msg) =
        IF role = "tool"
        THEN [msg EXCEPT !.role = "function", !.calls = <<>>, !.id = "", !.quoted = Quoted(content)]
        ELSE IF c # <<>> THEN [msg EXCEPT !.name = "", !.id = "", !.calls = echo]
        ELSE [msg EXCEPT !.id = ""]
  BY <1>1, <1>2, <1>3, <1>4 DEF SerializeFunctions
<1>. QED BY <1>1, <1>3, <1>4, <1>5

\* The messages of a session that waits for the model.
LEMMA AsksNow ==
    ASSUME TurnInv, NEW s \in Sids, pc[s] = "llm"
    PROVE  /\ Conversation(format, messages[s], <<>>, ran[s])
           /\ IF round[s] = 1 THEN messages[s] = <<Prompt>>
                              ELSE \E j \in DOMAIN messages[s] : messages[s][j].role = "tool"
<1>1. Inside(pc[s])
  BY DEF Inside
<1>. QED BY <1>1 DEF TurnInv, Talks, Says

LEMMA SentAt ==
    ASSUME NEW f, NEW msgs, NEW p, p = Sent(f, msgs)
    PROVE  /\ DOMAIN p = DOMAIN msgs
           /\ \A i \in DOMAIN msgs : p[i] = IF f = "tools" THEN SerializeTools(msgs[i])
                                            ELSE SerializeFunctions(msgs[i])
BY DEF Sent

\* In a conversation with nothing left, results follow their calls at once.
LEMMA ResultsFollow ==
    ASSUME NEW f, NEW msgs, NEW done, Conversation(f, msgs, <<>>, done)
    PROVE  /\ msgs \in Seq(MessageType) /\ DOMAIN msgs = 1..Len(msgs) /\ Len(msgs) \in Nat
           /\ \A i \in DOMAIN msgs : msgs[i] \in MessageType /\ CallsAt(msgs, i) \in Seq(CallType)
           /\ \A i \in DOMAIN msgs : \A k \in DOMAIN CallsAt(msgs, i) :
                 i + k \in DOMAIN msgs /\ IsResult(msgs[i + k], CallsAt(msgs, i)[k])
           /\ \A j \in DOMAIN msgs : msgs[j].role = "tool" =>
                 \E i \in 1..(j - 1) : j - i \in DOMAIN CallsAt(msgs, i)
<1> DEFINE none == <<>>
<1>1. DOMAIN none = {} /\ none \in Seq(CallType)
  OBVIOUS
<1>2. msgs \in Seq(MessageType) /\ Dialogue(msgs, none)
  BY DEF Conversation
<1> HIDE DEF none
<1>3. /\ DOMAIN msgs = 1..Len(msgs) /\ Len(msgs) \in Nat
      /\ \A i \in DOMAIN msgs : msgs[i] \in MessageType
  BY <1>2
<1>4. \A i \in DOMAIN msgs : CallsAt(msgs, i) \in Seq(CallType)
  BY <1>1, <1>3 DEF CallsAt, MessageType, none
<1>5. ASSUME NEW i \in DOMAIN msgs, NEW k \in DOMAIN CallsAt(msgs, i)
      PROVE  i + k \in DOMAIN msgs /\ IsResult(msgs[i + k], CallsAt(msgs, i)[k])
  <2>1. i \in Nat \ {0} /\ k \in Nat \ {0}
    BY <1>3, <1>4
  <2>2. /\ i + k <= Len(msgs) => IsResult(msgs[i + k], CallsAt(msgs, i)[k])
        /\ i + k > Len(msgs) => i + k - Len(msgs) \in DOMAIN none
    BY <1>2 DEF Dialogue
  <2>. QED BY <1>1, <1>3, <2>1, <2>2
<1>6. \A j \in DOMAIN msgs : msgs[j].role = "tool" =>
         \E i \in 1..(j - 1) : j - i \in DOMAIN CallsAt(msgs, i)
  BY <1>2 DEF Dialogue
<1>. QED BY <1>2, <1>3, <1>4, <1>5, <1>6

LEMMA PairedTools ==
    ASSUME NEW msgs, NEW done, NEW f, Conversation(f, msgs, <<>>, done), f = "tools",
           NEW p, p = Sent(f, msgs), NEW role, role = "tool"
    PROVE  Paired(p, role)
<1>1. /\ DOMAIN p = DOMAIN msgs
      /\ \A i \in DOMAIN msgs : p[i] = SerializeTools(msgs[i])
  BY SentAt
<1>2. /\ DOMAIN msgs = 1..Len(msgs) /\ Len(msgs) \in Nat
      /\ \A i \in DOMAIN msgs : msgs[i] \in MessageType
      /\ \A i \in DOMAIN msgs : \A k \in DOMAIN CallsAt(msgs, i) :
            i + k \in DOMAIN msgs /\ IsResult(msgs[i + k], CallsAt(msgs, i)[k])
      /\ \A j \in DOMAIN msgs : msgs[j].role = "tool" =>
            \E i \in 1..(j - 1) : j - i \in DOMAIN CallsAt(msgs, i)
  BY ResultsFollow
<1>3. \A i \in DOMAIN msgs :
         /\ p[i].role = msgs[i].role /\ p[i].name = msgs[i].name
         /\ msgs[i].role = "tool" => p[i].id = msgs[i].id
         /\ msgs[i].role # "tool" => p[i].calls = msgs[i].calls
  BY <1>1, <1>2, OnWireTools
<1>4. \A i \in DOMAIN msgs : CallsAt(p, i) = CallsAt(msgs, i)
  BY <1>3 DEF CallsAt
<1>5. ASSUME NEW i \in DOMAIN p, NEW k \in DOMAIN CallsAt(p, i)
      PROVE  /\ i + k \in DOMAIN p
             /\ p[i + k].role = role /\ p[i + k].name = CallsAt(p, i)[k].name
             /\ p[i + k].id = CallsAt(p, i)[k].id
  BY <1>1, <1>2, <1>3, <1>4 DEF IsResult
<1>6. ASSUME NEW j \in DOMAIN p, p[j].role = role
      PROVE  \E i \in 1..(j - 1) : j - i \in DOMAIN CallsAt(p, i)
  <2>1. PICK i \in 1..(j - 1) : j - i \in DOMAIN CallsAt(msgs, i)
    BY <1>1, <1>2, <1>3, <1>6
  <2>2. i \in DOMAIN msgs
    BY <1>1, <1>2
  <2>. QED BY <1>4, <2>1, <2>2
<1>. QED BY <1>5, <1>6 DEF Paired

LEMMA OneIs ==
    ASSUME NEW T, NEW q \in Seq(T), q # <<>>, Len(q) <= 1
    PROVE  DOMAIN q = {1} /\ Len(q) = 1 /\ Head(q) = q[1]
<1>1. Len(q) \in Nat /\ DOMAIN q = 1..Len(q) /\ Head(q) = q[1] /\ (q = <<>> <=> Len(q) = 0)
  BY EmptyIs
<1>2. Len(q) # 0
  BY <1>1
<1>3. Len(q) = 1
  BY <1>1, <1>2
<1>. QED BY <1>1, <1>3

\* With the v1 API, an answer holds one call, echoed in p with the arguments its
\* tool was given.
Echoes(msgs, p) ==
    \A i \in DOMAIN msgs :
        /\ msgs[i].role = "tool" =>
             /\ p[i].role = "function" /\ p[i].name = msgs[i].name /\ p[i].id = ""
             /\ p[i].content = msgs[i].content /\ p[i].quoted = Quoted(msgs[i].content)
        /\ msgs[i].role # "tool" => p[i].role = msgs[i].role
        /\ Len(CallsAt(p, i)) = Len(CallsAt(msgs, i))
        /\ DOMAIN CallsAt(p, i) = DOMAIN CallsAt(msgs, i) /\ DOMAIN CallsAt(p, i) \subseteq {1}
        /\ 1 \in DOMAIN CallsAt(p, i) =>
             /\ CallsAt(p, i)[1].name = CallsAt(msgs, i)[1].name
             /\ CallsAt(p, i)[1].id = ""
             /\ CallsAt(p, i)[1].raw.args = ParseArgs(CallsAt(msgs, i)[1].raw)

LEMMA OneCallEach ==
    ASSUME NEW msgs, NEW done, NEW f, Conversation(f, msgs, <<>>, done), f = "functions",
           NEW p, p = Sent(f, msgs)
    PROVE  DOMAIN p = DOMAIN msgs /\ Echoes(msgs, p)
<1>1. ASSUME NEW i \in DOMAIN msgs
      PROVE  /\ msgs[i].role = "tool" =>
                /\ p[i].role = "function" /\ p[i].name = msgs[i].name /\ p[i].id = ""
                /\ p[i].content = msgs[i].content /\ p[i].quoted = Quoted(msgs[i].content)
             /\ msgs[i].role # "tool" => p[i].role = msgs[i].role
             /\ Len(CallsAt(p, i)) = Len(CallsAt(msgs, i))
             /\ DOMAIN CallsAt(p, i) = DOMAIN CallsAt(msgs, i) /\ DOMAIN CallsAt(p, i) \subseteq {1}
             /\ 1 \in DOMAIN CallsAt(p, i) =>
                /\ CallsAt(p, i)[1].name = CallsAt(msgs, i)[1].name
                /\ CallsAt(p, i)[1].id = ""
                /\ CallsAt(p, i)[1].raw.args = ParseArgs(CallsAt(msgs, i)[1].raw)
  <2>1. /\ DOMAIN p = DOMAIN msgs /\ p[i] = SerializeFunctions(msgs[i])
    BY SentAt
  <2>2. /\ msgs \in Seq(MessageType) /\ msgs[i] \in MessageType
        /\ CallsAt(msgs, i) \in Seq(CallType)
    BY ResultsFollow
  <2>3. Len(CallsAt(msgs, i)) <= 1
    BY DEF Conversation, Single
  <2>4. PICK msg \in MessageType : msg = msgs[i]
    BY <2>2
  <2>5. PICK w : w = p[i]
    OBVIOUS
  <2>6. /\ msg.role = "tool" => /\ w.role = "function" /\ w.name = msg.name /\ w.id = ""
                                /\ w.content = msg.content /\ w.quoted = Quoted(msg.content)
        /\ msg.role # "tool" => w.role = msg.role
        /\ msg.role # "tool" /\ msg.calls = <<>> => w.calls = <<>>
        /\ msg.role # "tool" /\ msg.calls # <<>> =>
              w.calls = <<Call("", Head(msg.calls).name, Raw("object", ParseArgs(Head(msg.calls).raw)))>>
    BY <2>1, <2>4, <2>5, OnWireFunctions
  <2> DEFINE none == <<>>
  <2>7. none \in Seq(CallType) /\ DOMAIN none = {}
    OBVIOUS
  <2>8. CASE CallsAt(msgs, i) = none
    <3>1. CallsAt(p, i) = none
      <4>1. msg.role = "assistant" => msg.calls = none
        BY <2>4, <2>8 DEF CallsAt
      <4>2. w.role = "assistant" => msg.role = "assistant"
        BY <2>6
      <4>3. w.role = "assistant" => w.calls = none
        BY <2>6, <4>1, <4>2
      <4>. QED BY <2>5, <4>3 DEF CallsAt
    <3> HIDE DEF none
    <3>. QED BY <2>1, <2>4, <2>5, <2>6, <2>7, <2>8, <3>1
  <2>9. CASE CallsAt(msgs, i) # none
    <3>1. msg.role = "assistant" /\ CallsAt(msgs, i) = msg.calls /\ msg.calls # none
      BY <2>4, <2>9 DEF CallsAt
    <3>2. msg.calls \in Seq(CallType) /\ Len(msg.calls) <= 1
      BY <2>2, <2>3, <3>1
    <3>3. DOMAIN msg.calls = {1} /\ Len(msg.calls) = 1 /\ Head(msg.calls) = msg.calls[1]
      <4>1. PICK q \in Seq(CallType) : q = msg.calls /\ q # <<>> /\ Len(q) <= 1
        BY <3>1, <3>2
      <4>2. DOMAIN q = {1} /\ Len(q) = 1 /\ Head(q) = q[1]
        BY <4>1, OneIs
      <4>. QED BY <4>1, <4>2
    <3>4. PICK call : call = msg.calls[1]
      OBVIOUS
    <3>5. w.role = "assistant" /\ w.calls = <<Call("", call.name, Raw("object", ParseArgs(call.raw)))>>
      BY <2>6, <3>1, <3>3, <3>4
    <3>6. CallsAt(p, i) = w.calls
      BY <2>5, <3>5 DEF CallsAt
    <3>7. /\ DOMAIN w.calls = {1} /\ Len(w.calls) = 1 /\ w.calls[1].name = call.name /\ w.calls[1].id = ""
          /\ w.calls[1].raw.args = ParseArgs(call.raw)
      <4>1. PICK echo : echo = Call("", call.name, Raw("object", ParseArgs(call.raw)))
        OBVIOUS
      <4>2. echo.name = call.name /\ echo.id = "" /\ echo.raw.args = ParseArgs(call.raw)
        BY <4>1 DEF Call, Raw
      <4>3. w.calls = <<echo>>
        BY <3>5, <4>1
      <4>4. DOMAIN w.calls = {1} /\ Len(w.calls) = 1 /\ w.calls[1] = echo
        BY <4>3
      <4>. QED BY <4>2, <4>4
    <3> HIDE DEF none
    <3>. QED BY <2>1, <2>4, <2>5, <2>6, <3>1, <3>3, <3>4, <3>6, <3>7
  <2>. QED BY <2>8, <2>9
<1>2. DOMAIN p = DOMAIN msgs
  BY SentAt
<1>. QED BY <1>1, <1>2 DEF Echoes

LEMMA PairedFunctions ==
    ASSUME NEW msgs, NEW done, NEW f, Conversation(f, msgs, <<>>, done), f = "functions",
           NEW p, p = Sent(f, msgs), NEW role, role = "function"
    PROVE  Paired(p, role)
<1>1. /\ DOMAIN msgs = 1..Len(msgs) /\ Len(msgs) \in Nat
      /\ \A i \in DOMAIN msgs : msgs[i] \in MessageType
      /\ \A i \in DOMAIN msgs : \A k \in DOMAIN CallsAt(msgs, i) :
            i + k \in DOMAIN msgs /\ IsResult(msgs[i + k], CallsAt(msgs, i)[k])
      /\ \A j \in DOMAIN msgs : msgs[j].role = "tool" =>
            \E i \in 1..(j - 1) : j - i \in DOMAIN CallsAt(msgs, i)
  BY ResultsFollow
<1>2. DOMAIN p = DOMAIN msgs /\ Echoes(msgs, p)
  BY OneCallEach
<1>3. ASSUME NEW i \in DOMAIN p, NEW k \in DOMAIN CallsAt(p, i)
      PROVE  /\ i + k \in DOMAIN p
             /\ p[i + k].role = role /\ p[i + k].name = CallsAt(p, i)[k].name
             /\ p[i + k].id = CallsAt(p, i)[k].id
  <2>1. /\ k = 1 /\ 1 \in DOMAIN CallsAt(msgs, i)
        /\ CallsAt(p, i)[1].name = CallsAt(msgs, i)[1].name /\ CallsAt(p, i)[1].id = ""
    BY <1>2, <1>3 DEF Echoes
  <2>2. PICK j \in DOMAIN msgs : j = i + k /\ IsResult(msgs[j], CallsAt(msgs, i)[1])
    BY <1>1, <1>2, <2>1
  <2>3. p[j].role = "function" /\ p[j].name = msgs[j].name /\ p[j].id = ""
    BY <1>2, <2>2 DEF IsResult, Echoes
  <2>. QED BY <1>2, <2>1, <2>2, <2>3 DEF IsResult
<1>4. ASSUME NEW j \in DOMAIN p, p[j].role = role
      PROVE  \E i \in 1..(j - 1) : j - i \in DOMAIN CallsAt(p, i)
  <2>1. msgs[j].role = "tool"
    <3>1. msgs[j].role # "tool" => p[j].role = msgs[j].role
      BY <1>2 DEF Echoes
    <3>2. msgs[j].role \in {"user", "assistant", "tool"}
      BY <1>1, <1>2 DEF MessageType
    <3>. QED BY <1>4, <3>1, <3>2
  <2>2. PICK i \in 1..(j - 1) : j - i \in DOMAIN CallsAt(msgs, i)
    BY <1>1, <1>2, <2>1
  <2>3. i \in DOMAIN msgs
    BY <1>1, <1>2
  <2>4. DOMAIN CallsAt(p, i) = DOMAIN CallsAt(msgs, i)
    BY <1>2, <2>3 DEF Echoes
  <2>. QED BY <2>2, <2>4
<1>. QED BY <1>3, <1>4 DEF Paired

\* Whatever the model answers, what it is sent follows the table of
\* docs/gigachat-functions.md, in either format, in every round.
THEOREM PayloadsFollowDocs == TurnSpec => []PayloadFollowsDocs
<1>1. ASSUME TurnInv, NEW s \in Sids, pc[s] = "llm", NEW p, p = Payload(s)
      PROVE  IF format = "tools" THEN Paired(p, "tool")
             ELSE /\ Paired(p, "function")
                  /\ \A i \in DOMAIN p : p[i].role = "function" =>
                         p[i].quoted \/ IsJson(p[i].content) \/ p[i].content = "NaN"
                  /\ Choice(format, p) = "auto" <=> round[s] = 1
  <2>1. PICK f : f = format
    OBVIOUS
  <2>2. PICK msgs : msgs = messages[s]
    OBVIOUS
  <2>3. /\ Conversation(f, msgs, <<>>, ran[s]) /\ f \in {"functions", "tools"}
        /\ IF round[s] = 1 THEN msgs = <<Prompt>>
                           ELSE \E j \in DOMAIN msgs : msgs[j].role = "tool"
        /\ p = Sent(f, msgs)
    BY <1>1, <2>1, <2>2, AsksNow DEF TurnInv, Payload
  <2>4. CASE f = "tools"
    <3>1. PICK role : role = "tool"
      OBVIOUS
    <3>2. Paired(p, role)
      BY <2>3, <2>4, <3>1, PairedTools
    <3>. QED BY <2>1, <2>4, <3>1, <3>2
  <2>5. CASE f = "functions"
    <3>1. PICK role : role = "function"
      OBVIOUS
    <3>2. Paired(p, role)
      BY <2>3, <2>5, <3>1, PairedFunctions
    <3>3. \A i \in DOMAIN msgs :
             /\ msgs[i].role = "tool" => /\ p[i].role = "function"
                                         /\ p[i].content = msgs[i].content
                                         /\ p[i].quoted = Quoted(msgs[i].content)
             /\ msgs[i].role # "tool" => p[i].role = msgs[i].role
      <4>1. Echoes(msgs, p)
        BY <2>3, <2>5, OneCallEach
      <4>. QED BY <4>1 DEF Echoes
    <3>4. DOMAIN p = DOMAIN msgs
      BY <2>3, SentAt
    <3>5. \A i \in DOMAIN msgs : msgs[i].role \in {"user", "assistant", "tool"}
      BY <2>3, ResultsFollow DEF MessageType
    <3>6. \A i \in DOMAIN p : p[i].role = "function" <=> msgs[i].role = "tool"
      BY <3>3, <3>4, <3>5
    <3>7. ASSUME NEW i \in DOMAIN p, p[i].role = "function"
          PROVE  p[i].quoted \/ IsJson(p[i].content) \/ p[i].content = "NaN"
      BY <3>3, <3>4, <3>6, <3>7 DEF Quoted, PythonLoads, IsJson
    <3>8. Choice(format, p) = "auto" <=> ~ \E i \in DOMAIN p : p[i].role = "function"
      BY <2>1, <2>5 DEF Choice
    <3>9. (~ \E i \in DOMAIN p : p[i].role = "function") <=> round[s] = 1
      <4>1. CASE round[s] = 1
        <5>1. msgs = <<Prompt>> /\ Prompt.role = "user"
          BY <2>3, <4>1 DEF Prompt, Message
        <5>2. \A i \in DOMAIN msgs : msgs[i].role = "user"
          BY <5>1
        <5>. QED BY <3>4, <3>6, <4>1, <5>2
      <4>2. CASE round[s] # 1
        BY <2>3, <3>4, <3>6, <4>2
      <4>. QED BY <4>1, <4>2
    <3>. QED BY <2>1, <2>5, <3>1, <3>2, <3>7, <3>8, <3>9
  <2>. QED BY <2>3, <2>4, <2>5
<1>2. TurnInv => PayloadFollowsDocs
  BY <1>1 DEF PayloadFollowsDocs
<1>. QED BY <1>2, TurnInvariant, PTL

\* The v1 API is told the arguments the tools were given, for every call of the
\* conversation, junk included: the two parsers of a call agree.
THEOREM EchoesAreWhatRan == TurnSpec => []EchoIsWhatRan
<1>1. ASSUME TurnInv, format = "functions", NEW s \in Sids, pc[s] = "llm",
             NEW p, p = Payload(s)
      PROVE  /\ Len(p) = 2 * Len(ran[s]) + 1
             /\ \A i \in DOMAIN ran[s] :
                   /\ Len(p[2 * i].calls) = 1
                   /\ p[2 * i].calls[1].name = ran[s][i].name
                   /\ p[2 * i].calls[1].raw.args = ran[s][i].args
  <2> DEFINE none == <<>>
  <2>1. PICK f : f = format
    OBVIOUS
  <2>2. PICK msgs : msgs = messages[s]
    OBVIOUS
  <2>3. PICK done : done = ran[s]
    OBVIOUS
  <2>4. Conversation(f, msgs, <<>>, done) /\ f = "functions" /\ p = Sent(f, msgs)
    BY <1>1, <2>1, <2>2, <2>3, AsksNow DEF Payload
  <2>5. /\ msgs \in Seq(MessageType) /\ DOMAIN msgs = 1..Len(msgs) /\ Len(msgs) \in Nat
    BY <2>4, ResultsFollow
  <2>6. DOMAIN p = DOMAIN msgs /\ Echoes(msgs, p)
    BY <2>4, OneCallEach
  <2>7. /\ Len(msgs) = 2 * Len(done) + 1 + Len(none)
        /\ \A i \in DOMAIN done : Told(msgs[2 * i], done[i])
        /\ DOMAIN done = 1..Len(done) /\ Len(done) \in Nat
    BY <2>4 DEF Conversation, Single
  <2>8. Len(none) = 0
    OBVIOUS
  <2> HIDE DEF none
  <2>9. Len(p) = Len(msgs)
    BY <2>4, <2>5 DEF Sent
  <2>10. ASSUME NEW i \in DOMAIN done
         PROVE  /\ Len(p[2 * i].calls) = 1
                /\ p[2 * i].calls[1].name = done[i].name
                /\ p[2 * i].calls[1].raw.args = done[i].args
    <3>1. PICK j \in DOMAIN msgs : j = 2 * i
      BY <2>5, <2>7, <2>8
    <3>2. Told(msgs[j], done[i])
      BY <2>7, <3>1
    <3>3. CallsAt(msgs, j) = msgs[j].calls /\ Len(msgs[j].calls) = 1 /\ msgs[j].role # "tool"
      BY <3>2 DEF Told, CallsAt
    <3>4. msgs[j] \in MessageType
      BY <2>5
    <3>5. 1 \in DOMAIN CallsAt(msgs, j)
      BY <3>3, <3>4 DEF MessageType
    <3>6. p[j].role = "assistant" /\ CallsAt(p, j) = p[j].calls
      BY <2>6, <3>2, <3>3 DEF Echoes, CallsAt, Told
    <3>7. /\ Len(CallsAt(p, j)) = 1
          /\ CallsAt(p, j)[1].name = CallsAt(msgs, j)[1].name
          /\ CallsAt(p, j)[1].raw.args = ParseArgs(CallsAt(msgs, j)[1].raw)
      BY <2>6, <3>3, <3>5 DEF Echoes
    <3>. QED BY <3>1, <3>2, <3>3, <3>6, <3>7 DEF Told
  <2>11. Len(p) = 2 * Len(done) + 1
    BY <2>7, <2>8, <2>9
  <2>. QED BY <2>3, <2>10, <2>11
<1>2. TurnInv => EchoIsWhatRan
  BY <1>1 DEF EchoIsWhatRan
<1>. QED BY <1>2, TurnInvariant, PTL

----------------------------------------------------------------------------
(* The cards. *)

\* The calls that ended, among `steps`, are those of `run`: one by one, in
\* their order, each marked by whether it raised.
Lists(steps, run) ==
    \E at \in [DOMAIN run -> EndedCalls(steps)] :
       /\ Range(at) = EndedCalls(steps)
       /\ \A i, j \in DOMAIN run : i < j => at[i] < at[j]
       /\ \A i \in DOMAIN run :
             /\ steps[at[i]].name = run[i].name
             /\ steps[at[i]].ok = IF run[i].raised THEN "fail" ELSE "ok"

LEMMA ListsNone ==
    ASSUME NEW steps, EndedCalls(steps) = {}, NEW run, run = <<>>
    PROVE  Lists(steps, run)
<1>1. DOMAIN run = {}
  OBVIOUS
<1>2. PICK at : at = [i \in DOMAIN run |-> 0]
  OBVIOUS
<1>3. at \in [DOMAIN run -> EndedCalls(steps)] /\ Range(at) = EndedCalls(steps)
  BY <1>1, <1>2 DEF Range
<1>. QED BY <1>1, <1>3 DEF Lists

LEMMA ListsSame ==
    ASSUME NEW a, NEW b, NEW run, Lists(a, run),
           EndedCalls(b) = EndedCalls(a), \A i \in EndedCalls(a) : b[i] = a[i]
    PROVE  Lists(b, run)
<1>1. PICK at \in [DOMAIN run -> EndedCalls(a)] :
         /\ Range(at) = EndedCalls(a)
         /\ \A i, j \in DOMAIN run : i < j => at[i] < at[j]
         /\ \A i \in DOMAIN run :
               /\ a[at[i]].name = run[i].name
               /\ a[at[i]].ok = IF run[i].raised THEN "fail" ELSE "ok"
  BY DEF Lists
<1>2. \A i \in DOMAIN run : b[at[i]] = a[at[i]]
  OBVIOUS
<1>. QED BY <1>1, <1>2 DEF Lists

\* An open step is no call that ended.
LEMMA ListsOpened ==
    ASSUME NEW steps \in Seq(StepType), NEW new, Opens(new, steps), NEW run, Lists(steps, run)
    PROVE  Lists(new, run)
<1>1. PICK d \in StepType : d.ok = "open" /\ new = Append(steps, d)
  BY DEF Opens
<1>2. EndedCalls(new) = EndedCalls(steps)
  BY <1>1, OpenedEndsNone
<1>3. \A i \in DOMAIN steps : new[i] = steps[i]
  BY <1>1
<1>4. \A i \in EndedCalls(steps) : new[i] = steps[i]
  BY <1>3 DEF EndedCalls
<1>. QED BY <1>2, <1>4, ListsSame

\* A card whose last step d is open, and that step closed.
LEMMA ClosedAt ==
    ASSUME NEW steps \in Seq(StepType), NEW d, Shows(steps, {d}), NEW ok, NEW new, new = Closed(steps, ok)
    PROVE  /\ Len(steps) \in Nat \ {0} /\ DOMAIN steps = 1..Len(steps) /\ DOMAIN new = DOMAIN steps
           /\ \A i \in DOMAIN steps : i # Len(steps) => new[i] = steps[i]
           /\ new[Len(steps)].kind = d.kind /\ new[Len(steps)].name = d.name
           /\ new[Len(steps)].ok = IF ok THEN "ok" ELSE "fail"
           /\ new \in Seq(StepType)
<1>1. /\ Len(steps) \in Nat \ {0} /\ DOMAIN steps = 1..Len(steps) /\ steps[Len(steps)] = d
      /\ d \in StepType
  <2>1. steps # <<>> /\ Last(steps) = d
    BY DEF Shows
  <2>. QED BY <2>1 DEF Last
<1> DEFINE x == [steps[Len(steps)] EXCEPT !.ok = IF ok THEN "ok" ELSE "fail"]
<1>2. x.kind = d.kind /\ x.name = d.name /\ (x.ok = IF ok THEN "ok" ELSE "fail") /\ x \in StepType
  BY <1>1 DEF StepType
<1>3. new = [steps EXCEPT ![Len(steps)] = x]
  BY DEF Closed
<1> HIDE DEF x
<1>4. /\ DOMAIN new = DOMAIN steps
      /\ \A i \in DOMAIN steps : new[i] = IF i = Len(steps) THEN x ELSE steps[i]
      /\ new \in Seq(StepType)
  BY <1>1, <1>2, <1>3
<1>. QED BY <1>1, <1>2, <1>4

\* An LLM call that ends is no tool call.
LEMMA ListsAsked ==
    ASSUME NEW steps \in Seq(StepType), NEW name, Shows(steps, Asking(name)),
           NEW run, Lists(steps, run), NEW ok, NEW new, new = Closed(steps, ok)
    PROVE  Lists(new, run)
<1>1. PICK d : d = OpenStep("llm_call", name)
  OBVIOUS
<1>2. Shows(steps, {d}) /\ d.kind = "llm_call"
  BY <1>1 DEF Asking, OpenStep
<1>3. /\ Len(steps) \in Nat \ {0} /\ DOMAIN steps = 1..Len(steps) /\ DOMAIN new = DOMAIN steps
      /\ \A i \in DOMAIN steps : i # Len(steps) => new[i] = steps[i]
      /\ new[Len(steps)].kind = d.kind
  BY <1>2, ClosedAt
<1>4. steps[Len(steps)] = d
  BY <1>2, <1>3 DEF Shows, Last
<1>5. EndedCalls(new) = EndedCalls(steps) /\ \A i \in EndedCalls(steps) : new[i] = steps[i]
  BY <1>2, <1>3, <1>4 DEF EndedCalls
<1>. QED BY <1>5, ListsSame

\* A tool call that ends is the next one of the run.
LEMMA ListsUsed ==
    ASSUME NEW steps \in Seq(StepType), NEW name, Shows(steps, Using(name)),
           NEW run \in Seq(RunType), Lists(steps, run),
           NEW last \in RunType, last.name = name, NEW ok, ok = ~last.raised,
           NEW new, new = Closed(steps, ok)
    PROVE  Lists(new, Append(run, last))
<1>1. PICK d : d = OpenStep("tool_call", name)
  OBVIOUS
<1>2. Shows(steps, {d}) /\ d.kind = "tool_call" /\ d.name = name /\ d.ok = "open"
  BY <1>1 DEF Using, OpenStep
<1>3. /\ Len(steps) \in Nat \ {0} /\ DOMAIN steps = 1..Len(steps) /\ DOMAIN new = DOMAIN steps
      /\ \A i \in DOMAIN steps : i # Len(steps) => new[i] = steps[i]
      /\ new[Len(steps)].kind = d.kind /\ new[Len(steps)].name = d.name
      /\ new[Len(steps)].ok = IF ok THEN "ok" ELSE "fail"
  BY <1>2, ClosedAt
<1>4. steps[Len(steps)] = d
  BY <1>2, <1>3 DEF Shows, Last
<1> DEFINE k == Len(steps)
           n == Len(run)
           more == Append(run, last)
<1>5. EndedCalls(new) = EndedCalls(steps) \cup {k}
  BY <1>2, <1>3, <1>4 DEF EndedCalls
<1>6. \A i \in EndedCalls(steps) : i \in Nat /\ i < k /\ new[i] = steps[i]
  BY <1>2, <1>3, <1>4 DEF EndedCalls
<1>7. /\ n \in Nat /\ DOMAIN run = 1..n /\ DOMAIN more = 1..(n + 1)
      /\ \A i \in 1..n : more[i] = run[i]
      /\ more[n + 1] = last
  OBVIOUS
<1>8. PICK at \in [DOMAIN run -> EndedCalls(steps)] :
         /\ Range(at) = EndedCalls(steps)
         /\ \A i, j \in DOMAIN run : i < j => at[i] < at[j]
         /\ \A i \in DOMAIN run :
               /\ steps[at[i]].name = run[i].name
               /\ steps[at[i]].ok = IF run[i].raised THEN "fail" ELSE "ok"
  BY DEF Lists
<1>9. PICK at2 : at2 = [i \in 1..(n + 1) |-> IF i = n + 1 THEN k ELSE at[i]]
  OBVIOUS
<1>10. \A i : i \in 1..(n + 1) <=> i \in 1..n \/ i = n + 1
  BY <1>7
<1>11. at2[n + 1] = k /\ \A i \in 1..n : at2[i] = at[i] /\ i # n + 1
  BY <1>7, <1>9
<1> HIDE DEF more, k
<1>12. at2 \in [DOMAIN more -> EndedCalls(new)]
  BY <1>5, <1>7, <1>9, <1>10, <1>11
<1>13. Range(at2) = EndedCalls(new)
  <2>1. \A x : x \in Range(at) <=> \E i \in 1..n : at[i] = x
    BY <1>7 DEF Range
  <2>2. \A x : x \in Range(at2) <=> \E i \in 1..(n + 1) : at2[i] = x
    BY <1>9 DEF Range
  <2>3. \A x : (\E i \in 1..(n + 1) : at2[i] = x) <=> (\E i \in 1..n : at[i] = x) \/ x = k
    BY <1>10, <1>11
  <2>4. \A x : x \in Range(at2) <=> x \in Range(at) \/ x = k
    BY <2>1, <2>2, <2>3
  <2>5. Range(at2) = Range(at) \cup {k}
    BY <2>4
  <2>. QED BY <1>5, <1>8, <2>5 DEF k
<1>14. ASSUME NEW i \in DOMAIN more, NEW j \in DOMAIN more, i < j PROVE at2[i] < at2[j]
  <2>1. i \in 1..n
    BY <1>7, <1>14
  <2>2. CASE j \in 1..n
    BY <1>7, <1>8, <1>11, <1>14, <2>1, <2>2
  <2>3. CASE j = n + 1
    <3>1. at[i] \in EndedCalls(steps)
      BY <1>7, <2>1
    <3>. QED BY <1>6, <1>11, <2>1, <2>3, <3>1
  <2>. QED BY <1>7, <1>10, <2>2, <2>3
<1>15. ASSUME NEW i \in DOMAIN more
       PROVE  /\ new[at2[i]].name = more[i].name
              /\ new[at2[i]].ok = IF more[i].raised THEN "fail" ELSE "ok"
  <2>1. CASE i \in 1..n
    <3>1. at[i] \in EndedCalls(steps)
      BY <1>7, <2>1
    <3>. QED BY <1>6, <1>7, <1>8, <1>11, <2>1, <3>1
  <2>2. CASE i = n + 1
    <3>1. (IF ok THEN "ok" ELSE "fail") = IF last.raised THEN "fail" ELSE "ok"
      BY Zenon DEF RunType
    <3>2. at2[i] = k /\ more[i] = last
      BY <1>7, <1>11, <2>2
    <3>. QED BY <1>2, <1>3, <3>1, <3>2 DEF k
  <2>. QED BY <1>7, <1>10, <2>1, <2>2
<1>16. Lists(new, more)
  BY <1>12, <1>13, <1>14, <1>15 DEF Lists
<1>. QED BY <1>16 DEF more

\* The card of every session whose handle is not over lists what it ran.
CardsInv == \A s \in DOMAIN m.tasks :
    pc[s] \in {"created", "llm", "tool"} => Lists(m.tasks[s].steps, ran[s])

\* A step of session s leaves the histories of the others alone.
Histories(s) == \A t \in Sids :
    /\ ~Inside(pc[t]) => ran'[t] = <<>>
    /\ t # s /\ pc'[t] = pc[t] => ran'[t] = ran[t]

LEMMA NothingRan ==
    ASSUME TurnInv, NEW s \in Sids
    PROVE  ~Inside(pc[s]) => ran[s] = <<>>
BY DEF TurnInv, Talks, Says

LEMMA LocalsKeepHistories ==
    ASSUME TurnInv, NEW s \in Sids, NEW msgs, NEW left, NEW done, Locals(s, msgs, left, done)
    PROVE  Histories(s)
<1>1. ASSUME NEW t \in Sids
      PROVE  /\ ~Inside(pc[t]) => ran'[t] = <<>>
             /\ t # s /\ pc'[t] = pc[t] => ran'[t] = ran[t]
  <2>1. ~Inside(pc[t]) => ran'[t] = <<>>
    BY LocalsAre
  <2>2. ASSUME t # s, pc'[t] = pc[t] PROVE ran'[t] = ran[t]
    <3>1. CASE Inside(pc[t])
      BY <2>2, <3>1, LocalsAre
    <3>2. CASE ~Inside(pc[t])
      BY <2>1, <3>2, NothingRan
    <3>. QED BY <3>1, <3>2
  <2>. QED BY <2>1, <2>2
<1>. QED BY <1>1 DEF Histories

\* The card of a session, as the lemmas need it.
LEMMA StepsAre ==
    ASSUME TurnInv, NEW s \in DOMAIN m.tasks
    PROVE  /\ s \in Sids /\ m.tasks[s].steps \in Seq(StepType) /\ pc[s] \notin {"new", "waiting"}
           /\ pc[s] = "llm" => Shows(m.tasks[s].steps, Asking(Model))
           /\ pc[s] = "tool" => Shows(m.tasks[s].steps, Using(Head(calls[s])))
<1>1. s \in Sids /\ m.tasks[s] \in Card
  BY DEF TurnInv, LoopInv, TypeOK, MonitorType
<1>2. CardOf(s) /\ Standing(s)
  BY <1>1 DEF TurnInv, LoopInv
<1>3. pc[s] \in {"llm", "tool"} => Shows(m.tasks[s].steps, Doing(s))
  BY <1>2 DEF CardOf, Standing
<1>. QED BY <1>1, <1>2, <1>3, DoingIs DEF CardOf, Card

\* A step of session s: it remains to see what it makes of its own card.
LEMMA StepLists ==
    ASSUME TurnInv, CardsInv, NEW s \in Sids, Elsewhere(s), Bystanders(s), Histories(s),
           DOMAIN m'.tasks \subseteq Sids,
           s \in DOMAIN m.tasks /\ pc'[s] # "over" => Lists(m'.tasks[s].steps, ran'[s])
    PROVE  CardsInv'
<1>1. ASSUME NEW t \in DOMAIN m'.tasks, pc'[t] \in {"created", "llm", "tool"}
      PROVE  Lists(m'.tasks[t].steps, ran'[t])
  <2>1. t \in Sids
    OBVIOUS
  <2>2. CASE t \notin DOMAIN m.tasks
    <3>1. pc[t] \in {"new", "waiting"} /\ EndedCalls(m'.tasks[t].steps) = {}
      BY <2>2 DEF Bystanders
    <3>2. ran'[t] = <<>>
      BY <2>1, <3>1, OverIsOutside DEF Histories
    <3>. QED BY <3>1, <3>2, ListsNone
  <2>3. CASE t = s /\ t \in DOMAIN m.tasks
    BY <1>1, <2>3
  <2>4. CASE t # s /\ t \in DOMAIN m.tasks
    <3>1. m'.tasks[t] = m.tasks[t]
      BY <2>4 DEF Bystanders
    <3>2. pc'[t] = pc[t]
      BY <2>1, <2>4, StepsAre DEF Elsewhere
    <3>3. ran'[t] = ran[t]
      BY <2>1, <2>4, <3>2 DEF Histories
    <3>4. Lists(m.tasks[t].steps, ran[t])
      BY <1>1, <2>4, <3>2 DEF CardsInv
    <3>. QED BY <3>1, <3>3, <3>4
  <2>. QED BY <2>2, <2>3, <2>4
<1>. QED BY <1>1 DEF CardsInv

LEMMA CardsOfSessions ==
    ASSUME LoopInv'
    PROVE  DOMAIN m'.tasks \subseteq Sids
BY DEF LoopInv, TypeOK, MonitorType

LEMMA TurnBeginLists ==
    ASSUME TurnInv, CardsInv, NEW s \in Sids, TurnBegin(s)
    PROVE  CardsInv'
<1>1. Begin(s) /\ Locals(s, messages[s], todo[s], ran[s])
  BY DEF TurnBegin, SameLocals
<1>2. LoopInv' /\ Bystanders(s) /\ Starts(s)
  BY <1>1, BeginKeeps DEF TurnInv
<1>3. pc[s] = "created" /\ Elsewhere(s)
  BY <1>1, BeginMoves DEF TurnInv
<1>4. Histories(s)
  BY <1>1, LocalsKeepHistories
<1>5. ASSUME s \in DOMAIN m.tasks, pc'[s] # "over" PROVE Lists(m'.tasks[s].steps, ran'[s])
  <2>1. Opens(m'.tasks[s].steps, m.tasks[s].steps)
    BY <1>2, <1>5 DEF Starts
  <2>2. Lists(m.tasks[s].steps, ran[s])
    BY <1>3, <1>5 DEF CardsInv
  <2>3. ran'[s] = ran[s]
    BY <1>3, <1>4, OverIsOutside, NothingRan DEF Histories
  <2>. QED BY <1>5, <2>1, <2>2, <2>3, StepsAre, ListsOpened
<1>. QED BY <1>2, <1>3, <1>4, <1>5, CardsOfSessions, StepLists

LEMMA TurnEndLists ==
    ASSUME TurnInv, CardsInv, NEW s \in Sids, TurnFails(s) \/ TurnCancelled(s)
    PROVE  CardsInv'
<1>1. (LlmFails(s) \/ Cancelled(s)) /\ Locals(s, messages[s], todo[s], ran[s])
  BY DEF TurnFails, TurnCancelled, SameLocals
<1>2. LoopInv' /\ Bystanders(s)
  BY <1>1, LlmFailsKeeps, CancelledKeeps DEF TurnInv
<1>3. pc'[s] = "over" /\ Elsewhere(s)
  BY <1>1, LlmFailsMoves, CancelledMoves DEF TurnInv
<1>4. Histories(s)
  BY <1>1, LocalsKeepHistories
<1>. QED BY <1>2, <1>3, <1>4, CardsOfSessions, StepLists

LEMMA TurnAnswerLists ==
    ASSUME TurnInv, CardsInv, NEW s \in Sids, TurnAnswer(s)
    PROVE  CardsInv'
<1>1. \E msg \in MessageType : \E plan \in Seq(STRING) :
         Answered(s, plan) /\ Locals(s, Append(messages[s], msg), msg.calls, ran[s])
  BY AnswerIs
<1>2. PICK msg \in MessageType : \E plan \in Seq(STRING) :
         Answered(s, plan) /\ Locals(s, Append(messages[s], msg), msg.calls, ran[s])
  BY <1>1
<1>3. PICK plan \in Seq(STRING) :
         Answered(s, plan) /\ Locals(s, Append(messages[s], msg), msg.calls, ran[s])
  BY <1>2
<1>4. LoopInv' /\ Bystanders(s) /\ Proceeds(s, TRUE)
  BY <1>3, AnsweredKeeps DEF TurnInv
<1>5. pc[s] = "llm" /\ Elsewhere(s) /\ (pc'[s] # "over" => pc'[s] = "tool")
  BY <1>3, AnsweredMoves DEF TurnInv
<1>6. Histories(s)
  BY <1>3, LocalsKeepHistories
<1>7. ASSUME s \in DOMAIN m.tasks, pc'[s] # "over" PROVE Lists(m'.tasks[s].steps, ran'[s])
  <2>1. PICK closed : closed = Closed(m.tasks[s].steps, TRUE)
    OBVIOUS
  <2>2. Opens(m'.tasks[s].steps, closed)
    BY <1>4, <1>7, <2>1 DEF Proceeds
  <2>3. Lists(m.tasks[s].steps, ran[s])
    BY <1>5, <1>7 DEF CardsInv
  <2>4. m.tasks[s].steps \in Seq(StepType) /\ Shows(m.tasks[s].steps, Asking(Model))
    BY <1>5, <1>7, StepsAre
  <2>5. closed \in Seq(StepType)
    BY <2>1, <2>4, ClosedAt DEF Asking
  <2>6. Lists(closed, ran[s])
    BY <2>1, <2>3, <2>4, ListsAsked
  <2>7. ran'[s] = ran[s]
    <3>1. Inside(pc[s]) /\ Inside(pc'[s])
      BY <1>5, <1>7 DEF Inside
    <3>. QED BY <1>3, <3>1, LocalsAre
  <2>. QED BY <2>2, <2>5, <2>6, <2>7, ListsOpened
<1>. QED BY <1>4, <1>5, <1>6, <1>7, CardsOfSessions, StepLists

LEMMA TurnToolLists ==
    ASSUME TurnInv, CardsInv, NEW s \in Sids, TurnTool(s)
    PROVE  CardsInv'
<1>1. PICK r : \E run \in RunType :
              /\ Outcome(disk, Head(todo[s]).name, ParseArgs(Head(todo[s]).raw), r)
              /\ disk' = r.disk /\ format' = format
              /\ Invoked(s, ~r.raised)
              /\ run.name = Head(todo[s]).name /\ run.args = ParseArgs(Head(todo[s]).raw)
              /\ run.raised = r.raised
              /\ Locals(s, messages[s] \o Result(Head(todo[s]), r), Tail(todo[s]),
                        Append(ran[s], run))
  BY ToolOutcome
<1>2. PICK run \in RunType :
              /\ Invoked(s, ~r.raised)
              /\ run.name = Head(todo[s]).name
              /\ run.raised = r.raised
              /\ Locals(s, messages[s] \o Result(Head(todo[s]), r), Tail(todo[s]),
                        Append(ran[s], run))
  BY <1>1
<1>3. PICK ok : ok = ~r.raised
  OBVIOUS
<1>4. Invoked(s, ok) /\ ok = ~run.raised
  BY <1>2, <1>3
<1>5. LoopInv' /\ Bystanders(s) /\ Proceeds(s, ok)
  BY <1>4, InvokedKeeps DEF TurnInv
<1>6. pc[s] = "tool" /\ Elsewhere(s) /\ (pc'[s] # "over" => pc'[s] \in {"llm", "tool"})
  BY <1>4, InvokedMoves DEF TurnInv
<1>7. Histories(s)
  BY <1>2, LocalsKeepHistories
<1>8. ran[s] \in Seq(RunType)
  BY <1>6, CallIs DEF Conversation
<1>9. PICK name : name = Head(calls[s])
  OBVIOUS
<1>10. run.name = name
  <2>1. /\ todo[s] # <<>> /\ calls[s] = [i \in DOMAIN todo[s] |-> todo[s][i].name]
        /\ todo[s] \in Seq(CallType)
    BY <1>6, CallIs
  <2>2. 1 \in DOMAIN todo[s] /\ Head(todo[s]) = todo[s][1]
    BY <2>1
  <2>3. calls[s] \in Seq(STRING)
    BY <1>6, LoopTypes DEF TurnInv
  <2>4. Head(calls[s]) = calls[s][1]
    BY <2>3
  <2>. QED BY <1>2, <1>9, <2>1, <2>2, <2>4
<1>11. ASSUME s \in DOMAIN m.tasks, pc'[s] # "over" PROVE Lists(m'.tasks[s].steps, ran'[s])
  <2>1. PICK closed : closed = Closed(m.tasks[s].steps, ok)
    OBVIOUS
  <2>2. Opens(m'.tasks[s].steps, closed)
    BY <1>5, <1>11, <2>1 DEF Proceeds
  <2>3. Lists(m.tasks[s].steps, ran[s])
    BY <1>6, <1>11 DEF CardsInv
  <2>4. m.tasks[s].steps \in Seq(StepType) /\ Shows(m.tasks[s].steps, Using(name))
    BY <1>6, <1>9, <1>11, StepsAre
  <2>5. closed \in Seq(StepType)
    BY <2>1, <2>4, ClosedAt DEF Using
  <2>6. Lists(closed, Append(ran[s], run))
    BY <1>4, <1>8, <1>10, <2>1, <2>3, <2>4, ListsUsed
  <2>7. ran'[s] = Append(ran[s], run)
    <3>1. Inside(pc[s]) /\ Inside(pc'[s])
      BY <1>6, <1>11 DEF Inside
    <3>2. PICK done : done = Append(ran[s], run)
      OBVIOUS
    <3>3. \E msgs, left : Locals(s, msgs, left, done)
      BY <1>2, <3>2
    <3>4. PICK msgs, left : Locals(s, msgs, left, done)
      BY <3>3
    <3>5. ran'[s] = done
      BY <3>1, <3>4, LocalsAre
    <3>. QED BY <3>2, <3>5
  <2>. QED BY <2>2, <2>5, <2>6, <2>7, ListsOpened
<1>. QED BY <1>5, <1>6, <1>7, <1>11, CardsOfSessions, StepLists

LEMMA OthersList ==
    ASSUME TurnInv, CardsInv,
           \/ TurnReset
           \/ /\ Subscribe \/ Stop \/ \E s \in Sids : Submit(s)
              /\ UNCHANGED <<format, messages, todo, ran, disk>>
           \/ UNCHANGED turnVars
    PROVE  CardsInv'
<1>1. ran' = ran
  BY DEF TurnReset, turnVars
<1>2. CASE \E s \in Sids : Submit(s)
  <2>1. PICK s \in Sids : Submit(s)
    BY <1>2
  <2>2. LoopInv' /\ Bystanders(s)
    BY <2>1, SubmitKeeps DEF TurnInv
  <2>3. pc[s] = "new" /\ Elsewhere(s)
    BY <2>1, SubmitMoves DEF TurnInv
  <2>4. Histories(s)
    BY <1>1, NothingRan DEF Histories
  <2>5. s \notin DOMAIN m.tasks
    BY <2>3, StepsAre
  <2>. QED BY <2>2, <2>3, <2>4, <2>5, CardsOfSessions, StepLists
<1>3. CASE Subscribe \/ Stop \/ UNCHANGED vars
  <2>1. pc' = pc /\ m' = m
    BY <1>3 DEF Subscribe, Stop, vars
  <2>. QED BY <1>1, <2>1 DEF CardsInv
<1>4. CASE ResetMetrics
  <2>1. DOMAIN m'.tasks = {}
    BY <1>4, ResetKeeps DEF TurnInv
  <2>. QED BY <2>1 DEF CardsInv
<1>. QED BY <1>2, <1>3, <1>4 DEF TurnReset, turnVars

LEMMA InitCardsInv == TurnInit => CardsInv
<1>1. SUFFICES ASSUME TurnInit PROVE CardsInv
  OBVIOUS
<1>2. DOMAIN m.tasks = {}
  BY <1>1, FreshInOrder DEF TurnInit, Init
<1>. QED BY <1>2 DEF CardsInv

\* The card of a session in flight is the transcript of its calls: nothing of
\* another session, of a reset or of an eviction ever gets between its steps,
\* and none is marked with the fate of another.
THEOREM CardsAreTranscripts == TurnSpec => []CardIsTranscript
<1>1. CardsInv => CardIsTranscript
  BY DEF CardsInv, CardIsTranscript, Lists
<1>2. TurnInv /\ CardsInv /\ [TurnNext]_turnVars => CardsInv'
  BY TurnBeginLists, TurnEndLists, TurnAnswerLists, TurnToolLists, OthersList
     DEF TurnNext, TurnHandle
<1>. QED BY <1>1, <1>2, InitCardsInv, TurnInvariant, PTL DEF TurnSpec
=============================================================================
