---------------------------- MODULE AnswerProofs ----------------------------
(***************************************************************************)
(* A request's bill and its answer, for every request, configuration and   *)
(* answer there may be.                                                    *)
(***************************************************************************)
EXTENDS Answer, FiniteSetTheorems, SequenceTheorems, TLAPS

-----------------------------------------------------------------------------
(* The folds. *)

Weight(m) == PerMessage + Len(m.text) + m.extra

Concat(t, p)      == t \o p
AddTokens(n, m)   == n + PerMessage + Len(m.text) + m.extra
KeepSystem(s, m)  == IF IsSystem(m) THEN Append(s, m) ELSE s
KeepOther(s, m)   == IF IsSystem(m) THEN s ELSE Append(s, m)
AddText(t, m)     == t \o m.text
RenameOne(m, p)   == IF p[1] \in DOMAIN m THEN With(Without(m, {p[1]}), p[2], m[p[1]]) ELSE m
AddPiece(c, p)    == With(c, p.index, (IF p.index \in DOMAIN c THEN c[p.index] ELSE <<>>) \o p.text)
AddThoughts(r, d) == r \o d.reasoning
AddContent(t, d)  == t \o d.content
AddCalls(c, d)    == Collect(c, d.calls)

Joined   == INSTANCE FoldFacts WITH Op <- Concat
Counted  == INSTANCE FoldFacts WITH Op <- AddTokens
OfSystem == INSTANCE FoldFacts WITH Op <- KeepSystem
OfOthers == INSTANCE FoldFacts WITH Op <- KeepOther
TheirText == INSTANCE FoldFacts WITH Op <- AddText
Renaming == INSTANCE FoldFacts WITH Op <- RenameOne
Pieced   == INSTANCE FoldFacts WITH Op <- AddPiece
Thought  == INSTANCE FoldFacts WITH Op <- AddThoughts
Spoke    == INSTANCE FoldFacts WITH Op <- AddContent
Called   == INSTANCE FoldFacts WITH Op <- AddCalls

LEMMA TextsFolds == \A s : Texts(s) = Joined!Fold(<<>>, s)
BY DEF Texts, Joined!Fold, Concat, FoldLeft, Joined!FoldLeft,
       MapThenFoldSet, Joined!MapThenFoldSet, Max, Joined!Max
LEMMA TokensFolds == \A s : Tokens(s) = Counted!Fold(0, s)
BY DEF Tokens, Counted!Fold, AddTokens, FoldLeft, Counted!FoldLeft,
       MapThenFoldSet, Counted!MapThenFoldSet, Max, Counted!Max
LEMMA SystemsFolds == \A s : Systems(s) = OfSystem!Fold(<<>>, s)
BY DEF Systems, OfSystem!Fold, KeepSystem, FoldLeft, OfSystem!FoldLeft,
       MapThenFoldSet, OfSystem!MapThenFoldSet, Max, OfSystem!Max
LEMMA OthersFolds == \A s : Others(s) = OfOthers!Fold(<<>>, s)
BY DEF Others, OfOthers!Fold, KeepOther, FoldLeft, OfOthers!FoldLeft,
       MapThenFoldSet, OfOthers!MapThenFoldSet, Max, OfOthers!Max
LEMMA RenamedFolds == \A m, s : Renamed(m, s) = Renaming!Fold(m, s)
BY DEF Renamed, Renaming!Fold, RenameOne, FoldLeft, Renaming!FoldLeft,
       MapThenFoldSet, Renaming!MapThenFoldSet, Max, Renaming!Max
LEMMA CollectFolds == \A c, s : Collect(c, s) = Pieced!Fold(c, s)
BY DEF Collect, Pieced!Fold, AddPiece, FoldLeft, Pieced!FoldLeft,
       MapThenFoldSet, Pieced!MapThenFoldSet, Max, Pieced!Max


-----------------------------------------------------------------------------
(* Tokens: those of a body are those of its system turns and of the others. *)

Message == [role : Strings, text : Words, extra : Nat]

LEMMA WeightType == \A x \in Message : Weight(x) \in Nat
BY DEF Weight, Message, PerMessage, Words

LEMMA TokensType ==
  ASSUME NEW s \in Seq(Message)
  PROVE  Tokens(s) \in Nat
<1>1. \A n \in Nat, x \in Message : AddTokens(n, x) \in Nat
  BY DEF AddTokens, Message, PerMessage, Words
<1>2. Counted!Fold(0, s) \in Nat
  BY <1>1, Counted!FoldKeeps
<1> QED
  BY <1>2, TokensFolds

LEMMA TokensMore ==
  ASSUME NEW s \in Seq(Message), NEW x \in Message
  PROVE  Tokens(Append(s, x)) = Tokens(s) + Weight(x)
<1>1. Counted!Fold(0, Append(s, x)) = AddTokens(Counted!Fold(0, s), x)
  BY Counted!FoldOneMore
<1>2. Tokens(s) \in Nat
  BY TokensType
<1> QED
  BY <1>1, <1>2, TokensFolds DEF AddTokens, Weight, Message, PerMessage, Words

LEMMA SystemsMore ==
  ASSUME NEW s \in Seq(Message), NEW x \in Message
  PROVE  Systems(Append(s, x)) = IF IsSystem(x) THEN Append(Systems(s), x) ELSE Systems(s)
<1>1. OfSystem!Fold(<<>>, Append(s, x)) = KeepSystem(OfSystem!Fold(<<>>, s), x)
  BY OfSystem!FoldOneMore
<1> QED
  BY <1>1, SystemsFolds DEF KeepSystem

LEMMA OthersMore ==
  ASSUME NEW s \in Seq(Message), NEW x \in Message
  PROVE  Others(Append(s, x)) = IF IsSystem(x) THEN Others(s) ELSE Append(Others(s), x)
<1>1. OfOthers!Fold(<<>>, Append(s, x)) = KeepOther(OfOthers!Fold(<<>>, s), x)
  BY OfOthers!FoldOneMore
<1> QED
  BY <1>1, OthersFolds DEF KeepOther

LEMMA TurnsType ==
  ASSUME NEW s \in Seq(Message)
  PROVE  Systems(s) \in Seq(Message) /\ Others(s) \in Seq(Message)
<1>1. \A t \in Seq(Message), x \in Message : /\ KeepSystem(t, x) \in Seq(Message)
                                             /\ KeepOther(t, x) \in Seq(Message)
  BY DEF KeepSystem, KeepOther
<1>2. <<>> \in Seq(Message)
  OBVIOUS
<1>3. OfSystem!Fold(<<>>, s) \in Seq(Message)
  BY <1>1, <1>2, OfSystem!FoldKeeps
<1>4. OfOthers!Fold(<<>>, s) \in Seq(Message)
  BY <1>1, <1>2, OfOthers!FoldKeeps
<1> QED
  BY <1>3, <1>4, SystemsFolds, OthersFolds

LEMMA TokensOfNone == Tokens(<<>>) = 0
BY TokensFolds, Counted!FoldNothing

LEMMA TokensSplit ==
  ASSUME NEW s \in Seq(Message)
  PROVE  Tokens(s) = Tokens(Systems(s)) + Tokens(Others(s))
<1>1. PICK N : N = {n \in Nat : \A q \in Seq(Message) : Len(q) = n =>
                                  Tokens(q) = Tokens(Systems(q)) + Tokens(Others(q))}
  OBVIOUS
<1>2. 0 \in N
  <2>1. \A q \in Seq(Message) : Len(q) = 0 => q = <<>>
    OBVIOUS
  <2>2. Systems(<<>>) = <<>> /\ Others(<<>>) = <<>>
    BY SystemsFolds, OthersFolds, OfSystem!FoldNothing, OfOthers!FoldNothing
  <2> QED
    BY <1>1, <2>1, <2>2, TokensOfNone
<1>3. ASSUME NEW n \in N
      PROVE  n + 1 \in N
  <2>0. n \in Nat
    BY <1>1
  <2>1. ASSUME NEW q \in Seq(Message), Len(q) = n + 1
        PROVE  Tokens(q) = Tokens(Systems(q)) + Tokens(Others(q))
    <3>0. PICK p, x : p = SubSeq(q, 1, n) /\ x = q[n + 1]
      OBVIOUS
    <3>1. p \in Seq(Message) /\ Len(p) = n /\ x \in Message /\ q = Append(p, x)
      BY <2>0, <2>1, <3>0, Joined!LastOfSeq
    <3>2. Tokens(p) = Tokens(Systems(p)) + Tokens(Others(p))
      BY <1>1, <3>1
    <3>3. Systems(p) \in Seq(Message) /\ Others(p) \in Seq(Message)
      BY <3>1, TurnsType
    <3>4. /\ Tokens(p) \in Nat /\ Tokens(Systems(p)) \in Nat /\ Tokens(Others(p)) \in Nat
          /\ Weight(x) \in Nat
      BY <3>1, <3>3, TokensType, WeightType
    <3>5. Tokens(q) = Tokens(p) + Weight(x)
      BY <3>1, TokensMore
    <3>6. CASE IsSystem(x)
      <4>1. Systems(q) = Append(Systems(p), x) /\ Others(q) = Others(p)
        BY <3>1, <3>6, SystemsMore, OthersMore
      <4>2. Tokens(Systems(q)) = Tokens(Systems(p)) + Weight(x)
        BY <3>1, <3>3, <4>1, TokensMore
      <4> QED
        BY <3>2, <3>4, <3>5, <4>1, <4>2
    <3>7. CASE ~IsSystem(x)
      <4>1. Systems(q) = Systems(p) /\ Others(q) = Append(Others(p), x)
        BY <3>1, <3>7, SystemsMore, OthersMore
      <4>2. Tokens(Others(q)) = Tokens(Others(p)) + Weight(x)
        BY <3>1, <3>3, <4>1, TokensMore
      <4> QED
        BY <3>2, <3>4, <3>5, <4>1, <4>2
    <3> QED
      BY <3>6, <3>7
  <2> QED
    BY <1>1, <2>0, <2>1
<1>4. Len(s) \in N
  <2>1. N = Nat
    BY <1>1, <1>2, <1>3, Joined!AllOfNat
  <2> QED
    BY <2>1
<1> QED
  BY <1>1, <1>4

(* count_prompt: not counting the body that goes out again changes nothing, *)
(* as long as the choice among the tools is the one that came in.           *)
LEMMA BilledWithoutCounting ==
  ASSUME NEW a, a.messages \in Seq(Message),
         Weighed(a.params),
         NEW b, b.messages \in Seq(Message),
         "tools" \in DOMAIN b.params => Choice(b) = Choice(a)
  PROVE  CountPrompt(a, b).billed = CountChat(b)
<1>1. CASE ~SameButSystem(a, b)
  BY <1>1 DEF CountPrompt
<1>2. CASE SameButSystem(a, b)
  <2>1. ToolTokens(a.params) = ToolTokens(b.params) /\ ToolTokens(a.params) \in Nat
    BY <1>2 DEF SameButSystem, ToolTokens, Choice, Weighed
  <2>2. /\ Tokens(a.messages) = Tokens(Systems(a.messages)) + Tokens(Others(a.messages))
        /\ Tokens(b.messages) = Tokens(Systems(b.messages)) + Tokens(Others(b.messages))
    BY TokensSplit
  <2>3. Others(a.messages) = Others(b.messages)
    BY <1>2 DEF SameButSystem
  <2>4. /\ Systems(a.messages) \in Seq(Message) /\ Others(a.messages) \in Seq(Message)
        /\ Systems(b.messages) \in Seq(Message)
    BY TurnsType
  <2>5. /\ Tokens(Systems(a.messages)) \in Nat /\ Tokens(Others(a.messages)) \in Nat
        /\ Tokens(Systems(b.messages)) \in Nat
    BY <2>4, TokensType
  <2>6. CountChat(a) + (CountSystem(b) - CountSystem(a)) = CountChat(b)
    BY <2>1, <2>2, <2>3, <2>5 DEF CountChat, CountSystem, Primer
  <2>7. CountChat(b) \in Nat
    BY <2>1, <2>2, <2>3, <2>5 DEF CountChat, Primer
  <2> QED
    BY <1>2, <2>6, <2>7 DEF CountPrompt, Most
<1> QED
  BY <1>1, <1>2

-----------------------------------------------------------------------------
(* The body that goes out is one. *)

LEMMA WordsConcat == \A a, b \in Words : a \o b \in Words
BY DEF Words

LEMMA OneIsSeq ==
  ASSUME NEW S, NEW x \in S
  PROVE  <<x>> \in Seq(S)
OBVIOUS

LEMMA MoreIsSeq ==
  ASSUME NEW S, NEW s \in Seq(S), NEW r \in Seq(S)
  PROVE  s \o r \in Seq(S)
OBVIOUS

LEMMA RewriteType ==
  ASSUME NEW rules, WordMap(rules), NEW text \in Words
  PROVE  Rewrite(rules, text) \in Words /\ Len(Rewrite(rules, text)) = Len(text)
BY DEF Rewrite, WordMap, Words

LEMMA TheirsType ==
  ASSUME NEW s \in Seq(Message)
  PROVE  FoldLeft(LAMBDA t, m : t \o m.text, <<>>, s) \in Words
<1>1. \A t \in Words, x \in Message : AddText(t, x) \in Words
  BY DEF AddText, Message, Words
<1>2. <<>> \in Words
  BY DEF Words
<1>3. TheirText!Fold(<<>>, s) \in Words
  BY <1>1, <1>2, TheirText!FoldKeeps
<1>4. FoldLeft(LAMBDA t, m : t \o m.text, <<>>, s) = TheirText!Fold(<<>>, s)
  BY DEF TheirText!Fold, AddText, FoldLeft, TheirText!FoldLeft, MapThenFoldSet,
         TheirText!MapThenFoldSet, Max, TheirText!Max
<1> QED
  BY <1>3, <1>4

LEMMA InjectType ==
  ASSUME NEW s \in Seq(Message), NEW p, p.text \in Words
  PROVE  Inject(s, p) \in Seq(Message)
<1>1. PICK theirs \in Words : theirs = FoldLeft(LAMBDA t, m : t \o m.text, <<>>, Systems(s))
  BY TurnsType, TheirsType
<1>2. Others(s) \in Seq(Message)
  BY TurnsType
<1>3. ASSUME NEW text \in Words
      PROVE  <<System(text)>> \in Seq(Message)
  <2>1. System(text) \in Message
    <3>1. "system" \in Strings /\ 0 \in Nat
      BY DEF Strings
    <3> QED
      BY <3>1, Zenon DEF System, Message
  <2> QED
    BY <2>1, OneIsSeq
<1>4. p.text \o theirs \in Words
  BY <1>1, WordsConcat
<1>5. PICK turn \in Seq(Message) :
        turn = IF theirs = <<>> THEN <<>> ELSE <<System(theirs)>>
  <2>1. <<>> \in Seq(Message)
    OBVIOUS
  <2>2. <<System(theirs)>> \in Seq(Message)
    BY <1>1, <1>3
  <2> QED
    BY <2>1, <2>2, Zenon
<1>6. PICK ours \in Seq(Message) : ours = <<System(p.text)>>
  BY <1>3
<1>7. <<System(p.text \o theirs)>> \in Seq(Message)
  BY <1>3, <1>4
<1>8. Inject(s, p) =
        IF p.mode = "none" \/ p.text = <<>> THEN s
        ELSE (CASE p.mode = "replace" -> ours
                [] p.mode = "append"  -> turn \o ours
                [] p.mode = "merge"   -> <<System(p.text \o theirs)>>
                [] OTHER              -> ours \o turn) \o Others(s)
  BY <1>1, <1>5, <1>6 DEF Inject
<1>9. PICK head \in Seq(Message) :
        head = CASE p.mode = "replace" -> ours
                 [] p.mode = "append"  -> turn \o ours
                 [] p.mode = "merge"   -> <<System(p.text \o theirs)>>
                 [] OTHER              -> ours \o turn
  <2>1. turn \o ours \in Seq(Message) /\ ours \o turn \in Seq(Message)
    BY <1>5, <1>6, MoreIsSeq
  <2> QED
    BY <1>6, <1>7, <2>1
<1> QED
  BY <1>2, <1>8, <1>9, MoreIsSeq

ThePrompt == ResolvePrompt(SelectPrompt(route, Effort), cfg.prompt, cfg.library)

LEMMA SelectedIsOne ==
  ASSUME NEW r, r.prompt \in Sources, \A i \in 1 .. Len(r.prompts) : r.prompts[i].prompt \in Sources,
         Len(r.prompts) \in Nat, NEW e
  PROVE  SelectPrompt(r, e) \in Sources
<1>1. PICK I : I = {i \in 1 .. Len(r.prompts) :
                      r.prompts[i].enabled /\ RuleAnswers(r.prompts[i], e)}
  OBVIOUS
<1>2. PICK i : i = IF I # {} THEN Min(I) ELSE 0
  OBVIOUS
<1>3. i # 0 => i \in 1 .. Len(r.prompts)
  <2>1. I \in SUBSET Nat
    BY <1>1
  <2>2. I # {} => Min(I) \in I
    BY <2>1, Joined!MinIsLeast DEF Joined!Min, Min
  <2> QED
    BY <1>1, <1>2, <2>2
<1>4. SelectPrompt(r, e) = IF i = 0 THEN r.prompt ELSE r.prompts[i].prompt
  BY <1>1, <1>2 DEF SelectPrompt, SelectInSeq
<1> QED
  BY <1>3, <1>4

LEMMA PromptType ==
  ASSUME scene \in Scenes
  PROVE  ThePrompt.text \in Words
<1>1. /\ route.prompt \in Sources /\ Len(route.prompts) \in Nat
      /\ \A i \in 1 .. Len(route.prompts) : route.prompts[i].prompt \in Sources
      /\ cfg.prompt \in Sources
      /\ \A id \in DOMAIN cfg.library : cfg.library[id] \in Words
  BY AnswerAssumption DEF IsScene, IsRoute, IsConfig, route, cfg
<1>2. PICK p \in Sources : p = SelectPrompt(route, Effort)
  BY <1>1, SelectedIsOne
<1>3. PICK used \in Sources : used = IF p.mode \in {"", "inherit"} THEN cfg.prompt ELSE p
  BY <1>1, <1>2
<1>4. <<>> \in Words
  BY DEF Words
<1>5. ThePrompt = IF used.mode \in {"", "none"} THEN [mode |-> "none", text |-> <<>>]
                  ELSE [mode |-> used.mode,
                        text |-> IF used.id \in DOMAIN cfg.library THEN cfg.library[used.id]
                                 ELSE used.text]
  BY <1>2, <1>3 DEF ThePrompt, ResolvePrompt
<1>6. used.text \in Words
  BY <1>3 DEF Sources
<1> QED
  BY <1>1, <1>4, <1>5, <1>6

TheBody == Transform(ask.body, route, rt, Effort, ThePrompt)

LEMMA BodyType ==
  ASSUME scene \in Scenes
  PROVE  TheBody.messages \in Seq(Message)
<1>1. ask.body.messages \in Seq(Message)
  BY AnswerAssumption DEF IsScene, IsAsk, ask, Message
<1>2. PICK ms \in Seq(Message) : ms = Inject(ask.body.messages, ThePrompt)
  BY <1>1, PromptType, InjectType
<1>3. WordMap(rt.replace)
  <2>1. /\ route.request.replace # <<>> => WordMap(route.request.replace[1])
        /\ cfg.request.replace # <<>> => WordMap(cfg.request.replace[1])
    BY AnswerAssumption DEF IsScene, IsRoute, IsConfig, IsTransform, route, cfg
  <2>2. rt.replace = IF route.request.replace # <<>> THEN route.request.replace[1]
                     ELSE IF cfg.request.replace # <<>> THEN cfg.request.replace[1] ELSE NoMap
    BY DEF rt, Merged, NoTransform
  <2>3. WordMap(NoMap)
    BY DEF WordMap, NoMap
  <2> QED
    BY <2>1, <2>2, <2>3
<1>4. \A m \in Message : RewriteMessage(rt.replace, m) \in Message
  <2>1. SUFFICES ASSUME NEW m \in Message PROVE RewriteMessage(rt.replace, m) \in Message
    OBVIOUS
  <2>2. Rewrite(rt.replace, m.text) \in Words
    BY <1>3, RewriteType DEF Message
  <2> QED
    BY <2>2 DEF RewriteMessage, Message
<1>5. TheBody.messages = [i \in DOMAIN ms |-> RewriteMessage(rt.replace, ms[i])]
  BY <1>2 DEF TheBody, Transform
<1> QED
  BY <1>2, <1>4, <1>5

-----------------------------------------------------------------------------
(* What is said of a parameter. *)

LEMMA WithDomain ==
  ASSUME NEW map, NEW k, NEW v
  PROVE  DOMAIN With(map, k, v) = DOMAIN map \union {k}
BY DEF With

LEMMA WithoutDomain ==
  ASSUME NEW map, NEW keys
  PROVE  DOMAIN Without(map, keys) = DOMAIN map \ keys
BY DEF Without

\* A key that no pair renames stays.
LEMMA RenamedKeeps ==
  ASSUME NEW map, NEW pairs \in Seq(Strings \X Strings), NEW name \in DOMAIN map,
         \A i \in DOMAIN pairs : pairs[i][1] # name
  PROVE  name \in DOMAIN Renamed(map, pairs)
<1> DEFINE Spares(s) == \A i \in DOMAIN s : s[i][1] # name
<1>1. PICK N : N = {n \in Nat : \A s \in Seq(Strings \X Strings) :
                      Len(s) = n /\ Spares(s) => name \in DOMAIN Renamed(map, s)}
  OBVIOUS
<1>2. 0 \in N
  <2>1. \A s \in Seq(Strings \X Strings) : Len(s) = 0 => s = <<>>
    OBVIOUS
  <2>2. Renamed(map, <<>>) = map
    BY RenamedFolds, Renaming!FoldNothing
  <2> QED
    BY <1>1, <2>1, <2>2
<1>3. ASSUME NEW n \in N
      PROVE  n + 1 \in N
  <2>0. n \in Nat
    BY <1>1
  <2>1. ASSUME NEW s \in Seq(Strings \X Strings), Len(s) = n + 1, Spares(s)
        PROVE  name \in DOMAIN Renamed(map, s)
    <3>0. PICK q, x : q = SubSeq(s, 1, n) /\ x = s[n + 1]
      OBVIOUS
    <3>1. /\ q \in Seq(Strings \X Strings) /\ Len(q) = n
          /\ x \in Strings \X Strings /\ s = Append(q, x)
      BY <2>0, <2>1, <3>0, Joined!LastOfSeq
    <3>2. Spares(q) /\ x[1] # name
      <4>1. \A i \in DOMAIN q : i \in DOMAIN s /\ q[i] = s[i]
        BY <2>0, <2>1, <3>0, <3>1
      <4>2. n + 1 \in DOMAIN s
        BY <2>0, <2>1
      <4> QED
        BY <2>1, <3>0, <4>1, <4>2
    <3>3. name \in DOMAIN Renamed(map, q)
      BY <1>1, <3>1, <3>2
    <3>4. Renaming!Fold(map, Append(q, x)) = RenameOne(Renaming!Fold(map, q), x)
      BY <3>1, Renaming!FoldOneMore
    <3>5. Renamed(map, s) = RenameOne(Renamed(map, q), x)
      BY <3>1, <3>4, RenamedFolds
    <3>6. PICK m : m = Renamed(map, q)
      OBVIOUS
    <3>7. DOMAIN With(Without(m, {x[1]}), x[2], m[x[1]]) = (DOMAIN m \ {x[1]}) \union {x[2]}
      BY DEF With, Without
    <3> QED
      BY <3>2, <3>3, <3>5, <3>6, <3>7 DEF RenameOne
  <2> QED
    BY <1>1, <2>0, <2>1
<1>4. Len(pairs) \in N
  <2>1. N = Nat
    BY <1>1, <1>2, <1>3, Joined!AllOfNat
  <2> QED
    BY <2>1
<1> QED
  BY <1>1, <1>4

LEMMA StopsKeep ==
  ASSUME NEW map, NEW ours
  PROVE  DOMAIN map \subseteq DOMAIN Stops(map, ours)
<1>1. CASE ours = <<>>
  BY <1>1 DEF Stops
<1>2. CASE ours # <<>>
  <2>1. \E v : Stops(map, ours) = With(map, "stop", v)
    BY <1>2 DEF Stops
  <2> QED
    BY <2>1 DEF With
<1> QED
  BY <1>1, <1>2

LEMMA ClampedKeeps ==
  ASSUME NEW map, NEW most
  PROVE  DOMAIN map \subseteq DOMAIN Clamped(map, most)
<1>1. CASE most = 0
  BY <1>1 DEF Clamped
<1>2. CASE most # 0
  <2>1. \E k, v : Clamped(map, most) = With(map, k, v)
    BY <1>2 DEF Clamped
  <2> QED
    BY <2>1 DEF With
<1> QED
  BY <1>1, <1>2

LEMMA DeepSeekKeeps ==
  ASSUME NEW map, NEW e, NEW name \in DOMAIN map \intersect DeepSeekKeys
  PROVE  name \in DOMAIN ShapeForDeepSeek(map, e)
<1>1. PICK renamed :
        renamed = IF "max_completion_tokens" \in DOMAIN map /\ "max_tokens" \notin DOMAIN map
                  THEN With(map, "max_tokens", map["max_completion_tokens"]) ELSE map
  OBVIOUS
<1>2. name \in DOMAIN renamed
  <2>1. DOMAIN With(map, "max_tokens", map["max_completion_tokens"]) = DOMAIN map \union {"max_tokens"}
    BY WithDomain
  <2> QED
    BY <1>1, <2>1
<1>3. PICK taken : taken = Without(renamed, DOMAIN renamed \ DeepSeekKeys)
  OBVIOUS
<1>4. name \in DOMAIN taken
  <2>1. DOMAIN taken = DOMAIN renamed \ (DOMAIN renamed \ DeepSeekKeys)
    BY <1>3, WithoutDomain
  <2> QED
    BY <1>2, <2>1
<1>5. DOMAIN With(taken, "thinking", ThinkingFor(e)) = DOMAIN taken \union {"thinking"}
  BY WithDomain
<1>6. ShapeForDeepSeek(map, e) =
        IF e = "unspecified" THEN taken ELSE With(taken, "thinking", ThinkingFor(e))
  BY <1>1, <1>3 DEF ShapeForDeepSeek
<1> QED
  BY <1>4, <1>5, <1>6

LEMMA ParamsKeep ==
  ASSUME NEW params, NEW r, NEW t, NEW e, t.rename \in Seq(Strings \X Strings),
         NEW name \in DOMAIN params,
         name \notin RoutingKeys \union ThinkingKeys,
         r.deepseek => name \in DeepSeekKeys,
         name \notin TakenOut(t)
  PROVE  name \in DOMAIN Params(params, r, t, e)
<1>1. PICK asked : asked = Without(params, RoutingKeys \union ThinkingKeys)
  OBVIOUS
<1>2. PICK shaped : shaped = IF r.deepseek THEN ShapeForDeepSeek(asked, e) ELSE asked
  OBVIOUS
<1>3. PICK laid : laid = Laid(r.force, Laid(shaped, r.params))
  OBVIOUS
<1>4. PICK kept : kept = Renamed(Without(laid, t.drop), t.rename)
  OBVIOUS
<1>5. name \in DOMAIN asked
  BY <1>1, WithoutDomain
<1>6. name \in DOMAIN shaped
  BY <1>2, <1>5, DeepSeekKeeps
<1>7. name \in DOMAIN laid
  BY <1>3, <1>6 DEF Laid
<1>8. name \in DOMAIN Without(laid, t.drop)
  BY <1>7, WithoutDomain DEF TakenOut
<1>9. \A i \in DOMAIN t.rename : t.rename[i][1] # name
  BY DEF TakenOut
<1>10. name \in DOMAIN kept
  BY <1>4, <1>8, <1>9, RenamedKeeps
<1>11. Params(params, r, t, e) = Clamped(Stops(kept, t.stop), r.maxOut)
  BY <1>1, <1>2, <1>3, <1>4 DEF Params
<1> QED
  BY <1>10, <1>11, StopsKeep, ClampedKeeps

LEMMA RenameType ==
  ASSUME scene \in Scenes
  PROVE  rt.rename \in Seq(Strings \X Strings)
<1>1. /\ Of(route.request.rename, Seq(Strings \X Strings))
      /\ Of(cfg.request.rename, Seq(Strings \X Strings))
  BY AnswerAssumption DEF IsScene, IsRoute, IsConfig, IsTransform, route, cfg
<1>2. rt.rename = IF route.request.rename # <<>> THEN route.request.rename[1]
                  ELSE IF cfg.request.rename # <<>> THEN cfg.request.rename[1] ELSE <<>>
  BY DEF rt, Merged, NoTransform
<1>3. <<>> \in Seq(Strings \X Strings)
  OBVIOUS
<1> QED
  BY <1>1, <1>2, <1>3 DEF Of

(* What either listing names is none of the keys the relay keeps to itself, *)
(* and for DeepSeek is one that it takes.                                   *)
LEMMA AdvertisedIsTaken ==
  ASSUME NEW name \in Advertised \ Controls
  PROVE  /\ name \notin RoutingKeys \union ThinkingKeys
         /\ route.deepseek => name \in DeepSeekKeys
         /\ name \notin TakenOut(rt)
<1>1. CASE name \in SupportedParameters(route, rt)
  BY <1>1 DEF SupportedParameters, BaseParameters, Controls, DeepSeekTakes, Withheld,
     DeepSeekKeys, RoutingKeys, ThinkingKeys
<1>2. CASE name \in OpenRouterParameters(route, rt) \ (IF route.deepseek THEN Withheld ELSE {})
  BY <1>2 DEF OpenRouterParameters, Controls, Withheld, DeepSeekKeys, RoutingKeys,
     ThinkingKeys
<1> QED
  BY <1>1, <1>2 DEF Advertised

LEMMA ArrivesInTheBody ==
  ASSUME scene \in Scenes, body.params = Params(ask.body.params, route, rt, Effort)
  PROVE  (Advertised \ Controls) \intersect DOMAIN ask.body.params \subseteq DOMAIN body.params
BY AdvertisedIsTaken, ParamsKeep, RenameType

-----------------------------------------------------------------------------
(* Money. *)

Rates == [Fields -> Nat]
Amounts == [prompt : Nat, completion : Nat, cached : Nat, reasoning : Nat]

LEMMA Product == \A a, b \in Nat : a * b \in Nat
OBVIOUS

LEMMA ChargeType ==
  ASSUME NEW rates, {rates.input, rates.cached, rates.output, rates.reasoning} \subseteq Nat,
         NEW shape, {shape.input, shape.cached, shape.output, shape.reasoning} \subseteq Nat
  PROVE  Charge(rates, shape) \in Nat
<1>1. PICK c \in Nat : c = Least(shape.cached, shape.input) /\ shape.input - c \in Nat
  BY DEF Least
<1>2. PICK r \in Nat : r = Least(shape.reasoning, shape.output) /\ shape.output - r \in Nat
  BY DEF Least
<1>3. /\ (shape.input - c) * rates.input \in Nat /\ c * rates.cached \in Nat
      /\ (shape.output - r) * rates.output \in Nat /\ r * rates.reasoning \in Nat
  BY <1>1, <1>2, Product
<1> QED
  BY <1>1, <1>2, <1>3 DEF Charge

\* A fold over no tiers is where it starts.
LEMMA NoTiers ==
  ASSUME NEW rates, NEW shape
  PROVE  ApplyTiers(<<>>, rates, shape)
           = [rates |-> rates, fee |-> 0, names |-> <<>>, stopped |-> FALSE]
<1>1. DOMAIN <<>> = {} /\ SUBSET {} = {{}}
  OBVIOUS
<1> QED
  BY <1>1 DEF ApplyTiers, FoldLeft, MapThenFoldSet

(* What is charged per token at a band, of a list whose every rate is set,  *)
(* is what the card of the band says.                                       *)
Published(list) ==
  /\ list.enabled
  /\ {list.sell, list.max, list.non} \subseteq Rates
  /\ list.request \in Nat
  /\ list.tiers = <<>>
  /\ \A f \in Fields : list.sell[f] > 0

ChargedRates(list, band) == ApplyBand(BandRates(list, band), StandardRates(list))

LEMMA RatesOfBand ==
  ASSUME NEW list, Published(list), NEW band \in {"standard", "max", "non"}
  PROVE  /\ ChargedRates(list, band) \in Rates
         /\ \A f \in Fields : ChargedRates(list, band)[f] > 0
         /\ \A f \in Fields :
              ChargedRates(list, band)[f]
                = LET b == BandRates(list, band)
                  IN  IF b[f] > 0 THEN b[f]
                      ELSE IF f = "reasoning" /\ b.output > 0 THEN b.output
                      ELSE list.sell[f]
<1>1. StandardRates(list) = list.sell
  BY DEF Published, StandardRates, Pick, Rates
<1>2. PICK b \in Rates : b = BandRates(list, band)
  BY DEF Published, BandRates, NoRates, Rates
<1>s. PICK s \in Rates : s = list.sell /\ \A f \in Fields : s[f] \in Nat /\ s[f] > 0
  BY DEF Published, Rates
<1>t. b.output \in Nat
  BY DEF Rates, Fields
<1>3. PICK moved : moved = [s EXCEPT !.reasoning = Pick1(b.output, @)]
  OBVIOUS
<1>u. \A f \in Fields : moved[f] = IF f = "reasoning" /\ b.output > 0 THEN b.output ELSE s[f]
  BY <1>3 DEF Pick1, Rates
<1>4. ChargedRates(list, band) = [f \in Fields |-> IF b[f] > 0 THEN b[f] ELSE moved[f]]
  BY <1>1, <1>2, <1>3, <1>s DEF ChargedRates, ApplyBand, Pick
<1>5. \A f \in Fields : b[f] \in Nat /\ moved[f] \in Nat /\ moved[f] > 0
  BY <1>s, <1>t, <1>u DEF Rates
<1>6. ASSUME NEW f \in Fields
      PROVE  /\ ChargedRates(list, band)[f] \in Nat
             /\ ChargedRates(list, band)[f] > 0
             /\ ChargedRates(list, band)[f]
                  = IF b[f] > 0 THEN b[f]
                    ELSE IF f = "reasoning" /\ b.output > 0 THEN b.output
                    ELSE s[f]
  BY <1>4, <1>5, <1>u
<1> QED
  BY <1>2, <1>s, <1>4, <1>6 DEF Rates

LEMMA CardOfBand ==
  ASSUME NEW list, Published(list), NEW band \in {"standard", "max", "non"}
  PROVE  LET card == Bands(list, NoCard)[band]
         IN  /\ card # NoCard
             /\ \A f \in Fields : card[f] = ChargedRates(list, band)[f]
             /\ card["request"] = FlatUsd(list.request)
<1>1. PICK b \in Rates : b = BandRates(list, band)
  BY DEF Published, BandRates, NoRates, Rates
<1>2. \A f \in Fields : b[f] \in Nat /\ list.sell[f] \in Nat /\ list.sell[f] > 0
  BY <1>1 DEF Rates, Published
<1>3. PICK base : base = BaseCard(list, NoCard)
  OBVIOUS
<1>4. /\ base = [f \in CardFields |-> CASE f \in Fields  -> list.sell[f]
                                        [] f = "request" -> FlatUsd(list.request)
                                        [] f = "write"   -> Unset]
  BY <1>2, <1>3 DEF BaseCard, Over, NoCard, Published, PerToken, CardFields, Fields
<1>5. base.reasoning # Unset
  BY <1>2, <1>4 DEF CardFields, Fields, Unset
<1>6. PICK card : card = Bands(list, NoCard)[band]
  OBVIOUS
<1>7. CASE band = "standard"
  <2>1. b = NoRates
    BY <1>1, <1>7 DEF BandRates
  <2>2. card = base
    BY <1>3, <1>4, <1>5, <1>6, <1>7 DEF Bands, ToJson
  <2>3. \A f \in Fields : ChargedRates(list, band)[f] = list.sell[f]
    <3>1. ASSUME NEW f \in Fields
          PROVE  ChargedRates(list, band)[f]
                   = IF b[f] > 0 THEN b[f]
                     ELSE IF f = "reasoning" /\ b.output > 0 THEN b.output
                     ELSE list.sell[f]
      BY <1>1, RatesOfBand
    <3>2. \A f \in Fields : ~(b[f] > 0)
      BY <2>1 DEF NoRates
    <3>3. ~(b.output > 0)
      BY <2>1 DEF NoRates, Fields
    <3> QED
      BY <3>1, <3>2, <3>3
  <2>4. \A f \in Fields : card[f] = list.sell[f]
    BY <1>4, <2>2 DEF CardFields, Fields
  <2>5. card["request"] = FlatUsd(list.request)
    BY <1>4, <2>2 DEF CardFields, Fields
  <2>6. card # NoCard
    BY <1>2, <2>4 DEF NoCard, CardFields, Fields, Unset
  <2> QED
    BY <1>6, <2>3, <2>4, <2>5, <2>6
<1>8. CASE band # "standard"
  <2>1. PICK moved : moved = [base EXCEPT !.reasoning =
                                IF b.output > 0 /\ @ # Unset THEN PerToken(b.output) ELSE @]
    OBVIOUS
  <2>2. \A f \in CardFields : moved[f] = IF f = "reasoning" /\ b.output > 0 THEN b.output
                                         ELSE base[f]
    BY <1>2, <1>4, <1>5, <2>1 DEF CardFields, Fields, PerToken
  <2>3. PICK over : over = OverBand(base, b)
    OBVIOUS
  <2>4. over = [f \in CardFields |-> IF f \in Fields /\ b[f] > 0 THEN b[f] ELSE moved[f]]
    BY <1>2, <2>1, <2>3 DEF OverBand, Over, PerToken, Unset
  <2>5. \A f \in Fields : over[f] = ChargedRates(list, band)[f]
    <3>1. ASSUME NEW f \in Fields
          PROVE  over[f] = IF b[f] > 0 THEN b[f]
                           ELSE IF f = "reasoning" /\ b.output > 0 THEN b.output
                           ELSE list.sell[f]
      BY <1>4, <2>2, <2>4 DEF CardFields, Fields
    <3> QED
      BY <1>1, <3>1, RatesOfBand
  <2>6. over["request"] = FlatUsd(list.request)
    BY <1>4, <2>2, <2>4 DEF CardFields, Fields
  <2>7. over.reasoning > 0
    BY <2>5, RatesOfBand DEF Fields
  <2>8. card = over
    <3>1. card = ToJson(over)
      BY <1>1, <1>3, <1>6, <1>8, <2>3 DEF Bands, Published
    <3>2. ToJson(over) = over
      BY <2>4, <2>7 DEF ToJson, Unset
    <3> QED
      BY <3>1, <3>2
  <2>9. card # NoCard
    BY <2>7, <2>8 DEF NoCard, CardFields, Fields, Unset
  <2> QED
    BY <1>6, <2>5, <2>6, <2>8, <2>9
<1> QED
  BY <1>7, <1>8

LEMMA PublishedPrice ==
  ASSUME NEW list, Published(list), NEW usage \in Amounts,
         NEW shape, ~shape.refused, shape.effort \in Efforts,
         shape.input = usage.prompt, shape.cached = usage.cached,
         shape.output = usage.completion, shape.reasoning = usage.reasoning
  PROVE  Price(list, shape).proxy
           = PublishedCost(Bands(list, NoCard)[BandOf(shape.effort)], usage)
<1>1. PICK band \in {"standard", "max", "non"} : band = BandOf(shape.effort)
  BY DEF BandOf
<1>2. PICK rates \in Rates : rates = ChargedRates(list, band)
  BY RatesOfBand
<1>3. \A f \in Fields : rates[f] > 0
  BY <1>2, RatesOfBand
<1>4. PICK card : card = Bands(list, NoCard)[band]
  OBVIOUS
<1>5. card # NoCard /\ (\A f \in Fields : card[f] = rates[f])
      /\ card["request"] = FlatUsd(list.request)
  BY <1>2, <1>4, CardOfBand
<1>6. PICK cost \in Nat : cost = Charge(rates, shape)
  BY <1>2, ChargeType DEF Rates, Fields, Amounts
<1>7. ApplyTiers(list.tiers, rates, shape)
        = [rates |-> rates, fee |-> 0, names |-> <<>>, stopped |-> FALSE]
  BY NoTiers DEF Published
<1>8. Price(list, shape).proxy = Most(0, cost + Usd(list.request) + Usd(0))
  BY <1>1, <1>2, <1>6, <1>7 DEF Price, Published, ChargedRates
<1>9. list.request \in Nat /\ Usd(list.request) \in Nat /\ Usd(0) = 0
  BY DEF Usd, PerM, Published
<1>10. Price(list, shape).proxy = cost + Usd(list.request)
  BY <1>8, <1>9 DEF Most
<1>11. Zero(card.request) = Usd(list.request)
  BY <1>5, <1>9 DEF Zero, FlatUsd, Usd, PerM, Unset
<1>12. card.input = rates.input /\ card.cached = rates.cached /\ card.output = rates.output
       /\ card.reasoning = rates.reasoning
  BY <1>5 DEF Fields
<1>13. /\ rates.input > 0 /\ rates.cached > 0 /\ rates.output > 0 /\ rates.reasoning > 0
       /\ {rates.input, rates.cached, rates.output, rates.reasoning} \subseteq Nat
  BY <1>2, <1>3 DEF Fields, Rates
<1>14. ToJson(card).reasoning = rates.reasoning
  BY <1>4, <1>12, <1>13 DEF ToJson, Unset
<1>15. PICK r : r = [input     |-> Zero(card.input),
                     cached    |-> IF card.cached = Unset THEN Zero(card.input) ELSE card.cached,
                     output    |-> Zero(card.output),
                     reasoning |-> Zero(ToJson(card).reasoning)]
  OBVIOUS
<1>16. /\ r.input = rates.input /\ r.cached = rates.cached /\ r.output = rates.output
       /\ r.reasoning = rates.reasoning
  BY <1>12, <1>13, <1>14, <1>15 DEF Zero, Unset
<1>17. Charge(r, [input  |-> usage.prompt,     cached    |-> usage.cached,
                  output |-> usage.completion, reasoning |-> usage.reasoning]) = cost
  BY <1>6, <1>16 DEF Charge
<1>18. PublishedCost(card, usage) = cost + Zero(card.request)
  BY <1>5, <1>15, <1>17 DEF PublishedCost
<1> QED
  BY <1>1, <1>4, <1>10, <1>11, <1>18

-----------------------------------------------------------------------------
(* The figures of a bill are numbers. *)

LEMMA EffortType ==
  ASSUME scene \in Scenes
  PROVE  /\ Effort \in Efforts
         /\ cfg.silence # "unspecified" => Effort # "unspecified"
         /\ ask.think = Silent => Effort = cfg.silence
<1>1. PICK think : think = ask.think
  OBVIOUS
<1>2. /\ think \in [levels : Seq(Efforts), switches : Seq({"absent", "on", "off"}),
                    disabled : BOOLEAN, budget : Nat \union {Unset}, enable : BOOLEAN]
      /\ cfg.silence \in Efforts
  BY <1>1, AnswerAssumption DEF IsScene, IsAsk, IsConfig, ask, cfg
<1>3. \A n : EffortOfBudget(n) \in {"none", "low", "medium", "high", "max"}
  BY DEF EffortOfBudget
<1>4. {"none", "low", "medium", "high", "max", "unspecified"} \subseteq Efforts
  BY DEF Efforts, Ranked, ToSet
<1>5. PICK I : I = {i \in 1 .. Len(think.levels) : think.levels[i] # "unspecified"}
  OBVIOUS
<1>6. PICK named : named = IF I # {} THEN Min(I) ELSE 0
  OBVIOUS
<1>7. named # 0 => think.levels[named] \in Efforts /\ think.levels[named] # "unspecified"
  <2>1. I \in SUBSET Nat
    BY <1>5
  <2>2. I # {} => Min(I) \in I
    BY <2>1, Joined!MinIsLeast DEF Joined!Min, Min
  <2>3. \A i \in I : think.levels[i] \in Efforts /\ think.levels[i] # "unspecified"
    BY <1>2, <1>5
  <2> QED
    BY <1>6, <2>2, <2>3
<1>8. SelectInSeq(think.levels, LAMBDA e : e # "unspecified") = named
  BY <1>5, <1>6 DEF SelectInSeq
<1>9. EffortOf(think) \in Efforts
  BY <1>3, <1>4, <1>7, <1>8 DEF EffortOf
<1>10. think = Silent => EffortOf(think) = "unspecified"
  <2>1. ASSUME think = Silent
        PROVE  EffortOf(think) = "unspecified"
    <3>1. /\ think.levels = <<>> /\ think.switches = <<>> /\ ~think.disabled
          /\ think.budget = Unset /\ ~think.enable
      BY <2>1 DEF Silent
    <3>2. Len(<<>>) = 0 /\ 1..0 = {}
      OBVIOUS
    <3>3. I = {}
      BY <1>5, <3>1, <3>2
    <3>4. SelectInSeq(think.switches, LAMBDA s : s # "absent") = 0
      BY <3>1, <3>2 DEF SelectInSeq
    <3> QED
      BY <1>6, <1>8, <3>1, <3>3, <3>4 DEF EffortOf
  <2> QED
    BY <2>1
<1> QED
  BY <1>1, <1>2, <1>9, <1>10 DEF Effort, Or

LEMMA SplitType ==
  ASSUME scene \in Scenes
  PROVE  LET s == CountPrompt(ask.body, TheBody)
         IN  s.user \in Nat /\ s.injected \in Int /\ s.billed \in Nat
<1>1. /\ ask.body.messages \in Seq(Message) /\ Weighed(ask.body.params)
      /\ TheBody.messages \in Seq(Message) /\ Weighed(TheBody.params)
  <2>1. TheBody.params = Params(ask.body.params, route, rt, Effort)
    BY DEF TheBody, Transform
  <2>2. Weighed(Params(ask.body.params, route, rt, Effort))
    BY AnswerAssumption DEF IsScene, ask, route, rt, cfg, Effort
  <2> QED
    BY <2>1, <2>2, AnswerAssumption, BodyType DEF IsScene, IsAsk, ask, Message
<1>2. \A b : b.messages \in Seq(Message) /\ Weighed(b.params) =>
               CountChat(b) \in Nat /\ CountSystem(b) \in Nat
  <2>1. SUFFICES ASSUME NEW b, b.messages \in Seq(Message), Weighed(b.params)
                 PROVE  CountChat(b) \in Nat /\ CountSystem(b) \in Nat
    OBVIOUS
  <2>2. Tokens(b.messages) \in Nat /\ Tokens(Systems(b.messages)) \in Nat
    BY <2>1, TokensType, TurnsType
  <2>3. ToolTokens(b.params) \in Nat
    BY <2>1 DEF ToolTokens, Weighed
  <2> QED
    BY <2>2, <2>3 DEF CountChat, CountSystem, Primer
<1> QED
  BY <1>1, <1>2 DEF CountPrompt, Most

Ledgers == UNION {[D -> Words] : D \in {E \in SUBSET Nat : IsFiniteSet(E)}}

LEMMA CompletionType ==
  ASSUME NEW text \in Words, NEW thoughts \in Words, NEW calls \in Ledgers
  PROVE  CountCompletion(text, thoughts, calls) \in Nat
<1>1. PICK D : D = DOMAIN calls /\ IsFiniteSet(D) /\ \A i \in D : calls[i] \in Words
  BY DEF Ledgers
<1>2. PICK f : f = [i \in D |-> 3 + Len(calls[i])]
  OBVIOUS
<1>3. f \in [D -> Nat]
  BY <1>1, <1>2 DEF Words
<1>4. SumFunction(f) = SumFunctionOnSet(f, D)
  BY <1>3 DEF SumFunction, SumFunctionOnSet, FoldFunction, FoldFunctionOnSet
<1>5. SumFunctionOnSet(f, D) = Joined!SumFunctionOnSet(f, D)
  BY DEF SumFunctionOnSet, FoldFunctionOnSet, MapThenFoldSet, Joined!SumFunctionOnSet,
         Joined!FoldFunctionOnSet, Joined!MapThenFoldSet
<1>6. Joined!SumFunctionOnSet(f, D) \in Nat
  <2>1. Joined!IsFiniteSet(D)
    BY <1>1 DEF IsFiniteSet, Joined!IsFiniteSet
  <2> QED
    BY <1>3, <2>1, Joined!SumIsNatural
<1>7. Len(text) \in Nat /\ Len(thoughts) \in Nat
  BY DEF Words
<1> QED
  BY <1>1, <1>2, <1>4, <1>5, <1>6, <1>7 DEF CountCompletion

LEMMA ReconcileType ==
  ASSUME NEW local, local.prompt \in Nat, local.completion \in Nat,
         NEW upstream, Of(upstream, Amounts), NEW prefer
  PROVE  Reconcile(local, upstream, prefer) \in Amounts
<1>1. PICK up \in Amounts :
        up = IF upstream = <<>> THEN [prompt |-> 0, completion |-> 0, cached |-> 0, reasoning |-> 0]
             ELSE upstream[1]
  BY DEF Of, Amounts
<1> QED
  BY <1>1 DEF Reconcile, Amounts, Pick1

(* charged_to_caller, of a caller billed for their own body.                *)
LEMMA CreditBehind ==
  ASSUME NEW usage \in Amounts, NEW user \in Nat,
         NEW basis, ~basis.wholeBody, basis.injected \in Nat, basis.floor \in Nat
  PROVE  LET c == Charged(usage, user, basis)
         IN  /\ c \in Amounts
             /\ c.prompt = user
             /\ c.cached > 0 =>
                  /\ c.prompt >= basis.floor
                  /\ usage.cached - c.cached >= basis.injected
                  /\ c.prompt - c.cached >= usage.prompt - usage.cached
<1>1. PICK offset \in Nat : offset = Most(basis.injected, Most(0, usage.prompt - user))
  BY DEF Most, Amounts
<1>2. offset >= basis.injected /\ offset >= usage.prompt - user
  BY <1>1 DEF Most, Amounts
<1>3. PICK k \in Nat : k = CallerCached(usage, user, basis)
  BY <1>1 DEF CallerCached, Least, Most, Amounts
<1>4. k > 0 => user >= basis.floor /\ k <= usage.cached - offset
  BY <1>1, <1>3 DEF CallerCached, Least, Most, Amounts
<1>5. PICK c : c = Charged(usage, user, basis)
  OBVIOUS
<1>6. c = [usage EXCEPT !.prompt = user, !.cached = k]
  BY <1>3, <1>5 DEF Charged
<1>7. c \in Amounts /\ c.prompt = user /\ c.cached = k
  BY <1>6 DEF Amounts
<1>8. usage.prompt \in Nat /\ usage.cached \in Nat
  BY DEF Amounts
<1> QED
  BY <1>2, <1>4, <1>5, <1>7, <1>8

-----------------------------------------------------------------------------
(* What has been said, put together. *)

LEMMA TextsOfNone == Texts(<<>>) = <<>>
BY TextsFolds, Joined!FoldNothing

LEMMA TextsMore ==
  ASSUME NEW s \in Seq(Words), NEW x \in Words
  PROVE  Texts(Append(s, x)) = Texts(s) \o x
<1>1. Joined!Fold(<<>>, Append(s, x)) = Concat(Joined!Fold(<<>>, s), x)
  BY Joined!FoldOneMore
<1> QED
  BY <1>1, TextsFolds DEF Concat

LEMMA TextsType ==
  ASSUME NEW s \in Seq(Words)
  PROVE  Texts(s) \in Words
<1>1. \A t \in Words, p \in Words : Concat(t, p) \in Words
  BY WordsConcat DEF Concat
<1>2. <<>> \in Words
  BY DEF Words
<1>3. Joined!Fold(<<>>, s) \in Words
  BY <1>1, <1>2, Joined!FoldKeeps
<1> QED
  BY <1>3, TextsFolds

LEMMA TextsOfOne ==
  ASSUME NEW x \in Words
  PROVE  Texts(<<x>>) = x
<1>1. <<>> \in Seq(Words) /\ <<x>> = Append(<<>>, x)
  OBVIOUS
<1>2. Texts(<<x>>) = Texts(<<>>) \o x
  BY <1>1, TextsMore
<1> QED
  BY <1>2, TextsOfNone DEF Words

LEMMA TextsConcat ==
  ASSUME NEW s \in Seq(Words), NEW r \in Seq(Words)
  PROVE  Texts(s \o r) = Texts(s) \o Texts(r)
<1>1. PICK N : N = {n \in Nat : \A q \in Seq(Words) : Len(q) = n =>
                                  Texts(s \o q) = Texts(s) \o Texts(q)}
  OBVIOUS
<1>2. 0 \in N
  <2>1. \A q \in Seq(Words) : Len(q) = 0 => q = <<>> /\ s \o q = s
    OBVIOUS
  <2>2. Texts(s) \o <<>> = Texts(s)
    BY TextsType DEF Words
  <2> QED
    BY <1>1, <2>1, <2>2, TextsOfNone
<1>3. ASSUME NEW n \in N
      PROVE  n + 1 \in N
  <2>0. n \in Nat
    BY <1>1
  <2>1. ASSUME NEW q \in Seq(Words), Len(q) = n + 1
        PROVE  Texts(s \o q) = Texts(s) \o Texts(q)
    <3>0. PICK p, x : p = SubSeq(q, 1, n) /\ x = q[n + 1]
      OBVIOUS
    <3>1. p \in Seq(Words) /\ Len(p) = n /\ x \in Words /\ q = Append(p, x)
      BY <2>0, <2>1, <3>0, Joined!LastOfSeq
    <3>2. s \o p \in Seq(Words) /\ s \o q = Append(s \o p, x)
      BY <3>1
    <3>3. Texts(s \o q) = Texts(s \o p) \o x
      BY <3>1, <3>2, TextsMore
    <3>4. Texts(s \o p) = Texts(s) \o Texts(p)
      BY <1>1, <3>1
    <3>5. Texts(q) = Texts(p) \o x
      BY <3>1, TextsMore
    <3>6. Texts(s) \in Words /\ Texts(p) \in Words
      BY <3>1, TextsType
    <3>7. (Texts(s) \o Texts(p)) \o x = Texts(s) \o (Texts(p) \o x)
      BY <3>1, <3>6 DEF Words
    <3> QED
      BY <3>3, <3>4, <3>5, <3>7
  <2> QED
    BY <1>1, <2>0, <2>1
<1>4. Len(r) \in N
  <2>1. N = Nat
    BY <1>1, <1>2, <1>3, Joined!AllOfNat
  <2> QED
    BY <2>1
<1> QED
  BY <1>1, <1>4

Callings == Seq([index : Nat, text : Words])

LEMMA EmptyLedger == <<>> \in Ledgers
<1>1. <<>> \in [{} -> Words] /\ {} \in {E \in SUBSET Nat : IsFiniteSet(E)}
  BY FS_EmptySet
<1> QED
  BY <1>1 DEF Ledgers

LEMMA CollectType ==
  ASSUME NEW calls \in Ledgers, NEW pieces \in Callings
  PROVE  Collect(calls, pieces) \in Ledgers
<1>1. ASSUME NEW c \in Ledgers, NEW p \in [index : Nat, text : Words]
      PROVE  AddPiece(c, p) \in Ledgers
  <2>1. PICK D \in SUBSET Nat : IsFiniteSet(D) /\ c \in [D -> Words]
    BY DEF Ledgers
  <2>2. p.index \in Nat /\ p.text \in Words
    OBVIOUS
  <2>3. PICK E \in SUBSET Nat : E = D \union {p.index} /\ IsFiniteSet(E)
    <3>1. IsFiniteSet(D \union {p.index})
      BY <2>1, FS_AddElement
    <3>2. D \union {p.index} \in SUBSET Nat
      BY <2>2
    <3> QED
      BY <3>1, <3>2
  <2>4. PICK t \in Words : t = (IF p.index \in DOMAIN c THEN c[p.index] ELSE <<>>) \o p.text
    <3>1. (IF p.index \in DOMAIN c THEN c[p.index] ELSE <<>>) \in Words
      BY <2>1 DEF Words
    <3> QED
      BY <2>2, <3>1, WordsConcat
  <2>5. AddPiece(c, p) = [x \in E |-> IF x = p.index THEN t ELSE c[x]]
    BY <2>1, <2>3, <2>4 DEF AddPiece, With
  <2>6. [x \in E |-> IF x = p.index THEN t ELSE c[x]] \in [E -> Words]
    BY <2>1, <2>3, <2>4
  <2> QED
    BY <2>3, <2>5, <2>6 DEF Ledgers
<1>2. Pieced!Fold(calls, pieces) \in Ledgers
  BY <1>1, Pieced!FoldKeeps DEF Callings
<1> QED
  BY <1>2, CollectFolds

Thoughts(ds) == Thought!Fold(<<>>, ds)
Content(ds)  == Spoke!Fold(<<>>, ds)
Calls(ds)    == Called!Fold(<<>>, ds)

(* What a backend has said so far, as Pumped keeps it.                      *)
WholeOf(ds) ==
  [reasoning |-> IF Thoughts(ds) = <<>> THEN <<>> ELSE <<Texts(Thoughts(ds))>>,
   content   |-> Content(ds),
   calls     |-> Calls(ds)]

LEMMA WholeIsOfAll == Whole = WholeOf(reply.deltas)
<1>1. FoldLeft(LAMBDA r, d : r \o d.reasoning, <<>>, reply.deltas) = Thoughts(reply.deltas)
  BY DEF Thoughts, Thought!Fold, AddThoughts, FoldLeft, Thought!FoldLeft, MapThenFoldSet,
         Thought!MapThenFoldSet, Max, Thought!Max
<1>2. FoldLeft(LAMBDA t, d : t \o d.content, <<>>, reply.deltas) = Content(reply.deltas)
  BY DEF Content, Spoke!Fold, AddContent, FoldLeft, Spoke!FoldLeft, MapThenFoldSet,
         Spoke!MapThenFoldSet, Max, Spoke!Max
<1>3. FoldLeft(LAMBDA c, d : Collect(c, d.calls), <<>>, reply.deltas) = Calls(reply.deltas)
  BY DEF Calls, Called!Fold, AddCalls, FoldLeft, Called!FoldLeft, MapThenFoldSet,
         Called!MapThenFoldSet, Max, Called!Max
<1> QED
  BY <1>1, <1>2, <1>3 DEF Whole, WholeOf

LEMMA SayingsType ==
  ASSUME NEW ds \in Seq(Sayings)
  PROVE  /\ Thoughts(ds) \in Seq(Words) /\ Content(ds) \in Words /\ Calls(ds) \in Ledgers
         /\ WholeOf(ds).reasoning \in Seq(Words)
<1>1. \A r \in Seq(Words), d \in Sayings : AddThoughts(r, d) \in Seq(Words)
  BY MoreIsSeq DEF AddThoughts, Sayings
<1>2. \A t \in Words, d \in Sayings : AddContent(t, d) \in Words
  BY WordsConcat DEF AddContent, Sayings
<1>3. \A c \in Ledgers, d \in Sayings : AddCalls(c, d) \in Ledgers
  BY CollectType DEF AddCalls, Sayings, Callings
<1>4. <<>> \in Seq(Words) /\ <<>> \in Words
  BY DEF Words
<1>5. Thoughts(ds) \in Seq(Words)
  BY <1>1, <1>4, Thought!FoldKeeps DEF Thoughts
<1>6. Content(ds) \in Words
  BY <1>2, <1>4, Spoke!FoldKeeps DEF Content
<1>7. Calls(ds) \in Ledgers
  BY <1>3, EmptyLedger, Called!FoldKeeps DEF Calls
<1>8. Texts(Thoughts(ds)) \in Words
  BY <1>5, TextsType
<1>9. <<Texts(Thoughts(ds))>> \in Seq(Words)
  BY <1>8, OneIsSeq
<1> QED
  BY <1>4, <1>5, <1>6, <1>7, <1>9 DEF WholeOf

LEMMA SayingsOfNone ==
  Thoughts(<<>>) = <<>> /\ Content(<<>>) = <<>> /\ Calls(<<>>) = <<>>
BY Thought!FoldNothing, Spoke!FoldNothing, Called!FoldNothing DEF Thoughts, Content, Calls

LEMMA SayingsMore ==
  ASSUME NEW ds \in Seq(Sayings), NEW d \in Sayings
  PROVE  /\ Thoughts(Append(ds, d)) = Thoughts(ds) \o d.reasoning
         /\ Content(Append(ds, d)) = Content(ds) \o d.content
         /\ Calls(Append(ds, d)) = Collect(Calls(ds), d.calls)
<1>1. Thoughts(Append(ds, d)) = AddThoughts(Thoughts(ds), d)
  BY Thought!FoldOneMore DEF Thoughts
<1>2. Content(Append(ds, d)) = AddContent(Content(ds), d)
  BY Spoke!FoldOneMore DEF Content
<1>3. Calls(Append(ds, d)) = AddCalls(Calls(ds), d)
  BY Called!FoldOneMore DEF Calls
<1> QED
  BY <1>1, <1>2, <1>3 DEF AddThoughts, AddContent, AddCalls

(* Hear, of one more delta.                                                 *)
LEMMA HearMore ==
  ASSUME NEW ds \in Seq(Sayings), NEW d \in Sayings, heard = WholeOf(ds)
  PROVE  Hear(d) = WholeOf(Append(ds, d))
<1>1. PICK r \in Seq(Words), x \in Seq(Words) : r = Thoughts(ds) /\ x = d.reasoning
  BY SayingsType DEF Sayings
<1>2. /\ heard.reasoning = IF r = <<>> THEN <<>> ELSE <<Texts(r)>>
      /\ heard.content = Content(ds) /\ heard.calls = Calls(ds)
  BY <1>1 DEF WholeOf
<1>3. Texts(r) \in Words /\ Texts(x) \in Words
  BY TextsType
<1>4. PICK h \in Seq(Words) : h = IF r = <<>> THEN <<>> ELSE <<Texts(r)>>
  BY <1>3, OneIsSeq
<1>5. Texts(h) = Texts(r)
  <2>1. CASE r = <<>>
    BY <1>4, <2>1
  <2>2. CASE r # <<>>
    BY <1>3, <1>4, <2>2, TextsOfOne
  <2> QED
    BY <2>1, <2>2
<1>6. Texts(h \o x) = Texts(r \o x)
  <2>1. Texts(h \o x) = Texts(h) \o Texts(x) /\ Texts(r \o x) = Texts(r) \o Texts(x)
    BY TextsConcat
  <2> QED
    BY <1>5, <2>1
<1>7. h \o x = <<>> <=> r \o x = <<>>
  <2>1. CASE r = <<>>
    BY <1>4, <2>1
  <2>2. CASE r # <<>>
    <3>1. Len(h) = 1 /\ Len(r) > 0
      BY <1>4, <2>2
    <3>2. Len(h \o x) = Len(h) + Len(x) /\ Len(r \o x) = Len(r) + Len(x) /\ Len(x) \in Nat
      OBVIOUS
    <3>3. Len(<<>>) = 0
      OBVIOUS
    <3>4. Len(h \o x) # 0 /\ Len(r \o x) # 0
      BY <3>1, <3>2
    <3> QED
      BY <3>3, <3>4, Zenon
  <2> QED
    BY <2>1, <2>2
<1>8. Hear(d) = [reasoning |-> IF r \o x = <<>> THEN <<>> ELSE <<Texts(r \o x)>>,
                 content   |-> Content(ds) \o d.content,
                 calls     |-> Collect(Calls(ds), d.calls)]
  BY <1>1, <1>2, <1>4, <1>6, <1>7 DEF Hear
<1> QED
  BY <1>1, <1>8, SayingsMore DEF WholeOf

-----------------------------------------------------------------------------
(* The invariant: what each part of the state is made of.                   *)

TheSplit == CountPrompt(ask.body, TheBody)
Before   == SubSeq(reply.deltas, 1, next - 1)
Counting == pc \notin {"asked", "prepared"}

BillInv ==
  /\ scene \in Scenes
  /\ pc # "asked" => body = TheBody
  /\ Counting => split = TheSplit
  /\ heard.content \in Words
  /\ Done => \E local \in Nat, usage \in {reply.usage, <<>>} :
               bill = BillOf(local, usage, heard.content)

HeardInv ==
  pc \notin {"refused", "over"} =>
    next \in 1 .. Len(reply.deltas) + 1 /\ heard = WholeOf(Before)

LEMMA TransformType ==
  ASSUME scene \in Scenes
  PROVE  /\ transform.prefix \in Words /\ transform.suffix \in Words
         /\ transform.tags \in Words \X Words
         /\ WordMap(transform.replace)
<1>1. /\ Of(route.response.tags, Words \X Words) /\ Of(cfg.response.tags, Words \X Words)
      /\ Of(route.response.prefix, Words) /\ Of(cfg.response.prefix, Words)
      /\ Of(route.response.suffix, Words) /\ Of(cfg.response.suffix, Words)
      /\ route.response.replace # <<>> => WordMap(route.response.replace[1])
      /\ cfg.response.replace # <<>> => WordMap(cfg.response.replace[1])
  BY AnswerAssumption DEF IsScene, IsRoute, IsConfig, IsShape, route, cfg
<1>2. PICK m : m = Merged(NoShape, cfg.response, route.response)
  OBVIOUS
<1>3. /\ m.tags = IF route.response.tags # <<>> THEN route.response.tags[1]
                  ELSE IF cfg.response.tags # <<>> THEN cfg.response.tags[1]
                  ELSE <<<<"<think>">>, <<"</think>">>>>
      /\ m.prefix = IF route.response.prefix # <<>> THEN route.response.prefix[1]
                    ELSE IF cfg.response.prefix # <<>> THEN cfg.response.prefix[1] ELSE <<>>
      /\ m.suffix = IF route.response.suffix # <<>> THEN route.response.suffix[1]
                    ELSE IF cfg.response.suffix # <<>> THEN cfg.response.suffix[1] ELSE <<>>
      /\ m.replace = IF route.response.replace # <<>> THEN route.response.replace[1]
                     ELSE IF cfg.response.replace # <<>> THEN cfg.response.replace[1] ELSE NoMap
  BY <1>2 DEF Merged, NoShape
<1>4. /\ transform.tags = m.tags /\ transform.prefix = m.prefix
      /\ transform.suffix = m.suffix /\ transform.replace = m.replace
  BY <1>2 DEF transform, Merged, NoShape
<1>5. <<>> \in Words /\ <<<<"<think>">>, <<"</think>">>>> \in Words \X Words
  <2>1. "<think>" \in Strings /\ "</think>" \in Strings
    BY DEF Strings
  <2>2. <<"<think>">> \in Words /\ <<"</think>">> \in Words
    BY <2>1, OneIsSeq DEF Words
  <2>3. \A a, b \in Words : <<a, b>> \in Words \X Words
    OBVIOUS
  <2>4. <<>> \in Words
    BY DEF Words
  <2> QED
    BY <2>2, <2>3, <2>4, Zenon
<1>6. WordMap(NoMap)
  BY DEF WordMap, NoMap
<1>7. m.tags \in Words \X Words
  BY <1>1, <1>3, <1>5 DEF Of
<1>8. m.prefix \in Words /\ m.suffix \in Words
  BY <1>1, <1>3, <1>5 DEF Of
<1>9. WordMap(m.replace)
  BY <1>1, <1>3, <1>6
<1> QED
  BY <1>4, <1>7, <1>8, <1>9

LEMMA WrappedType ==
  ASSUME scene \in Scenes, NEW text \in Words
  PROVE  Wrapped(text, transform) \in Words
<1>1. PICK r \in Words : r = Rewrite(transform.replace, text)
  BY TransformType, RewriteType
<1>2. transform.prefix \o r \in Words
  BY TransformType, WordsConcat
<1> QED
  BY <1>1, <1>2, TransformType, WordsConcat DEF Wrapped

LEMMA MessageType ==
  ASSUME scene \in Scenes, NEW m, m.content \in Words, m.reasoning \in Seq(Words),
         m.calls \in Ledgers, m = [reasoning |-> m.reasoning, content |-> m.content,
                                   calls |-> m.calls]
  PROVE  LET w == TransformMessage(m, transform)
         IN  w.content \in Words /\ w.reasoning \in Seq(Words) /\ w.calls \in Ledgers
<1>1. PICK tags : tags = transform.tags /\ tags[1] \in Words /\ tags[2] \in Words
  BY TransformType
<1>2. PICK inlined \in Words :
        inlined = IF transform.reasoning = "inline" /\ m.reasoning # <<>>
                  THEN tags[1] \o Texts(m.reasoning) \o tags[2] ELSE <<>>
  <2>1. tags[1] \o Texts(m.reasoning) \in Words
    BY <1>1, TextsType, WordsConcat
  <2>2. tags[1] \o Texts(m.reasoning) \o tags[2] \in Words
    BY <1>1, <2>1, WordsConcat
  <2>3. <<>> \in Words
    BY DEF Words
  <2> QED
    BY <2>2, <2>3
<1>3. PICK whole \in Words : whole = inlined \o m.content
  BY <1>2, WordsConcat
<1>4. PICK w : w = TransformMessage(m, transform)
  OBVIOUS
<1>5. w = [m EXCEPT !.content = IF whole = <<>> THEN @ ELSE Wrapped(whole, transform),
                    !.reasoning = IF transform.reasoning \in {"strip", "inline"} THEN <<>> ELSE @]
  BY <1>1, <1>2, <1>3, <1>4 DEF TransformMessage
<1>6. /\ w.content = IF whole = <<>> THEN m.content ELSE Wrapped(whole, transform)
      /\ w.reasoning = IF transform.reasoning \in {"strip", "inline"} THEN <<>> ELSE m.reasoning
      /\ w.calls = m.calls
  BY <1>5
<1>7. Wrapped(whole, transform) \in Words
  BY WrappedType
<1> QED
  BY <1>4, <1>6, <1>7

LEMMA RepliesType ==
  ASSUME scene \in Scenes
  PROVE  reply.deltas \in Seq(Sayings)
BY AnswerAssumption DEF IsScene, IsReply, reply

LEMMA BeforeType ==
  ASSUME scene \in Scenes, next \in 1 .. Len(reply.deltas) + 1
  PROVE  /\ Before \in Seq(Sayings)
         /\ next > Len(reply.deltas) => Before = reply.deltas
         /\ next <= Len(reply.deltas) =>
              /\ reply.deltas[next] \in Sayings
              /\ SubSeq(reply.deltas, 1, next) = Append(Before, reply.deltas[next])
<1>1. PICK ds \in Seq(Sayings) : ds = reply.deltas
  BY RepliesType
<1>2. next \in Nat /\ next - 1 \in 0 .. Len(ds) /\ Len(ds) \in Nat
  BY <1>1
<1>3. SubSeq(ds, 1, next - 1) \in Seq(Sayings)
  BY <1>2
<1>4. next > Len(ds) => SubSeq(ds, 1, next - 1) = ds
  BY <1>1, <1>2
<1>5. next <= Len(ds) => /\ ds[next] \in Sayings
                         /\ SubSeq(ds, 1, next) = Append(SubSeq(ds, 1, next - 1), ds[next])
  BY <1>1, <1>2
<1> QED
  BY <1>1, <1>3, <1>4, <1>5 DEF Before

LEMMA BillInit ==
  ASSUME Init
  PROVE  BillInv /\ HeardInv
<1>1. scene \in Scenes /\ pc = "asked" /\ next = 1 /\ heard = Nothing
  BY DEF Init
<1>2. PICK ds \in Seq(Sayings) : ds = reply.deltas
  BY <1>1, RepliesType
<1>3. next \in 1 .. Len(ds) + 1 /\ SubSeq(ds, 1, next - 1) = <<>>
  BY <1>1, <1>2
<1>4. heard = WholeOf(Before)
  BY <1>1, <1>2, <1>3, SayingsOfNone DEF Nothing, WholeOf, Before
<1>5. heard.content \in Words
  BY <1>1 DEF Nothing, Words
<1> QED
  BY <1>1, <1>2, <1>3, <1>4, <1>5 DEF BillInv, HeardInv, Counting, Done

LEMMA HeardStep ==
  ASSUME BillInv, HeardInv, [Next]_vars
  PROVE  HeardInv'
<1>0. scene \in Scenes
  BY DEF BillInv
<1>1. CASE Prepare
  BY <1>1 DEF Prepare, HeardInv, reply, Before
<1>2. CASE Count
  BY <1>2 DEF Count, HeardInv, reply, Before
<1>3. CASE Delta
  <2>1. /\ pc = "sent" /\ next <= Len(reply.deltas) /\ pc' = pc /\ scene' = scene
        /\ next' = next + 1 /\ heard' = Hear(reply.deltas[next])
    BY <1>3 DEF Delta
  <2>2. PICK d \in Sayings : d = reply.deltas[next]
    BY <1>0, <2>1, BeforeType DEF HeardInv
  <2>3. Before \in Seq(Sayings) /\ heard = WholeOf(Before) /\ next \in 1 .. Len(reply.deltas) + 1
        /\ SubSeq(reply.deltas, 1, next) = Append(Before, d)
    BY <1>0, <2>1, <2>2, BeforeType DEF HeardInv
  <2>4. heard' = WholeOf(Append(Before, d))
    BY <2>1, <2>2, <2>3, HearMore
  <2>5. reply' = reply
    BY <2>1 DEF reply
  <2>6. next \in Nat /\ (next + 1) - 1 = next
    BY <2>1, <2>3, <1>0, RepliesType
  <2>7. Before' = SubSeq(reply.deltas, 1, next)
    BY <2>1, <2>5, <2>6 DEF Before
  <2>8. PICK n : n = Len(reply.deltas) /\ n \in Nat
    BY <1>0, RepliesType
  <2>9. next' \in 1 .. Len(reply.deltas) + 1
    BY <2>1, <2>6, <2>8
  <2> QED
    BY <2>3, <2>4, <2>5, <2>7, <2>9 DEF HeardInv
<1>4. CASE Break
  BY <1>4 DEF Break, HeardInv, reply, Before
<1>5. CASE CloseStream \/ CloseIntoJson \/ Buffered \/ BadReply
  BY <1>5 DEF CloseStream, CloseIntoJson, Buffered, BadReply, HeardInv
<1>6. CASE UNCHANGED vars
  BY <1>6 DEF vars, HeardInv, reply, Before
<1> QED
  BY <1>1, <1>2, <1>3, <1>4, <1>5, <1>6 DEF Next

(* What is computed from the scene alone stays what it is.                  *)
LEMMA SameScene ==
  ASSUME scene' = scene
  PROVE  /\ TheBody' = TheBody /\ TheSplit' = TheSplit /\ reply' = reply
         /\ ask' = ask /\ route' = route /\ cfg' = cfg
         /\ transform' = transform /\ Effort' = Effort /\ rt' = rt
BY DEF TheBody, TheSplit, reply, ask, route, cfg, transform, ReasoningExcluded, Effort, rt, ThePrompt

LEMMA LaterBill ==
  ASSUME scene' = scene, split' = split, NEW local, NEW usage,
         bill' = BillOf(local, usage, heard'.content)
  PROVE  (bill = BillOf(local, usage, heard.content))'
BY DEF BillOf, User, Basis, Shape, reply, ask, route, cfg, Effort

LEMMA SameBill ==
  ASSUME UNCHANGED <<scene, split, heard, bill>>, NEW local, NEW usage,
         bill = BillOf(local, usage, heard.content)
  PROVE  (bill = BillOf(local, usage, heard.content))'
BY DEF BillOf, User, Basis, Shape, reply, ask, route, cfg, Effort

LEMMA BillStep ==
  ASSUME BillInv, HeardInv, [Next]_vars
  PROVE  BillInv'
<1>0. scene \in Scenes /\ scene' = scene
  BY DEF BillInv, Next, vars, Prepare, Count, Delta, Break, CloseStream, CloseIntoJson,
         Buffered, BadReply
<1>1. CASE Prepare
  <2>1. body' = TheBody /\ pc' = "prepared" /\ heard' = heard
    BY <1>1 DEF Prepare, TheBody, ThePrompt
  <2> QED
    BY <1>0, <2>1, SameScene DEF BillInv, Counting, Done
<1>2. CASE Count
  <2>1. /\ pc = "prepared" /\ pc' \in {"refused", "sent"} /\ body' = body /\ heard' = heard
        /\ split' = CountPrompt(ask.body, body)
    BY <1>2 DEF Count
  <2> QED
    BY <1>0, <2>1, SameScene DEF BillInv, Counting, Done, TheSplit
<1>3. CASE Delta
  <2>1. /\ pc = "sent" /\ next <= Len(reply.deltas) /\ pc' = pc /\ body' = body
        /\ split' = split /\ heard' = Hear(reply.deltas[next])
    BY <1>3 DEF Delta
  <2>2. HeardInv' /\ pc' = "sent"
    BY <2>1, HeardStep
  <2>3. heard'.content = heard.content \o reply.deltas[next].content
    BY <2>1 DEF Hear
  <2>4. reply.deltas[next] \in Sayings
    BY <1>0, <2>1, BeforeType DEF HeardInv
  <2>5. heard'.content \in Words
    BY <2>3, <2>4, WordsConcat DEF BillInv, Sayings
  <2> QED
    BY <1>0, <2>1, <2>5, SameScene DEF BillInv, Counting, Done
<1>4. CASE Break
  BY <1>0, <1>4, SameScene DEF BillInv, Break, Counting, Done
<1>5. CASE CloseStream
  <2>1. /\ pc = "sent" /\ pc' = "over" /\ heard' = heard /\ body' = body /\ split' = split
        /\ \E u \in Reported :
             bill' = BillOf(CountCompletion(heard.content, Stripped(heard.reasoning), heard.calls),
                            u, heard.content)
    BY <1>5 DEF CloseStream
  <2>u. PICK usage \in {reply.usage, <<>>} :
          bill' = BillOf(CountCompletion(heard.content, Stripped(heard.reasoning), heard.calls),
                         usage, heard.content)
    BY <2>1 DEF Reported
  <2>2. heard.reasoning \in Seq(Words) /\ heard.calls \in Ledgers /\ heard.content \in Words
    <3>1. Before \in Seq(Sayings) /\ heard = WholeOf(Before)
      BY <1>0, <2>1, BeforeType DEF HeardInv
    <3> QED
      BY <3>1, SayingsType DEF WholeOf
  <2>3. Stripped(heard.reasoning) \in Words
    BY <2>2, TextsType DEF Stripped, Words
  <2>4. PICK local \in Nat :
          local = CountCompletion(heard.content, Stripped(heard.reasoning), heard.calls)
    BY <2>2, <2>3, CompletionType
  <2>5. (bill = BillOf(local, usage, heard.content))'
    BY <1>0, <2>1, <2>u, <2>4, LaterBill
  <2> QED
    BY <1>0, <2>1, <2>4, <2>5, SameScene DEF BillInv, Counting, Done
<1>6. CASE CloseIntoJson
  <2>1. /\ pc = "sent" /\ pc' = "over" /\ heard' = heard /\ body' = body /\ split' = split
        /\ said' = Assembled(Wrapped(heard.content, transform),
                             IF transform.reasoning = "strip" THEN <<>> ELSE heard.reasoning,
                             heard.calls)
        /\ \E u \in Reported :
             bill' = BillOf(CountCompletion(said'.content, Texts(said'.reasoning), heard.calls),
                            u, heard.content)
    BY <1>6 DEF CloseIntoJson
  <2>u. PICK usage \in {reply.usage, <<>>} :
          bill' = BillOf(CountCompletion(said'.content, Texts(said'.reasoning), heard.calls),
                         usage, heard.content)
    BY <2>1 DEF Reported
  <2>2. heard.reasoning \in Seq(Words) /\ heard.calls \in Ledgers /\ heard.content \in Words
    <3>1. Before \in Seq(Sayings) /\ heard = WholeOf(Before)
      BY <1>0, <2>1, BeforeType DEF HeardInv
    <3> QED
      BY <3>1, SayingsType DEF WholeOf
  <2>3. said'.content \in Words
    BY <1>0, <2>1, <2>2, WrappedType DEF Assembled
  <2>4. said'.reasoning \in Seq(Words)
    BY <2>1, <2>2 DEF Assembled
  <2>5. PICK local \in Nat :
          local = CountCompletion(said'.content, Texts(said'.reasoning), heard.calls)
    BY <2>2, <2>3, <2>4, TextsType, CompletionType
  <2>6. (bill = BillOf(local, usage, heard.content))'
    BY <1>0, <2>1, <2>u, <2>5, LaterBill
  <2> QED
    BY <1>0, <2>1, <2>5, <2>6, SameScene DEF BillInv, Counting, Done
<1>7. CASE Buffered
  <2>0. PICK m : m = TransformMessage(Whole, transform)
    OBVIOUS
  <2>1. /\ pc = "sent" /\ pc' = "over" /\ heard' = Whole /\ body' = body /\ split' = split
        /\ bill' = BillOf(CountCompletion(m.content, Texts(m.reasoning), m.calls),
                          reply.usage, Whole.content)
    BY <1>7, <2>0 DEF Buffered
  <2>2. Whole = WholeOf(reply.deltas) /\ reply.deltas \in Seq(Sayings)
    BY <1>0, WholeIsOfAll, RepliesType
  <2>3. /\ Whole.reasoning \in Seq(Words) /\ Whole.calls \in Ledgers /\ Whole.content \in Words
        /\ Whole = [reasoning |-> Whole.reasoning, content |-> Whole.content, calls |-> Whole.calls]
    BY <2>2, SayingsType DEF WholeOf
  <2>4. m.content \in Words /\ m.reasoning \in Seq(Words) /\ m.calls \in Ledgers
    BY <1>0, <2>0, <2>3, MessageType
  <2>5. PICK local \in Nat : local = CountCompletion(m.content, Texts(m.reasoning), m.calls)
    BY <2>4, TextsType, CompletionType
  <2>6. (bill = BillOf(local, reply.usage, heard.content))'
    BY <1>0, <2>1, <2>5, LaterBill, SameScene
  <2> QED
    BY <1>0, <2>1, <2>3, <2>5, <2>6, SameScene DEF BillInv, Counting, Done
<1>8. CASE BadReply
  BY <1>0, <1>8, SameScene DEF BillInv, BadReply, Counting, Done
<1>9. CASE UNCHANGED vars
  <2>1. \A local \in Nat, usage \in {reply.usage, <<>>} :
          bill = BillOf(local, usage, heard.content) => (bill = BillOf(local, usage, heard.content))'
    BY <1>9, SameBill DEF vars
  <2> QED
    BY <1>0, <1>9, <2>1, SameScene DEF BillInv, vars, Counting, Done
<1> QED
  BY <1>1, <1>2, <1>3, <1>4, <1>5, <1>6, <1>7, <1>8, <1>9 DEF Next

-----------------------------------------------------------------------------
(* What follows of the bill.                                                *)

LEMMA ChargedType ==
  ASSUME NEW usage \in Amounts, NEW user \in Nat,
         NEW basis, basis.injected \in Nat, basis.floor \in Nat
  PROVE  Charged(usage, user, basis) \in Amounts /\ Charged(usage, user, basis).prompt = user
<1>1. PICK offset \in Nat :
        offset = IF basis.wholeBody THEN 0 ELSE Most(basis.injected, Most(0, usage.prompt - user))
  BY DEF Most, Amounts
<1>2. PICK k \in Nat : k = CallerCached(usage, user, basis)
  BY <1>1 DEF CallerCached, Least, Most, Amounts
<1>3. PICK c : c = Charged(usage, user, basis)
  OBVIOUS
<1>4. c = [usage EXCEPT !.prompt = user, !.cached = k]
  BY <1>2, <1>3 DEF Charged
<1>5. c \in Amounts /\ c.prompt = user
  BY <1>4 DEF Amounts
<1> QED
  BY <1>3, <1>5

LEMMA TheBill ==
  ASSUME BillInv, Done
  PROVE  /\ {User, split.user, split.billed, Basis.injected, Basis.floor} \subseteq Nat
         /\ split.injected \in Int
         /\ Basis = [wholeBody |-> cfg.billsPrompt, injected |-> Most(0, split.injected),
                     floor |-> cfg.floor]
         /\ \E billed \in Amounts :
              /\ bill.billed = <<billed>> /\ bill.charged = <<Charged(billed, User, Basis)>>
              /\ bill.proxy = Price(route.list, Shape(User, Charged(billed, User, Basis),
                                      IsRefusal(heard.content, route.list.phrases))).proxy
              /\ route.list.enabled => bill.cost = bill.proxy
<1>1. scene \in Scenes /\ split = TheSplit
  BY DEF BillInv, Done, Counting
<1>2. split.user \in Nat /\ split.billed \in Nat /\ split.injected \in Int
  BY <1>1, SplitType DEF TheSplit
<1>3. Of(reply.usage, Amounts) /\ cfg.floor \in Nat
  BY <1>1, AnswerAssumption DEF IsScene, IsReply, IsConfig, reply, cfg, Amounts
<1>4. PICK local \in Nat, usage \in {reply.usage, <<>>} : bill = BillOf(local, usage, heard.content)
  BY DEF BillInv
<1>u. Of(usage, Amounts)
  BY <1>3 DEF Of
<1>5. PICK ours : ours = [prompt |-> split.billed, completion |-> local]
  OBVIOUS
<1>6. PICK billed \in Amounts : billed = Reconcile(ours, usage, cfg.prefers)
  BY <1>2, <1>u, <1>5, ReconcileType
<1>7. PICK charged : charged = Charged(billed, User, Basis)
  OBVIOUS
<1>8. PICK proxy : proxy = Price(route.list, Shape(User, charged,
                             IsRefusal(heard.content, route.list.phrases))).proxy
  OBVIOUS
<1>9. /\ bill.proxy = proxy /\ bill.billed = <<billed>> /\ bill.charged = <<charged>>
      /\ route.list.enabled => bill.cost = proxy
  BY <1>4, <1>5, <1>6, <1>7, <1>8 DEF BillOf
<1>10. {User, Basis.injected, Basis.floor} \subseteq Nat
  BY <1>2, <1>3 DEF User, Basis, Most
<1> QED
  BY <1>2, <1>6, <1>7, <1>8, <1>9, <1>10 DEF Basis

LEMMA CreditOfBill ==
  ASSUME BillInv
  PROVE  CreditWasReceived
<1>1. SUFFICES ASSUME Done, ~cfg.billsPrompt, Charge1.cached > 0
               PROVE  /\ Charge1.prompt >= cfg.floor
                      /\ Billed1.cached - Charge1.cached >= split.injected
                      /\ Charge1.prompt - Charge1.cached >= Billed1.prompt - Billed1.cached
  BY DEF CreditWasReceived
<1>2. PICK billed \in Amounts : bill.billed = <<billed>>
                                /\ bill.charged = <<Charged(billed, User, Basis)>>
  BY <1>1, TheBill
<1>3. PICK basis : basis = Basis
  OBVIOUS
<1>4. /\ ~basis.wholeBody /\ basis.injected \in Nat /\ basis.floor \in Nat /\ User \in Nat
      /\ basis.floor = cfg.floor /\ basis.injected >= split.injected /\ split.injected \in Int
  BY <1>1, <1>3, TheBill DEF Most
<1>5. PICK c : c = Charged(billed, User, basis)
  OBVIOUS
<1>6. c.cached > 0 => /\ c.prompt >= basis.floor
                      /\ billed.cached - c.cached >= basis.injected
                      /\ c.prompt - c.cached >= billed.prompt - billed.cached
  BY <1>4, <1>5, CreditBehind
<1>7. Charge1 = c /\ Billed1 = billed
  BY <1>2, <1>3, <1>5 DEF Charge1, Billed1
<1>8. c \in Amounts
  BY <1>4, <1>5, ChargedType
<1>9. billed.cached - c.cached \in Int
  BY <1>8 DEF Amounts
<1> QED
  BY <1>1, <1>4, <1>6, <1>7, <1>9

LEMMA PublishedOfBill ==
  ASSUME BillInv
  PROVE  PublishedIsCharged
<1> DEFINE silent == ask.think = Silent
           band  == IF silent THEN DefaultBand(cfg.silence) ELSE BandOf(Effort)
           list  == route.list
           plain == /\ \A f \in Fields : list.sell[f] > 0
                    /\ list.tiers = <<>> /\ route.typed = NoCard /\ route.windows = <<>>
                    /\ ~IsRefusal(heard.content, list.phrases)
<1>1. scene \in Scenes
  BY DEF BillInv
<1>2. /\ Effort \in Efforts /\ (cfg.silence # "unspecified" => Effort # "unspecified")
      /\ (silent => Effort = cfg.silence)
  BY <1>1, EffortType
<1>3. silent => Effort = Reasoning(cfg.silence).default
  BY <1>2 DEF Reasoning
<1>4. cfg.silence # "unspecified" => Effort \in Reasoning(cfg.silence).efforts
  BY <1>2 DEF Reasoning
<1>5. band = BandOf(Effort)
  BY <1>2 DEF DefaultBand
<1>6. ASSUME Done, list.enabled, plain
      PROVE  bill.cost = PublishedCost(Bands(list, route.typed)[band], Charge1)
  <2>1. PICK billed \in Amounts :
          /\ bill.charged = <<Charged(billed, User, Basis)>>
          /\ bill.proxy = Price(list, Shape(User, Charged(billed, User, Basis),
                                             IsRefusal(heard.content, list.phrases))).proxy
          /\ bill.cost = bill.proxy
    BY <1>6, TheBill
  <2>2. PICK c \in Amounts : c = Charged(billed, User, Basis) /\ c.prompt = User
    BY <1>6, TheBill, ChargedType
  <2>3. PICK shape : shape = Shape(User, c, IsRefusal(heard.content, list.phrases))
    OBVIOUS
  <2>4. /\ ~shape.refused /\ shape.effort \in Efforts /\ shape.effort = Effort
        /\ shape.input = c.prompt /\ shape.cached = c.cached
        /\ shape.output = c.completion /\ shape.reasoning = c.reasoning
    BY <1>2, <1>6, <2>2, <2>3 DEF Shape
  <2>5. Published(list)
    BY <1>1, <1>6, AnswerAssumption DEF IsScene, IsRoute, route, Published, Rates
  <2>6. PICK l : l = list
    OBVIOUS
  <2>7. Price(l, shape).proxy = PublishedCost(Bands(l, NoCard)[BandOf(shape.effort)], c)
    BY <2>4, <2>5, <2>6, PublishedPrice
  <2>8. Charge1 = c
    BY <2>1, <2>2 DEF Charge1
  <2> QED
    BY <1>5, <1>6, <2>1, <2>2, <2>3, <2>4, <2>6, <2>7, <2>8
<1> QED
  BY <1>3, <1>4, <1>6 DEF PublishedIsCharged

LEMMA BodyIsBilled ==
  ASSUME BillInv
  PROVE  BilledIsTheBodySent
<1>1. SUFFICES ASSUME Counting, "tools" \in DOMAIN body.params => Choice(body) = Choice(ask.body)
               PROVE  split.billed = CountChat(body)
  BY DEF BilledIsTheBodySent, Counting
<1>2. scene \in Scenes /\ body = TheBody /\ split = CountPrompt(ask.body, body)
  BY <1>1 DEF BillInv, Counting, TheSplit
<1>3. ask.body.messages \in Seq(Message) /\ Weighed(ask.body.params)
  BY <1>2, AnswerAssumption DEF IsScene, IsAsk, ask, Message
<1>4. body.messages \in Seq(Message)
  BY <1>2, BodyType
<1> QED
  BY <1>1, <1>2, <1>3, <1>4, BilledWithoutCounting

LEMMA BodyArrives ==
  ASSUME BillInv
  PROVE  AdvertisedArrives
<1>1. SUFFICES ASSUME pc # "asked"
               PROVE  (Advertised \ Controls) \intersect DOMAIN ask.body.params
                        \subseteq DOMAIN body.params
  BY DEF AdvertisedArrives
<1>2. scene \in Scenes /\ body = TheBody
  BY <1>1 DEF BillInv
<1>3. body.params = Params(ask.body.params, route, rt, Effort)
  BY <1>2 DEF TheBody, Transform
<1> QED
  BY <1>2, <1>3, ArrivesInTheBody

LEMMA BillAlways == Spec => [](BillInv /\ HeardInv)
<1>1. Init => BillInv /\ HeardInv
  BY BillInit
<1>2. BillInv /\ HeardInv /\ [Next]_vars => (BillInv /\ HeardInv)'
  BY BillStep, HeardStep
<1> QED
  BY <1>1, <1>2, PTL DEF Spec

-----------------------------------------------------------------------------
(* What the caller is told.                                                 *)

LEMMA RewriteConcat ==
  ASSUME NEW rules, WordMap(rules), NEW a \in Words, NEW b \in Words
  PROVE  Rewrite(rules, a \o b) = Rewrite(rules, a) \o Rewrite(rules, b)
<1>1. PICK p, q, w : p = Rewrite(rules, a) /\ q = Rewrite(rules, b) /\ w = Rewrite(rules, a \o b)
  OBVIOUS
<1>2. a \o b \in Words
  BY WordsConcat
<1>3. /\ p \in Words /\ q \in Words /\ w \in Words
      /\ Len(p) = Len(a) /\ Len(q) = Len(b) /\ Len(w) = Len(a \o b)
  BY <1>1, <1>2, RewriteType
<1>4. \A t \in Words : \A i \in 1 .. Len(t) :
        Rewrite(rules, t)[i] = IF t[i] \in DOMAIN rules THEN rules[t[i]] ELSE t[i]
  BY DEF Rewrite, Words
<1>5. Len(a \o b) = Len(a) + Len(b) /\ Len(a) \in Nat /\ Len(b) \in Nat
      /\ p \o q \in Words /\ Len(p \o q) = Len(p) + Len(q)
  BY <1>3 DEF Words
<1>6. ASSUME NEW i \in 1 .. Len(w)
      PROVE  w[i] = (p \o q)[i]
  <2>1. w[i] = IF (a \o b)[i] \in DOMAIN rules THEN rules[(a \o b)[i]] ELSE (a \o b)[i]
    BY <1>1, <1>2, <1>3, <1>4
  <2>2. CASE i <= Len(a)
    <3>1. i \in 1 .. Len(a) /\ (a \o b)[i] = a[i] /\ (p \o q)[i] = p[i]
      BY <1>3, <1>5, <2>2 DEF Words
    <3> QED
      BY <1>1, <1>4, <2>1, <3>1
  <2>3. CASE i > Len(a)
    <3>1. i - Len(a) \in 1 .. Len(b) /\ (a \o b)[i] = b[i - Len(a)] /\ (p \o q)[i] = q[i - Len(a)]
      BY <1>3, <1>5, <2>3 DEF Words
    <3> QED
      BY <1>1, <1>4, <2>1, <3>1
  <2> QED
    BY <1>3, <1>5, <2>2, <2>3
<1>7. w \in Seq(Strings) /\ p \o q \in Seq(Strings) /\ Len(w) = Len(p \o q)
  BY <1>3, <1>5 DEF Words
<1>8. w = p \o q
  BY <1>6, <1>7, SeqEqual
<1> QED
  BY <1>1, <1>8

(* A text as it goes out, with what goes ahead of it; nothing goes ahead of *)
(* nothing.                                                                 *)
Put(text) ==
  IF text = <<>> THEN <<>> ELSE transform.prefix \o Rewrite(transform.replace, text)

LEMMA EmptyText == \A t \in Words : t = <<>> <=> Len(t) = 0
BY DEF Words

LEMMA Associates == \A a, b, c \in Words : (a \o b) \o c = a \o (b \o c)
BY DEF Words

Regroups(a, b, c) == (a \o b) \o c = a \o (b \o c)

LEMMA Regrouped == \A a, b, c \in Words : Regroups(a, b, c)
BY Associates DEF Regroups

LEMMA Joins ==
  /\ \A a, b, c \in Words : (a \o b) \o c = a \o (b \o c)
  /\ \A a \in Words : a \o <<>> = a /\ <<>> \o a = a
  /\ \A a, b \in Words : a \o b = <<>> <=> a = <<>> /\ b = <<>>
  /\ <<>> \in Words
<1>1. \A a, b \in Words : Len(a \o b) = Len(a) + Len(b) /\ Len(a) \in Nat /\ Len(b) \in Nat
  BY DEF Words
<1>2. \A a, b \in Words : a \o b = <<>> <=> a = <<>> /\ b = <<>>
  BY <1>1, EmptyText, WordsConcat
<1>3. \A a, b, c \in Words : (a \o b) \o c = a \o (b \o c)
  BY DEF Words
<1>4. \A a \in Words : a \o <<>> = a /\ <<>> \o a = a
  BY DEF Words
<1> QED
  BY <1>2, <1>3, <1>4 DEF Words

(* The text as it is pushed through the rewriter, prefix and all.           *)
Pushed(text) == IF text = <<>> THEN <<>> ELSE transform.prefix \o text

Rewritten(text) == Rewrite(transform.replace, text)

LEMMA RewrittenType ==
  ASSUME scene \in Scenes
  PROVE  /\ \A t \in Words : Rewritten(t) \in Words /\ Len(Rewritten(t)) = Len(t)
         /\ \A a, b \in Words : Rewritten(a \o b) = Rewritten(a) \o Rewritten(b)
         /\ Rewritten(<<>>) = <<>>
<1>1. PICK rules : rules = transform.replace /\ WordMap(rules)
  BY TransformType
<1>2. \A t \in Words : Rewritten(t) \in Words /\ Len(Rewritten(t)) = Len(t)
  BY <1>1, RewriteType DEF Rewritten
<1>3. \A a, b \in Words : Rewritten(a \o b) = Rewritten(a) \o Rewritten(b)
  BY <1>1, RewriteConcat DEF Rewritten
<1>4. Rewritten(<<>>) = <<>>
  BY <1>2, EmptyText, Joins
<1> QED
  BY <1>2, <1>3, <1>4

LEMMA CutIsWithin ==
  ASSUME NEW text \in Words
  PROVE  /\ Cut(text) \in 0 .. Len(text)
         /\ DOMAIN transform.replace = {} => Cut(text) = Len(text)
BY AnswerAssumption DEF Cut, Most, Words

LEMMA TwoParts ==
  ASSUME NEW text \in Words, NEW k \in 0 .. Len(text)
  PROVE  /\ SubSeq(text, 1, k) \in Words /\ SubSeq(text, k + 1, Len(text)) \in Words
         /\ text = SubSeq(text, 1, k) \o SubSeq(text, k + 1, Len(text))
         /\ k = 0 => SubSeq(text, 1, k) = <<>>
         /\ text # <<>> => Len(text) # 0
<1>1. text \in Seq(Strings) /\ Len(text) \in Nat
  BY DEF Words
<1>2. \A i \in 1 .. Len(text) : text[i] \in Strings
  BY <1>1
<1>3. SubSeq(text, 1, k) \in Seq(Strings) /\ SubSeq(text, k + 1, Len(text)) \in Seq(Strings)
  <2>1. \A i \in 1 .. k : text[i] \in Strings
    BY <1>1, <1>2
  <2>2. \A i \in k + 1 .. Len(text) : text[i] \in Strings
    BY <1>1, <1>2
  <2> QED
    BY <1>1, <2>1, <2>2, SubSeqProperties
<1>4. SubSeq(text, 1, k) \o SubSeq(text, k + 1, Len(text)) = SubSeq(text, 1, Len(text))
  <2>1. 1 \in 1 .. Len(text) + 1 /\ k \in 1 - 1 .. Len(text) /\ Len(text) \in k .. Len(text)
    BY <1>1
  <2> QED
    BY <1>1, <2>1, ConcatAdjacentSubSeq
<1>5. SubSeq(text, 1, Len(text)) = text
  BY <1>1, SubSeqFull
<1>6. k = 0 => SubSeq(text, 1, k) = <<>>
  BY SubSeqEmpty
<1>7. text # <<>> => Len(text) # 0
  BY EmptyText
<1> QED
  BY <1>3, <1>4, <1>5, <1>6, <1>7 DEF Words

LEMMA PushedMore ==
  ASSUME scene \in Scenes, NEW a \in Words, NEW b \in Words, b # <<>>
  PROVE  /\ Pushed(a) \in Words
         /\ Pushed(a \o b) = Pushed(a) \o ((IF a # <<>> THEN <<>> ELSE transform.prefix) \o b)
         /\ a \o b # <<>>
<1>1. PICK prefix \in Words : prefix = transform.prefix
  BY TransformType
<1>2. a \o b # <<>> /\ a \o b \in Words /\ prefix \o a \in Words /\ prefix \o b \in Words
  BY Joins, WordsConcat
<1>3. CASE a = <<>>
  <2>1. a \o b = b /\ <<>> \o (prefix \o b) = prefix \o b
    BY <1>2, <1>3, Joins
  <2> QED
    BY <1>1, <1>2, <1>3, <2>1, Joins DEF Pushed
<1>4. CASE a # <<>>
  <2>1. <<>> \o b = b /\ (prefix \o a) \o b = prefix \o (a \o b)
    BY Joins, Associates
  <2> QED
    BY <1>1, <1>2, <1>4, <2>1 DEF Pushed
<1> QED
  BY <1>3, <1>4

(* One frame through the rewriter: what has been sent, with what is held    *)
(* back, is all of the text so far, whatever the cut.                       *)
LEMMA RelayMore ==
  ASSUME scene \in Scenes, NEW d, d.content \in Words, Relay(d), NEW a \in Words,
         prefixed = (a # <<>>), said.content \in Words, pending \in Words,
         said.content \o Rewritten(pending) = Rewritten(Pushed(a))
  PROVE  /\ prefixed' = (a \o d.content # <<>>)
         /\ said'.content \in Words /\ pending' \in Words
         /\ said'.content \o Rewritten(pending') = Rewritten(Pushed(a \o d.content))
         /\ DOMAIN said = {"reasoning", "content", "calls"} =>
              DOMAIN said' = {"reasoning", "content", "calls"}
         /\ \/ /\ said'.reasoning = said.reasoning \o d.reasoning
               /\ said'.calls = Collect(said.calls, d.calls)
            \/ /\ said' = said /\ d.content # <<>> /\ DOMAIN transform.replace # {}
<1>1. PICK b \in Words, s \in Words, h \in Words, prefix \in Words :
        /\ b = d.content /\ s = said.content /\ h = pending /\ prefix = transform.prefix
  BY TransformType
<1>2. PICK text : /\ text = IF b = <<>> THEN <<>>
                            ELSE h \o (IF prefixed THEN <<>> ELSE prefix) \o b
                  /\ prefixed' = (prefixed \/ text # <<>>)
                  /\ pending' = IF text = <<>> THEN h ELSE SubSeq(text, Cut(text) + 1, Len(text))
                  /\ said' = IF text # <<>> /\ Cut(text) = 0 THEN said
                             ELSE [reasoning |-> said.reasoning \o d.reasoning,
                                   content   |-> s \o Rewritten(SubSeq(text, 1, Cut(text))),
                                   calls     |-> Collect(said.calls, d.calls)]
  BY <1>1 DEF Relay, Rewritten
<1>a. PICK ahead \in Words : ahead = IF prefixed THEN <<>> ELSE prefix
  BY <1>1, Joins
<1>3. PICK fresh \in Words : fresh = ahead \o b
  BY <1>1, WordsConcat
<1>4. b # <<>> => text = h \o fresh /\ text # <<>>
  <2>1. (h \o ahead) \o b = h \o fresh
    <3>1. h \in Words /\ ahead \in Words /\ b \in Words
      BY <1>1, <1>a
    <3>2. (h \o ahead) \o b = h \o (ahead \o b)
      BY ONLY <3>1, Associates
    <3> QED
      BY <1>3, <3>2
  <2>2. b # <<>> => fresh # <<>>
    BY <1>3, Joins
  <2>3. b # <<>> => h \o fresh # <<>>
    BY <2>2, Joins
  <2> QED
    BY <1>2, <1>a, <2>1, <2>3
<1>5. text \in Words
  <2>1. h \o fresh \in Words /\ <<>> \in Words
    BY WordsConcat, Joins
  <2> QED
    BY <1>2, <1>4, <2>1
<1>6. PICK k \in 0 .. Len(text) : k = Cut(text) /\ (DOMAIN transform.replace = {} => k = Len(text))
  BY <1>5, CutIsWithin
<1>7. PICK front \in Words, rest \in Words :
        /\ front = SubSeq(text, 1, k) /\ rest = SubSeq(text, k + 1, Len(text))
        /\ text = front \o rest /\ (k = 0 => front = <<>>) /\ (text # <<>> => Len(text) # 0)
  BY <1>5, TwoParts
<1>8. Rewritten(front) \in Words /\ Rewritten(rest) \in Words /\ Rewritten(h) \in Words
      /\ Rewritten(fresh) \in Words /\ Rewritten(<<>>) = <<>>
  BY RewrittenType
<1>9. said'.content = s \o Rewritten(front)
  <2>1. CASE text # <<>> /\ k = 0
    <3>1. said' = said
      BY <1>2, <1>6, <2>1
    <3>2. Rewritten(front) = <<>>
      BY <1>7, <1>8, <2>1
    <3>3. s \o <<>> = s
      BY Joins
    <3> QED
      BY <1>1, <3>1, <3>2, <3>3
  <2>2. CASE ~(text # <<>> /\ k = 0)
    BY <1>2, <1>6, <1>7, <2>2
  <2> QED
    BY <2>1, <2>2
<1>10. /\ DOMAIN said = {"reasoning", "content", "calls"} =>
            DOMAIN said' = {"reasoning", "content", "calls"}
       /\ \/ /\ said'.reasoning = said.reasoning \o d.reasoning
             /\ said'.calls = Collect(said.calls, d.calls)
          \/ /\ said' = said /\ d.content # <<>> /\ DOMAIN transform.replace # {}
  <2>1. CASE text # <<>> /\ k = 0
    <3>1. said' = said /\ b # <<>> /\ DOMAIN transform.replace # {}
      BY <1>2, <1>6, <1>7, <2>1
    <3> QED
      BY <1>1, <3>1
  <2>2. CASE ~(text # <<>> /\ k = 0)
    BY <1>2, <1>6, <2>2
  <2> QED
    BY <2>1, <2>2
<1>11. CASE b = <<>>
  <2>1. text = <<>> /\ pending' = h /\ prefixed' = prefixed /\ a \o b = a
    BY <1>2, <1>11, Joins
  <2>2. front = <<>>
    BY <1>7, <2>1, Joins
  <2>3. said'.content = s
    BY <1>8, <1>9, <2>2, Joins
  <2> QED
    BY <1>1, <1>10, <2>1, <2>3
<1>12. CASE b # <<>>
  <2>1. pending' = rest /\ prefixed' = TRUE /\ text = h \o fresh
    BY <1>2, <1>4, <1>6, <1>7, <1>12
  <2>2. Rewritten(front) \o Rewritten(rest) = Rewritten(h) \o Rewritten(fresh)
    <3>1. Rewritten(front \o rest) = Rewritten(front) \o Rewritten(rest)
      BY RewrittenType
    <3>2. Rewritten(h \o fresh) = Rewritten(h) \o Rewritten(fresh)
      BY RewrittenType
    <3> QED
      BY <1>7, <2>1, <3>1, <3>2
  <2>3. Pushed(a) \in Words /\ Pushed(a \o b) = Pushed(a) \o fresh /\ a \o b # <<>>
    <3>1. ahead = IF a # <<>> THEN <<>> ELSE transform.prefix
      BY <1>1, <1>a
    <3> QED
      BY <1>3, <1>12, <3>1, PushedMore
  <2>4. Rewritten(Pushed(a \o b)) = Rewritten(Pushed(a)) \o Rewritten(fresh)
    BY <2>3, RewrittenType
  <2>p. PICK rf, rr, rh, re :
          /\ rf \in Words /\ rr \in Words /\ rh \in Words /\ re \in Words
          /\ rf = Rewritten(front) /\ rr = Rewritten(rest)
          /\ rh = Rewritten(h) /\ re = Rewritten(fresh)
    BY <1>8
  <2>5. (s \o rf) \o rr = s \o (rf \o rr)
    <3>1. s \in Words /\ rf \in Words /\ rr \in Words
      BY <1>1, <2>p
    <3>2. Regroups(s, rf, rr)
      BY <3>1, Regrouped, Zenon
    <3> QED
      BY <3>2 DEF Regroups
  <2>6. (s \o rh) \o re = s \o (rh \o re)
    <3>1. s \in Words /\ rh \in Words /\ re \in Words
      BY <1>1, <2>p
    <3>2. Regroups(s, rh, re)
      BY <3>1, Regrouped, Zenon
    <3> QED
      BY <3>2 DEF Regroups
  <2>7. s \o Rewritten(h) = Rewritten(Pushed(a))
    BY <1>1
  <2>8. said'.content \o Rewritten(pending') = Rewritten(Pushed(a \o b))
    BY <1>9, <2>1, <2>2, <2>p, <2>4, <2>5, <2>6, <2>7
  <2>9. said'.content \in Words
    BY <1>8, <1>9, WordsConcat
  <2> QED
    BY <1>1, <1>10, <2>1, <2>3, <2>8, <2>9
<1> QED
  BY <1>11, <1>12

(* The text of what has been said, with the thinking in it where it goes.   *)
Shown(ds) ==
  IF transform.reasoning = "inline"
  THEN (IF Thoughts(ds) = <<>> THEN <<>>
        ELSE transform.tags[1] \o Texts(Thoughts(ds))
               \o (IF Content(ds) = <<>> THEN <<>> ELSE transform.tags[2])) \o Content(ds)
  ELSE Content(ds)

Thinking(ds) == Content(ds) = <<>> /\ Thoughts(ds) # <<>>

LEMMA ShownType ==
  ASSUME scene \in Scenes, NEW ds \in Seq(Sayings)
  PROVE  Shown(ds) \in Words
<1>1. PICK a, b : a = transform.tags[1] /\ b = transform.tags[2] /\ a \in Words /\ b \in Words
  BY TransformType
<1>2. PICK t, c : /\ t = Texts(Thoughts(ds)) /\ t \in Words /\ c = Content(ds) /\ c \in Words
  BY SayingsType, TextsType
<1>3. <<>> \in Words
  BY DEF Words
<1>4. a \o t \in Words
  BY <1>1, <1>2, WordsConcat
<1>5. (a \o t) \o (IF c = <<>> THEN <<>> ELSE b) \in Words
  BY <1>1, <1>3, <1>4, WordsConcat
<1>6. (IF Thoughts(ds) = <<>> THEN <<>> ELSE a \o t \o (IF c = <<>> THEN <<>> ELSE b)) \in Words
  BY <1>3, <1>5
<1> QED
  BY <1>1, <1>2, <1>6, WordsConcat DEF Shown

(* What reshaping leaves of a frame.                                        *)
LEMMA ShapedType ==
  ASSUME scene \in Scenes, NEW d \in Sayings, NEW last \in BOOLEAN,
         NEW e, e = TransformDelta(d, transform, open, last).d
  PROVE  /\ e.content \in Words /\ e.calls = d.calls
         /\ e.reasoning = IF transform.reasoning \in {"strip", "inline"} THEN <<>> ELSE d.reasoning
         /\ transform.reasoning # "inline" => e.content = d.content
         /\ /\ d.content = <<>> /\ d.reasoning = <<>> /\ ~last
            => e.content = <<>>
<1>1. PICK r \in Seq(Words), x \in Words, cs \in Callings : d = [reasoning |-> r, content |-> x, calls |-> cs]
  BY DEF Sayings, Callings
<1>2. PICK a, b : a = transform.tags[1] /\ b = transform.tags[2] /\ a \in Words /\ b \in Words
  BY TransformType
<1>3. CASE transform.reasoning # "inline"
  BY <1>1, <1>3 DEF TransformDelta
<1>4. CASE transform.reasoning = "inline"
  <2>1. PICK closes : closes = (r = <<>> /\ open /\ (x # <<>> \/ last))
    OBVIOUS
  <2>2. PICK before : before = IF r # <<>> THEN (IF open THEN <<>> ELSE a) \o Texts(r)
                               ELSE IF closes THEN b ELSE <<>>
    OBVIOUS
  <2>3. e = [d EXCEPT !.content = before \o @, !.reasoning = <<>>]
    BY <1>1, <1>2, <1>4, <2>1, <2>2 DEF TransformDelta
  <2>4. e.content = before \o x /\ e.reasoning = <<>> /\ e.calls = cs
    BY <1>1, <2>3
  <2>5. before \in Words
    <3>1. (IF open THEN <<>> ELSE a) \o Texts(r) \in Words
      BY <1>2, TextsType, WordsConcat, Joins
    <3> QED
      BY <1>2, <2>2, <3>1, Joins
  <2>6. x = <<>> /\ r = <<>> /\ ~last => before \o x = <<>>
    BY <2>1, <2>2, Joins
  <2> QED
    BY <1>1, <1>4, <2>4, <2>5, <2>6, WordsConcat
<1> QED
  BY <1>3, <1>4

LEMMA CollectOfNone ==
  ASSUME NEW calls \in Ledgers
  PROVE  Collect(calls, <<>>) = calls
BY CollectFolds, Pieced!FoldNothing

(* One delta more, whichever it is of those in order.                       *)
LEMMA ShownMore ==
  ASSUME scene \in Scenes, NEW ds \in Seq(Sayings), NEW d \in Sayings, NEW last \in BOOLEAN,
         d.reasoning # <<>> => Content(ds) = <<>> /\ d.content = <<>>,
         last => Content(Append(ds, d)) # <<>>,
         transform.reasoning = "inline" => open = Thinking(ds),
         NEW shaped, shaped = TransformDelta(d, transform, open, last)
  PROVE  /\ Shown(Append(ds, d)) = Shown(ds) \o shaped.d.content
         /\ shaped.d.content \in Words
         /\ shaped.d.reasoning = IF transform.reasoning \in {"strip", "inline"} THEN <<>>
                                 ELSE d.reasoning
         /\ transform.reasoning = "inline" => shaped.open = Thinking(Append(ds, d))
<1>1. PICK a, b : a = transform.tags[1] /\ b = transform.tags[2] /\ a \in Words /\ b \in Words
  BY TransformType
<1>2. PICK th \in Seq(Words), c \in Words : th = Thoughts(ds) /\ c = Content(ds)
  BY SayingsType
<1>3. PICK r \in Seq(Words), x \in Words : r = d.reasoning /\ x = d.content
  BY DEF Sayings
<1>4. Thoughts(Append(ds, d)) = th \o r /\ Content(Append(ds, d)) = c \o x
  BY <1>2, <1>3, SayingsMore
<1>5. d = [reasoning |-> r, content |-> x, calls |-> d.calls]
  BY <1>3 DEF Sayings
<1>6. Texts(th) \in Words /\ Texts(r) \in Words /\ Texts(th \o r) = Texts(th) \o Texts(r)
  BY TextsType, TextsConcat
<1>7. th \o r = <<>> <=> th = <<>> /\ r = <<>>
  <2>1. Len(th \o r) = Len(th) + Len(r) /\ Len(th) \in Nat /\ Len(r) \in Nat
    OBVIOUS
  <2>2. \A s \in Seq(Words) : s = <<>> <=> Len(s) = 0
    OBVIOUS
  <2>3. th \o r \in Seq(Words)
    OBVIOUS
  <2> QED
    BY <2>1, <2>2, <2>3
<1>8. CASE transform.reasoning # "inline"
  <2>1. shaped.d.content = x
        /\ shaped.d.reasoning = IF transform.reasoning = "strip" THEN <<>> ELSE r
    BY <1>5, <1>8 DEF TransformDelta
  <2>2. Shown(ds) = c /\ Shown(Append(ds, d)) = c \o x
    BY <1>2, <1>4, <1>8 DEF Shown
  <2> QED
    BY <1>3, <1>8, <2>1, <2>2
<1>9. CASE transform.reasoning = "inline"
  <2>0. open = (c = <<>> /\ th # <<>>)
    BY <1>2, <1>9 DEF Thinking
  <2>1. PICK closes : closes = (r = <<>> /\ open /\ (x # <<>> \/ last))
    OBVIOUS
  <2>2. PICK before :
          before = IF r # <<>> THEN (IF open THEN <<>> ELSE a) \o Texts(r)
                   ELSE IF closes THEN b ELSE <<>>
    OBVIOUS
  <2>3. /\ shaped.d.content = before \o x /\ shaped.d.reasoning = <<>>
        /\ shaped.open = ((open \/ r # <<>>) /\ ~closes)
    <3>1. shaped = [d |-> [d EXCEPT !.content = before \o @, !.reasoning = <<>>],
                    open |-> (open \/ r # <<>>) /\ ~closes]
      BY <1>1, <1>3, <1>9, <2>1, <2>2, Zenon DEF TransformDelta
    <3>p. PICK e, o : /\ e = [d EXCEPT !.content = before \o @, !.reasoning = <<>>]
                      /\ o = ((open \/ r # <<>>) /\ ~closes)
      OBVIOUS
    <3>q. shaped = [d |-> e, open |-> o]
      BY <3>1, <3>p, Zenon
    <3>2. shaped.d = [d EXCEPT !.content = before \o @, !.reasoning = <<>>]
          /\ shaped.open = ((open \/ r # <<>>) /\ ~closes)
      <4>1. shaped.d = e /\ shaped.open = o
        BY <3>q
      <4> QED
        BY <3>p, <4>1, Zenon
    <3>3. shaped.d.content = before \o x /\ shaped.d.reasoning = <<>>
      BY <1>5, <3>2
    <3> QED
      BY <3>2, <3>3
  <2>4. Thinking(Append(ds, d)) = (c \o x = <<>> /\ th \o r # <<>>)
    BY <1>4 DEF Thinking
  <2>5. PICK old : old = Shown(ds)
    OBVIOUS
  <2>6. old = (IF th = <<>> THEN <<>> ELSE a \o Texts(th) \o (IF c = <<>> THEN <<>> ELSE b)) \o c
    BY <1>1, <1>2, <1>9, <2>5 DEF Shown
  <2>7. PICK new : new = Shown(Append(ds, d))
    OBVIOUS
  <2>8. new = (IF th \o r = <<>> THEN <<>>
               ELSE a \o Texts(th \o r) \o (IF c \o x = <<>> THEN <<>> ELSE b)) \o (c \o x)
    BY <1>1, <1>4, <1>9, <2>7 DEF Shown
  <2>9. c \o x = <<>> <=> c = <<>> /\ x = <<>>
    BY Joins
  <2>10. \/ r # <<>> /\ th = <<>>
         \/ r # <<>> /\ th # <<>>
         \/ r = <<>> /\ open /\ x # <<>>
         \/ r = <<>> /\ open /\ x = <<>>
         \/ r = <<>> /\ ~open
    BY <2>0, Zenon
  <2>11. CASE r # <<>> /\ th = <<>>
    <3>1. c = <<>> /\ x = <<>> /\ ~open
      BY <1>2, <1>3, <2>0, <2>11
    <3>2. before = a \o Texts(r) /\ ~closes
      BY <2>1, <2>2, <2>11, <3>1
    <3>3. a \o Texts(r) \in Words /\ th \o r = r /\ th \o r # <<>> /\ c \o x = <<>>
      BY <1>1, <1>6, <1>7, <2>9, <2>11, <3>1, WordsConcat
    <3>4. old = <<>>
      BY <2>6, <2>11, <3>1, Joins
    <3>5. new = a \o Texts(r)
      <4>1. PICK p \in Words : p = a \o Texts(r)
        BY <3>3
      <4>2. new = (p \o <<>>) \o <<>>
        BY <2>8, <3>3, <4>1
      <4> QED
        BY <4>1, <4>2, Joins
    <3>6. before \o x = a \o Texts(r)
      BY <3>1, <3>2, <3>3, Joins
    <3> QED
      BY <1>9, <2>3, <2>4, <2>5, <2>7, <2>11, <3>1, <3>2, <3>3, <3>4, <3>5, <3>6, Joins
  <2>12. CASE r # <<>> /\ th # <<>>
    <3>1. c = <<>> /\ x = <<>> /\ open
      BY <1>2, <1>3, <2>0, <2>12
    <3>2. before = <<>> \o Texts(r) /\ ~closes
      BY <2>1, <2>2, <2>12, <3>1
    <3>3. th \o r # <<>> /\ c \o x = <<>> /\ a \o Texts(th) \in Words
      BY <1>1, <1>6, <1>7, <2>9, <2>12, <3>1, WordsConcat
    <3>4. old = a \o Texts(th)
      BY <2>6, <2>12, <3>1, <3>3, Joins
    <3>5. a \o (Texts(th) \o Texts(r)) = (a \o Texts(th)) \o Texts(r)
          /\ a \o (Texts(th) \o Texts(r)) \in Words
      <4>1. PICK p \in Words, q \in Words : p = Texts(th) /\ q = Texts(r)
        BY <1>6
      <4>2. p \o q \in Words
        BY WordsConcat
      <4>3. a \o (p \o q) \in Words
        BY <1>1, <4>2, WordsConcat
      <4>a. a \in Words
        BY <1>1
      <4>4. (a \o p) \o q = a \o (p \o q)
        BY <4>a, Associates
      <4> QED
        BY <4>1, <4>3, <4>4
    <3>6. new = a \o (Texts(th) \o Texts(r))
      BY <1>6, <2>8, <3>3, <3>5, Joins
    <3>7. before \o x = Texts(r)
      BY <1>6, <3>1, <3>2, Joins
    <3> QED
      BY <1>6, <1>9, <2>3, <2>4, <2>5, <2>7, <2>12, <3>1, <3>2, <3>3, <3>4, <3>5, <3>6, <3>7
  <2>13. CASE r = <<>> /\ open /\ x # <<>>
    <3>1. c = <<>> /\ th # <<>> /\ closes /\ before = b
      BY <2>0, <2>1, <2>2, <2>13
    <3>2. th \o r = th /\ c \o x = x
      BY <2>13, <3>1, Joins
    <3>3. a \o Texts(th) \in Words
      BY <1>1, <1>6, WordsConcat
    <3>4. old = a \o Texts(th)
      BY <2>6, <3>1, <3>3, Joins
    <3>5. new = (a \o Texts(th) \o b) \o x
      BY <2>8, <2>13, <3>1, <3>2
    <3>6. (a \o Texts(th)) \o b \o x = (a \o Texts(th)) \o (b \o x)
      <4>1. PICK p \in Words : p = a \o Texts(th)
        BY <3>3
      <4>2. (p \o b) \o x = p \o (b \o x)
        BY <1>1, Associates, Zenon
      <4> QED
        BY <4>1, <4>2
    <3>7. b \o x \in Words
      BY <1>1, WordsConcat
    <3> QED
      BY <1>9, <2>3, <2>4, <2>5, <2>7, <2>13, <3>1, <3>2, <3>4, <3>5, <3>6, <3>7
  <2>14. CASE r = <<>> /\ open /\ x = <<>>
    <3>1. c = <<>> /\ th # <<>>
      BY <2>0, <2>14
    <3>2. th \o r = th /\ c \o x = <<>>
      BY <2>14, <3>1, Joins
    <3>3. ~last
      BY <1>4, <3>2
    <3>4. ~closes /\ before = <<>>
      BY <2>1, <2>2, <2>14, <3>3
    <3>5. old \in Words /\ new = old
      BY <2>5, <2>6, <2>8, <3>1, <3>2, ShownType
    <3>6. before \o x = <<>>
      BY <2>14, <3>4, Joins
    <3> QED
      BY <1>9, <2>3, <2>4, <2>5, <2>7, <2>14, <3>1, <3>2, <3>4, <3>5, <3>6, Joins
  <2>15. CASE r = <<>> /\ ~open
    <3>1. ~closes /\ before = <<>> /\ before \o x = x
      BY <2>1, <2>2, <2>15, Joins
    <3>2. th \o r = th
      BY <2>15
    <3>3. CASE th = <<>>
      <4>1. old = c /\ new = c \o x
        <5>1. c \o x \in Words
          BY WordsConcat
        <5> QED
          BY <2>6, <2>8, <3>2, <3>3, <5>1, Joins
      <4> QED
        BY <1>9, <2>3, <2>4, <2>5, <2>7, <2>15, <3>1, <3>2, <3>3, <4>1
    <3>4. CASE th # <<>>
      <4>1. c # <<>> /\ c \o x # <<>>
        BY <2>0, <2>9, <2>15, <3>4
      <4>2. PICK h \in Words : h = a \o Texts(th) \o b
        <5>1. a \o Texts(th) \in Words
          BY <1>1, <1>6, WordsConcat
        <5> QED
          BY <1>1, <5>1, WordsConcat
      <4>3. old = h \o c /\ new = h \o (c \o x)
        BY <2>6, <2>8, <3>2, <3>4, <4>1, <4>2
      <4>4. h \o (c \o x) = (h \o c) \o x
        BY Joins
      <4> QED
        BY <1>9, <2>3, <2>4, <2>5, <2>7, <2>15, <3>1, <3>2, <4>1, <4>3, <4>4
    <3> QED
      BY <3>3, <3>4
  <2> QED
    BY <2>10, <2>11, <2>12, <2>13, <2>14, <2>15
<1> QED
  BY <1>8, <1>9

-----------------------------------------------------------------------------
(* A replay says the text in pieces.                                        *)

LEMMA PieceCount ==
  ASSUME NEW n \in Nat, NEW k, k = (n + Piece - 1) \div Piece
  PROVE  /\ k \in Nat /\ Piece * k >= n
         /\ \A i \in Nat : i < k => Piece * i < n /\ Piece * (i + 1) = Piece * i + Piece
<1>1. Piece \in Nat /\ Piece > 0
  BY AnswerAssumption
<1>2. PICK m \in Nat : m = n + Piece - 1
  BY <1>1
<1>3. k \in Int /\ m = Piece * k + (m % Piece) /\ m % Piece \in 0 .. Piece - 1
  BY <1>1, <1>2
<1>4. PICK r \in 0 .. Piece - 1 : m = Piece * k + r
  BY <1>3
<1>5. Piece * k \in Int /\ Piece * k >= n
  BY <1>1, <1>2, <1>3, <1>4
<1>6. k \in Nat
  <2>1. SUFFICES ASSUME k < 0 PROVE FALSE
    BY <1>3
  <2>2. \A a \in Nat, b \in Int : a > 0 /\ b < 0 => a * b <= -a
    OBVIOUS
  <2>3. Piece * k <= -Piece
    BY <1>1, <1>3, <2>1, <2>2
  <2> QED
    BY <1>1, <1>2, <1>5, <2>3
<1>7. ASSUME NEW i \in Nat, i < k
      PROVE  Piece * i < n /\ Piece * (i + 1) = Piece * i + Piece
  <2>1. PICK j \in Nat : k = i + 1 + j
    <3>1. k - i - 1 \in Nat /\ k = i + 1 + (k - i - 1)
      BY <1>6, <1>7
    <3> QED
      BY <3>1
  <2>2. Piece * k = Piece * i + Piece + Piece * j /\ Piece * (i + 1) = Piece * i + Piece
    BY <1>1, <2>1
  <2>3. Piece * i \in Nat /\ Piece * j \in Nat
    BY <1>1, Product
  <2> QED
    BY <1>1, <1>2, <1>4, <1>5, <2>2, <2>3
<1> QED
  BY <1>5, <1>6, <1>7

LEMMA PiecesAreWhole ==
  ASSUME NEW text \in Words
  PROVE  Texts(Pieces(text)) = text
<1>1. PICK len \in Nat : len = Len(text)
  BY DEF Words
<1>2. PICK k : k = (len + Piece - 1) \div Piece
  OBVIOUS
<1>3. /\ k \in Nat /\ Piece * k >= len
      /\ \A i \in Nat : i < k => Piece * i < len /\ Piece * (i + 1) = Piece * i + Piece
  BY <1>1, <1>2, PieceCount
<1>4. Piece \in Nat /\ Piece > 0
  BY AnswerAssumption
<1>5. PICK ps : ps = Pieces(text)
  OBVIOUS
<1>6. ps = [i \in 1 .. k |-> SubSeq(text, Piece * (i - 1) + 1, Least(Piece * i, len))]
  BY <1>1, <1>2, <1>5 DEF Pieces
<1>7. ASSUME NEW i \in 1 .. k
      PROVE  SubSeq(text, Piece * (i - 1) + 1, Least(Piece * i, len)) \in Words
  <2>1. i - 1 \in Nat /\ i \in Nat
    BY <1>3
  <2>2. Piece * (i - 1) \in Nat /\ Piece * i \in Nat
    BY <1>4, <2>1, Product
  <2>3. PICK a \in Nat, b \in Nat : /\ a = Piece * (i - 1) + 1 /\ b = Least(Piece * i, len)
                                   /\ a >= 1 /\ b <= len
    BY <1>1, <2>2 DEF Least
  <2>4. SubSeq(text, a, b) \in Words
    BY <1>1, <2>3 DEF Words
  <2> QED
    BY <2>3, <2>4
<1>8. ps \in Seq(Words) /\ Len(ps) = k
  BY <1>3, <1>6, <1>7
<1>e. PICK end : end = [n \in Nat |-> Least(Piece * n, len)]
  OBVIOUS
<1>9. PICK N : N = {n \in Nat : n <= k => Texts(SubSeq(ps, 1, n)) = SubSeq(text, 1, end[n])}
  OBVIOUS
<1>10. 0 \in N
  <2>1. SubSeq(ps, 1, 0) = <<>> /\ end[0] = 0 /\ SubSeq(text, 1, 0) = <<>>
    BY <1>1, <1>4, <1>8, <1>e DEF Least, Words
  <2> QED
    BY <1>9, <2>1, TextsOfNone
<1>11. ASSUME NEW n \in N
       PROVE  n + 1 \in N
  <2>0. n \in Nat
    BY <1>9
  <2>1. SUFFICES ASSUME n + 1 <= k
                 PROVE  Texts(SubSeq(ps, 1, n + 1)) = SubSeq(text, 1, end[n + 1])
    BY <1>9, <2>0
  <2>2. Piece * n < len /\ Piece * (n + 1) = Piece * n + Piece /\ Piece * n \in Nat
    BY <1>3, <1>4, <2>0, <2>1, Product
  <2>3. PICK a \in Nat, b \in Nat :
          /\ a = Piece * n /\ b = Least(Piece * (n + 1), len)
          /\ a <= b /\ b <= len /\ end[n] = a /\ end[n + 1] = b
    <3>1. PICK a \in Nat, b \in Nat : a = Piece * n /\ b = Least(Piece * (n + 1), len)
                                     /\ a <= b /\ b <= len
      BY <1>1, <1>4, <2>0, <2>2 DEF Least
    <3>2. end[n] = Least(Piece * n, len) /\ end[n + 1] = b
      BY <1>e, <2>0, <3>1
    <3>3. Least(Piece * n, len) = a
      BY <2>2, <3>1 DEF Least
    <3> QED
      BY <3>1, <3>2, <3>3
  <2>4. /\ SubSeq(ps, 1, n) \in Seq(Words)
        /\ SubSeq(ps, 1, n + 1) = Append(SubSeq(ps, 1, n), ps[n + 1])
        /\ ps[n + 1] \in Words
    BY <1>8, <2>0, <2>1
  <2>5. ps[n + 1] = SubSeq(text, a + 1, b)
    <3>1. n + 1 \in 1 .. k /\ (n + 1) - 1 = n
      BY <1>3, <2>0, <2>1
    <3> QED
      BY <1>6, <2>3, <3>1
  <2>6. Texts(SubSeq(ps, 1, n)) = SubSeq(text, 1, a)
    BY <1>3, <1>9, <2>0, <2>1, <2>3
  <2>7. Texts(SubSeq(ps, 1, n + 1)) = SubSeq(text, 1, a) \o SubSeq(text, a + 1, b)
    BY <2>4, <2>5, <2>6, TextsMore
  <2>8. SubSeq(text, 1, a) \o SubSeq(text, a + 1, b) = SubSeq(text, 1, b)
    <3>1. PICK p, q, w : /\ p = SubSeq(text, 1, a) /\ q = SubSeq(text, a + 1, b)
                         /\ w = SubSeq(text, 1, b)
      OBVIOUS
    <3>0. text \in Seq(Strings)
      BY DEF Words
    <3>2. /\ p \in Seq(Strings) /\ Len(p) = a /\ q \in Seq(Strings) /\ Len(q) = b - a
          /\ w \in Seq(Strings) /\ Len(w) = b
          /\ \A i \in 1 .. a : p[i] = text[i]
          /\ \A i \in 1 .. b - a : q[i] = text[a + i]
          /\ \A i \in 1 .. b : w[i] = text[i]
      <4>1. p \in Seq(Strings) /\ Len(p) = a /\ \A i \in 1 .. a : p[i] = text[i]
        BY <1>1, <2>3, <3>0, <3>1
      <4>2. w \in Seq(Strings) /\ Len(w) = b /\ \A i \in 1 .. b : w[i] = text[i]
        BY <1>1, <2>3, <3>0, <3>1
      <4>3. q \in Seq(Strings) /\ Len(q) = b - a
        BY <1>1, <2>3, <3>0, <3>1
      <4>4. ASSUME NEW i \in 1 .. b - a
            PROVE  q[i] = text[a + i]
        <5>1. (a + 1) + i - 1 = a + i
          BY <2>3
        <5> QED
          BY <1>1, <2>3, <3>0, <3>1, <5>1
      <4> QED
        BY <4>1, <4>2, <4>3, <4>4
    <3>3. p \o q \in Seq(Strings) /\ Len(p \o q) = b
      <4>0. p \in Seq(Strings) /\ q \in Seq(Strings)
        BY <3>2
      <4>1. p \o q \in Seq(Strings) /\ Len(p \o q) = Len(p) + Len(q)
        BY <4>0
      <4>2. a + (b - a) = b
        BY <2>3
      <4> QED
        BY <3>2, <4>1, <4>2
    <3>4. ASSUME NEW i \in 1 .. Len(w)
          PROVE  w[i] = (p \o q)[i]
      <4>0. p \in Seq(Strings) /\ q \in Seq(Strings) /\ Len(p) = a /\ Len(q) = b - a
        BY <3>2
      <4>1. i \in 1 .. b /\ i \in 1 .. a + (b - a)
        BY <2>3, <3>2
      <4>2. (p \o q)[i] = IF i <= a THEN p[i] ELSE q[i - a]
        BY <4>0, <4>1, ConcatProperties
      <4>3. w[i] = text[i]
        BY <3>2, <4>1
      <4>4. CASE i <= a
        <5>1. i \in 1 .. a
          BY <2>3, <4>1, <4>4
        <5> QED
          BY <3>2, <4>2, <4>3, <4>4, <5>1
      <4>5. CASE ~(i <= a)
        <5>1. i - a \in 1 .. b - a /\ a + (i - a) = i
          BY <2>3, <4>1, <4>5
        <5>2. q[i - a] = text[a + (i - a)]
          BY <3>2, <5>1
        <5> QED
          BY <4>2, <4>3, <4>5, <5>1, <5>2
      <4> QED
        BY <4>4, <4>5
    <3>5. w = p \o q
      BY <3>2, <3>3, <3>4, SeqEqual
    <3> QED
      BY <3>1, <3>5
  <2> QED
    BY <2>3, <2>7, <2>8
<1>12. k \in N
  <2>1. N = Nat
    BY <1>9, <1>10, <1>11, Joined!AllOfNat
  <2> QED
    BY <1>3, <2>1
<1>13. SubSeq(ps, 1, k) = ps /\ end[k] = len /\ SubSeq(text, 1, len) = text
  BY <1>1, <1>3, <1>4, <1>8, <1>e DEF Least, Words
<1>14. k <= k
  BY <1>3
<1>15. Texts(SubSeq(ps, 1, k)) = SubSeq(text, 1, end[k])
  BY <1>9, <1>12, <1>14
<1> QED
  BY <1>5, <1>13, <1>15

-----------------------------------------------------------------------------
(* What has been told to a streaming caller, of what the backend has said.  *)
SaidInv ==
  pc \notin {"refused", "over"} /\ ask.streams /\ InOrder =>
    /\ DOMAIN said = {"reasoning", "content", "calls"}
    /\ DOMAIN transform.replace = {} \/ CallsApart => said.calls = Calls(Before)
    /\ said.reasoning = IF transform.reasoning \in {"strip", "inline"} THEN <<>>
                        ELSE Thoughts(Before)
    /\ Content(Before) # <<>> => \E i \in 1 .. next - 1 : reply.deltas[i].content # <<>>
    /\ next <= Len(reply.deltas) \/ Content(Before) # <<>> =>
         /\ said.content \in Words /\ pending \in Words
         /\ said.content \o Rewritten(pending) = Rewritten(Pushed(Shown(Before)))
         /\ prefixed = (Shown(Before) # <<>>)
         /\ transform.reasoning = "inline" => open = Thinking(Before)

LEMMA SaidInit ==
  ASSUME Init
  PROVE  SaidInv /\ StreamedIsWhole
<1>1. /\ scene \in Scenes /\ pc = "asked" /\ next = 1 /\ said = Nothing /\ open = FALSE
      /\ pending = <<>> /\ prefixed = FALSE
  BY DEF Init
<1>2. PICK ds \in Seq(Sayings) : ds = reply.deltas
  BY <1>1, RepliesType
<1>3. SubSeq(ds, 1, next - 1) = <<>>
  BY <1>1, <1>2
<1>4. Before = <<>>
  BY <1>2, <1>3 DEF Before
<1>5. Shown(<<>>) = <<>>
  BY SayingsOfNone, Joins DEF Shown
<1>6. Pushed(<<>>) = <<>> /\ Rewritten(<<>>) = <<>> /\ <<>> \in Words /\ <<>> \o <<>> = <<>>
  BY <1>1, RewrittenType, Joins DEF Pushed
<1> QED
  BY <1>1, <1>4, <1>5, <1>6, SayingsOfNone DEF SaidInv, StreamedIsWhole, Done, Nothing, Thinking

LEMMA SaidStep ==
  ASSUME BillInv, HeardInv, SaidInv, [Next]_vars
  PROVE  SaidInv'
<1>0. scene \in Scenes /\ scene' = scene
  BY DEF BillInv, Next, vars, Prepare, Count, Delta, Break, CloseStream, CloseIntoJson,
         Buffered, BadReply
<1>s. /\ ask' = ask /\ reply' = reply /\ transform' = transform /\ InOrder' = InOrder
      /\ CallsApart' = CallsApart
  BY <1>0, SameScene DEF InOrder, CallsApart
<1>1. CASE /\ pc \notin {"refused", "over"} /\ UNCHANGED <<next, relayed, open>>
  <2>1. Before' = Before
    BY <1>1, <1>s DEF Before
  <2>2. /\ Shown(Before)' = Shown(Before) /\ Thinking(Before)' = Thinking(Before)
        /\ Rewritten(Pushed(Shown(Before)))' = Rewritten(Pushed(Shown(Before)))
        /\ Rewritten(pending)' = Rewritten(pending)
    BY <1>1, <1>s, <2>1 DEF Shown, Pushed, Rewritten, Thinking, relayed
  <2> QED
    BY <1>1, <1>s, <2>1, <2>2 DEF SaidInv, relayed
<1>2. CASE Delta
  <2>1. SUFFICES ASSUME ask.streams, InOrder
                 PROVE  SaidInv'
    BY <1>s DEF SaidInv
  <2>2. PICK d \in Sayings, ds \in Seq(Sayings), n \in Nat, len \in Nat :
          /\ d = reply.deltas[next] /\ ds = Before /\ n = next /\ len = Len(reply.deltas)
          /\ SubSeq(reply.deltas, 1, n) = Append(ds, d) /\ 1 <= n /\ n <= len
    <3>1. pc = "sent" /\ next <= Len(reply.deltas)
      BY <1>2 DEF Delta
    <3>2. next \in 1 .. Len(reply.deltas) + 1 /\ Len(reply.deltas) \in Nat
      BY <1>0, <3>1, RepliesType DEF HeardInv
    <3> QED
      BY <1>0, <3>1, <3>2, BeforeType
  <2>3. PICK shaped : shaped = TransformDelta(d, transform, open, next = Len(reply.deltas))
    OBVIOUS
  <2>4. /\ pc = "sent" /\ pc' = "sent" /\ next' = n + 1 /\ open' = shaped.open
        /\ Relay(shaped.d)
    BY <1>2, <2>1, <2>2, <2>3 DEF Delta
  <2>5. PICK last \in BOOLEAN : last = (n = len)
    OBVIOUS
  <2>l. last <=> n = len
    BY <2>5, Zenon
  <2>6. shaped = TransformDelta(d, transform, open, last)
    BY <2>2, <2>3, <2>5
  <2>7. /\ DOMAIN said = {"reasoning", "content", "calls"}
        /\ DOMAIN transform.replace = {} \/ CallsApart => said.calls = Calls(ds)
        /\ said.reasoning = IF transform.reasoning \in {"strip", "inline"} THEN <<>>
                            ELSE Thoughts(ds)
        /\ Content(ds) # <<>> => \E i \in 1 .. n - 1 : reply.deltas[i].content # <<>>
        /\ said.content \in Words /\ pending \in Words
        /\ said.content \o Rewritten(pending) = Rewritten(Pushed(Shown(ds)))
        /\ prefixed = (Shown(ds) # <<>>)
        /\ transform.reasoning = "inline" => open = Thinking(ds)
    BY <2>1, <2>2, <2>4 DEF SaidInv
  <2>8. /\ d.reasoning # <<>> => Content(ds) = <<>> /\ d.content = <<>>
        /\ last => d.reasoning = <<>>
    <3>1. /\ \A i, j \in 1 .. len : i <= j /\ reply.deltas[i].content # <<>> =>
                                      reply.deltas[j].reasoning = <<>>
          /\ len > 0 => reply.deltas[len].reasoning = <<>>
      BY <2>1, <2>2, Zenon DEF InOrder
    <3>2. n \in 1 .. len /\ \A i \in 1 .. n - 1 : i \in 1 .. len /\ i <= n
      BY <2>2
    <3>3. d.content # <<>> => d.reasoning = <<>>
      BY <2>2, <3>1, <3>2
    <3>4. Content(ds) # <<>> => d.reasoning = <<>>
      BY <2>2, <2>7, <3>1, <3>2
    <3> QED
      BY <2>2, <2>l, <3>1, <3>2, <3>3, <3>4
  <2>9. Before' = Append(ds, d)
    <3>1. (n + 1) - 1 = n
      OBVIOUS
    <3> QED
      BY <1>s, <2>2, <2>4, <3>1 DEF Before
  <2>10. PICK more : more = Append(ds, d)
    OBVIOUS
  <2>a. PICK e : e = shaped.d
    OBVIOUS
  <2>b. /\ e.content \in Words /\ e.calls = d.calls
        /\ e.reasoning = IF transform.reasoning \in {"strip", "inline"} THEN <<>> ELSE d.reasoning
        /\ transform.reasoning # "inline" => e.content = d.content
        /\ /\ d.content = <<>> /\ d.reasoning = <<>> /\ ~last
           => e.content = <<>>
    BY <1>0, <2>6, <2>a, ShapedType
  <2>c. Shown(ds) \in Words
    BY <1>0, ShownType
  <2>d. /\ prefixed' = (Shown(ds) \o e.content # <<>>)
        /\ said'.content \in Words /\ pending' \in Words
        /\ said'.content \o Rewritten(pending') = Rewritten(Pushed(Shown(ds) \o e.content))
        /\ DOMAIN said' = {"reasoning", "content", "calls"}
        /\ \/ /\ said'.reasoning = said.reasoning \o e.reasoning
              /\ said'.calls = Collect(said.calls, e.calls)
           \/ /\ said' = said /\ e.content # <<>> /\ DOMAIN transform.replace # {}
    BY <1>0, <2>4, <2>7, <2>a, <2>b, <2>c, RelayMore
  <2>11. DOMAIN transform.replace = {} \/ CallsApart => said'.calls = Calls(more)
    <3>1. Calls(more) = Collect(Calls(ds), d.calls)
      BY <2>10, SayingsMore
    <3>2. CASE said'.calls = Collect(said.calls, e.calls)
      BY <2>7, <2>b, <3>1, <3>2
    <3>3. CASE said' = said /\ e.content # <<>> /\ DOMAIN transform.replace # {}
      <4>1. CallsApart /\ d.calls # <<>> =>
              d.content = <<>> /\ (transform.reasoning = "inline" => n < len /\ d.reasoning = <<>>)
        <5>1. CallsApart => \A i \in 1 .. len : reply.deltas[i].calls # <<>> =>
                /\ reply.deltas[i].content = <<>>
                /\ transform.reasoning = "inline" => i < len /\ reply.deltas[i].reasoning = <<>>
          BY <2>2 DEF CallsApart
        <5> QED
          BY <2>2, <5>1
      <4>2. CallsApart => d.calls = <<>>
        BY <2>2, <2>l, <2>b, <3>3, <4>1
      <4>3. Calls(ds) \in Ledgers
        BY SayingsType
      <4>4. d.calls = <<>> => Calls(more) = Calls(ds)
        BY <3>1, <4>3, CollectOfNone
      <4> QED
        BY <2>7, <3>3, <4>2, <4>4
    <3> QED
      BY <2>d, <3>2, <3>3
  <2>12. Content(more) # <<>> => \E i \in 1 .. n : reply.deltas[i].content # <<>>
    <3>1. Content(more) = Content(ds) \o d.content /\ Content(ds) \in Words /\ d.content \in Words
      BY <2>10, SayingsMore, SayingsType DEF Sayings
    <3>2. Content(more) # <<>> => Content(ds) # <<>> \/ d.content # <<>>
      BY <3>1, Joins
    <3>3. n \in 1 .. n /\ \A i \in 1 .. n - 1 : i \in 1 .. n
      BY <2>2
    <3> QED
      BY <2>2, <2>7, <3>2, <3>3
  <2>13. said'.reasoning = IF transform.reasoning \in {"strip", "inline"} THEN <<>>
                           ELSE Thoughts(more)
    <3>1. Thoughts(more) = Thoughts(ds) \o d.reasoning /\ Thoughts(ds) \in Seq(Words)
      BY <2>10, SayingsMore, SayingsType
    <3>2. <<>> \o <<>> = <<>> /\ \A t \in Seq(Words) : t \o <<>> = t
      OBVIOUS
    <3>3. CASE said'.reasoning = said.reasoning \o e.reasoning
      BY <2>7, <2>b, <3>1, <3>2, <3>3
    <3>4. CASE said' = said /\ e.content # <<>>
      <4>1. transform.reasoning # "inline" => d.reasoning = <<>>
        BY <2>8, <2>b, <3>4
      <4> QED
        BY <2>7, <3>1, <3>2, <3>4, <4>1
    <3> QED
      BY <2>d, <3>3, <3>4
  <2>14. ASSUME n + 1 <= len \/ Content(more) # <<>>
         PROVE  /\ said'.content \in Words /\ pending' \in Words
                /\ said'.content \o Rewritten(pending') = Rewritten(Pushed(Shown(more)))
                /\ prefixed' = (Shown(more) # <<>>)
                /\ transform.reasoning = "inline" => open' = Thinking(more)
    <3>1. last => Content(Append(ds, d)) # <<>>
      BY <2>2, <2>l, <2>10, <2>14
    <3>2. /\ Shown(more) = Shown(ds) \o shaped.d.content
          /\ transform.reasoning = "inline" => shaped.open = Thinking(more)
      BY <1>0, <2>6, <2>7, <2>8, <2>10, <3>1, ShownMore
    <3> QED
      BY <2>4, <2>a, <2>d, <3>2
  <2>16. /\ Before' = more /\ next' = n + 1 /\ next' - 1 = n
    BY <2>4, <2>9, <2>10
  <2>17. /\ (Shown(Before))' = Shown(more) /\ (Thinking(Before))' = Thinking(more)
         /\ (Rewritten(Pushed(Shown(Before))))' = Rewritten(Pushed(Shown(more)))
         /\ (Rewritten(pending))' = Rewritten(pending')
    BY <1>s, <2>16 DEF Shown, Pushed, Rewritten, Thinking
  <2> QED
    BY <1>s, <2>2, <2>d, <2>11, <2>12, <2>13, <2>14, <2>16, <2>17 DEF SaidInv
<1>3. CASE CloseStream \/ CloseIntoJson \/ Buffered \/ BadReply
  BY <1>3 DEF CloseStream, CloseIntoJson, Buffered, BadReply, SaidInv
<1>4. CASE Prepare \/ Count \/ Break
  BY <1>1, <1>4 DEF Prepare, Count, Break, relayed
<1>5. CASE UNCHANGED vars
  <2>1. CASE pc \in {"refused", "over"}
    BY <1>5, <2>1 DEF vars, SaidInv
  <2>2. CASE pc \notin {"refused", "over"}
    BY <1>1, <1>5, <2>2 DEF vars
  <2> QED
    BY <2>1, <2>2
<1> QED
  BY <1>2, <1>3, <1>4, <1>5 DEF Next

-----------------------------------------------------------------------------
(* The answer in one piece, reshaped.                                       *)
LEMMA WholeMessage ==
  ASSUME scene \in Scenes, Whole.content # <<>>,
         NEW m, m = TransformMessage(Whole, transform)
  PROVE  /\ reply.deltas \in Seq(Sayings)
         /\ Content(reply.deltas) # <<>> /\ Whole.content = Content(reply.deltas)
         /\ Shown(reply.deltas) # <<>>
         /\ m.content = Wrapped(Shown(reply.deltas), transform)
         /\ m.content = Put(Shown(reply.deltas)) \o transform.suffix
         /\ m.content \in Words
         /\ Texts(m.reasoning) = IF transform.reasoning \in {"strip", "inline"} THEN <<>>
                                 ELSE Texts(Thoughts(reply.deltas))
         /\ m.calls = Calls(reply.deltas)
<1>1. PICK ds \in Seq(Sayings) : ds = reply.deltas
  BY RepliesType
<1>2. PICK th \in Seq(Words), c \in Words : th = Thoughts(ds) /\ c = Content(ds)
  BY SayingsType
<1>3. PICK h : h = IF th = <<>> THEN <<>> ELSE <<Texts(th)>>
  OBVIOUS
<1>4. Whole = [reasoning |-> h, content |-> c, calls |-> Calls(ds)] /\ c # <<>>
  BY <1>1, <1>2, <1>3, WholeIsOfAll DEF WholeOf
<1>5. Texts(th) \in Words
  BY TextsType
<1>6. Texts(h) = Texts(th) /\ (h # <<>> <=> th # <<>>)
  <2>1. CASE th = <<>>
    BY <1>3, <2>1
  <2>2. CASE th # <<>>
    BY <1>3, <1>5, <2>2, TextsOfOne
  <2> QED
    BY <2>1, <2>2
<1>7. PICK a, b : a = transform.tags[1] /\ b = transform.tags[2] /\ a \in Words /\ b \in Words
  BY TransformType
<1>8. PICK inlined \in Words :
        inlined = IF transform.reasoning = "inline" /\ th # <<>> THEN a \o Texts(th) \o b ELSE <<>>
  <2>1. a \o Texts(th) \in Words
    BY <1>5, <1>7, WordsConcat
  <2>2. a \o Texts(th) \o b \in Words
    BY <1>7, <2>1, WordsConcat
  <2> QED
    BY <2>2, Joins
<1>9. Shown(ds) = inlined \o c
  <2>1. <<>> \o c = c
    BY Joins
  <2> QED
    BY <1>2, <1>4, <1>7, <1>8, <2>1 DEF Shown
<1>10. PICK text \in Words : text = inlined \o c /\ text # <<>>
  BY <1>4, <1>8, WordsConcat, Joins
<1>11. m = [Whole EXCEPT !.content = Wrapped(text, transform),
                         !.reasoning = IF transform.reasoning \in {"strip", "inline"}
                                       THEN <<>> ELSE @]
  <2>1. (IF transform.reasoning = "inline" /\ Whole.reasoning # <<>>
         THEN transform.tags[1] \o Texts(Whole.reasoning) \o transform.tags[2] ELSE <<>>) = inlined
    BY <1>4, <1>6, <1>7, <1>8
  <2>2. inlined \o Whole.content = text
    BY <1>4, <1>10
  <2> QED
    BY <1>10, <2>1, <2>2 DEF TransformMessage
<1>12. /\ m.content = Wrapped(text, transform) /\ m.calls = Calls(ds)
       /\ m.reasoning = IF transform.reasoning \in {"strip", "inline"} THEN <<>> ELSE h
  BY <1>4, <1>11
<1>13. Wrapped(text, transform) \in Words
  BY WrappedType
<1>14. Wrapped(text, transform) = Put(text) \o transform.suffix
  BY <1>10 DEF Wrapped, Put
<1>15. Texts(m.reasoning) = IF transform.reasoning \in {"strip", "inline"} THEN <<>> ELSE Texts(th)
  BY <1>6, <1>12, TextsOfNone
<1> QED
  BY <1>1, <1>2, <1>4, <1>9, <1>10, <1>12, <1>13, <1>14, <1>15

LEMMA WholeStep ==
  ASSUME BillInv, HeardInv, SaidInv, StreamedIsWhole, [Next]_vars
  PROVE  StreamedIsWhole'
<1>0. scene \in Scenes /\ scene' = scene
  BY DEF BillInv, Next, vars, Prepare, Count, Delta, Break, CloseStream, CloseIntoJson,
         Buffered, BadReply
<1>s. /\ ask' = ask /\ reply' = reply /\ transform' = transform /\ InOrder' = InOrder
      /\ CallsApart' = CallsApart /\ Whole' = Whole /\ Pumps' = Pumps
  <2>1. /\ ask' = ask /\ reply' = reply /\ transform' = transform /\ InOrder' = InOrder
        /\ CallsApart' = CallsApart
    BY <1>0, SameScene DEF InOrder, CallsApart
  <2>2. Pumps' = Pumps
    BY <1>0, SameScene DEF Pumps, StreamUpstream
  <2>3. Whole' = Whole
    BY <2>1 DEF Whole, FoldLeft, MapThenFoldSet
  <2> QED
    BY <2>1, <2>2, <2>3
<1>1. CASE Prepare \/ Count \/ Delta \/ Break \/ BadReply
  BY <1>1 DEF Prepare, Count, Delta, Break, BadReply, StreamedIsWhole, Done
<1>2. PICK m : m = TransformMessage(Whole, transform)
  OBVIOUS
<1>3. TransformMessage(Whole, transform)' = m
  BY <1>2, <1>s
<1>4. CASE CloseStream
  <2>1. SUFFICES ASSUME ~broken, Whole.content # <<>>, InOrder
                 PROVE  /\ Rewrite(transform.replace, transform.prefix) = transform.prefix =>
                             said'.content = m.content
                        /\ Texts(said'.reasoning) = Texts(m.reasoning)
                        /\ DOMAIN transform.replace = {} \/ CallsApart => said'.calls = m.calls
    <3>1. Pumps /\ ask.streams /\ broken' = broken
      BY <1>4 DEF CloseStream
    <3> QED
      BY <1>2, <1>3, <1>s, <2>1, <3>1 DEF StreamedIsWhole
  <2>2. /\ pc = "sent" /\ Pumps /\ ask.streams /\ next > Len(reply.deltas)
        /\ said' = [said EXCEPT !.content = @ \o Rewritten(pending) \o transform.suffix]
    BY <1>4, <2>1 DEF CloseStream, Rewritten
  <2>3. Before = reply.deltas
    BY <1>0, <2>2, BeforeType DEF HeardInv
  <2>4. /\ Content(reply.deltas) # <<>> /\ reply.deltas \in Seq(Sayings)
        /\ Shown(reply.deltas) # <<>>
        /\ m.content = Put(Shown(reply.deltas)) \o transform.suffix
        /\ Texts(m.reasoning) = IF transform.reasoning \in {"strip", "inline"} THEN <<>>
                                ELSE Texts(Thoughts(reply.deltas))
        /\ m.calls = Calls(reply.deltas)
    BY <1>0, <1>2, <2>1, WholeMessage
  <2>5. /\ DOMAIN transform.replace = {} \/ CallsApart => said.calls = Calls(reply.deltas)
        /\ said.reasoning = IF transform.reasoning \in {"strip", "inline"} THEN <<>>
                            ELSE Thoughts(reply.deltas)
        /\ said.content \o Rewritten(pending) = Rewritten(Pushed(Shown(reply.deltas)))
    BY <2>1, <2>2, <2>3, <2>4 DEF SaidInv
  <2>6. DOMAIN said = {"reasoning", "content", "calls"}
    BY <2>1, <2>2 DEF SaidInv
  <2>7. /\ said'.content = said.content \o Rewritten(pending) \o transform.suffix
        /\ said'.reasoning = said.reasoning /\ said'.calls = said.calls
    BY <2>2, <2>6
  <2>8. PICK shown \in Words, prefix \in Words :
          shown = Shown(reply.deltas) /\ prefix = transform.prefix
    BY <1>0, <2>4, ShownType, TransformType
  <2>9. Rewritten(prefix) = prefix => Rewritten(Pushed(shown)) = Put(shown)
    <3>1. Pushed(shown) = prefix \o shown /\ Put(shown) = prefix \o Rewritten(shown)
      BY <2>4, <2>8 DEF Pushed, Put, Rewritten
    <3>2. Rewritten(prefix \o shown) = Rewritten(prefix) \o Rewritten(shown)
      BY <1>0, RewrittenType
    <3> QED
      BY <3>1, <3>2
  <2>10. Rewritten(prefix) = prefix => said'.content = m.content
    BY <2>4, <2>5, <2>7, <2>8, <2>9
  <2>11. Texts(said'.reasoning) = Texts(m.reasoning)
    BY <2>4, <2>5, <2>7, TextsOfNone
  <2>12. DOMAIN transform.replace = {} \/ CallsApart => said'.calls = m.calls
    BY <2>4, <2>5, <2>7
  <2> QED
    BY <2>8, <2>10, <2>11, <2>12 DEF Rewritten
<1>5. CASE CloseIntoJson
  <2>1. SUFFICES ASSUME ~broken, Whole.content # <<>>, transform.reasoning # "inline"
                 PROVE  /\ said'.content = m.content
                        /\ Texts(said'.reasoning) = Texts(m.reasoning)
                        /\ said'.calls = m.calls
    BY <1>2, <1>3, <1>5, <1>s DEF StreamedIsWhole, CloseIntoJson
  <2>2. /\ pc = "sent" /\ next > Len(reply.deltas)
        /\ said' = Assembled(Wrapped(heard.content, transform),
                             IF transform.reasoning = "strip" THEN <<>> ELSE heard.reasoning,
                             heard.calls)
    BY <1>5, <2>1 DEF CloseIntoJson
  <2>3. Before = reply.deltas /\ heard = WholeOf(reply.deltas) /\ reply.deltas \in Seq(Sayings)
    BY <1>0, <2>2, BeforeType, RepliesType DEF HeardInv
  <2>4. /\ m.content = Wrapped(Shown(reply.deltas), transform)
        /\ Texts(m.reasoning) = IF transform.reasoning \in {"strip", "inline"} THEN <<>>
                                ELSE Texts(Thoughts(reply.deltas))
        /\ m.calls = Calls(reply.deltas)
    BY <1>0, <1>2, <2>1, WholeMessage
  <2>5. Shown(reply.deltas) = Content(reply.deltas)
    BY <2>1 DEF Shown
  <2>6. heard.content = Content(reply.deltas) /\ heard.calls = Calls(reply.deltas)
        /\ Texts(heard.reasoning) = Texts(Thoughts(reply.deltas))
    <3>1. PICK th \in Seq(Words) : th = Thoughts(reply.deltas)
      BY <2>3, SayingsType
    <3>2. Texts(th) \in Words
      BY TextsType
    <3>3. heard.reasoning = IF th = <<>> THEN <<>> ELSE <<Texts(th)>>
      BY <2>3, <3>1 DEF WholeOf
    <3>4. Texts(heard.reasoning) = Texts(th)
      BY <3>2, <3>3, TextsOfOne
    <3> QED
      BY <2>3, <3>1, <3>4 DEF WholeOf
  <2>7. PICK r : r = IF transform.reasoning = "strip" THEN <<>> ELSE heard.reasoning
    OBVIOUS
  <2>8. /\ said'.content = Wrapped(heard.content, transform) /\ said'.calls = heard.calls
        /\ said'.reasoning = IF Texts(r) = <<>> THEN <<>> ELSE r
    BY <2>2, <2>7 DEF Assembled
  <2>9. Texts(said'.reasoning) = Texts(r)
    BY <2>8, TextsOfNone
  <2>10. Texts(r) = IF transform.reasoning = "strip" THEN <<>> ELSE Texts(Thoughts(reply.deltas))
    BY <2>6, <2>7, TextsOfNone
  <2> QED
    BY <2>1, <2>4, <2>5, <2>6, <2>8, <2>9, <2>10
<1>6. CASE Buffered
  <2>1. SUFFICES ASSUME Whole.content # <<>>
                 PROVE  said'.content = m.content
    BY <1>2, <1>3, <1>6, <1>s DEF StreamedIsWhole, Buffered
  <2>2. said' = IF ask.streams THEN [Nothing EXCEPT !.content = Texts(Pieces(m.content))] ELSE m
    BY <1>2, <1>6 DEF Buffered
  <2>3. m.content \in Words
    BY <1>0, <1>2, <2>1, WholeMessage
  <2> QED
    BY <2>2, <2>3, PiecesAreWhole DEF Nothing
<1>7. CASE UNCHANGED vars
  BY <1>2, <1>3, <1>7, <1>s DEF vars, relayed, StreamedIsWhole, Done
<1> QED
  BY <1>1, <1>4, <1>5, <1>6, <1>7 DEF Next

-----------------------------------------------------------------------------
(* A caller is charged by the rates /v1/models published, at the band of the *)
(* effort it asked for, in every configuration: charged_to_caller and cost   *)
(* read the same card as the listing, whatever the figures.                  *)
THEOREM AnswerPublished == Spec => []PublishedIsCharged
<1>1. BillInv => PublishedIsCharged
  BY PublishedOfBill
<1> QED
  BY <1>1, BillAlways, PTL

(* count_prompt and charged_to_caller never grant a cache discount the relay *)
(* did not itself receive behind its own words, and none below the floor.    *)
THEOREM AnswerCredit == Spec => []CreditWasReceived
<1>1. BillInv => CreditWasReceived
  BY CreditOfBill
<1> QED
  BY <1>1, BillAlways, PTL

(* What count_prompt bills is the count of the body the backend was sent,    *)
(* also when it is found by subtraction instead of by counting that body.    *)
THEOREM AnswerBilled == Spec => []BilledIsTheBodySent
<1>1. BillInv => BilledIsTheBodySent
  BY BodyIsBilled
<1> QED
  BY <1>1, BillAlways, PTL

(* A parameter either listing advertises for a model passes params and       *)
(* shape_for_deepseek and reaches the backend, for every route and caller.   *)
THEOREM AnswerAdvertised == Spec => []AdvertisedArrives
<1>1. BillInv => AdvertisedArrives
  BY BodyArrives
<1> QED
  BY <1>1, BillAlways, PTL

(* Streamed, assembled, replayed or answered in one piece, what a caller is  *)
(* told is the same, in the cases StreamedIsWhole names: for every answer a  *)
(* backend can give, however it is cut into deltas, whatever is held back of *)
(* it, and whatever the route makes of its thinking.                         *)
THEOREM AnswerStreamed == Spec => []StreamedIsWhole
<1>1. Init => SaidInv /\ StreamedIsWhole
  BY SaidInit
<1>2. BillInv /\ HeardInv /\ SaidInv /\ StreamedIsWhole /\ [Next]_vars
        => (SaidInv /\ StreamedIsWhole)'
  BY SaidStep, WholeStep
<1> QED
  BY <1>1, <1>2, BillAlways, PTL DEF Spec
=============================================================================
