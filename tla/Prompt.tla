-------------------------------- MODULE Prompt --------------------------------
(***************************************************************************)
(* The caller's body on its way to a backend, and its tokens: the request  *)
(* side of relay/transform.rs, tokenizer/chat.rs and the counting half of  *)
(* tokenizer/mod.rs.                                                       *)
(*                                                                         *)
(* A body is [messages, params]: messages are [role, text, extra], a text  *)
(* a sequence of words of one token each and `extra` the tokens of a       *)
(* message's name, images, sound and calls; params is a function from the  *)
(* names of the other fields that are there.  A rewrite rule replaces one  *)
(* word: Stream.tla has patterns, and where text may be cut.               *)
(***************************************************************************)
EXTENDS Listing, FiniteSetsExt, TLC

Without(map, keys) == [k \in DOMAIN map \ keys |-> map[k]]
With(map, k, v)    == [x \in DOMAIN map \union {k} |-> IF x = k THEN v ELSE map[x]]
Laid(over, under)  ==
  [k \in DOMAIN over \union DOMAIN under |-> IF k \in DOMAIN over THEN over[k] ELSE under[k]]
Rewrite(rules, text) ==
  [i \in DOMAIN text |-> IF text[i] \in DOMAIN rules THEN rules[text[i]] ELSE text[i]]

IsSystem(m)  == m.role = "system"
Systems(ms)  == FoldLeft(LAMBDA s, m : IF IsSystem(m) THEN Append(s, m) ELSE s, <<>>, ms)
Others(ms)   == FoldLeft(LAMBDA s, m : IF IsSystem(m) THEN s ELSE Append(s, m), <<>>, ms)
System(text) == [role |-> "system", text |-> text, extra |-> 0]

-----------------------------------------------------------------------------
(* Which prompt *)

\* rule_answers
RuleAnswers(rule, e) ==
  IF rule.efforts # {} THEN e \in rule.efforts ELSE Within(e, rule.low, rule.high)

\* select_system_prompt: the first rule that is on and answers, or the
\* route's own prompt.
SelectPrompt(route, e) ==
  LET answering == SelectInSeq(route.prompts, LAMBDA r : r.enabled /\ RuleAnswers(r, e))
  IN  IF answering = 0 THEN route.prompt ELSE route.prompts[answering].prompt

\* resolve_system_prompt: a prompt that inherits is the default one; one with
\* an id the library has is the library's text.
ResolvePrompt(spec, default, library) ==
  LET used == IF spec.mode \in {"", "inherit"} THEN default ELSE spec
  IN  IF used.mode \in {"", "none"} THEN [mode |-> "none", text |-> <<>>]
      ELSE [mode |-> used.mode,
            text |-> IF used.id \in DOMAIN library THEN library[used.id] ELSE used.text]

\* inject_system_prompt: the caller's own system turns become one.
Inject(ms, prompt) ==
  LET theirs == FoldLeft(LAMBDA t, m : t \o m.text, <<>>, Systems(ms))
      turn   == IF theirs = <<>> THEN <<>> ELSE <<System(theirs)>>
      ours   == <<System(prompt.text)>>
  IN  IF prompt.mode = "none" \/ prompt.text = <<>> THEN ms
      ELSE (CASE prompt.mode = "replace" -> ours
              [] prompt.mode = "append"  -> turn \o ours
              [] prompt.mode = "merge"   -> <<System(prompt.text \o theirs)>>
              [] OTHER                   -> ours \o turn) \o Others(ms)

-----------------------------------------------------------------------------
(* transform_request *)

RoutingKeys  == {"usage", "transforms", "route", "provider", "models", "plugins", "preset"}
ThinkingKeys == {"reasoning_effort", "reasoning", "thinking", "enable_thinking",
                 "include_reasoning"}

\* thinking_for_deepseek, of an effort somebody named.
ThinkingFor(e) ==
  CASE e = "none"             -> "disabled"
    [] e = "minimal"          -> "no effort"
    [] e \in {"low", "medium"} -> "low"
    [] e \in {"high", "max"}  -> e

\* shape_for_deepseek
ShapeForDeepSeek(map, e) ==
  LET renamed == IF "max_completion_tokens" \in DOMAIN map /\ "max_tokens" \notin DOMAIN map
                 THEN With(map, "max_tokens", map["max_completion_tokens"]) ELSE map
      taken   == Without(renamed, DOMAIN renamed \ DeepSeekKeys)
  IN  IF e = "unspecified" THEN taken ELSE With(taken, "thinking", ThinkingFor(e))

\* rename_params, in the order of the keys.
Renamed(map, pairs) ==
  FoldLeft(LAMBDA m, p : IF p[1] \in DOMAIN m
                         THEN With(Without(m, {p[1]}), p[2], m[p[1]]) ELSE m,
           map, pairs)

\* inject_stop: ours after theirs, four at most.
Stops(map, ours) ==
  LET theirs == IF "stop" \in DOMAIN map THEN map["stop"] ELSE <<>>
      all    == theirs \o SelectSeq(ours, LAMBDA s : s \notin ToSet(theirs))
  IN  IF ours = <<>> THEN map ELSE With(map, "stop", SubSeq(all, 1, Least(4, Len(all))))

\* The clamp, on the spelling the body has.
Clamped(map, most) ==
  LET key   == IF "max_completion_tokens" \in DOMAIN map THEN "max_completion_tokens"
               ELSE "max_tokens"
      asked == IF key \in DOMAIN map /\ map[key] > 0 THEN map[key] ELSE most
  IN  IF most = 0 THEN map ELSE With(map, key, Least(asked, most))

\* The fields of the body but its messages, in the order of the code.
Params(params, route, rt, e) ==
  LET asked  == Without(params, RoutingKeys \union ThinkingKeys)
      shaped == IF route.deepseek THEN ShapeForDeepSeek(asked, e) ELSE asked
      laid   == Laid(route.force, Laid(shaped, route.params))
      kept   == Renamed(Without(laid, rt.drop), rt.rename)
  IN  Clamped(Stops(kept, rt.stop), route.maxOut)

\* rewrite_message: never a system turn.
RewriteMessage(rules, m) ==
  IF IsSystem(m) THEN m ELSE [m EXCEPT !.text = Rewrite(rules, @)]

Transform(body, route, rt, e, prompt) ==
  [messages |-> LET ms == Inject(body.messages, prompt)
                IN  [i \in DOMAIN ms |-> RewriteMessage(rt.replace, ms[i])],
   params   |-> Params(body.params, route, rt, e)]

-----------------------------------------------------------------------------
(* Counting *)

\* profile: one of the templates.
PerMessage == 3
Primer     == 3

Tokens(ms) == FoldLeft(LAMBDA n, m : n + PerMessage + Len(m.text) + m.extra, 0, ms)

\* What tools add, and a choice among them that is not `auto`.
ToolTokens(params) ==
  IF "tools" \notin DOMAIN params THEN 0
  ELSE 12 + params["tools"]
          + IF "tool_choice" \in DOMAIN params /\ params["tool_choice"] # "auto" THEN 4 ELSE 0

\* count_chat_request, count_system_messages
CountChat(body)    == Tokens(body.messages) + ToolTokens(body.params) + Primer
CountSystem(body)  == Tokens(Systems(body.messages))

\* Faulty: only the messages are compared.
SameTurns(a, b) == Others(a.messages) = Others(b.messages)

\* same_but_system: the turns and the tools, but not the choice among them.
SameButSystem(a, b) ==
  /\ Others(a.messages) = Others(b.messages)
  /\ "tools" \in DOMAIN a.params <=> "tools" \in DOMAIN b.params
  /\ "tools" \in DOMAIN a.params => a.params["tools"] = b.params["tools"]

\* count_prompt: the caller's own body, what the relay put in, and what the
\* backend will receive, which is not counted again where it need not be.
CountPrompt(original, upstream) ==
  LET user     == CountChat(original)
      injected == CountSystem(upstream) - CountSystem(original)
  IN  [user     |-> user,
       injected |-> injected,
       billed   |-> IF SameButSystem(original, upstream) THEN Most(0, user + injected)
                    ELSE CountChat(upstream)]
=============================================================================
