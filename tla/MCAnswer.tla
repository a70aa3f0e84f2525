------------------------------- MODULE MCAnswer -------------------------------
(* Scenes for TLC: a plain one, and three families that vary its money, its *)
(* body and its answer.                                                     *)
EXTENDS Answer

User1(t)   == [role |-> "user", text |-> t, extra |-> 0]
Rates(i, c, o, r) == [input |-> i, cached |-> c, output |-> o, reasoning |-> r]
Mute(r) == [f \in DOMAIN r |-> <<>>]
Usage(p, c, h, r) == <<[prompt |-> p, completion |-> c, cached |-> h, reasoning |-> r]>>
Think(t) == [reasoning |-> <<t>>, content |-> <<>>, calls |-> <<>>]
Text(t)  == [reasoning |-> <<>>, content |-> t, calls |-> <<>>]
Call(i, t) == [reasoning |-> <<>>, content |-> <<>>, calls |-> <<[index |-> i, text |-> t]>>]
Named(e) == [Silent EXCEPT !.levels = <<"unspecified", e>>]
Prompt(mode, text) == [mode |-> mode, text |-> text, id |-> ""]

Plain ==
  [ask   |-> [think |-> Silent, streams |-> TRUE, exclude |-> "absent", include |-> "absent",
              body |-> [messages |-> <<User1(<<"hi">>)>>, params |-> NoMap]],
   route |-> [id |-> "m", deepseek |-> FALSE, params |-> NoMap, force |-> NoMap,
              request |-> Mute(NoTransform), response |-> Mute(NoShape),
              maxIn |-> 0, maxOut |-> 0, listedOut |-> 0, tools |-> TRUE, structured |-> FALSE,
              traces |-> FALSE, prompt |-> Prompt("inherit", <<>>), prompts |-> <<>>,
              list |-> NoList, typed |-> NoCard, windows |-> <<>>],
   cfg   |-> [request |-> Mute(NoTransform), response |-> Mute(NoShape), silence |-> "high", prompt |-> Prompt("none", <<>>), library |-> NoMap,
              billsPrompt |-> FALSE, floor |-> 0, prefers |-> TRUE],
   reply |-> [streams |-> FALSE, deltas |-> <<Text(<<"yes">>)>>, usage |-> <<>>],
   at    |-> [hour |-> 23, weekday |-> 5, utcDay |-> 4, hhmm |-> 2230]]

-----------------------------------------------------------------------------
Lists ==
  LET card == [NoList EXCEPT !.enabled = TRUE, !.sell = Rates(10, 2, 30, 40),
                 !.backend = Rates(6, 0, 20, 0), !.max = Rates(0, 0, 60, 0),
                 !.non = Rates(4, 0, 20, 25), !.request = 1]
      night == [NoTier EXCEPT !.name = "night", !.stop = TRUE, !.times.output = 200,
                  !.when.hours = {<<22, 5>>}]
      long  == [NoTier EXCEPT !.name = "long", !.rates.input = 20,
                  !.when.input = <<5, 0>>, !.surcharge = 1]
  IN  {card, Resolve(card, [NoList EXCEPT !.max = Rates(20, 5, 0, 0), !.margin = 50]),
       [card EXCEPT !.tiers = <<night, long>>], [card EXCEPT !.sell = NoRates, !.margin = 50],
       Normal([card EXCEPT !.refusal = 1]), NoList}

Typed == [NoCard EXCEPT !.input = 3, !.output = 7]
AtNight == [days |-> {4}, from |-> 2200, to |-> 200,
            card |-> [NoCard EXCEPT !.output = 9, !.request = 0]]

Ours == <<"be", "kind", "always">>

MoneyScenes ==
  {[Plain EXCEPT !.ask.think = t[1], !.cfg.silence = t[2], !.route.list = l, !.route.typed = c[1],
                 !.route.windows = c[2], !.reply.usage = u, !.cfg.floor = s[1],
                 !.cfg.billsPrompt = s[2], !.route.prompt = Prompt("prepend", s[3]),
                 !.reply.deltas = <<Text(d)>>] :
     t \in {<<Silent, "high">>, <<Silent, "none">>, <<Silent, "unspecified">>,
            <<Named("max"), "low">>,
            <<Named("minimal"), "high">>, <<[Silent EXCEPT !.budget = 0], "max">>,
            <<[Silent EXCEPT !.switches = <<"absent", "off">>], "high">>},
     l \in Lists, c \in {<<NoCard, <<>>>>, <<Typed, <<>>>>, <<Typed, <<AtNight>>>>},
     u \in {<<>>, Usage(20, 9, 0, 0), Usage(20, 9, 14, 4), Usage(5, 2, 18, 9),
            Usage(0, 3, 9, 1)},
     s \in {<<0, FALSE, <<>>>>, <<0, FALSE, Ours>>, <<8, FALSE, Ours>>, <<0, TRUE, Ours>>},
     d \in {<<"yes">>, <<"<think>", "sorry", "</think>", "no">>, <<"so", "sorry">>}}

-----------------------------------------------------------------------------
Bodies ==
  LET us == {<<User1(<<"hi">>)>>,
             <<System(<<"you">>), User1(<<"hi", "x">>), System(<<"see">>)>>,
             <<System(<<"you">>), [User1(<<"x">>) EXCEPT !.extra = 85]>>}
      ps == {NoMap, [tools |-> 4, tool_choice |-> "any", seed |-> 1],
             [max_tokens |-> 9, temperature |-> 1, top_k |-> 4, usage |-> 1],
             [max_completion_tokens |-> 9, reasoning_effort |-> "max", stop |-> <<"a">>]}
  IN  [messages : us, params : ps]

Routes ==
  LET r == Plain.route IN
  {r, [r EXCEPT !.deepseek = TRUE, !.maxOut = 4],
   [r EXCEPT !.request.drop = <<{"top_k", "tools", "tool_choice"}>>, !.maxIn = 20],
   [r EXCEPT !.request.rename = <<<<<<"max_tokens", "max_completion_tokens">>>>>>,
             !.maxOut = 4, !.params = [seed |-> 2], !.force = [temperature |-> 2]],
   [r EXCEPT !.request.replace = <<[x |-> "y"]>>, !.request.drop = <<{}>>,
             !.request.stop = <<<<"a", "b", "c", "d">>>>, !.traces = TRUE]}

\* The defaults: silent, or with something to drop.
Defaults == {Mute(NoTransform),
             [Mute(NoTransform) EXCEPT !.drop = <<{"seed", "max_tokens"}>>]}

Prompts ==
  LET rule == [enabled |-> TRUE, efforts |-> {}, low |-> "high", high |-> "unspecified",
               prompt |-> [mode |-> "append", text |-> <<>>, id |-> "lib"]]
  IN  {<<Prompt(m, <<"be", "kind">>), <<>>>> :
         m \in {"none", "inherit", "prepend", "append", "replace", "merge"}}
      \union {<<Prompt("prepend", <<"be">>), <<rule>>>>,
              <<Prompt("prepend", <<"be">>), <<[rule EXCEPT !.efforts = {"none"}], rule>>>>}

BodyScenes ==
  {[Plain EXCEPT !.ask.body = b, !.route = [r EXCEPT !.prompt = p[1], !.prompts = p[2]],
                 !.ask.think = t, !.cfg.library = [lib |-> <<"x", "rule">>],
                 !.cfg.prompt = Prompt("append", <<"house">>), !.cfg.request = q] :
     b \in Bodies, q \in Defaults, r \in Routes, p \in Prompts,
     t \in {Silent, Named("none"), [Silent EXCEPT !.enable = TRUE]}}

-----------------------------------------------------------------------------
Scripts ==
  {<<>>, <<Text(<<"x">>)>>, <<Think(<<"a">>), Think(<<"b">>), Text(<<"x", "y">>)>>,
   <<Think(<<"a">>), Text(<<"x">>), Text(<<"y">>), Text(<<>>)>>,
   <<Think(<<"a">>), [Think(<<"b">>) EXCEPT !.content = <<"x">>], Text(<<"y">>)>>,
   <<Think(<<"x">>), Text(<<>>), Call(1, <<"f">>), Text(<<"z">>), Call(2, <<"g">>),
     Call(1, <<"h">>)>>,
   <<[Call(1, <<"f">>) EXCEPT !.content = <<"x">>], Text(<<"y">>)>>,
   <<Think(<<"a">>), Text(<<"x", "y", "x", "z">>), Call(1, <<"f">>)>>,
   <<Text(<<"x">>), Think(<<"a">>)>>}

ReplyScenes ==
  {[Plain EXCEPT !.ask.streams = s, !.ask.exclude = h[1], !.ask.include = h[2],
                 !.reply.streams = r,
                 !.reply.deltas = d, !.route.request.stream = f,
                 !.route.response.reasoning = m[1], !.cfg.response.reasoning = m[2],
                 !.route.response.prefix = w[1], !.cfg.response.suffix = w[2],
                 !.route.response.replace = w[3], !.cfg.response.tags = w[4],
                 !.cfg.request.stream = <<<<TRUE>>>>,
                 !.cfg.prefers = p, !.reply.usage = Usage(7, 2, 0, 1)] :
     s \in BOOLEAN, r \in BOOLEAN, d \in Scripts, p \in BOOLEAN,
     h \in {<<"absent", "true">>, <<"true", "absent">>, <<"false", "false">>},
     f \in {<<>>, <<<<>>>>, <<<<FALSE>>>>},
     m \in {<<<<>>, <<>>>>, <<<<"strip">>, <<"keep">>>>, <<<<>>, <<"inline">>>>,
            <<<<"field">>, <<"inline">>>>},
     w \in {<<<<>>, <<>>, <<>>, <<>>>>, <<<<<<"pre", "x">>>>, <<>>, <<[x |-> "y"]>>, <<>>>>,
            <<<<<<"pre">>>>, <<<<"suf">>>>, <<[x |-> "y"]>>, <<<<<<"(">>, <<")">>>>>>>>}}

MCScenes == MoneyScenes \union BodyScenes \union ReplyScenes
=============================================================================
