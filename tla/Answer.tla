-------------------------------- MODULE Answer --------------------------------
(***************************************************************************)
(* One request's body, tokens and bill, from the caller's body to the      *)
(* closing usage (relay/handler.rs): the effort read off it, the prompt    *)
(* injected, both bodies counted, the answer reshaped as it streams or in  *)
(* one piece, and what it comes to.                                        *)
(*                                                                         *)
(* Gate.tla has its place in line, Request.tla its attempts at backends,   *)
(* Stream.tla the bytes and frames of its answer and Books.tla its rows.   *)
(***************************************************************************)
EXTENDS Reply

CONSTANTS
  Piece,  \* characters of a replayed frame, 24
  Lookbehind, \* words a StreamRewriter with rules holds back
  Scenes
  \* A scene is a request and the configuration it meets:
  \*   ask    [think, body, streams, exclude, include]: the caller's, whether it
  \*          wants a stream, and what it says of showing the thinking
  \*   route  what the other modules take of a route, with its transforms
  \*          `request` and `response`, its limits maxIn and maxOut, its card
  \*          `list`, its `typed` prices and their windows
  \*   cfg    [request, response, silence, prompt, library, billsPrompt, floor,
  \*          prefers], the first four of cfg.defaults
  \*   reply  [streams, deltas, usage]: what the backend has to say, and
  \*          whether as events or in one piece
  \* The caller's id and `stream` itself, which every body is sent with, are
  \* left out of the parameters.
  \*   at     [hour, weekday, utcDay, hhmm]

\* All of them: a prover has to be told that a string is one.
Strings == STRING \union {"system", "<think>", "</think>"}
Words   == Seq(Strings)
Sayings == [reasoning : Seq(Words), content : Words, calls : Seq([index : Nat, text : Words])]
Sources == [mode : Strings, text : Words, id : Strings]
Of(field, S) == field # <<>> => field[1] \in S
Weighed(params) == "tools" \in DOMAIN params => params["tools"] \in Nat
WordMap(m) == \A w \in DOMAIN m : m[w] \in Strings

\* What the parsers of the caller's body, of the configuration and of an answer
\* let through: kinds of values, and amounts that are not negative.
IsAsk(a) ==
  /\ a.think \in [levels : Seq(Efforts), switches : Seq({"absent", "on", "off"}),
                 disabled : BOOLEAN, budget : Nat \union {Unset}, enable : BOOLEAN]
  /\ a.body.messages \in Seq([role : Strings, text : Words, extra : Nat])
  /\ Weighed(a.body.params)

IsShape(t) ==
  /\ Of(t.reasoning, {"keep", "field", "strip", "inline"})
  /\ Of(t.tags, Words \X Words) /\ Of(t.prefix, Words) /\ Of(t.suffix, Words)
  /\ t.replace # <<>> => WordMap(t.replace[1])

IsTransform(t) ==
  /\ Of(t.rename, Seq(Strings \X Strings))
  /\ t.replace # <<>> => WordMap(t.replace[1])

IsRoute(r) ==
  /\ IsTransform(r.request) /\ IsShape(r.response)
  /\ r.prompt \in Sources
  /\ Len(r.prompts) \in Nat
  /\ \A i \in 1 .. Len(r.prompts) : r.prompts[i].prompt \in Sources
  /\ {r.list.sell, r.list.max, r.list.non} \subseteq [Fields -> Nat]
  /\ r.list.request \in Nat

IsConfig(c) ==
  /\ IsTransform(c.request) /\ IsShape(c.response)
  /\ c.silence \in Efforts
  /\ c.prompt \in Sources
  /\ \A id \in DOMAIN c.library : c.library[id] \in Words
  /\ c.floor \in Nat

IsReply(r) ==
  /\ r.deltas \in Seq(Sayings)
  /\ Of(r.usage, [prompt : Nat, completion : Nat, cached : Nat, reasoning : Nat])

\* Whatever stands under `tools` in the end, it has a number of tokens.
IsScene(s) ==
  /\ IsAsk(s.ask) /\ IsRoute(s.route) /\ IsConfig(s.cfg) /\ IsReply(s.reply)
  /\ Weighed(Params(s.ask.body.params, s.route,
                    Merged(NoTransform, s.cfg.request, s.route.request),
                    Or(EffortOf(s.ask.think), s.cfg.silence)))

ASSUME AnswerAssumption ==
  {Piece, Lookbehind} \subseteq Nat \ {0} /\ \A s \in Scenes : IsScene(s)

VARIABLES
  scene,
  pc,
  body,         \* the body sent upstream
  split,        \* PromptSplit
  next,         \* the delta to come
  open,         \* ReasoningState
  heard,        \* Pumped: the deltas so far, put together
  said,         \* what the caller has been sent, put together
  pending,      \* StreamRewriter: text held back
  prefixed,     \* prefix_sent
  broken,       \* the backend broke off
  bill          \* what is recorded and told the caller

relayed == <<said, pending, prefixed>>
vars == <<scene, pc, body, split, next, open, heard, relayed, broken, bill>>

ask == scene.ask
route == scene.route
cfg == scene.cfg
reply == scene.reply

Nothing == [reasoning |-> <<>>, content |-> <<>>, calls |-> <<>>]

NoBill == [proxy |-> 0, backend |-> 0, cost |-> Unset, charged |-> <<>>, billed |-> <<>>]

Init ==
  /\ scene \in Scenes
  /\ pc = "asked"
  /\ body = scene.ask.body
  /\ split = [user |-> 0, injected |-> 0, billed |-> 0]
  /\ next = 1
  /\ open = FALSE
  /\ heard = Nothing
  /\ said = Nothing
  /\ pending = <<>>
  /\ prefixed = FALSE
  /\ broken = FALSE
  /\ bill = NoBill

-----------------------------------------------------------------------------
(* handle_chat *)

Effort == Or(EffortOf(ask.think), cfg.silence)

rt == Merged(NoTransform, cfg.request, route.request)

\* reasoning_excluded: silence is not a request to.
ReasoningExcluded == ask.exclude = "true" \/ ask.include = "false"

\* It can only take the thinking out.
transform ==
  LET merged == Merged(NoShape, cfg.response, route.response)
  IN  IF ReasoningExcluded THEN [merged EXCEPT !.reasoning = "strip"] ELSE merged

\* stream_upstream, and whether its answer is pumped.
StreamUpstream == IF rt.stream = <<>> THEN ask.streams ELSE rt.stream[1]
Pumps == StreamUpstream /\ reply.streams

\* The prompt is picked by the effort, and the body built.
Prepare ==
  /\ pc = "asked"
  /\ body' = Transform(ask.body, route, rt, Effort,
                       ResolvePrompt(SelectPrompt(route, Effort), cfg.prompt, cfg.library))
  /\ pc' = "prepared"
  /\ UNCHANGED <<scene, split, next, open, heard, relayed, broken, bill>>

\* Both bodies are counted; what is too long for the model goes no further.
Count ==
  /\ pc = "prepared"
  /\ split' = CountPrompt(ask.body, body)
  /\ pc' = IF route.maxIn > 0 /\ split'.billed > route.maxIn THEN "refused" ELSE "sent"
  /\ UNCHANGED <<scene, body, next, open, heard, relayed, broken, bill>>

\* What the caller is charged for, and how a cache hit divides.
User  == IF cfg.billsPrompt THEN split.billed ELSE split.user
Basis == [wholeBody |-> cfg.billsPrompt, injected |-> Most(0, split.injected),
          floor |-> cfg.floor]

-----------------------------------------------------------------------------
(* price, backend_price, usage_json *)

Shape(prompt, usage, refused) ==
  [model |-> route.id, input |-> prompt, cached |-> usage.cached,
   output |-> usage.completion, reasoning |-> usage.reasoning, effort |-> Effort,
   hour |-> scene.at.hour, weekday |-> scene.at.weekday, streamed |-> ask.streams,
   refused |-> refused]

\* The bill of an answer, judged by the model's own words, with the usage
\* its backend reported, if it came to that.
BillOf(local, reported, words) ==
  LET billed  == Reconcile([prompt |-> split.billed, completion |-> local],
                           reported, cfg.prefers)
      charged == Charged(billed, User, Basis)
      proxy   == Price(route.list, Shape(User, charged,
                                         IsRefusal(words, route.list.phrases))).proxy
      card    == CardAt(route.list, route.typed, route.windows,
                        scene.at.utcDay, scene.at.hhmm)
  IN  [proxy   |-> proxy,
       backend |-> Price(route.list, Shape(billed.prompt, billed, FALSE)).backend,
       cost    |-> IF route.list.enabled THEN proxy ELSE PublishedCost(card, charged),
       charged |-> <<charged>>,
       billed  |-> <<billed>>]

-----------------------------------------------------------------------------
(* pump *)

\* What the backend still says counts only up to where it breaks off.
Hear(d) ==
  [reasoning |-> IF heard.reasoning \o d.reasoning = <<>> THEN <<>>
                 ELSE <<Texts(heard.reasoning \o d.reasoning)>>,
   content   |-> heard.content \o d.content,
   calls     |-> Collect(heard.calls, d.calls)]

\* StreamRewriter::push: the rules hold back the last words of what there is;
\* a rule is of one word, so none straddles the cut.
Cut(text) == IF DOMAIN transform.replace = {} THEN Len(text) ELSE Most(0, Len(text) - Lookbehind)

\* A frame on its way to a caller who streams.  The prefix goes through the
\* rewriter ahead of the first text.  When all of the text is held back the
\* frame is not sent, and nothing else of it either.
Relay(d) ==
  \E text \in {IF d.content = <<>> THEN <<>>
               ELSE pending \o (IF prefixed THEN <<>> ELSE transform.prefix) \o d.content} :
    /\ prefixed' = (prefixed \/ text # <<>>)
    /\ pending' = IF text = <<>> THEN pending ELSE SubSeq(text, Cut(text) + 1, Len(text))
    /\ said' = IF text # <<>> /\ Cut(text) = 0 THEN said
               ELSE [reasoning |-> said.reasoning \o d.reasoning,
                     content   |-> said.content
                       \o Rewrite(transform.replace, SubSeq(text, 1, Cut(text))),
                     calls     |-> Collect(said.calls, d.calls)]

\* One delta: noted, reshaped, and relayed.
Delta ==
  /\ pc = "sent" /\ Pumps /\ ~broken
  /\ next <= Len(reply.deltas)
  /\ \E d \in {reply.deltas[next]} :
       \E shaped \in {TransformDelta(d, transform, open,
                                     next = Len(reply.deltas))} :
         /\ heard' = Hear(d)
         /\ open' = shaped.open
         /\ IF ask.streams THEN Relay(shaped.d) ELSE UNCHANGED relayed
  /\ next' = next + 1
  /\ UNCHANGED <<scene, pc, body, split, broken, bill>>

\* The backend's connection fails.
Break ==
  /\ pc = "sent" /\ Pumps /\ ~broken
  /\ broken' = TRUE
  /\ UNCHANGED <<scene, pc, body, split, next, open, heard, relayed, bill>>

Stripped(reasoning) == IF transform.reasoning = "strip" THEN <<>> ELSE Texts(reasoning)

\* The usage a backend reports comes at the end, if it breaks off before that
\* never.
Reported == {reply.usage} \union (IF broken THEN {<<>>} ELSE {})

\* pipe_stream's closing: what was held back, the suffix, and the usage of what
\* was said.
CloseStream ==
  /\ pc = "sent" /\ Pumps /\ ask.streams
  /\ broken \/ next > Len(reply.deltas)
  /\ said' = [said EXCEPT !.content =
                 @ \o Rewrite(transform.replace, pending) \o transform.suffix]
  /\ pending' = <<>>
  /\ \E u \in Reported :
       bill' = BillOf(CountCompletion(heard.content, Stripped(heard.reasoning), heard.calls),
                      u, heard.content)
  /\ pc' = "over"
  /\ UNCHANGED <<scene, body, split, next, open, heard, prefixed, broken>>

\* assemble_completion: no field for thinking that is not there.
Assembled(content, reasoning, calls) ==
  [reasoning |-> IF Texts(reasoning) = <<>> THEN <<>> ELSE reasoning,
   content   |-> content,
   calls     |-> calls]

\* pipe_streamed_into_json: a stream read for a caller who does not.
CloseIntoJson ==
  /\ pc = "sent" /\ Pumps /\ ~ask.streams
  /\ broken \/ next > Len(reply.deltas)
  /\ said' = Assembled(Wrapped(heard.content, transform),
                       IF transform.reasoning = "strip" THEN <<>> ELSE heard.reasoning,
                       heard.calls)
  /\ \E u \in Reported :
       bill' = BillOf(CountCompletion(said'.content, Texts(said'.reasoning), heard.calls),
                      u, heard.content)
  /\ pc' = "over"
  /\ UNCHANGED <<scene, body, split, next, open, heard, pending, prefixed, broken>>

-----------------------------------------------------------------------------
(* pipe_buffered *)

\* All the deltas at once is what a backend that does not stream says.
Whole ==
  LET all == reply.deltas
      thoughts == FoldLeft(LAMBDA r, d : r \o d.reasoning, <<>>, all)
  IN  [reasoning |-> IF thoughts = <<>> THEN <<>> ELSE <<Texts(thoughts)>>,
       content   |-> FoldLeft(LAMBDA t, d : t \o d.content, <<>>, all),
       calls     |-> FoldLeft(LAMBDA c, d : Collect(c, d.calls), <<>>, all)]

\* It cannot be read, or not be parsed: 502.  Events nobody asked for cannot.
BadReply ==
  /\ pc = "sent" /\ ~Pumps
  /\ pc' = "refused"
  /\ UNCHANGED <<scene, body, split, next, open, heard, relayed, broken, bill>>

\* replay_as_sse: the content alone, in pieces of at most so many characters.
Pieces(content) ==
  [i \in 1 .. (Len(content) + Piece - 1) \div Piece |->
     SubSeq(content, Piece * (i - 1) + 1, Least(Piece * i, Len(content)))]

\* The answer in one piece, replayed for a caller who streams.
Buffered ==
  /\ pc = "sent" /\ ~Pumps /\ ~reply.streams
  /\ \E m \in {TransformMessage(Whole, transform)} :
       /\ heard' = Whole
       /\ said' = IF ask.streams THEN [Nothing EXCEPT !.content = Texts(Pieces(m.content))]
                   ELSE m
       /\ bill' = BillOf(CountCompletion(m.content, Texts(m.reasoning), m.calls),
                         reply.usage, Whole.content)
  /\ pc' = "over"
  /\ UNCHANGED <<scene, body, split, next, open, pending, prefixed, broken>>

Next == \/ Prepare \/ Count
        \/ Delta \/ Break \/ CloseStream \/ CloseIntoJson
        \/ Buffered \/ BadReply

Spec == Init /\ [][Next]_vars

-----------------------------------------------------------------------------
Charge1 == bill.charged[1]
Billed1 == bill.billed[1]
Done    == pc = "over"

(* What a caller is charged is what /v1/models said: at the band of the    *)
(* effort it asked for, or of the one it says silence is taken for, where  *)
(* each rate is set, nothing the operator typed stands in their place and  *)
(* no tier speaks.                                                         *)
PublishedIsCharged ==
  LET silent == ask.think = Silent
      band   == IF silent THEN DefaultBand(cfg.silence) ELSE BandOf(Effort)
      list  == route.list
      plain == /\ \A f \in Fields : list.sell[f] > 0
               /\ list.tiers = <<>> /\ route.typed = NoCard /\ route.windows = <<>>
               /\ ~IsRefusal(heard.content, list.phrases)
  IN  /\ silent => Effort = Reasoning(cfg.silence).default
      /\ cfg.silence # "unspecified" => Effort \in Reasoning(cfg.silence).efforts
      /\ Done /\ list.enabled /\ plain =>
           bill.cost = PublishedCost(Bands(list, route.typed)[band], Charge1)

(* "never a discount the relay did not receive": a caller billed for their *)
(* own body is credited only with what is left of the backend's hit behind *)
(* the relay's own words, so at least as much of the prompt is fresh to    *)
(* the caller as was to the backend; below the floor there is no credit.   *)
CreditWasReceived ==
  Done /\ ~cfg.billsPrompt /\ Charge1.cached > 0 =>
    /\ Charge1.prompt >= cfg.floor
    /\ Billed1.cached - Charge1.cached >= split.injected
    /\ Charge1.prompt - Charge1.cached >= Billed1.prompt - Billed1.cached

Choice(b) == IF "tool_choice" \in DOMAIN b.params THEN b.params["tool_choice"] ELSE "auto"

(* The tokens of the body a backend receives are right whichever way they  *)
(* were arrived at, whatever prompt was put in and whatever was rewritten, *)
(* as long as the route leaves the choice among tools alone.               *)
BilledIsTheBodySent ==
  /\ pc \notin {"asked", "prepared"}
  /\ "tools" \in DOMAIN body.params => Choice(body) = Choice(ask.body)
  => split.billed = CountChat(body)

\* For OpenRouter, a route to DeepSeek is said to take tools and structured
\* outputs, which it does not.
Advertised ==
  SupportedParameters(route, rt)
    \union (OpenRouterParameters(route, rt) \ (IF route.deepseek THEN Withheld ELSE {}))

(* A parameter either listing says this model takes, and the caller sends, is *)
(* in the body its backend receives.                                       *)
AdvertisedArrives ==
  pc # "asked" =>
    (Advertised \ Controls) \intersect DOMAIN ask.body.params
      \subseteq DOMAIN body.params

\* Thinking first, then the answer, and nothing of the first with the last.
InOrder ==
  LET n == Len(reply.deltas) IN
  /\ \A i, j \in 1..n : i <= j /\ reply.deltas[i].content # <<>> =>
                          reply.deltas[j].reasoning = <<>>
  /\ n > 0 => reply.deltas[n].reasoning = <<>>

\* No frame brings text and calls together: with rules, text that is held back
\* holds back its frame.
CallsApart ==
  LET n == Len(reply.deltas) IN
  \A i \in 1..n : reply.deltas[i].calls # <<>> =>
    /\ reply.deltas[i].content = <<>>
    /\ transform.reasoning = "inline" => i < n /\ reply.deltas[i].reasoning = <<>>

(* Whether the backend streams and whether the caller does, four ways in   *)
(* all, a caller is told the same words, held back or not, unless the rules *)
(* speak of the prefix; and but for a replay, which has the words only, the *)
(* same calls, where rules can hold none back with a text, and the thinking *)
(* in the same place.                                                       *)
StreamedIsWhole ==
  Done /\ ~broken /\ Whole.content # <<>> =>
    LET m == TransformMessage(Whole, transform)
        words    == said.content = m.content
        thinking == Texts(said.reasoning) = Texts(m.reasoning)
        calls    == said.calls = m.calls
    IN  /\ Pumps /\ ask.streams /\ InOrder =>
             /\ Rewrite(transform.replace, transform.prefix) = transform.prefix => words
             /\ thinking
             /\ DOMAIN transform.replace = {} \/ CallsApart => calls
        /\ Pumps /\ ~ask.streams /\ transform.reasoning # "inline" => words /\ thinking /\ calls
        /\ ~Pumps => words
=============================================================================
