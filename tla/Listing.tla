------------------------------- MODULE Listing -------------------------------
(***************************************************************************)
(* server/catalog.rs: what /v1/models says a model costs and takes, and    *)
(* what a request comes to at that price.                                  *)
(*                                                                         *)
(* A card has the price of one token of each kind in PerM-ths of a dollar, *)
(* which is the figure of the rate per PerM tokens, and the fee of a       *)
(* request.  A price that is not published is Unset; a published 0 is free.*)
(* Names, modalities, dates and bounds of the document are left out.       *)
(***************************************************************************)
EXTENDS Pricing

CardFields == Fields \union {"write", "request"}
NoCard == [f \in CardFields |-> Unset]

\* per_token and flat_usd: a rate of zero publishes nothing.
PerToken(rate) == IF rate > 0 THEN rate ELSE Unset
FlatUsd(fee)   == IF fee > 0 THEN Usd(fee) ELSE Unset

\* Card::over: what the other card leaves empty stays.
Over(base, other) ==
  [f \in CardFields |-> IF other[f] = Unset THEN base[f] ELSE other[f]]

\* base_card: what the operator typed, over the rate card where that is on.
BaseCard(list, typed) ==
  IF list.enabled
  THEN Over([f \in CardFields |-> CASE f \in Fields  -> PerToken(list.sell[f])
                                    [] f = "request" -> FlatUsd(list.request)
                                    [] f = "write"   -> Unset], typed)
  ELSE typed

\* PricingOverride::covers: [from, to), past midnight when it ends before it
\* begins, all day when the two are one.
Covers(window, weekday, hhmm) ==
  /\ window.days # {} => weekday \in window.days
  /\ \/ window.from = window.to
     \/ window.from < window.to /\ hhmm >= window.from /\ hhmm < window.to
     \/ window.from > window.to /\ (hhmm >= window.from \/ hhmm < window.to)

\* card_at: the first window that covers the moment.
CardAt(list, typed, windows, weekday, hhmm) ==
  LET open == SelectSeq(windows, LAMBDA w : Covers(w, weekday, hhmm))
      base == BaseCard(list, typed)
  IN  IF open = <<>> THEN base ELSE Over(base, Head(open).card)

\* Card::to_json: thinking is published at the price of output until it has
\* one of its own.
ToJson(card) ==
  [card EXCEPT !.reasoning = IF @ = Unset THEN card.output ELSE @]

Zero(price) == IF price = Unset THEN 0 ELSE price

\* published_cost; Unset where nothing is published.
PublishedCost(card, usage) ==
  LET rates == [input     |-> Zero(card.input),
                cached    |-> IF card.cached = Unset THEN Zero(card.input) ELSE card.cached,
                output    |-> Zero(card.output),
                reasoning |-> Zero(ToJson(card).reasoning)]
  IN  IF card = NoCard THEN Unset
      ELSE Charge(rates, [input  |-> usage.prompt,     cached    |-> usage.cached,
                          output |-> usage.completion, reasoning |-> usage.reasoning])
             + Zero(card.request)

-----------------------------------------------------------------------------
(* Bands *)

\* over_band: thinking follows output where the card states it.
OverBand(base, band) ==
  LET moved == [base EXCEPT !.reasoning =
                  IF band.output > 0 /\ @ # Unset THEN PerToken(band.output) ELSE @]
  IN  Over(moved, [f \in CardFields |-> IF f \in Fields THEN PerToken(band[f]) ELSE Unset])

\* bands: the whole card of each, whether or not they differ.
Bands(list, typed) ==
  [b \in {"standard", "max", "non"} |->
     ToJson(IF list.enabled /\ b # "standard"
            THEN OverBand(BaseCard(list, typed), BandRates(list, b))
            ELSE BaseCard(list, typed))]

\* default_band: where a caller lands who says nothing.
DefaultBand(silence) == BandOf(silence)

\* reasoning, where the operator typed no list of efforts: the levels to ask
\* for, and what silence is taken for.
Reasoning(silence) ==
  [efforts |-> Efforts \ {"unspecified"}, default |-> silence,
   enabled |-> IsThinking(silence)]

-----------------------------------------------------------------------------
(* Transforms: a field of a route, or of the defaults, is <<>> where it says *)
(* nothing and holds what it says otherwise.                                *)

NoMap == [x \in {} |-> x]

\* ResolvedRequestTransform; `stream` <<>> follows the caller.
NoTransform == [stream |-> <<>>, drop |-> {}, rename |-> <<>>, stop |-> <<>>,
                replace |-> NoMap]

\* ResolvedResponseTransform, but for the envelope.
NoShape == [reasoning |-> "keep", tags |-> <<<<"<think>">>, <<"</think>">>>>,
            prefix |-> <<>>, suffix |-> <<>>, replace |-> NoMap]

\* merged: field by field, the route over the defaults.
Merged(plain, defaults, own) ==
  [f \in DOMAIN plain |-> IF own[f] # <<>> THEN own[f][1]
                          ELSE IF defaults[f] # <<>> THEN defaults[f][1] ELSE plain[f]]

\* What a transform takes out of a body by name.
TakenOut(rt) == rt.drop \union {rt.rename[i][1] : i \in DOMAIN rt.rename}

-----------------------------------------------------------------------------
(* Parameters *)

BaseParameters ==
  {"frequency_penalty", "logit_bias", "logprobs", "max_tokens", "min_p",
   "presence_penalty", "repetition_penalty", "response_format", "seed", "stop",
   "temperature", "top_k", "top_logprobs", "top_p"}

\* The thinking controls a listing names.
Controls == {"reasoning", "reasoning_effort", "include_reasoning"}

DeepSeekKeys ==
  {"max_tokens", "messages", "model", "stop", "stream", "stream_options",
   "temperature", "thinking", "top_p", "user_id"}
Withheld ==
  {"logprobs", "response_format", "structured_outputs", "tool_choice", "tools",
   "top_logprobs"}

\* deepseek_takes
DeepSeekTakes(name) ==
  name \notin Withheld /\ name \in Controls \union DeepSeekKeys \union {"max_completion_tokens"}

\* Faulty: what the route does to a body is not looked at.
SupportedAnyway(route, rt) == BaseParameters \union Controls

\* supported_parameters, of a route that does not list its own.
SupportedParameters(route, rt) ==
  {name \in BaseParameters
              \union (IF route.tools THEN {"tool_choice", "tools"} ELSE {})
              \union (IF route.structured THEN {"structured_outputs"} ELSE {})
              \union {"reasoning", "reasoning_effort"}
              \union (IF route.traces THEN {"include_reasoning"} ELSE {}) :
     /\ route.deepseek => DeepSeekTakes(name)
     /\ name \notin TakenOut(rt)}

\* output_modalities of the document for OpenRouter, whose own bound on the
\* output comes before the route's.
OpenRouterParameters(route, rt) ==
  ({"temperature", "top_p", "stop"}
     \union (IF route.listedOut > 0 \/ route.maxOut > 0 THEN {"max_tokens"} ELSE {})
     \union (IF route.tools THEN {"tools"} ELSE {})
     \union (IF route.structured THEN {"structured_outputs"} ELSE {})
     \union (IF route.traces THEN {"reasoning"} ELSE {})) \ TakenOut(rt)
=============================================================================
