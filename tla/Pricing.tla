------------------------------- MODULE Pricing -------------------------------
(***************************************************************************)
(* pricing.rs: what a request costs the relay and what it costs the        *)
(* caller.  Pure: a price list and the shape of a request in, money out.   *)
(*                                                                         *)
(* Money is counted in the dollar's PerM-th part and rates are dollars per *)
(* PerM tokens, so tokens times a rate is money.  All of it is whole       *)
(* numbers; percentages are applied to rates they divide.  A rate nobody   *)
(* set is 0, as in the code; an optional one is Unset.                     *)
(***************************************************************************)
EXTENDS Integers, Sequences, SequencesExt

Unset == -1
PerM  == 1000
Usd(x) == x * PerM

Least(a, b) == IF a <= b THEN a ELSE b
Most(a, b)  == IF a >= b THEN a ELSE b

-----------------------------------------------------------------------------
(* Effort *)

Ranked  == <<"none", "minimal", "low", "medium", "high", "max">>
Efforts == ToSet(Ranked) \union {"unspecified"}

\* `Unspecified` is not on the scale.
Rank(e) == IF e \in ToSet(Ranked) THEN CHOOSE i \in DOMAIN Ranked : Ranked[i] = e ELSE Unset

IsThinking(e) == e \in {"low", "medium", "high", "max"}

\* Effort::or, default_effort
Or(e, fallback) == IF e = "unspecified" THEN fallback ELSE e

EffortOfBudget(n) ==
  CASE n = 0 -> "none" [] n \in 1..2048 -> "low" [] n \in 2049..8192 -> "medium"
    [] n \in 8193..32768 -> "high" [] OTHER -> "max"

\* What the caller's body says of thinking: the levels it names in the four
\* places one may stand, its switches in theirs ("absent" where there is none),
\* thinking.type, the first budget there is, and enable_thinking.
Silent == [levels |-> <<>>, switches |-> <<>>, disabled |-> FALSE, budget |-> Unset,
           enable |-> FALSE]

EffortOf(think) ==
  LET named    == SelectInSeq(think.levels, LAMBDA e : e # "unspecified")
      switched == SelectInSeq(think.switches, LAMBDA s : s # "absent")
  IN  IF named # 0 THEN think.levels[named]
      ELSE IF (switched # 0 /\ think.switches[switched] = "off") \/ think.disabled THEN "none"
      ELSE IF think.budget # Unset THEN EffortOfBudget(think.budget)
      ELSE IF think.enable THEN "medium" ELSE "unspecified"

\* A rule's list of efforts, or its bounds; shared by the tiers and by the
\* system prompts.  A bound that is "unspecified" is none.
Within(e, low, high) ==
  (low # "unspecified" \/ high # "unspecified") =>
    /\ Rank(e) # Unset
    /\ low  # "unspecified" => Rank(e) >= Rank(low)
    /\ high # "unspecified" => Rank(e) <= Rank(high)

-----------------------------------------------------------------------------
(* Refusals.  A text is a sequence of words, and so is a phrase. *)

\* The answer without its <think> blocks; one that is not closed takes the rest.
Spoken(text) ==
  FoldLeft(LAMBDA s, w :
             IF s.thinking THEN [s EXCEPT !.thinking = w # "</think>"]
             ELSE IF w = "<think>" THEN [s EXCEPT !.thinking = TRUE]
             ELSE [s EXCEPT !.said = Append(@, w)],
           [thinking |-> FALSE, said |-> <<>>], text).said

Says(text, phrase) ==
  \E i \in 0 .. Len(text) - Len(phrase) : SubSeq(text, i + 1, i + Len(phrase)) = phrase

IsRefusal(text, phrases) == \E p \in phrases : p # <<>> /\ Says(Spoken(text), p)

-----------------------------------------------------------------------------
(* The price list. *)

Fields   == {"input", "cached", "output", "reasoning"}
NoRates  == [f \in Fields |-> 0]
Pick(a, b) == [f \in Fields |-> IF a[f] > 0 THEN a[f] ELSE b[f]]
Pick1(a, b) == IF a > 0 THEN a ELSE b

NoList == [enabled |-> FALSE, backend |-> NoRates, sell |-> NoRates, max |-> NoRates,
           non |-> NoRates, margin |-> 0, request |-> 0, refusal |-> 0, phrases |-> {},
           tiers |-> <<>>]

DefaultPhrases == {<<"sorry">>}

\* normalize_pricing: a refusal price has something to know a refusal by.
Normal(p) ==
  [p EXCEPT !.phrases = IF p.refusal > 0 /\ p.phrases \ {<<>>} = {} THEN DefaultPhrases
                        ELSE p.phrases \ {<<>>}]

\* resolve: a route's own rate wins, field by field; its tiers come last.
Resolve(defaults, route) ==
  [enabled |-> defaults.enabled \/ route.enabled,
   backend |-> Pick(route.backend, defaults.backend),
   sell    |-> Pick(route.sell, defaults.sell),
   max     |-> Pick(route.max, defaults.max),
   non     |-> Pick(route.non, defaults.non),
   margin  |-> Pick1(route.margin, defaults.margin),
   request |-> Pick1(route.request, defaults.request),
   refusal |-> Pick1(route.refusal, defaults.refusal),
   phrases |-> IF route.phrases = {} THEN defaults.phrases ELSE route.phrases,
   tiers   |-> defaults.tiers \o route.tiers]

\* base_backend_rates: a cache hit is no cheaper, and thinking no dearer,
\* until somebody prices them.
BackendRates(p) ==
  [p.backend EXCEPT !.cached    = Pick1(@, p.backend.input),
                    !.reasoning = Pick1(@, p.backend.output)]

\* The sell side: field by field an explicit rate, or cost plus margin.
StandardRates(p) ==
  Pick(p.sell, [f \in Fields |-> (BackendRates(p)[f] * (100 + p.margin)) \div 100])

-----------------------------------------------------------------------------
(* Bands *)

BandOf(e) == CASE e = "max" -> "max"
               [] e \in {"none", "minimal", "unspecified"} -> "non"
               [] OTHER -> "standard"

BandRates(p, band) == CASE band = "max" -> p.max [] band = "non" -> p.non
                        [] OTHER -> NoRates

\* Faulty: a band that moves output leaves thinking at the old rate.
ApplyBandPlainly(band, rates) == Pick(band, rates)

\* apply_band: what the band leaves at 0 stays, but thinking follows output.
ApplyBand(band, rates) ==
  Pick(band, [rates EXCEPT !.reasoning = Pick1(band.output, @)])

-----------------------------------------------------------------------------
(* Tiers *)

NoCondition ==
  [models |-> {}, efforts |-> {}, low |-> "unspecified", high |-> "unspecified",
   weekdays |-> {}, hours |-> {}, input |-> <<0, 0>>, output |-> <<0, 0>>,
   total |-> <<0, 0>>, streamed |-> {}, cacheHit |-> {}]

NoTier ==
  [name |-> "", enabled |-> TRUE, when |-> NoCondition, times |-> [input |-> 100,
   output |-> 100, reasoning |-> 100], rates |-> [f \in Fields |-> Unset],
   surcharge |-> 0, stop |-> FALSE]

HourIn(from, to, h) == IF from <= to THEN h \in from..to ELSE h >= from \/ h <= to

InRange(n, range) == n >= range[1] /\ (range[2] > 0 => n <= range[2])

\* matches: every condition that is set holds.  `models` has the ids the
\* patterns match.
Matches(w, shape) ==
  /\ w.models # {}   => shape.model \in w.models
  /\ w.efforts # {}  => shape.effort \in w.efforts
  /\ Within(shape.effort, w.low, w.high)
  /\ w.weekdays # {} => shape.weekday \in w.weekdays
  /\ w.hours # {}    => \E h \in w.hours : HourIn(h[1], h[2], shape.hour)
  /\ InRange(shape.input, w.input)
  /\ InRange(shape.output, w.output)
  /\ InRange(shape.input + shape.output, w.total)
  /\ w.streamed # {} => shape.streamed \in w.streamed
  /\ w.cacheHit # {} => (shape.cached > 0) \in w.cacheHit

Times(rate, percent) == (rate * Pick1(percent, 100)) \div 100

\* apply: absolute rates replace, the rest are multiplied.  A tier that
\* repriced input meant the cache too; an absolute output leaves thinking.
Apply(t, r) ==
  [input     |-> IF t.rates.input >= 0 THEN t.rates.input ELSE Times(r.input, t.times.input),
   cached    |-> IF t.rates.cached # Unset THEN t.rates.cached
                 ELSE IF t.rates.input >= 0 THEN t.rates.input
                 ELSE Times(r.cached, t.times.input),
   output    |-> IF t.rates.output >= 0 THEN t.rates.output
                 ELSE Times(r.output, t.times.output),
   reasoning |-> IF t.rates.reasoning >= 0 THEN t.rates.reasoning
                 ELSE Times(Times(r.reasoning, t.times.output), t.times.reasoning)]

\* The tiers in order, until one that applies says stop.
ApplyTiers(tiers, rates, shape) ==
  FoldLeft(LAMBDA s, t :
             IF s.stopped \/ ~t.enabled \/ ~Matches(t.when, shape) THEN s
             ELSE [rates |-> Apply(t, s.rates), fee |-> s.fee + t.surcharge,
                   names |-> Append(s.names, t.name), stopped |-> t.stop],
           [rates |-> rates, fee |-> 0, names |-> <<>>, stopped |-> FALSE], tiers)

-----------------------------------------------------------------------------
(* charge: cached input and thinking are carved out of the totals they are  *)
(* part of.                                                                 *)
Charge(rates, shape) ==
  LET cached    == Least(shape.cached, shape.input)
      reasoning == Least(shape.reasoning, shape.output)
  IN  (shape.input - cached) * rates.input + cached * rates.cached
        + (shape.output - reasoning) * rates.output + reasoning * rates.reasoning

\* price
Price(p, shape) ==
  LET band    == BandOf(shape.effort)
      start   == ApplyBand(BandRates(p, band), StandardRates(p))
      tiered  == ApplyTiers(p.tiers, start, shape)
      backend == Charge(BackendRates(p), shape)
      bands   == IF BandRates(p, band) = NoRates THEN <<>> ELSE <<band>>
  IN  IF ~p.enabled THEN [backend |-> 0, proxy |-> 0, tiers |-> <<>>]
      ELSE IF shape.refused /\ p.refusal > 0
      THEN [backend |-> backend, proxy |-> Usd(p.refusal), tiers |-> <<"refusal">>]
      ELSE [backend |-> backend,
            proxy   |-> Most(0, Charge(tiered.rates, shape) + Usd(p.request)
                                  + Usd(tiered.fee)),
            tiers   |-> bands \o tiered.names]
=============================================================================
