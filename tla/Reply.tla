-------------------------------- MODULE Reply --------------------------------
(***************************************************************************)
(* An answer on its way back, and its usage: the response side of          *)
(* relay/transform.rs and the usage half of tokenizer/mod.rs.              *)
(*                                                                         *)
(* A delta, like a whole message, is [reasoning, content, calls]: what may *)
(* be missing (reasoning; an upstream usage) is a sequence of at most one. *)
(* A call is the text its pieces make, under its index.  Envelopes carry   *)
(* nothing of the backend's and are left out.                              *)
(***************************************************************************)
EXTENDS Prompt

Texts(pieces) == FoldLeft(LAMBDA t, p : t \o p, <<>>, pieces)

\* apply_text
Wrapped(text, t) == t.prefix \o Rewrite(t.replace, text) \o t.suffix

-----------------------------------------------------------------------------
(* A whole answer *)

\* transform_message: `keep` and `field` differ in the name of the field.
TransformMessage(m, t) ==
  LET inlined == IF t.reasoning = "inline" /\ m.reasoning # <<>>
                 THEN t.tags[1] \o Texts(m.reasoning) \o t.tags[2] ELSE <<>>
  IN  [m EXCEPT !.content = IF inlined \o @ = <<>> THEN @ ELSE Wrapped(inlined \o @, t),
                !.reasoning = IF t.reasoning \in {"strip", "inline"} THEN <<>> ELSE @]

-----------------------------------------------------------------------------
(* A streamed answer *)

\* Faulty: every delta is a block of its own.
TransformDeltaAlone(d, t, open, finished) ==
  IF t.reasoning = "inline" /\ d.reasoning # <<>>
  THEN [d |-> [d EXCEPT !.content = t.tags[1] \o Texts(d.reasoning) \o t.tags[2] \o @,
                        !.reasoning = <<>>], open |-> FALSE]
  ELSE [d |-> IF t.reasoning = "strip" THEN [d EXCEPT !.reasoning = <<>>] ELSE d, open |-> open]

\* transform_delta: `open` goes from one to the next.
TransformDelta(d, t, open, finished) ==
  LET thinks == d.reasoning # <<>>
      closes == ~thinks /\ open /\ (d.content # <<>> \/ finished)
      before == IF thinks THEN (IF open THEN <<>> ELSE t.tags[1]) \o Texts(d.reasoning)
                ELSE IF closes THEN t.tags[2] ELSE <<>>
  IN  CASE t.reasoning = "inline" ->
             [d |-> [d EXCEPT !.content = before \o @, !.reasoning = <<>>],
              open |-> (open \/ thinks) /\ ~closes]
        [] t.reasoning = "strip" -> [d |-> [d EXCEPT !.reasoning = <<>>], open |-> open]
        [] OTHER          -> [d |-> d, open |-> open]

\* collect_tool_calls
Collect(calls, pieces) ==
  FoldLeft(LAMBDA c, p : With(c, p.index, (IF p.index \in DOMAIN c THEN c[p.index]
                                           ELSE <<>>) \o p.text),
           calls, pieces)

-----------------------------------------------------------------------------
(* Usage *)

\* count_completion: three more for every call.
CountCompletion(text, reasoning, calls) ==
  Len(text) + Len(reasoning)
    + SumFunction([i \in DOMAIN calls |-> 3 + Len(calls[i])])

\* reconcile_usage: the backend's figure where it has one and is preferred.
Reconcile(local, upstream, prefer) ==
  LET zero == [prompt |-> 0, completion |-> 0, cached |-> 0, reasoning |-> 0]
      up   == IF upstream = <<>> THEN zero ELSE upstream[1]
      use  == prefer /\ (up.prompt > 0 \/ up.completion > 0)
  IN  [prompt     |-> IF use THEN Pick1(up.prompt, local.prompt) ELSE local.prompt,
       completion |-> IF use THEN Pick1(up.completion, local.completion)
                      ELSE local.completion,
       cached     |-> up.cached,
       reasoning  |-> up.reasoning]

\* Faulty: a hit is the caller's up to the size of their prompt.
CallerCachedClamped(usage, user, basis) ==
  IF user < basis.floor THEN 0 ELSE Least(usage.cached, user)

\* caller_cached: the relay's own words in front come off the hit.
CallerCached(usage, user, basis) ==
  LET offset == IF basis.wholeBody THEN 0
                ELSE Most(basis.injected, Most(0, usage.prompt - user))
  IN  IF user < basis.floor THEN 0
      ELSE Least(Most(0, usage.cached - offset), user)

\* charged_to_caller
Charged(usage, user, basis) ==
  [usage EXCEPT !.prompt = user, !.cached = CallerCached(usage, user, basis)]
=============================================================================
