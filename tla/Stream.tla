-------------------------------- MODULE Stream --------------------------------
(***************************************************************************)
(* A streamed answer on its way from the backend's socket to the caller:   *)
(* Utf8Decoder, SseParser, StreamRewriter and the pump that runs them      *)
(* (relay/handler.rs, relay/sse.rs), with the frames pipe_stream closes    *)
(* the stream with.                                                        *)
(*                                                                         *)
(* The text of a frame is a sequence of characters; on the wire a frame's  *)
(* data line is one character of two bytes, which stands for all of it,    *)
(* and is never invalid UTF-8.                                             *)
(* A rule is a literal pattern and its replacement.  Pacing, and what      *)
(* transform_chunk renames or strips, are left out.                        *)
(***************************************************************************)
EXTENDS Integers, Sequences, SequencesExt, FiniteSetsExt

CONSTANTS
  Scripts,      \* what a backend may send: sequences of frames
  Chars,        \* the characters texts are made of
  Breaks,       \* the blank lines it may send after a frame
  Rules,        \* responseTransform.replace
  Lookbehind,   \* rules_lookbehind
  Prefix, Suffix,
  KeepAlive,    \* is server.sseKeepaliveMs not zero?
  Room,         \* places in the channel to the caller's body
  MaxChunk      \* bound: bytes of one read

ASSUME StreamAssumption ==
  /\ {Prefix, Suffix} \subseteq Seq(Chars)
  /\ Scripts \subseteq Seq([content : Seq(Chars), finish : BOOLEAN, usage : BOOLEAN])
  /\ Rules \in Seq([pattern : Seq(Chars), replacement : Seq(Chars)])
  /\ \A i \in DOMAIN Rules : Len(Rules[i].pattern) \in 1..Lookbehind
  /\ KeepAlive \in BOOLEAN
  /\ {Lookbehind, Room, MaxChunk} \subseteq Nat \ {0}

VARIABLES
  script,       \* what this backend sends
  wire,         \* the bytes of it that have not been read
  partial,      \* Utf8Decoder
  buf,          \* SseParser
  pending,      \* StreamRewriter
  prefixed,     \* prefix_sent
  said,         \* Pumped.text
  usage,        \* Pumped.upstream_usage: has the backend reported one?
  error,        \* Pumped.error
  disconnected, \* Pumped.disconnected
  pc,
  load,         \* frames in the channel
  gone,         \* has the caller hung up?
  sent,         \* frames put into the channel, comments apart
  status        \* what the request is recorded as

input   == <<script, wire, partial, buf>>
pumped  == <<pending, prefixed, said, usage, error, disconnected>>
caller  == <<load, gone, sent>>
vars    == <<input, pumped, pc, caller, status>>

-----------------------------------------------------------------------------
(* Rules. *)

Matches(text, p, i) == i + Len(p) - 1 <= Len(text) /\ SubSeq(text, i, i + Len(p) - 1) = p

\* replace_all: leftmost matches, none overlapping the one before it.
Replace(text, rule) ==
  LET from[i \in 1 .. Len(text) + Len(rule.pattern)] ==
        IF i > Len(text) THEN <<>>
        ELSE IF Matches(text, rule.pattern, i)
             THEN rule.replacement \o from[i + Len(rule.pattern)]
             ELSE <<text[i]>> \o from[i + 1]
  IN  from[1]

\* Each rule runs over what the last one produced.
Apply(text) == FoldLeft(Replace, text, Rules)

\* Where the matches of a pattern begin, as find_from_pos steps through them.
Starts(text, p) ==
  LET from[i \in 1 .. Len(text) + Len(p)] ==
        IF i > Len(text) THEN {}
        ELSE IF Matches(text, p, i) THEN {i} \union from[i + Len(p)]
        ELSE from[i + 1]
  IN  from[1]

\* Pull the cut back behind the match that straddles it.
Behind(text, cut, p) ==
  LET straddling == {i \in Starts(text, p) : i <= cut /\ i + Len(p) - 1 > cut}
  IN  IF straddling = {} THEN cut ELSE Min(straddling) - 1

\* Faulty: a fixed tail is all that is held back.
SafeCutFixed(text) == Max({0, Len(text) - Lookbehind})

\* safe_cut: one pass over the rules.
SafeCut(text) ==
  FoldLeft(LAMBDA cut, rule : IF cut = 0 THEN 0 ELSE Behind(text, cut, rule.pattern),
           Max({0, Len(text) - Lookbehind}), Rules)

\* StreamRewriter::push: how much of what is pending goes out now.
Cut(text) == IF Rules = <<>> THEN Len(text) ELSE SafeCut(text)

-----------------------------------------------------------------------------
(* Decoder and parser. *)

Whole(f)  == <<[frame |-> f, half |-> 1], [frame |-> f, half |-> 2]>>
CR        == [frame |-> 0, half |-> 2]
NL        == [frame |-> 0, half |-> 3]

\* Faulty: a character that is not complete is replaced.
DecodedLossy(bytes) ==
  IF bytes # <<>> /\ Last(bytes).half = 1
  THEN Append(Front(bytes), [Last(bytes) EXCEPT !.half = 0]) ELSE bytes

\* from_utf8's valid_up_to: the last byte may be the first half of a character.
Decoded(bytes) ==
  IF bytes # <<>> /\ Last(bytes).half = 1 THEN Front(bytes) ELSE bytes

\* find_separator, at one position: how long a separator begins there.
Separator(text, k) ==
  IF Matches(text, <<NL, NL>>, k) THEN 2
  ELSE IF Matches(text, <<CR, NL, CR, NL>>, k) THEN 4 ELSE 0

Ends(text) == {k \in DOMAIN text : Separator(text, k) > 0}

ASSUME BreaksAssumption == Breaks \subseteq Seq({CR, NL}) /\ \A b \in Breaks : Ends(b) # {}

\* parse_event: the frame whose data stands in a block whole.  A block with
\* none (a comment, [DONE], what does not parse) changes nothing.
Events(block) ==
  {f \in DOMAIN script : \E i \in DOMAIN block : Matches(block, Whole(f), i)}

-----------------------------------------------------------------------------
Frame == [kind : {"delta", "usage", "error", "done"}, content : Seq(Chars),
          finish : BOOLEAN]

PCs == {"read", "flush", "usage", "error", "done", "record", "over"}

\* Each frame and a blank line; the last one may do without.
OnTheWire(frames, break, last) ==
  FoldLeft(LAMBDA w, p : w \o p, <<>>,
           [f \in DOMAIN frames |-> Whole(f) \o IF f = Len(frames) THEN last ELSE break])

Init ==
  /\ script \in Scripts
  /\ \E break \in Breaks, last \in Breaks \union {<<>>} : wire = OnTheWire(script, break, last)
  /\ partial = <<>>
  /\ buf = <<>>
  /\ pending = <<>>
  /\ prefixed = FALSE
  /\ said = <<>>
  /\ usage = FALSE
  /\ error = FALSE
  /\ disconnected = FALSE
  /\ pc = "read"
  /\ load = 0
  /\ gone = FALSE
  /\ sent = <<>>
  /\ status = 0

-----------------------------------------------------------------------------
(* emit_frame *)

\* The channel is awaited; when the caller's body is gone the send fails.
Speak(frame) ==
  IF gone
  THEN disconnected' = TRUE /\ UNCHANGED <<load, sent>>
  ELSE /\ load < Room
       /\ load' = load + 1
       /\ sent' = Append(sent, frame)
       /\ UNCHANGED disconnected

Delta(text, finish) == [kind |-> "delta", content |-> text, finish |-> finish]
Closing(kind)       == [kind |-> kind, content |-> <<>>, finish |-> FALSE]

\* 'outer is left when the caller turns out to be gone.
ReadOn == pc' = IF gone THEN "flush" ELSE pc

-----------------------------------------------------------------------------
(* pump *)

\* One read off the socket, once the events of the last one are through.
Read(n) ==
  /\ pc = "read" /\ Ends(buf) = {}
  /\ n <= Len(wire)
  /\ LET bytes == partial \o SubSeq(wire, 1, n)
         text  == Decoded(bytes)
     IN  /\ partial' = SubSeq(bytes, Len(text) + 1, Len(bytes))
         /\ buf' = buf \o text
  /\ wire' = SubSeq(wire, n + 1, Len(wire))
  /\ UNCHANGED <<script, pumped, pc, caller, status>>

\* The socket is at its end, or failed before it (a reset, timeoutMs).
EndOfWire ==
  /\ pc = "read" /\ Ends(buf) = {}
  /\ pc' = "flush"
  /\ error' \in {wire # <<>>, TRUE}
  /\ UNCHANGED <<input, pending, prefixed, said, usage, disconnected, caller, status>>

\* Faulty: a comment that cannot be sent is no reason to stop.
QuietDeaf ==
  /\ pc = "read" /\ Ends(buf) = {} /\ KeepAlive
  /\ IF gone THEN UNCHANGED load ELSE load < Room /\ load' = load + 1
  /\ UNCHANGED <<disconnected, pc, input, pending, prefixed, said, usage, error, gone,
                 sent, status>>

\* The backend is quiet for sse_keepalive_ms: a comment goes out.
Quiet ==
  /\ pc = "read" /\ Ends(buf) = {} /\ KeepAlive
  /\ IF gone THEN disconnected' = TRUE /\ UNCHANGED load
             ELSE load < Room /\ load' = load + 1 /\ UNCHANGED disconnected
  /\ ReadOn
  /\ UNCHANGED <<input, pending, prefixed, said, usage, error, gone, sent, status>>

\* One content delta through the rewriter.  When all of its text is held back
\* the frame is not sent, and nothing else of it either.
Content(f) ==
  \E text \in {pending \o (IF prefixed THEN <<>> ELSE Prefix) \o f.content} :
    \E cut \in {Cut(text)} :
      \E safe \in {Apply(SubSeq(text, 1, cut))} :
        /\ prefixed' = TRUE
        /\ pending' = SubSeq(text, cut + 1, Len(text))
        /\ IF safe = <<>>
           THEN UNCHANGED <<disconnected, load, sent, pc>>
           ELSE Speak(Delta(safe, f.finish)) /\ ReadOn

\* One event: what is noted of it, and what is sent.
Shape(f) ==
  /\ said' = said \o f.content
  /\ usage' = (usage \/ f.usage)
  /\ IF f.content # <<>> THEN Content(f)
     ELSE Speak(Delta(<<>>, f.finish)) /\ ReadOn /\ UNCHANGED <<pending, prefixed>>
  /\ UNCHANGED error

\* The first event of the parser's buffer.
Event ==
  /\ pc = "read" /\ Ends(buf) # {}
  /\ \E k \in {Min(Ends(buf))} :
       /\ buf' = SubSeq(buf, k + Separator(buf, k), Len(buf))
       /\ \/ Events(SubSeq(buf, 1, k - 1)) = {} /\ UNCHANGED <<pumped, pc, load, sent>>
          \/ \E f \in Events(SubSeq(buf, 1, k - 1)) : Shape(script[f])
  /\ UNCHANGED <<script, wire, partial, gone, status>>

\* parser.flush, of which only the usage is looked at, and the rewriter's.
\* Events that were parsed and not yet dealt with are gone with the loop.
Rest(text) ==
  IF Ends(text) = {} THEN text
  ELSE SubSeq(text, Max(Ends(text)) + Separator(text, Max(Ends(text))), Len(text))
Held == Apply(pending) \o Suffix
Flush ==
  /\ pc = "flush"
  /\ usage' = (usage \/ \E f \in Events(Rest(buf)) : script[f].usage)
  /\ buf' = <<>>
  /\ IF disconnected \/ Held = <<>>
     THEN UNCHANGED <<pending, disconnected, load, sent>>
     ELSE pending' = <<>> /\ Speak(Delta(Held, FALSE))
  /\ pc' = IF disconnected' THEN "record" ELSE "usage"
  /\ UNCHANGED <<script, wire, partial, prefixed, said, error, gone, status>>

-----------------------------------------------------------------------------
(* The rest of pipe_stream's task. *)

Close(here, frame, there) ==
  /\ pc = here
  /\ Speak(frame)
  /\ pc' = there
  /\ UNCHANGED <<input, pending, prefixed, said, usage, error, gone, status>>

\* A prompt is never nothing, so there is always a usage to report.
CloseUsage == Close("usage", Closing("usage"), IF error THEN "error" ELSE "done")
CloseError == Close("error", Closing("error"), "done")
CloseDone  == Close("done", Closing("done"), "record")

\* record_stream_outcome; the ticket is dropped and the body ends.
Record ==
  /\ pc = "record"
  /\ status' = IF disconnected THEN 499 ELSE IF error THEN 502 ELSE 200
  /\ pc' = "over"
  /\ UNCHANGED <<input, pumped, caller>>

-----------------------------------------------------------------------------
(* The caller. *)
Receive ==
  /\ load > 0 /\ ~gone
  /\ load' = load - 1
  /\ UNCHANGED <<input, pumped, pc, gone, sent, status>>

HangUp ==
  /\ pc # "over" /\ ~gone
  /\ gone' = TRUE
  /\ load' = 0
  /\ UNCHANGED <<input, pumped, pc, sent, status>>

Pump == \/ \E n \in 1..MaxChunk : Read(n)
        \/ EndOfWire \/ Quiet \/ Event \/ Flush
        \/ CloseUsage \/ CloseError \/ CloseDone \/ Record

Next == Pump \/ Receive \/ HangUp

Spec == Init /\ [][Next]_vars

\* The task is scheduled whenever it has something to do: tokio runs it, and
\* the keep-alive timer wakes it when the backend does not.  The backend may
\* stay quiet for ever.
FairSpec == Spec /\ WF_vars(Event \/ Flush \/ CloseUsage \/ CloseError \/ CloseDone \/ Record)
                 /\ WF_vars(Quiet)

-----------------------------------------------------------------------------
Texts(frames) == FoldLeft(LAMBDA t, f : t \o f.content, <<>>, frames)

TypeOK ==
  /\ script \in Scripts
  /\ pending \in Seq(Chars)
  /\ said \in Seq(Chars)
  /\ sent \in Seq(Frame)
  /\ Len(partial) <= 1
  /\ pc \in PCs
  /\ load \in 0..Room
  /\ {prefixed, usage, error, disconnected, gone} \subseteq BOOLEAN
  /\ status \in {0, 200, 499, 502}

(* "without letting a pattern that straddles two chunks slip through":     *)
(* however the bytes are cut up, what has been sent and what is held back, *)
(* rewritten, are the whole text so far, rewritten.                        *)
RewrittenWhole ==
  pc = "read" /\ ~disconnected =>
    Apply((IF prefixed THEN Prefix ELSE <<>>) \o said) = Texts(sent) \o Apply(pending)

Kinds(frames) == {frames[i].kind : i \in DOMAIN frames}

(* A stream recorded as 200 carried all of the answer (the last frame may  *)
(* want its blank line) between its prefix and its suffix, then its usage  *)
(* and [DONE], each once; one the backend broke off says so ahead of       *)
(* [DONE]; 499 is recorded only of a caller that hung up.                  *)
ClosedInFull ==
  pc = "over" =>
    /\ status # 499 =>
         LET n    == Len(sent)
             tail == IF status = 200 THEN <<"usage", "done">> ELSE <<"usage", "error", "done">>
             body == SubSeq(sent, 1, n - Len(tail))
         IN  /\ \A i \in DOMAIN tail : sent[n - Len(tail) + i].kind = tail[i]
             /\ Kinds(body) \subseteq {"delta"}
             /\ Texts(body) = Apply((IF prefixed THEN Prefix ELSE <<>>) \o said) \o Suffix
    /\ status = 499 => gone
    /\ status = 200 => said \in {Texts(script), Texts(Front(script))}

(* A caller who hangs up while the backend is silent does not keep the     *)
(* place at the gate: the keep-alive finds out and the task ends.          *)
HangUpEnds == KeepAlive => (gone ~> pc = "over")
=============================================================================
