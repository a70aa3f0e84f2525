------------------------------- MODULE Request -------------------------------
(***************************************************************************)
(* The life of a request: the checks of server/public.rs (admit), chat as  *)
(* relay/handler.rs runs it (handle_chat, pipe_stream, pipe_buffered,      *)
(* finish), embeddings as server/public.rs runs them, and what a restart   *)
(* or a rotation does to the counts.  Quota.tla is the limiter and the     *)
(* tracker, Upstream.tla the calls to the backends; of the gate only the   *)
(* places are kept (Gate.tla has its line), of the store only the detail   *)
(* rows (Books.tla has the ledger).                                        *)
(***************************************************************************)
EXTENDS Quota, Upstream

CONSTANTS
  KindOf,       \* "stream", "json" or "embed": what each caller asked for
  Slots,        \* maxConcurrentRequests
  MaxBoots      \* bound: successors started, after a crash or for a rotation

ASSUME RequestAssumption ==
  /\ Calls = Requests
  /\ KindOf \in [Requests -> {"stream", "json", "embed"}]
  /\ Slots \in Nat \ {0} /\ MaxBoots \in Nat

VARIABLES
  pc,           \* how far each request is
  home,         \* the process each request came to
  holders,      \* requests that hold a place of their process's gate
  up,           \* is a process serving?
  serving,      \* which one: processes are numbered as they start
  next,         \* {}, or the tracker of a successor that is not serving yet
  \* history
  begun,        \* requests whose stream has begun
  passed        \* when the serving process let requests through its limiter

process == <<home, holders, up, serving, next, begun, passed>>
vars    == <<quota, upstream, pc, process>>

Ended == {"refused", "over", "dropped", "dead"}
PCs   == {"new", "admitted", "working", "sending", "streaming", "buffering"} \union Ended

TypeOK ==
  /\ QuotaTypeOK
  /\ UpstreamTypeOK
  /\ pc \in [Requests -> PCs]
  /\ home \in [Requests -> 0..MaxBoots]
  /\ holders \subseteq Requests
  /\ up \in BOOLEAN
  /\ serving \in 0..MaxBoots
  /\ next \subseteq [day : Days \union {Never}, count : Nat]
  /\ Cardinality(next) <= 1
  /\ begun \subseteq Requests
  /\ passed \in [Requests -> 0..MaxClock \union {Never}]

Init ==
  /\ QuotaInit
  /\ UpstreamInit
  /\ pc = [r \in Requests |-> "new"]
  /\ home = [r \in Requests |-> 0]
  /\ holders = {}
  /\ up = TRUE
  /\ serving = 0
  /\ next = {}
  /\ begun = {}
  /\ passed = [r \in Requests |-> Never]

Chat(r)   == KindOf[r] # "embed"
Served(r) == home[r] = serving

Goto(r, where) == pc' = [pc EXCEPT ![r] = where]
Leave(r)       == holders' = holders \ {r}

-----------------------------------------------------------------------------
(* public::admit.  Blocked addresses and unknown keys touch no state. *)
Admit(r) ==
  /\ pc[r] = "new" /\ up
  /\ Hit(UnderRate)
  /\ passed' = IF UnderRate THEN [passed EXCEPT ![r] = clock] ELSE passed
  /\ IF UnderRate THEN Ask ELSE UNCHANGED tracker
  /\ Goto(r, IF UnderRate /\ UnderQuota THEN "admitted" ELSE "refused")
  /\ born' = [born EXCEPT ![r] = IF UnderRate /\ UnderQuota THEN Today ELSE @]
  /\ home' = [home EXCEPT ![r] = serving]
  /\ UNCHANGED <<clock, unwritten, rows, finished, excuses, upstream, holders, up,
                 serving, next, begun>>

-----------------------------------------------------------------------------
(* finish, or the end of embeddings: the count, then the row.  The count   *)
(* goes to the request's own process, which may no longer be the one that  *)
(* serves, and carries the day the request began.                          *)
Late(r) == tracker.day \in Days /\ tracker.day > born[r]
Finish(r) ==
  /\ finished' = finished \union {r}
  /\ tracker' = IF Served(r) THEN Recorded(tracker, born[r]) ELSE tracker
  /\ unwritten' = unwritten \union {r}
  /\ excuses' = excuses \union (IF Served(r) /\ Late(r) THEN {"midnight"} ELSE {})
                        \union (IF next # {} \/ ~Served(r) THEN {"rotation"} ELSE {})
  /\ Goto(r, "over")
  /\ UNCHANGED <<clock, hits, born, rows>>

\* chat_inner, a body that names no model: 400, after the hit and without finish.
NoModel(r) ==
  /\ pc[r] = "admitted" /\ Chat(r)
  /\ Goto(r, "refused")
  /\ UNCHANGED <<quota, upstream, process>>

\* 404 and 403 are finished too; embeddings leaves no trace of them.
Reject(r) ==
  /\ pc[r] = "admitted"
  /\ IF Chat(r) THEN Finish(r) ELSE Goto(r, "refused") /\ UNCHANGED quota
  /\ UNCHANGED <<upstream, process>>

Neighbours(r) == {h \in holders : home[h] = home[r]}

TakePlace(r) ==
  /\ pc[r] = "admitted" /\ Chat(r)
  /\ Cardinality(Neighbours(r)) < Slots
  /\ holders' = holders \union {r}
  /\ Goto(r, "working")
  /\ UNCHANGED <<quota, upstream, home, up, serving, next, begun, passed>>

\* QueueFull and TimedOut: 503.
TurnAway(r) ==
  /\ pc[r] = "admitted" /\ Chat(r)
  /\ Cardinality(Neighbours(r)) = Slots
  /\ Finish(r)
  /\ UNCHANGED <<upstream, process>>

\* 413, once the prompt is counted.
TooLong(r) ==
  /\ pc[r] = "working"
  /\ Finish(r)
  /\ Leave(r)
  /\ UNCHANGED <<upstream, home, up, serving, next, begun, passed>>

\* Embeddings takes no place at the gate.
Send(r) ==
  /\ pc[r] = IF Chat(r) THEN "working" ELSE "admitted"
  /\ Chat(r) \/ Route[1] \in Usable
  /\ Goto(r, "sending")
  /\ UNCHANGED <<quota, upstream, process>>

\* Chat goes through send_with_fallback, embeddings through one send.
MayAsk(r) == Chat(r) \/ call[r].place = 1
Upstreaming(r) ==
  /\ pc[r] = "sending"
  /\ MayAsk(r)
  /\ \/ \E o \in Outcomes : Attempt(r, o)
     \/ Skip(r)
     \/ Exhausted(r)
  /\ UNCHANGED <<quota, pc, process>>

\* The backends have had their turn.  A failure is finished here; an answer
\* is a stream when the caller wants one and the backend sends one.
Answered(r) ==
  /\ pc[r] = "sending" /\ Chat(r)
  /\ call[r].report # "none"
  /\ \/ call[r].report # "ok" /\ Finish(r) /\ Leave(r) /\ UNCHANGED begun
     \/ /\ call[r].report = "ok" /\ KindOf[r] = "stream"
        /\ Goto(r, "streaming")
        /\ begun' = begun \union {r}
        /\ UNCHANGED <<quota, holders>>
     \/ call[r].report = "ok" /\ Goto(r, "buffering") /\ UNCHANGED <<quota, holders, begun>>
  /\ Return({r})
  /\ UNCHANGED <<home, up, serving, next, passed>>

\* The end of pipe_stream's task, pipe_streamed_into_json or pipe_buffered,
\* whatever the body came to: 200, 499 or 502.
EndOfBody(r) ==
  /\ pc[r] \in {"streaming", "buffering"}
  /\ Finish(r)
  /\ Leave(r)
  /\ UNCHANGED <<upstream, home, up, serving, next, begun, passed>>

\* Any outcome of its one send is recorded.
Embedded(r) ==
  /\ pc[r] = "sending" /\ ~Chat(r)
  /\ call[r].report # "none" \/ call[r].place > 1
  /\ Finish(r)
  /\ Return({r})
  /\ UNCHANGED process

\* Nothing is awaited between a call's report and what chat does with it.
AtAwait(r) == Chat(r) /\ pc[r] = "sending" => call[r].report = "none"

\* Faulty: the body of a stream is produced by the handler's own future.
HangUpStreaming(r) ==
  /\ pc[r] \in {"admitted", "working", "sending", "buffering", "streaming"}
  /\ AtAwait(r)
  /\ Goto(r, "dropped")
  /\ Leave(r)
  /\ Return({r})
  /\ UNCHANGED <<quota, home, up, serving, next, begun, passed>>

\* The caller goes: the handler's future is dropped at the await it is at,
\* the ticket with it.  A stream has a task of its own, which only learns of
\* it (499) and ends as ever.
HangUp(r) ==
  /\ pc[r] \in {"admitted", "working", "sending", "buffering"}
  /\ AtAwait(r)
  /\ Goto(r, "dropped")
  /\ Leave(r)
  /\ Return({r})
  /\ UNCHANGED <<quota, home, up, serving, next, begun, passed>>

-----------------------------------------------------------------------------
(* Processes come and go (Handover.tla says how). *)

\* A successor starts: AppState::build seeds its tracker.
Boot ==
  /\ next = {} /\ serving < MaxBoots
  /\ next' = {Seeded}
  /\ excuses' = excuses \union (IF unwritten # {} THEN {"rotation"} ELSE {})
  /\ UNCHANGED <<clock, hits, tracker, born, unwritten, rows, finished, upstream, pc,
                 home, holders, up, serving, begun, passed>>

\* It takes the lease; its predecessor finishes what it has.
Takeover ==
  /\ next # {}
  /\ \E t \in next : tracker' = t
  /\ next' = {}
  /\ serving' = serving + 1
  /\ up' = TRUE
  /\ hits' = <<>>
  /\ passed' = [r \in Requests |-> Never]
  /\ UNCHANGED <<clock, born, unwritten, rows, finished, excuses, upstream, pc, home,
                 holders, begun>>

Crash ==
  /\ up /\ serving < MaxBoots
  /\ up' = FALSE
  /\ LET gone == {r \in Requests : Served(r) /\ pc[r] \notin Ended \union {"new"}}
     IN  /\ pc' = [r \in Requests |-> IF r \in gone THEN "dead" ELSE pc[r]]
         /\ holders' = holders \ gone
         /\ Return(gone)
  /\ unwritten' = {r \in unwritten : ~Served(r)}
  /\ excuses' = excuses \union (IF unwritten # unwritten' THEN {"crash"} ELSE {})
  /\ UNCHANGED <<clock, hits, tracker, born, rows, finished, home, serving, next, begun,
                 passed>>

Next ==
  \/ Tick /\ UNCHANGED <<upstream, pc, process>>
  \/ Boot \/ Takeover \/ Crash
  \/ \E r \in Requests :
       \/ Admit(r) \/ NoModel(r) \/ Reject(r) \/ TakePlace(r) \/ TurnAway(r)
       \/ TooLong(r) \/ Send(r) \/ Upstreaming(r) \/ Answered(r) \/ EndOfBody(r) \/ Embedded(r)
       \/ HangUp(r)
       \/ Write(r) /\ UNCHANGED <<upstream, pc, process>>

Spec == Init /\ [][Next]_vars

-----------------------------------------------------------------------------
(* finish is on every way out of the handler but one: what was answered    *)
(* has its count and its row, what was dropped has neither, and a stream   *)
(* once begun is never dropped.                                            *)
Accounted ==
  \A r \in Requests :
    /\ pc[r] = "over" <=> r \in finished
    /\ pc[r] = "dropped" => r \notin begun

(* The gate: every chat between its admission and its end holds one place  *)
(* of its process, nothing else does, and a process has no more than Slots.*)
WithinLimit ==
  /\ holders = {r \in Requests : /\ Chat(r)
                                 /\ pc[r] \in {"working", "sending", "streaming", "buffering"}}
  /\ \A r \in Requests : Cardinality(Neighbours(r)) <= Slots

(* Every way out of the handler, the hang-ups and the crash included, ends *)
(* a request once on the books and once at the gate.                       *)
EveryWayOut == Accounted /\ WithinLimit

\* The requests that were put on the wire to place i.
AskedAt(r, i) == {n \in DOMAIN tried[r] : tried[r][n] = i}

(* send_with_fallback: no backend is asked more often than its retries     *)
(* allow, none before every usable one ahead of it on the route, and only  *)
(* when all were asked to the last retry is a call unreachable; the        *)
(* attempts that are reported are those that were made.                    *)
TriesInTurn ==
  \A r \in Requests :
    /\ \A i \in Places : Cardinality(AskedAt(r, i)) <= MaxAttempts[Route[i]]
    /\ \A n \in DOMAIN tried[r] : \A j \in 1 .. tried[r][n] - 1 :
         Route[j] \in Usable => \E m \in 1 .. n - 1 : tried[r][m] = j
    /\ call[r].report = "unreachable" =>
         \A i \in Places : Route[i] \in Usable =>
           Cardinality(AskedAt(r, i)) = MaxAttempts[Route[i]]
    /\ call[r].total + call[r].used = Len(tried[r])

(* The sliding window: a process lets no more than PerMinute requests of a *)
(* key through in any stretch of time as long as the window.               *)
RateHeld ==
  PerMinute > 0 =>
    \A t \in 0..MaxClock :
      Cardinality({r \in Requests : passed[r] \in t .. t + Window - 1}) <= PerMinute

AdmittedFull(r) ==
  /\ pc[r] = "new" /\ pc'[r] = "admitted"
  /\ PerDay > 0
  /\ Cardinality(FinishedOn(Today)) >= PerDay

(* "Load today's totals so a restart does not hand everyone a fresh        *)
(* quota", "rolling over automatically at local midnight": a request is    *)
(* admitted only while fewer than PerDay have finished that day, if no row *)
(* was lost in a crash, none finished behind a rotation's back, and none   *)
(* was recorded for a day already over.                                    *)
QuotaKept == [][\A r \in Requests : AdmittedFull(r) => excuses # {}]_vars

(* The same, with no excuse for midnight. *)
QuotaOverMidnight ==
  [][\A r \in Requests : AdmittedFull(r) => excuses \ {"midnight"} # {}]_vars

(* The same, with no excuse for a rotation. *)
QuotaOverRotation ==
  [][\A r \in Requests : AdmittedFull(r) => excuses \ {"rotation"} # {}]_vars
=============================================================================
