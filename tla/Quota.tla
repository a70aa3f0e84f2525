-------------------------------- MODULE Quota --------------------------------
(***************************************************************************)
(* What stands between a client key and the relay: the RateLimiter and the *)
(* QuotaTracker of store/mod.rs, both in memory, and the `requests` table  *)
(* the tracker is seeded from.  One key is modelled: keys share no count.  *)
(* The module has no Next of its own; Request.tla composes it.             *)
(***************************************************************************)
EXTENDS Integers, Sequences, FiniteSets

CONSTANTS
  Requests,
  PerMinute,    \* quota.requestsPerMinute, 0 for no limit
  PerDay,       \* quota.requestsPerDay, 0 for no limit
  Window,       \* the limiter's minute, in ticks
  DayLength,    \* ticks from midnight to midnight
  MaxClock,     \* bound
  Never         \* no time, no day

ASSUME QuotaAssumption ==
  /\ {PerMinute, PerDay, MaxClock} \subseteq Nat
  /\ {Window, DayLength} \subseteq Nat \ {0}
  /\ Never \notin Int

VARIABLES
  clock,
  hits,         \* the limiter's deque: when calls were let through
  tracker,      \* the tracker's day and the key's count
  born,         \* RequestRecord.day of each request
  unwritten,    \* detail rows on their way to the table
  rows,         \* detail rows in the table
  \* history
  finished,     \* requests that have been counted, by any process
  excuses       \* why a count may be short

quota == <<clock, hits, tracker, born, unwritten, rows, finished, excuses>>

Today == clock \div DayLength
Days  == 0 .. MaxClock \div DayLength

QuotaTypeOK ==
  /\ clock \in 0..MaxClock
  /\ hits \in Seq(0..MaxClock)
  /\ tracker \in [day : Days \union {Never}, count : Nat]
  /\ born \in [Requests -> Days \union {Never}]
  /\ unwritten \subseteq Requests
  /\ rows \subseteq Requests
  /\ finished \subseteq Requests
  /\ excuses \subseteq {"midnight", "crash", "rotation"}

QuotaInit ==
  /\ clock = 0
  /\ hits = <<>>
  /\ tracker = [day |-> 0, count |-> 0]
  /\ born = [r \in Requests |-> Never]
  /\ unwritten = {}
  /\ rows = {}
  /\ finished = {}
  /\ excuses = {}

Tick ==
  /\ clock < MaxClock
  /\ clock' = clock + 1
  /\ UNCHANGED <<hits, tracker, born, unwritten, rows, finished, excuses>>

-----------------------------------------------------------------------------
(* RateLimiter::check *)

\* Faulty: a hit that is not quite a whole window old goes.
ExpiredEarly ==
  Cardinality({i \in DOMAIN hits : \A j \in 1..i : clock - hits[j] >= Window - 1})

\* The expired hits at the front of the deque; it is in order of arrival.
Expired ==
  Cardinality({i \in DOMAIN hits : \A j \in 1..i : clock - hits[j] >= Window})

\* What is left of the deque when they are gone.
Live == SubSeq(hits, Expired + 1, Len(hits))

UnderRate == PerMinute = 0 \/ Len(Live) < PerMinute

Hit(passes) ==
  hits' = IF PerMinute = 0 THEN hits
          ELSE IF passes THEN Append(Live, clock) ELSE Live

-----------------------------------------------------------------------------
(* QuotaTracker *)

\* roll_over: any other day than the tracker's starts it afresh.
RolledOver(t, day) == IF t.day = day THEN t ELSE [day |-> day, count |-> 0]

\* get, as daily_quota_refusal asks it.
UnderQuota == PerDay = 0 \/ RolledOver(tracker, Today).count < PerDay

\* A key without a daily limit never asks, so it does not roll the day over.
Ask == tracker' = IF PerDay = 0 THEN tracker ELSE RolledOver(tracker, Today)

\* record
Recorded(t, day) == LET u == RolledOver(t, day) IN [u EXCEPT !.count = @ + 1]

FinishedOn(day) == {r \in finished : born[r] = day}

\* Faulty: the counts are loaded and the day is not.
SeededDayless ==
  [day |-> Never, count |-> Cardinality({r \in rows : born[r] = Today})]

\* seed: today's rows, as the table has them at start-up.
Seeded == [day |-> Today, count |-> Cardinality({r \in rows : born[r] = Today})]

-----------------------------------------------------------------------------
(* The writer (Books.tla has it in full): one row reaches the table. *)
Write(r) ==
  /\ r \in unwritten
  /\ unwritten' = unwritten \ {r}
  /\ rows' = rows \union {r}
  /\ UNCHANGED <<clock, hits, tracker, born, finished, excuses>>
=============================================================================
