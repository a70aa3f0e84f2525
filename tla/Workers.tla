------------------------------- MODULE Workers -------------------------------
(***************************************************************************)
(* The parts of the relay that work beside its requests and share no state *)
(* with one another: the trace exporter, the vocabulary registry, the      *)
(* claim on the tunnels, and the keeper with the updater.  In every        *)
(* behaviour one of them works and the others stand where they started, so *)
(* that their state spaces add up instead of multiplying.                  *)
(***************************************************************************)
EXTENDS Naturals

CONSTANTS
  None,
  Traced, Capacity, BatchSize, SampleRate, MaxSwitches,
  Tasks, Names, MaxCalls, MaxInstalls, MaxSaves,
  Relays, Together, MaxKills,
  Keepers, Alone, MaxAsked, MaxMishaps

VARIABLES
  works,        \* the part that works: "spans", "vocabulary", "claims" or "service"
  lf, req, queue, stats, exporter, seen, batch, backoff, switches,
  disk, cache, misses, loader, task, want, got, installing, raced, aside,
  calls, installs, saves,
  phase, claiming, holder, tunnels, late, crossed, quit, killed,
  shell, pidfile, stopfile, script, relay, leaving, update, moved, binary,
  parked, abandoned, mishaps

Spans      == INSTANCE Spans WITH Requests <- Traced
Vocabulary == INSTANCE Vocabulary WITH pc <- task, lock <- loader
Claims     == INSTANCE Claims
Service    == INSTANCE Service WITH pc <- shell, spent <- mishaps

ASSUME WorkersAssumption ==
  Spans!Parameters /\ Vocabulary!Parameters /\ Claims!Parameters /\ Service!Parameters

spans      == <<lf, req, queue, stats, exporter, seen, batch, backoff, switches>>
vocabulary == <<disk, cache, misses, loader, task, want, got, installing,
                raced, aside, calls, installs, saves>>
claims     == <<phase, claiming, holder, tunnels, late, crossed, quit, killed>>
service    == <<shell, pidfile, stopfile, script, relay, leaving, update, moved,
                binary, parked, abandoned, mishaps>>
vars       == <<works, spans, vocabulary, claims, service>>

\* Where the parts that do not work stand: one of their initial states.
Still ==
  /\ works # "spans" => lf = [ready |-> FALSE, errors |-> FALSE]
  /\ works # "vocabulary" => disk = {}
  /\ works # "claims" => holder = None

Init ==
  /\ works \in {"spans", "vocabulary", "claims", "service"}
  /\ Spans!Init /\ Vocabulary!Init /\ Claims!Init /\ Service!Init
  /\ Still

SpansWork ==
  /\ works = "spans"
  /\ Spans!Next
  /\ UNCHANGED <<works, vocabulary, claims, service>>

VocabularyWorks ==
  /\ works = "vocabulary"
  /\ Vocabulary!Next
  /\ UNCHANGED <<works, spans, claims, service>>

ClaimsWork ==
  /\ works = "claims"
  /\ Claims!Next
  /\ UNCHANGED <<works, spans, vocabulary, service>>

ServiceWorks ==
  /\ works = "service"
  /\ Service!Next
  /\ UNCHANGED <<works, spans, vocabulary, claims>>

Next == SpansWork \/ VocabularyWorks \/ ClaimsWork \/ ServiceWorks

Spec == Init /\ [][Next]_vars /\ Service!Fairness

-----------------------------------------------------------------------------
(* Properties *)

\* langfuse.rs: every span is waiting, in the batch, sent, failed or dropped.
SpansAccounted == Spans!SpansAccounted

\* registry.rs invalidate, dashboard.rs tokenizer_install: what counts is what
\* the file gives, unless the invalidation is to come or came under a load.
CountsWithTheDisk == Vocabulary!CountsWithTheDisk

\* rotate.rs claim_tunnel and release_tunnel: the tunnels of one relay at a time.
OneGeneration == Claims!OneGeneration

\* update.rs build and restore: an update that is over leaves a binary.
BinaryIsThere == Service!BinaryIsThere

\* system.rs install_service: an undisturbed keeper brings the relay back.
BroughtBack == Service!BroughtBack
==============================================================================
