----------------------------- MODULE Vocabulary -----------------------------
(***************************************************************************)
(* tokenizer/registry.rs: the vocabularies token counts are made with,     *)
(* loaded from disk on first use, counted with the estimator when they     *)
(* cannot be, and installed from the dashboard, or by a subcommand that is  *)
(* a process of its own, while requests count.                             *)
(*                                                                         *)
(* A load runs on the blocking pool under an async mutex; the request that *)
(* waits for it may be given up by its caller, which drops the guard.      *)
(***************************************************************************)
EXTENDS Naturals, FiniteSets

CONSTANTS
  Tasks,        \* requests that count
  Names,        \* vocabularies that are not compiled in
  None,
  MaxCalls, MaxInstalls, MaxSaves   \* bounds

\* What is asked of the constants; Workers assumes it.
Parameters ==
  /\ None \notin Tasks \union Names
  /\ {MaxCalls, MaxInstalls, MaxSaves} \subseteq Nat

VARIABLES
  disk,         \* the names whose file is there
  cache,        \* name -> "exact", "estimate" or None
  misses,
  lock,         \* the task that holds load_lock
  pc, want,     \* where each task is, and the name it wants
  got,          \* the encoder it has loaded or found
  installing,   \* the names whose file is written, to be invalidated
  raced,        \* the names invalidated under a load
  aside,        \* the names installed by a subcommand since they were invalidated
  calls, installs, saves

vars == <<disk, cache, misses, lock, pc, want, got, installing, raced,
          aside, calls, installs, saves>>

counts == <<calls, installs, saves>>
files  == <<disk, installing>>

Init ==
  /\ disk \in SUBSET Names
  /\ cache = [n \in Names |-> None]
  /\ misses = {}
  /\ lock = None
  /\ pc = [t \in Tasks |-> "idle"]
  /\ want = [t \in Tasks |-> None]
  /\ got = [t \in Tasks |-> None]
  /\ installing = {}
  /\ raced = {}
  /\ aside = {}
  /\ calls = 0 /\ installs = 0 /\ saves = 0

\* What `load` makes of a name at this moment; the estimator stands in for
\* an error.
Loaded(n) == IF n \in disk THEN "exact" ELSE "estimate"

Found(t, enc) ==
  /\ got' = [got EXCEPT ![t] = enc]
  /\ pc' = [pc EXCEPT ![t] = "idle"]

-----------------------------------------------------------------------------
(* Registry::get *)

Get(t, n) ==
  /\ pc[t] = "idle"
  /\ calls < MaxCalls
  /\ calls' = calls + 1
  /\ want' = [want EXCEPT ![t] = n]
  /\ IF cache[n] # None
       THEN Found(t, cache[n])
       ELSE /\ pc' = [pc EXCEPT ![t] = "waiting"]
            /\ got' = [got EXCEPT ![t] = None]
  /\ UNCHANGED <<files, cache, misses, lock, raced, aside, installs, saves>>

\* Another task may have loaded it while this one waited.
Lock(t) ==
  /\ pc[t] = "waiting"
  /\ lock = None
  /\ IF cache[want[t]] # None
       THEN Found(t, cache[want[t]]) /\ lock' = None
       ELSE lock' = t /\ pc' = [pc EXCEPT ![t] = "loading"] /\ got' = got
  /\ UNCHANGED <<files, cache, misses, want, raced, aside, counts>>

\* The blocking load looks at the disk, some time while the task waits.
Load(t) ==
  LET n == want[t]
  IN /\ pc[t] = "loading"
     /\ pc' = [pc EXCEPT ![t] = "loaded"]
     /\ got' = [got EXCEPT ![t] = Loaded(n)]
     /\ UNCHANGED <<files, cache, misses, lock, want, raced, aside, counts>>

\* A failure is noted once, and cached as the estimator either way.
Keep(t) ==
  LET n == want[t]
  IN /\ pc[t] = "loaded"
     /\ misses' = IF got[t] = "estimate" THEN misses \union {n} ELSE misses
     /\ cache' = [cache EXCEPT ![n] = got[t]]
     /\ lock' = None
     /\ pc' = [pc EXCEPT ![t] = "idle"]
     /\ UNCHANGED <<files, want, got, raced, aside, counts>>

\* External: the caller of a request hangs up, and its future is dropped.
\* What it loaded is thrown away.
HangUp(t) ==
  LET loaded == pc[t] = "loaded"
  IN /\ pc[t] # "idle"
     /\ pc' = [pc EXCEPT ![t] = "idle"]
     /\ lock' = IF lock = t THEN None ELSE lock
     /\ raced' = IF loaded THEN raced \ {want[t]} ELSE raced
     /\ UNCHANGED <<files, cache, misses, want, got, aside, counts>>

-----------------------------------------------------------------------------
(* The dashboard *)

\* Faulty: the miss is forgotten, and what is cached stays.
InvalidateMisses(names) ==
  /\ misses' = misses \ names
  /\ UNCHANGED <<cache, raced, aside>>

\* Registry::invalidate.  A load that has looked at the disk already will
\* keep what it found.
Invalidate(names) ==
  /\ cache' = [n \in Names |-> IF n \in names THEN None ELSE cache[n]]
  /\ misses' = misses \ names
  /\ raced' = (raced \ names)
                \union {n \in names : \E t \in Tasks : pc[t] = "loaded" /\ want[t] = n}
  /\ aside' = aside \ names

\* tokenizer_install: a tokenizer that has been downloaded and parsed is
\* written into the directory.
Write(n) ==
  /\ installs < MaxInstalls
  /\ installs' = installs + 1
  /\ disk' = disk \union {n}
  /\ installing' = installing \union {n}
  /\ UNCHANGED <<cache, misses, lock, pc, want, got, raced, aside, calls, saves>>

\* Then what is cached under its name goes.
Installed(n) ==
  /\ n \in installing
  /\ installing' = installing \ {n}
  /\ Invalidate({n})
  /\ UNCHANGED <<disk, lock, pc, want, got, counts>>

\* tokenizer_command: the same file, and nobody to tell the relay.
Install(n) ==
  /\ installs < MaxInstalls
  /\ installs' = installs + 1
  /\ disk' = disk \union {n}
  /\ aside' = aside \union {n}
  /\ UNCHANGED <<installing, cache, misses, lock, pc, want, got, raced, calls, saves>>

\* put_config: saved settings drop every vocabulary.
Saved ==
  /\ saves < MaxSaves
  /\ saves' = saves + 1
  /\ Invalidate(Names)
  /\ UNCHANGED <<files, lock, pc, want, got, calls, installs>>

Next ==
  \/ \E t \in Tasks, n \in Names : Get(t, n)
  \/ \E t \in Tasks : Lock(t) \/ Load(t) \/ Keep(t) \/ HangUp(t)
  \/ \E n \in Names : Write(n) \/ Installed(n) \/ Install(n)
  \/ Saved

Spec == Init /\ [][Next]_vars

-----------------------------------------------------------------------------
(* Properties *)

\* registry.rs invalidate and dashboard.rs tokenizer_install: what counts
\* under a name is what its file gives now, unless its installer has yet to
\* drop the cached encoder, the invalidation came under a load, or the
\* installer was a subcommand.
CountsWithTheDisk ==
  \A n \in Names :
    cache[n] # None => \/ cache[n] = Loaded(n)
                       \/ n \in installing \union raced \union aside
==============================================================================
