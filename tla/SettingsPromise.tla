--------------------------- MODULE SettingsPromise ---------------------------
(***************************************************************************)
(* What ConfigStore in config.rs promises, of what can be seen of it: the  *)
(* configuration served, the file it comes back from, and the locks and    *)
(* stages of the edits in between.  Settings has the steps.                *)
(***************************************************************************)
CONSTANTS
  Editors,      \* requests of the dashboard that edit, one at a time each
  Nobody,
  NoSecret,     \* the empty string
  Missing       \* no file yet

VARIABLES
  up,           \* is the process running?
  cfg,          \* `current`
  index,        \* `keys`: which key each secret belongs to
  file,         \* config.json
  lock,         \* who holds write_lock
  stage,        \* where each editor is
  patch,        \* the fields an edit replaces, with what
  spent         \* how often each bounded thing has happened

(* validate: every route's backend exists, no key is empty, no two keys are *)
(* one secret.                                                              *)
Valid(c) ==
  /\ \A r \in DOMAIN c.models : c.models[r] \in DOMAIN c.backends
  /\ \A k \in DOMAIN c.keys : c.keys[k] # NoSecret
  /\ \A k, l \in DOMAIN c.keys : c.keys[k] = c.keys[l] => k = l

(* KeyIndex::build. *)
IndexOf(keys) ==
  [s \in {keys[k] : k \in DOMAIN keys} |-> CHOOSE k \in DOMAIN keys : keys[k] = s]

-----------------------------------------------------------------------------
(* Whatever is edited, refused, dropped or lost with the process, the file  *)
(* is one the next start accepts.                                           *)
FileAlwaysLoads == file # Missing => Valid(file)

(* "Serialises writers": with nobody writing, the index is that of the keys *)
(* served; the file is what is served too, so a restart serves what was     *)
(* answered for, unless an edit was dropped in the middle of its write or   *)
(* another process wrote the same file.                                     *)
Settled ==
  up /\ lock = Nobody =>
    /\ index = IndexOf(cfg.keys)
    /\ spent.hangups = 0 /\ spent.commands = 0 => file = cfg

(* An edit of one collection leaves what others made of the rest alone,     *)
(* however old the page it was made on: while its second store is to come   *)
(* (publish, config.rs) nothing changes but the fields of its patch.        *)
OthersUntouched ==
  [][\A e \in Editors : stage[e] = "indexed" =>
       \A f \in DOMAIN cfg \ DOMAIN patch[e] : cfg'[f] = cfg[f]]_cfg
=============================================================================
