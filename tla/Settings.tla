------------------------------ MODULE Settings ------------------------------
(***************************************************************************)
(* ConfigStore in config.rs and the dashboard's editors in front of it.    *)
(*                                                                         *)
(* The live configuration is one pointer any request reads without a lock; *)
(* edits build the next one under a lock, write the file, then publish the *)
(* index of client keys and the configuration, one after the other.  What  *)
(* is left of a configuration here is what `validate` relates: routes that *)
(* name backends, client keys that may not share a secret, and the panel's *)
(* password.  A collection is a function from the ids it holds; the page   *)
(* in a browser only ever has masks where the secrets are.                 *)
(*                                                                         *)
(* The subcommands that add a key, a backend or a route are processes of   *)
(* their own, with a ConfigStore of their own over the same file.          *)
(***************************************************************************)
EXTENDS SettingsPromise, Naturals, FiniteSets

CONSTANTS
  Backends, Routes, KeyIds,    \* the ids items may have
  Secrets,      \* what a key or a password may be
  MaxEdits, MaxFailures, MaxCrashes, MaxHangUps, MaxCommands    \* bounds

Parameters ==
  /\ Nobody \notin Editors
  /\ NoSecret \notin Secrets
  /\ {MaxEdits, MaxFailures, MaxCrashes, MaxHangUps, MaxCommands} \subseteq Nat

ASSUME SettingsAssumption == Parameters

VARIABLES
  item,         \* the item an editor is about to save
  next,         \* the configuration an editor is writing
  page,         \* what each editor's browser was last shown
  late,         \* renames of dropped requests, still to happen
  outside       \* what subcommands have read and edited, and not yet written

vars == <<up, cfg, index, file, lock, stage, item, patch, next, page, late, outside,
          spent>>

Collections == {"backends", "models", "keys"}
NoItem == [list |-> "none", id |-> Nobody, value |-> NoSecret]

Empty == [x \in {} |-> x]

\* Config::default(), as far as it matters here.
Default == [backends |-> Empty, models |-> Empty, keys |-> Empty,
            password |-> NoSecret]

Put(list, id, value) ==
  [x \in DOMAIN list \union {id} |-> IF x = id THEN value ELSE list[x]]
Drop(list, id) == [x \in DOMAIN list \ {id} |-> list[x]]

(* deep_merge of a patch of whole fields. *)
Merged(base, p) == [f \in DOMAIN base |-> IF f \in DOMAIN p THEN p[f] ELSE base[f]]

(* mask_secret: a mask of a mask is itself. *)
Mask(t) == IF t \in Secrets THEN <<"mask", t>> ELSE t

(* redact: every secret in the configuration masked. *)
Redact(c) == [c EXCEPT !.password = Mask(@),
                       !.keys = [k \in DOMAIN @ |-> Mask(@[k])]]

(* unmask_secrets: the present secret's mask stands for the secret. *)
Unmask(new, old) == IF old # NoSecret /\ new = Mask(old) THEN old ELSE new

-----------------------------------------------------------------------------
Init ==
  /\ up = FALSE
  /\ cfg = Default
  /\ index = IndexOf(Default.keys)
  /\ file = Missing
  /\ lock = Nobody
  /\ stage = [e \in Editors |-> "idle"]
  /\ item = [e \in Editors |-> NoItem]
  /\ patch = [e \in Editors |-> Empty]
  /\ next = [e \in Editors |-> Default]
  /\ page = [e \in Editors |-> Redact(Default)]
  /\ late = {}
  /\ outside = {}
  /\ spent = [edits |-> 0, failures |-> 0, crashes |-> 0, hangups |-> 0,
              commands |-> 0]

Goto(e, to) == stage' = [stage EXCEPT ![e] = to]

Spend(what, most) ==
  /\ spent[what] < most
  /\ spent' = [spent EXCEPT ![what] = @ + 1]

live == <<up, cfg, index, file>>
edit == <<item, patch, next>>

(* ConfigStore::load, by the relay and by every subcommand: a missing file  *)
(* is written, one that does not validate ends the process.                 *)
Read ==
  /\ file # Missing => Valid(file)
  /\ file' = IF file = Missing THEN Default ELSE file

Load ==
  /\ ~up
  /\ Read
  /\ cfg' = file'
  /\ index' = IndexOf(file'.keys)
  /\ up' = TRUE
  /\ UNCHANGED <<lock, stage, edit, page, late, outside, spent>>

(* The process dies, and what it had begun with it. *)
Crash ==
  /\ up
  /\ Spend("crashes", MaxCrashes)
  /\ up' = FALSE
  /\ lock' = Nobody
  /\ stage' = [e \in Editors |-> "idle"]
  /\ late' = {}
  /\ UNCHANGED <<cfg, index, file, edit, page, outside>>

(* get_config *)
View(e) ==
  /\ up
  /\ stage[e] = "idle"
  /\ page' = [page EXCEPT ![e] = Redact(cfg)]
  /\ UNCHANGED <<live, lock, stage, edit, late, outside, spent>>

(* put_config: the patch is unmasked against the configuration of the       *)
(* moment, before the lock.                                                 *)
PutConfig(e, t) ==
  /\ up
  /\ stage[e] = "idle"
  /\ Spend("edits", MaxEdits)
  /\ t \in Secrets \union {page[e].password}
  /\ patch' = [patch EXCEPT ![e] =
                 [f \in {"password"} |-> Unmask(t, cfg.password)]]
  /\ Goto(e, "queued")
  /\ UNCHANGED <<live, lock, item, next, page, late, outside>>

(* upsert_collection, generate_key: an item, its secret unmasked. *)
Save(e, list, id, value) ==
  /\ up
  /\ stage[e] = "idle"
  /\ Spend("edits", MaxEdits)
  /\ LET old == IF id \in DOMAIN cfg[list] THEN cfg[list][id] ELSE NoSecret
         new == IF list = "keys" THEN Unmask(value, old) ELSE value
     IN  item' = [item EXCEPT ![e] = [list |-> list, id |-> id, value |-> new]]
  /\ Goto(e, "unmasked")
  /\ UNCHANGED <<live, lock, patch, next, page, late, outside>>

(* upsert: the list as it is now, with the item in it. *)
Upsert(e) ==
  /\ stage[e] = "unmasked"
  /\ LET i == item[e]
     IN  patch' = [patch EXCEPT ![e] =
                     [f \in {i.list} |-> Put(cfg[i.list], i.id, i.value)]]
  /\ item' = [item EXCEPT ![e] = NoItem]
  /\ Goto(e, "queued")
  /\ UNCHANGED <<live, lock, next, page, late, outside, spent>>

(* delete_item and remove: the list as it is now, without the item. *)
Remove(e, list, id) ==
  /\ up
  /\ stage[e] = "idle"
  /\ Spend("edits", MaxEdits)
  /\ patch' = [patch EXCEPT ![e] = [f \in {list} |-> Drop(cfg[list], id)]]
  /\ Goto(e, "queued")
  /\ UNCHANGED <<live, lock, item, next, page, late, outside>>

\* Faulty: the next configuration is built without the lock.
MergeUnlocked(e) ==
  /\ stage[e] = "queued"
  /\ LET n == Merged(cfg, patch[e])
     IN  /\ next' = [next EXCEPT ![e] = n]
         /\ IF Valid(n) THEN Goto(e, "writing")
                        ELSE Goto(e, "idle")
  /\ lock' = lock
  /\ UNCHANGED <<live, item, patch, page, late, outside, spent>>

\* Faulty: the next configuration is not validated.
MergeUnchecked(e) ==
  /\ stage[e] = "queued"
  /\ lock = Nobody
  /\ next' = [next EXCEPT ![e] = Merged(cfg, patch[e])]
  /\ lock' = e
  /\ Goto(e, "writing")
  /\ UNCHANGED <<live, item, patch, page, late, outside, spent>>

(* update and replace_list, to the write: the base is read under the lock. *)
Merge(e) ==
  /\ stage[e] = "queued"
  /\ lock = Nobody
  /\ LET n == Merged(cfg, patch[e])
     IN  IF Valid(n)
         THEN /\ next' = [next EXCEPT ![e] = n]
              /\ lock' = e
              /\ Goto(e, "writing")
         ELSE /\ Goto(e, "idle")
              /\ UNCHANGED <<next, lock>>
  /\ UNCHANGED <<live, item, patch, page, late, outside, spent>>

(* write_atomic: the rename is what the file sees of it. *)
Rename(e) ==
  /\ stage[e] = "writing"
  /\ file' = next[e]
  /\ Goto(e, "written")
  /\ UNCHANGED <<up, cfg, index, lock, edit, page, late, outside, spent>>

\* Faulty: a failed write is only warned about.
WriteFailsQuietly(e) ==
  /\ stage[e] = "writing"
  /\ Spend("failures", MaxFailures)
  /\ Goto(e, "written")
  /\ UNCHANGED <<live, lock, edit, page, late, outside>>

WriteFails(e) ==
  /\ stage[e] = "writing"
  /\ Spend("failures", MaxFailures)
  /\ lock' = Nobody
  /\ Goto(e, "idle")
  /\ UNCHANGED <<live, edit, page, late, outside>>

(* publish, first store. *)
PublishKeys(e) ==
  /\ stage[e] = "written"
  /\ index' = IndexOf(next[e].keys)
  /\ Goto(e, "indexed")
  /\ UNCHANGED <<up, cfg, file, lock, edit, page, late, outside, spent>>

(* publish, second store; the lock is given back. *)
Publish(e) ==
  /\ stage[e] = "indexed"
  /\ cfg' = next[e]
  /\ lock' = Nobody
  /\ Goto(e, "idle")
  /\ UNCHANGED <<up, index, file, edit, page, late, outside, spent>>

(* The browser goes away and its request is dropped where it waits: for the *)
(* lock, or for the file, whose rename a thread of the pool may have by     *)
(* then.                                                                    *)
HangUp(e) ==
  /\ stage[e] \in {"queued", "writing", "written"}
  /\ Spend("hangups", MaxHangUps)
  /\ Goto(e, "idle")
  /\ lock' = IF lock = e THEN Nobody ELSE lock
  /\ late' \in IF stage[e] = "writing" THEN {late, late \union {next[e]}} ELSE {late}
  /\ UNCHANGED <<live, edit, page, outside>>

LateRename(n) ==
  /\ n \in late
  /\ file' = n
  /\ late' = late \ {n}
  /\ UNCHANGED <<up, cfg, index, lock, stage, edit, page, spent, outside>>

(* key_command, backend_command, model_command: what the file held, with    *)
(* one more item in it.  Keys and backends get an id, and a key a secret,   *)
(* nobody has; a route may be one that is there.                            *)
Command(list, id, value) ==
  /\ spent.edits < MaxEdits /\ spent.commands < MaxCommands
  /\ spent' = [spent EXCEPT !.edits = @ + 1, !.commands = @ + 1]
  /\ Read
  /\ list \in {"keys", "backends"} => id \notin DOMAIN file'[list]
  /\ LET n == Merged(file', [f \in {list} |-> Put(file'[list], id, value)])
     IN  /\ Valid(n)
         /\ outside' = outside \union {n}
  /\ UNCHANGED <<up, cfg, index, lock, stage, edit, page, late>>

(* ... and its write_atomic, or its end before that. *)
CommandWrites(n) ==
  /\ n \in outside
  /\ file' \in {n, file}
  /\ outside' = outside \ {n}
  /\ UNCHANGED <<up, cfg, index, lock, stage, edit, page, late, spent>>

Edit(e) ==
  \/ View(e)
  \/ \E t \in Secrets \union {page[e].password} : PutConfig(e, t)
  \/ \E b \in Backends : Save(e, "backends", b, b)
  \/ \E r \in Routes, b \in Backends : Save(e, "models", r, b)
  \/ \E k \in KeyIds :
       \E t \in Secrets \union {page[e].keys[x] : x \in DOMAIN page[e].keys} :
         Save(e, "keys", k, t)
  \/ \E b \in Backends : Remove(e, "backends", b)
  \/ \E r \in Routes : Remove(e, "models", r)
  \/ \E k \in KeyIds : Remove(e, "keys", k)

Next ==
  \/ Load
  \/ Crash
  \/ \E e \in Editors :
       \/ Edit(e) \/ Upsert(e) \/ Merge(e) \/ Rename(e) \/ WriteFails(e)
       \/ PublishKeys(e) \/ Publish(e) \/ HangUp(e)
  \/ \E n \in late : LateRename(n)
  \/ \E k \in KeyIds, t \in Secrets : Command("keys", k, t)
  \/ \E b \in Backends : Command("backends", b, b)
  \/ \E r \in Routes, b \in Backends : Command("models", r, b)
  \/ \E n \in outside : CommandWrites(n)

Spec == Init /\ [][Next]_vars

-----------------------------------------------------------------------------
(* "a save that echoes a mask back must keep the stored value rather than   *)
(* overwrite it with the mask".                                             *)
EchoKeepsTheSecret ==
  \A t \in {cfg.password} \union {cfg.keys[k] : k \in DOMAIN cfg.keys} :
    t \in Secrets \union {NoSecret}
=============================================================================
