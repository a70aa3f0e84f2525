------------------------------- MODULE Panel -------------------------------
(***************************************************************************)
(* Who may use the dashboard: sign-in, sessions and the throttle in        *)
(* server/dashboard.rs, and the password reset of reset.rs.                *)
(*                                                                         *)
(* Each request does one thing, in the steps between which other threads   *)
(* of the server may run: a lock given back, a file written or removed, a  *)
(* configuration saved.  A challenge and a session are named after the     *)
(* request that made them.  Time is counted in whole seconds, as the       *)
(* throttle's answers are, and starts at 1.                                *)
(***************************************************************************)
EXTENDS PanelPromise, Integers, FiniteSets

CONSTANTS
  None,
  Addresses,    \* who asks
  Remote,       \* those of them that come in over the tunnel
  Passwords, NoPassword,
  Attempts, Tracked,           \* LOGIN_ATTEMPTS, ...
  Ttl,          \* session_ttl_ms
  CodeTtl,      \* of reset.rs
  MaxTime, MaxRestarts         \* bounds

Parameters ==
  /\ None \notin Requests
  /\ NoPassword \notin Passwords
  /\ Remote \subseteq Addresses
  /\ {Attempts, AttemptsGlobal, Lockout, Tracked, Ttl, MaxAttempts, CodeTtl,
      MintInterval} \subseteq Nat \ {0}
  /\ {MaxTime, MaxRestarts} \subseteq Nat

ASSUME PanelAssumption == Parameters

VARIABLES
  global,       \* LoginGuard.global: wrong passwords, and locked until when
  per,          \* LoginGuard.per_address
  pending,      \* the live challenge: its name, expiry and attempts
  lastMint,
  file,         \* the challenge password-reset.json is about
  arg           \* what each request carries

vars == <<now, password, setBy, global, per, sessions, pending, lastMint, file,
          pc, arg, judged, guesses, restarts>>

throttle == <<global, per, judged>>
recovery == <<pending, lastMint, guesses>>

Clean     == [n |-> 0, until |-> 0]
Unheard   == [a \in {} |-> Clean]
NoSession == [r \in {} |-> None]

Init ==
  /\ now = 1
  /\ password \in Passwords \union {NoPassword}
  /\ setBy = "file"
  /\ global = Clean
  /\ per = Unheard
  /\ sessions = NoSession
  /\ pending = None
  /\ lastMint = 0
  /\ file = None
  /\ pc = [r \in Requests |-> "new"]
  /\ arg = [r \in Requests |-> None]
  /\ judged = 0
  /\ guesses = 0
  /\ restarts = 0

\* r goes on, carrying x; once done it carries nothing.
Goto(r, to, x) ==
  /\ pc' = [pc EXCEPT ![r] = to]
  /\ arg' = [arg EXCEPT ![r] = IF to = "done" THEN None ELSE x]
Goes(r, to) == Goto(r, to, arg[r])
Only(f, S)  == [x \in DOMAIN f \intersect S |-> f[x]]
With(f, x, v) == [y \in DOMAIN f \union {x} |-> IF y = x THEN v ELSE f[y]]

-----------------------------------------------------------------------------
(* Signing in. *)

Locked(c) == c.until > now

(* LoginGuard::check: either counter refuses. *)
Refused(a) == Locked(global) \/ (a \in DOMAIN per /\ Locked(per[a]))

\* Faulty: the count starts over and nobody is locked out.
CountedInVain(c, limit) == [c EXCEPT !.n = (@ + 1) % limit]

\* One more wrong password on a counter.
Counted(c, limit) ==
  IF c.n + 1 >= limit THEN [n |-> 0, until |-> now + Lockout]
                      ELSE [c EXCEPT !.n = @ + 1]

(* LoginGuard::failed: a full table forgets who is not locked out, and a    *)
(* table full of those who are takes nobody else.                           *)
Failed(a) ==
  LET kept == IF Cardinality(DOMAIN per) >= Tracked
              THEN Only(per, {x \in DOMAIN per : Locked(per[x])})
              ELSE per
      mine == IF a \in DOMAIN kept THEN kept[a] ELSE Clean
  IN  /\ global' = Counted(global, AttemptsGlobal)
      /\ per' = IF Cardinality(DOMAIN kept) >= Tracked THEN kept
                ELSE With(kept, a, Counted(mine, Attempts))

(* login, to the check: the password is the one of that moment. *)
Login(r, a, given) ==
  /\ pc[r] = "new"
  /\ IF password = NoPassword
     THEN Goto(r, IF a \in Remote THEN "done" ELSE "signing",
               [from |-> a, given |-> NoPassword, expected |-> NoPassword])
     ELSE Goto(r, IF Refused(a) THEN "done" ELSE "comparing",
               [from |-> a, given |-> given, expected |-> password])
  /\ UNCHANGED <<now, password, setBy, throttle, sessions, recovery, file, restarts>>

Wrong(r) ==
  /\ pc[r] = "comparing"
  /\ arg[r].given # arg[r].expected
  /\ Failed(arg[r].from)
  \* Those who were past the check when the lockout began are not its guesses.
  /\ judged' = IF Refused(arg[r].from) THEN judged ELSE judged + 1
  /\ Goes(r, "done")
  /\ UNCHANGED <<now, password, setBy, sessions, recovery, file, restarts>>

(* LoginGuard::succeeded. *)
Succeeded(a) ==
  /\ global' = Clean
  /\ per' = Only(per, DOMAIN per \ {a})

(* The password is right, or there is none and the caller is not remote. *)
Right(r) ==
  /\ \/ pc[r] = "comparing" /\ arg[r].given = arg[r].expected
     \/ pc[r] = "signing" /\ arg[r].given = NoPassword
  /\ Succeeded(arg[r].from)
  /\ judged' = 0
  /\ Goes(r, "opening")
  /\ UNCHANGED <<now, password, setBy, sessions, recovery, file, restarts>>

(* The rest of login: expired sessions are swept out, one is added. *)
OpenSession(r) ==
  /\ pc[r] = "opening"
  /\ LET live == {s \in DOMAIN sessions : sessions[s].expires > now}
         under == arg[r].expected
     IN  sessions' = With(Only(sessions, live), r,
                          [expires |-> now + Ttl, under |-> under,
                           \* The password changed since it was compared.
                           overtaken |-> under # password])
  /\ Goes(r, "done")
  /\ UNCHANGED <<now, password, setBy, throttle, recovery, file, restarts>>

(* logout *)
Logout(r, s) ==
  /\ pc[r] = "new"
  /\ s \in DOMAIN sessions
  /\ sessions' = Only(sessions, DOMAIN sessions \ {s})
  /\ Goes(r, "done")
  /\ UNCHANGED <<now, password, setBy, throttle, recovery, file, restarts>>

(* authed: an expired token is removed by the one who presents it. *)
Authed(s) ==
  \/ password = NoPassword
  \/ s \in DOMAIN sessions /\ sessions[s].expires > now

Expire(s) ==
  /\ s \in DOMAIN sessions
  /\ password # NoPassword
  /\ ~Authed(s)
  /\ sessions' = Only(sessions, DOMAIN sessions \ {s})
  /\ UNCHANGED <<now, password, setBy, throttle, recovery, file, pc, arg, restarts>>

-----------------------------------------------------------------------------
(* The password changed from the settings, by somebody signed in, and      *)
(* Recovery::forget after it.                                              *)
PutPassword(r, s, p) ==
  /\ pc[r] = "new"
  /\ Authed(s)
  /\ password' = p
  /\ setBy' = "settings"
  /\ Goes(r, IF p = password THEN "done" ELSE "forgetting")
  /\ UNCHANGED <<now, throttle, sessions, recovery, file, restarts>>

Forget(r) ==
  /\ pc[r] = "forgetting"
  /\ pending' = None
  /\ Goto(r, "removing", None)
  /\ UNCHANGED <<now, password, setBy, throttle, sessions, lastMint, guesses, file, restarts>>

-----------------------------------------------------------------------------
(* The password reset. *)

Live == pending # None /\ pending.expires > now

\* Faulty: a code is minted whenever none is live.
MintEager(r) ==
  IF Live
  THEN Goes(r, "done") /\ UNCHANGED <<pending, lastMint>>
  ELSE /\ lastMint' = now
       /\ pending' = [id |-> r, expires |-> now + CodeTtl, attempts |-> 0]
       /\ Goes(r, "filing")

(* Recovery::start: the live code again, or a new one if the last is long   *)
(* enough ago.                                                              *)
Mint(r) ==
  IF Live \/ (lastMint > 0 /\ lastMint + MintInterval > now)
  THEN Goes(r, "done") /\ UNCHANGED <<pending, lastMint>>
  ELSE /\ lastMint' = now
       /\ pending' = [id |-> r, expires |-> now + CodeTtl, attempts |-> 0]
       /\ Goes(r, "filing")

(* password_reset_start *)
Start(r) ==
  /\ pc[r] = "new"
  /\ password # NoPassword
  /\ Mint(r)
  /\ UNCHANGED <<now, password, setBy, throttle, sessions, guesses, file, restarts>>

(* The end of Recovery::start: the file for `chtting-relay reset-code`. *)
FileCode(r) ==
  /\ pc[r] = "filing"
  /\ file' = r
  /\ Goes(r, "done")
  /\ UNCHANGED <<now, password, setBy, throttle, sessions, recovery, restarts>>

(* Recovery::verify, for challenge id with the right or a wrong code: what  *)
(* becomes of the challenge, and whether the code was that.                 *)
Verify(id, right) ==
  LET tries == pending.attempts + 1
      met   == Live /\ id = pending.id
  IN  CASE pending # None /\ ~Live -> [left |-> None, ok |-> FALSE]
        [] met /\ right            -> [left |-> None, ok |-> TRUE]
        [] met /\ ~right           ->
             [left |-> IF tries >= MaxAttempts THEN None
                       ELSE [pending EXCEPT !.attempts = tries], ok |-> FALSE]
        [] OTHER                   -> [left |-> pending, ok |-> FALSE]

(* password_reset_confirm, to the verdict; what is cleared has its file     *)
(* removed.                                                                 *)
Answer(r, id, right, p) ==
  /\ pc[r] = "new"
  /\ password # NoPassword
  /\ LET verdict == Verify(id, right)
         cleared == pending # None /\ verdict.left = None
     IN  /\ pending' = verdict.left
         /\ Goto(r, IF cleared THEN "removing" ELSE "done",
                 IF verdict.ok THEN p ELSE None)
  /\ guesses' = IF Live /\ id = pending.id /\ ~right THEN guesses + 1 ELSE guesses
  /\ UNCHANGED <<now, password, setBy, throttle, sessions, lastMint, file, restarts>>

(* The end of Recovery::check and of forget; a right answer goes on. *)
RemoveFile(r) ==
  /\ pc[r] = "removing"
  /\ file' = None
  /\ Goes(r, IF arg[r] = None THEN "done" ELSE "updating")
  /\ UNCHANGED <<now, password, setBy, throttle, sessions, recovery, restarts>>

\* Faulty: the new password is stored and that is that.
UpdateOnly(r) ==
  /\ pc[r] = "updating"
  /\ password' = arg[r]
  /\ setBy' = "reset"
  /\ Goes(r, "done")
  /\ UNCHANGED <<now, throttle, sessions, recovery, file, restarts>>

(* config.update of password_reset_confirm. *)
Update(r) ==
  /\ pc[r] = "updating"
  /\ password' = arg[r]
  /\ setBy' = "reset"
  /\ Goes(r, "clearing")
  /\ UNCHANGED <<now, throttle, sessions, recovery, file, restarts>>

(* LoginGuard::clear *)
Cleared == global' = Clean /\ per' = Unheard

(* Every session is signed out and every lockout forgotten. *)
Clear(r) ==
  /\ pc[r] = "clearing"
  /\ sessions' = NoSession
  /\ Cleared
  /\ judged' = 0
  /\ Goes(r, "done")
  /\ UNCHANGED <<now, password, setBy, recovery, file, restarts>>

-----------------------------------------------------------------------------
(* A request is dropped where it waits for a file; a configuration that     *)
(* cannot be saved ends one the same way.                                   *)
Dropped(r) ==
  /\ pc[r] \in {"filing", "removing", "updating"}
  /\ Goes(r, "done")
  /\ UNCHANGED <<now, password, setBy, throttle, sessions, recovery, file, restarts>>

(* A new process: memory is empty, and forget_pending removes the file. *)
Restart ==
  /\ restarts < MaxRestarts
  /\ restarts' = restarts + 1
  /\ pc' = [r \in Requests |-> IF pc[r] = "new" THEN "new" ELSE "done"]
  /\ arg' = [r \in Requests |-> None]
  /\ global' = Clean
  /\ per' = Unheard
  /\ judged' = 0
  /\ sessions' = NoSession
  /\ pending' = None
  /\ lastMint' = 0
  /\ file' = None
  /\ UNCHANGED <<now, password, setBy, guesses>>

Tick ==
  /\ now < MaxTime
  /\ now' = now + 1
  /\ UNCHANGED <<password, setBy, throttle, sessions, recovery, file, pc, arg, restarts>>

Next ==
  \/ Tick
  \/ Restart
  \/ \E r \in Requests :
       \/ \E a \in Addresses, given \in Passwords : Login(r, a, given)
       \/ Wrong(r) \/ Right(r) \/ OpenSession(r)
       \/ \E s \in Requests : Logout(r, s) \/ Expire(s)
       \/ \E s \in Requests, p \in Passwords : PutPassword(r, s, p)
       \/ Forget(r)
       \/ Start(r) \/ FileCode(r)
       \/ \E id \in Requests, right \in BOOLEAN, p \in Passwords :
            Answer(r, id, right, p)
       \/ RemoveFile(r) \/ Update(r) \/ Clear(r)
       \/ Dropped(r)

Spec == Init /\ [][Next]_vars

-----------------------------------------------------------------------------
(* "a request from an address that has not been guessing is answered while  *)
(* the global lockout is still running, as long as that address is clean".  *)
CleanAddressIsAnswered ==
  [][\A r \in Requests, a \in Addresses, given \in Passwords :
       Login(r, a, given) /\ password # NoPassword /\ pc'[r] = "done"
         => a \in DOMAIN per /\ Locked(per[a])]_vars
=============================================================================
