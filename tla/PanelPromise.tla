---------------------------- MODULE PanelPromise ----------------------------
(***************************************************************************)
(* What the dashboard's doors promise, of what can be counted in front of  *)
(* them: guesses stay within budgets of so many for each period, and a     *)
(* password that was reset signs everybody out.  Panel has the steps.      *)
(***************************************************************************)
EXTENDS Integers

CONSTANTS
  Requests,
  AttemptsGlobal, Lockout,     \* LOGIN_ATTEMPTS_GLOBAL, ...
  MaxAttempts, MintInterval    \* of reset.rs

VARIABLES
  now,
  password,     \* dashboard.password
  setBy,        \* how it came to be: from the file, the settings or a reset
  sessions,     \* the tokens, with their expiry and what they were opened under
  pc,           \* where each request is
  judged,       \* history: wrong passwords judged since the last right one
  guesses,      \* history: wrong codes judged
  restarts

-----------------------------------------------------------------------------
(* The shared counter "cannot be escaped by changing address": whoever      *)
(* asks, and whatever the table of addresses forgets, a lockout's worth of  *)
(* wrong passwords is judged per lockout, besides those already past the    *)
(* check when it began.                                                     *)
SignInBudget == judged <= AttemptsGlobal * (1 + (now - 1) \div Lockout)

(* "The guessing budget, not the length, is what makes it safe": a code's   *)
(* wrong answers are counted, and codes are not minted faster than one an   *)
(* interval, across expiry, exhaustion and every way of forgetting one.     *)
CodeBudget ==
  guesses <= MaxAttempts * (1 + restarts + (now - 1) \div MintInterval)

(* "None of them survives it": after a reset the only sessions of an older  *)
(* password are those whose sign-in was under way when it happened.         *)
ResetSignsOut ==
  setBy = "reset" /\ (\A r \in Requests : pc[r] # "clearing")
    => \A s \in DOMAIN sessions :
         sessions[s].under = password \/ sessions[s].overtaken
=============================================================================
