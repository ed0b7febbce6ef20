---------------------------- MODULE CallerWindow ----------------------------
(***************************************************************************)
(* What a rate limiter promises one caller: its window is its own.  It is  *)
(* opened by a call when none is in force, lasts for Duration, and lets    *)
(* Limit calls through; nothing but this caller's calls and the clock      *)
(* changes it, and a refused call does not.                                *)
(***************************************************************************)
EXTENDS Naturals, Sequences

CONSTANTS Limit, Duration

VARIABLES
  now,     \* the clock
  window,  \* the window in force: the calls it let through and its start
  passed   \* the calls let through, each with the start of its window

windowVars == <<now, window, passed>>

None == [used |-> 0, startAt |-> 0]
InForce == window.used > 0

WindowInit ==
  /\ now = 0
  /\ window = None
  /\ passed = <<>>

Pass(start) == passed' = Append(passed, [at |-> now, since |-> start])

Begin ==
  /\ ~InForce
  /\ window' = [used |-> 1, startAt |-> now]
  /\ Pass(now)
  /\ UNCHANGED now

Use ==
  /\ InForce /\ window.used < Limit
  /\ window' = [window EXCEPT !.used = @ + 1]
  /\ Pass(window.startAt)
  /\ UNCHANGED now

Elapse ==
  /\ now' \in Nat /\ now' > now
  /\ window' = IF InForce /\ now' - window.startAt < Duration THEN window ELSE None
  /\ UNCHANGED passed

WindowNext == Begin \/ Use \/ Elapse

WindowSpec == WindowInit /\ [][WindowNext]_windowVars
=============================================================================
