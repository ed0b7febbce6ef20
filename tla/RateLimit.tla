----------------------------- MODULE RateLimit -----------------------------
(***************************************************************************)
(* The rate limiters (internal/middleware/ratelimit.go): each keeps, under *)
(* a mutex, one window per Authorization header or, without one, per       *)
(* address.  A window is opened by the first call after the end of the     *)
(* last and counts the calls made in it, refused ones included; opening    *)
(* one may purge the windows of the limiter that are over.  The tiers      *)
(* (ratelimit_tiered.go) are one limiter per role and operation, so a      *)
(* caller whose role changes is counted by another limiter.                *)
(***************************************************************************)
EXTENDS Integers, Sequences, FiniteSets

CONSTANTS
  Roles,      \* the tiers: admin, kodaclaw, observer and anonymous
  Ops,        \* the operations: read, write, upload and download
  Headers,    \* Authorization headers and addresses
  Limit,      \* tierLimits: the calls a window lets through
  Duration,   \* of a window, a minute
  Second,     \* the unit of X-RateLimit-Reset
  Crowd,      \* the number of windows from which on they may be purged, 100
  MaxTime,    \* bound on the clock
  MaxRefused  \* bound on the refusals counted in a window

Limiters == Roles \X Ops
Slots == Limiters \X Headers

ASSUME RateAssumption ==
  /\ Limit \in [Limiters -> Nat \ {0}]
  /\ Duration \in Nat \ {0} /\ Second \in Nat \ {0}
  /\ Crowd \in Nat /\ MaxTime \in Nat /\ MaxRefused \in Nat

VARIABLES
  now,      \* the monotonic clock
  windows,  \* the windows of each limiter
  passed,   \* history: the calls let through, with the start of their window
  told      \* the headers of the last answer: calls remaining, second of the reset

vars == <<now, windows, passed, told>>

NoWindow == [count |-> 0, startAt |-> 0]
Untold == [remaining |-> 0, reset |-> -1]

Init ==
  /\ now = 0
  /\ windows = [s \in Slots |-> NoWindow]
  /\ passed = [s \in Slots |-> <<>>]
  /\ told = [s \in Slots |-> Untold]

-----------------------------------------------------------------------------
Open(s) == windows[s].count > 0
Over(s) == now - windows[s].startAt >= Duration
LimitOf(s) == Limit[s[1]]
SameLimiter(s) == {t \in Slots : t[1] = s[1]}

LetThrough(s, start) ==
  passed' = [passed EXCEPT ![s] = Append(@, [at |-> now, since |-> start])]

\* Wrong: the reset is told without the length of the window.
TellStart(s, left, start) ==
  told' = [told EXCEPT ![s] = [remaining |-> left, reset |-> start \div Second]]

\* resetAt.Unix() drops the part of the second.
Tell(s, left, start) ==
  told' = [told EXCEPT ![s] = [remaining |-> left, reset |-> (start + Duration) \div Second]]

\* Wrong: every window of the limiter is dropped but the new one.
PurgedAll(s, w) == [t \in Slots |-> IF t \in SameLimiter(s) /\ t # s
                                      THEN NoWindow ELSE w[t]]

\* lazyCleanup: one call in a hundred, once there are a hundred windows.
Purged(s, w) == [t \in Slots |-> IF t \in SameLimiter(s) /\ w[t].count > 0
                                       /\ now - w[t].startAt >= Duration
                                   THEN NoWindow ELSE w[t]]

Crowded(s, w) == Cardinality({t \in SameLimiter(s) : w[t].count > 0}) >= Crowd

-----------------------------------------------------------------------------
(* Wrong forms of definitions below, each a plausible slip in the code.    *)

\* One window for all the callers of a limiter.
AllowNextShared(s) ==
  LET w == windows[s] IN
  /\ Open(s) /\ ~Over(s) /\ w.count < LimitOf(s)
  /\ windows' = [t \in Slots |-> IF t \in SameLimiter(s) /\ Open(t)
                                   THEN [windows[t] EXCEPT !.count = @ + 1] ELSE windows[t]]
  /\ LetThrough(s, w.startAt)
  /\ Tell(s, LimitOf(s) - w.count - 1, w.startAt)
  /\ UNCHANGED now

-----------------------------------------------------------------------------
(* Allow: the first call of a window, the others it lets through, and the  *)
(* calls it refuses.                                                       *)

AllowFirst(s) ==
  LET w == [windows EXCEPT ![s] = [count |-> 1, startAt |-> now]] IN
  /\ ~Open(s) \/ Over(s)
  /\ \/ windows' = w
     \/ Crowded(s, w) /\ windows' = Purged(s, w)
  /\ LetThrough(s, now)
  /\ Tell(s, LimitOf(s) - 1, now)
  /\ UNCHANGED now

AllowNext(s) ==
  LET w == windows[s] IN
  /\ Open(s) /\ ~Over(s) /\ w.count < LimitOf(s)
  /\ windows' = [windows EXCEPT ![s].count = @ + 1]
  /\ LetThrough(s, w.startAt)
  /\ Tell(s, LimitOf(s) - w.count - 1, w.startAt)
  /\ UNCHANGED now

Refuse(s) ==
  LET w == windows[s] IN
  /\ Open(s) /\ ~Over(s) /\ w.count >= LimitOf(s)
  /\ w.count < LimitOf(s) + MaxRefused
  /\ windows' = [windows EXCEPT ![s].count = @ + 1]
  /\ Tell(s, 0, w.startAt)
  /\ UNCHANGED <<now, passed>>

\* The clock moves on by any amount.
Elapse(t) ==
  /\ t \in (now + 1)..MaxTime
  /\ now' = t
  /\ UNCHANGED <<windows, passed, told>>

Next ==
  \/ \E s \in Slots : AllowFirst(s) \/ AllowNext(s) \/ Refuse(s)
  \/ \E t \in 1..MaxTime : Elapse(t)

Spec == Init /\ [][Next]_vars

-----------------------------------------------------------------------------
Calls == [at : Nat, since : Nat]

TypeOK ==
  /\ now \in Nat
  /\ windows \in [Slots -> [count : Nat, startAt : Nat]]
  /\ passed \in [Slots -> Seq(Calls)]
  /\ told \in [Slots -> [remaining : Nat, reset : Int]]

\* The limiter is called a sliding window and is a fixed one: a caller gets
\* more than its limit through in a minute, around the end of a window, but
\* never more than twice the limit, whatever is purged meanwhile.
AtMostTwice ==
  \A s \in Slots : \A i \in 1..Len(passed[s]) :
    i + 2 * LimitOf(s) <= Len(passed[s])
      => passed[s][i + 2 * LimitOf(s)].at > passed[s][i].at + Duration

\* A caller is refused only if as many calls as its limit were let through
\* within the last minute, by this limiter and for this caller: calls refused,
\* calls of others and calls of windows that are over cost it nothing.
RefusedHadLimit ==
  [][\A s \in Slots : Refuse(s)
       => LET n == Len(passed[s]) IN
          /\ n >= LimitOf(s)
          /\ now - passed[s][n - LimitOf(s) + 1].at < Duration]_vars

\* The headers of an answer are kept: a caller told that calls remain is not
\* refused before the reset, and none is refused a second after it; up to
\* that second it may be, since the header drops the part of the second.
ToldIsKept ==
  [][\A s \in Slots : Refuse(s)
       => told[s].remaining = 0 /\ now < (told[s].reset + 1) * Second]_vars

\* Every caller has a window of its own, though windows are kept together and
\* purged by the calls of others, and though a refused call is counted too: the
\* window in force goes by what CallerWindow promises one caller.
InForce(s) == Open(s) /\ ~Over(s)
Used(s) == IF windows[s].count < LimitOf(s) THEN windows[s].count ELSE LimitOf(s)
WindowInForce(s) == IF InForce(s) THEN [used |-> Used(s), startAt |-> windows[s].startAt]
                                  ELSE [used |-> 0, startAt |-> 0]
Caller(s) == INSTANCE CallerWindow WITH
  Limit <- LimitOf(s), window <- WindowInForce(s), passed <- passed[s]
CallersApart ==
  /\ \A s \in Slots : Caller(s)!WindowInit
  /\ [][\A s \in Slots : [Caller(s)!WindowNext]_(Caller(s)!windowVars)]_vars
=============================================================================
