-------------------------- MODULE RateLimitProofs --------------------------
(***************************************************************************)
(* The limiter of RateLimit for any callers, limits and lengths of the     *)
(* window.  AtMostTwice and RefusedHadLimit speak of calls far apart, a    *)
(* step of a window and its count: the invariant ties the two.  The calls  *)
(* let through in the window that is stored are the last ones, as many as  *)
(* its count says up to the limit; all others, and all of them when no     *)
(* window is stored, belong to windows that ended before it began.  Hence  *)
(* two calls a limit apart belong to windows a Duration apart.             *)
(***************************************************************************)
EXTENDS RateLimit, TLAPS

Sane(p, t) ==
  \A i \in 1..Len(p) : /\ p[i].since <= p[i].at /\ p[i].at <= t
                       /\ p[i].at < p[i].since + Duration

Spaced(p, l) ==
  \A i, j \in 1..Len(p) : i + l <= j => p[i].since + Duration <= p[j].since

Let(w, l) == IF w.count < l THEN w.count ELSE l

Fits(w, p, l, t) ==
  /\ Let(w, l) <= Len(p)
  /\ w.startAt <= t
  /\ w.count > 0 => /\ \A i \in 1..Len(p) : i > Len(p) - Let(w, l) => p[i].since = w.startAt
                    /\ \A i \in 1..Len(p) : i <= Len(p) - Let(w, l)
                                              => p[i].since + Duration <= w.startAt
  /\ w.count = 0 => \A i \in 1..Len(p) : p[i].since + Duration <= t

SlotInv(s) ==
  /\ Sane(passed[s], now)
  /\ Spaced(passed[s], LimitOf(s))
  /\ Fits(windows[s], passed[s], LimitOf(s), now)

IInv == TypeOK /\ \A s \in Slots : SlotInv(s)

Windows == [count : Nat, startAt : Nat]

-----------------------------------------------------------------------------
LEMMA LimitType == ASSUME NEW s \in Slots PROVE LimitOf(s) \in Nat \ {0}
<1>1. s[1] \in Limiters
  BY DEF Slots
<1> QED
  BY <1>1, RateAssumption DEF LimitOf

LEMMA Floor == ASSUME NEW a \in Nat PROVE a \div Second \in Int
BY RateAssumption

LEMMA Counted ==
  ASSUME NEW w \in Windows
  PROVE  [w EXCEPT !.count = w.count + 1] = [count |-> w.count + 1, startAt |-> w.startAt]
BY DEF Windows

LEMMA Appended ==
  ASSUME NEW p \in Seq(Calls), NEW c \in Calls
  PROVE  /\ Append(p, c) \in Seq(Calls) /\ Len(Append(p, c)) = Len(p) + 1 /\ Len(p) \in Nat
         /\ \A i \in 1..Len(p) : Append(p, c)[i] = p[i] /\ p[i] \in Calls
         /\ Append(p, c)[Len(p) + 1] = c
OBVIOUS

\* Appending the first call of a window keeps the calls spaced, when all the
\* others belong to windows that are over.
LEMMA FirstFits ==
  ASSUME NEW p \in Seq(Calls), NEW l \in Nat \ {0}, NEW t \in Nat,
         Sane(p, t), Spaced(p, l),
         \A i \in 1..Len(p) : p[i].since + Duration <= t
  PROVE  LET q == Append(p, [at |-> t, since |-> t]) IN
         /\ Sane(q, t) /\ Spaced(q, l)
         /\ Fits([count |-> 1, startAt |-> t], q, l, t)
<1> DEFINE c == [at |-> t, since |-> t]
           q == Append(p, c)
           w == [count |-> 1, startAt |-> t]
<1>0. c \in Calls /\ c.at = t /\ c.since = t
  BY DEF Calls
<1> HIDE DEF c
<1>1. /\ q \in Seq(Calls) /\ Len(q) = Len(p) + 1 /\ Len(p) \in Nat
      /\ \A i \in 1..Len(p) : q[i] = p[i] /\ p[i] \in Calls
      /\ q[Len(p) + 1] = c
  BY <1>0, Appended
<1>2. Duration \in Nat \ {0}
  BY RateAssumption
<1> HIDE DEF q
<1>9. \A i \in 1..Len(q) : i \in 1..Len(p) \/ i = Len(p) + 1
  BY <1>1
<1>3. Sane(q, t)
  <2> SUFFICES ASSUME NEW i \in 1..Len(q)
               PROVE  /\ q[i].since <= q[i].at /\ q[i].at <= t
                      /\ q[i].at < q[i].since + Duration
    BY DEF Sane
  <2>1. CASE i \in 1..Len(p)
    BY <2>1, <1>1 DEF Sane
  <2>2. CASE i = Len(p) + 1
    BY <2>2, <1>0, <1>1, <1>2
  <2> QED
    BY <2>1, <2>2, <1>9
<1>4. Spaced(q, l)
  <2> SUFFICES ASSUME NEW i \in 1..Len(q), NEW j \in 1..Len(q), i + l <= j
               PROVE  q[i].since + Duration <= q[j].since
    BY DEF Spaced
  <2>1. CASE j \in 1..Len(p)
    BY <2>1, <1>1 DEF Spaced
  <2>2. CASE j = Len(p) + 1
    <3>1. i \in 1..Len(p)
      BY <2>2, <1>1
    <3> QED
      BY <3>1, <2>2, <1>0, <1>1
  <2> QED
    BY <2>1, <2>2, <1>9
<1>5. Let(w, l) = 1 /\ w.count = 1 /\ w.startAt = t
  BY DEF Let
<1>6. Fits(w, q, l, t)
  <2> HIDE DEF w
  <2> QED
    BY <1>0, <1>1, <1>2, <1>5, <1>9 DEF Fits
<1> QED
  BY <1>3, <1>4, <1>6 DEF q, c

\* So does a further call of the window, below the limit.
LEMMA NextFits ==
  ASSUME NEW p \in Seq(Calls), NEW w \in Windows, NEW l \in Nat \ {0}, NEW t \in Nat,
         Sane(p, t), Spaced(p, l), Fits(w, p, l, t),
         w.count > 0, w.count < l, t < w.startAt + Duration
  PROVE  LET q == Append(p, [at |-> t, since |-> w.startAt]) IN
         /\ Sane(q, t) /\ Spaced(q, l)
         /\ Fits([count |-> w.count + 1, startAt |-> w.startAt], q, l, t)
<1> DEFINE c == [at |-> t, since |-> w.startAt]
           q == Append(p, c)
           v == [count |-> w.count + 1, startAt |-> w.startAt]
<1>0. c \in Calls
  BY DEF Calls, Windows
<1>1. /\ q \in Seq(Calls) /\ Len(q) = Len(p) + 1 /\ Len(p) \in Nat
      /\ \A i \in 1..Len(p) : q[i] = p[i] /\ p[i] \in Calls
      /\ q[Len(p) + 1] = c
  <2> HIDE DEF c
  <2> QED
    BY <1>0, Appended
<1>2. Duration \in Nat \ {0} /\ w.count \in Nat /\ w.startAt \in Nat
  BY RateAssumption DEF Windows
<1>3. c.at = t /\ c.since = w.startAt /\ w.startAt <= t
  BY DEF Fits
<1>4. /\ Let(w, l) = w.count /\ w.count <= Len(p)
      /\ \A i \in 1..Len(p) : i > Len(p) - w.count => p[i].since = w.startAt
      /\ \A i \in 1..Len(p) : i <= Len(p) - w.count => p[i].since + Duration <= w.startAt
  BY <1>2 DEF Fits, Let
<1>5. Let(v, l) = w.count + 1 /\ v.count = w.count + 1 /\ v.startAt = w.startAt
  BY <1>2 DEF Let
<1> HIDE DEF q, c, v
<1>9. \A i \in 1..Len(q) : i \in 1..Len(p) \/ i = Len(p) + 1
  BY <1>1
<1>6. Sane(q, t)
  <2> SUFFICES ASSUME NEW i \in 1..Len(q)
               PROVE  /\ q[i].since <= q[i].at /\ q[i].at <= t
                      /\ q[i].at < q[i].since + Duration
    BY DEF Sane
  <2>1. CASE i \in 1..Len(p)
    BY <2>1, <1>1 DEF Sane
  <2>2. CASE i = Len(p) + 1
    BY <2>2, <1>1, <1>2, <1>3
  <2> QED
    BY <2>1, <2>2, <1>9
<1>7. Spaced(q, l)
  <2> SUFFICES ASSUME NEW i \in 1..Len(q), NEW j \in 1..Len(q), i + l <= j
               PROVE  q[i].since + Duration <= q[j].since
    BY DEF Spaced
  <2>1. CASE j <= Len(p)
    BY <2>1, <1>1 DEF Spaced
  <2>2. CASE j = Len(p) + 1
    <3>1. i \in 1..Len(p) /\ i <= Len(p) - w.count
      BY <2>2, <1>1, <1>2
    <3> QED
      BY <3>1, <2>2, <1>1, <1>3, <1>4
  <2> QED
    BY <2>1, <2>2, <1>1
<1>8. Fits(v, q, l, t)
  <2>1. Let(v, l) <= Len(q) /\ v.startAt <= t /\ v.count > 0
    BY <1>1, <1>2, <1>3, <1>4, <1>5
  <2>2. ASSUME NEW i \in 1..Len(q), i > Len(q) - Let(v, l) PROVE q[i].since = v.startAt
    <3>1. i > Len(p) - w.count
      BY <2>2, <1>1, <1>2, <1>5
    <3> QED
      BY <3>1, <1>1, <1>3, <1>4, <1>5, <1>9
  <2>3. ASSUME NEW i \in 1..Len(q), i <= Len(q) - Let(v, l)
        PROVE  q[i].since + Duration <= v.startAt
    <3>1. i \in 1..Len(p) /\ i <= Len(p) - w.count
      BY <2>3, <1>1, <1>2, <1>5
    <3> QED
      BY <3>1, <1>1, <1>4, <1>5
  <2>4. v.count # 0
    BY <1>2, <1>5
  <2> QED
    BY <2>1, <2>2, <2>3, <2>4 DEF Fits
<1> QED
  BY <1>6, <1>7, <1>8 DEF q, c, v

\* Time passes, and a window that is over may go, without harm.
LEMMA LaterFits ==
  ASSUME NEW p \in Seq(Calls), NEW w \in Windows, NEW l \in Nat \ {0},
         NEW t \in Nat, NEW u \in Nat, t <= u,
         Sane(p, t), Spaced(p, l), Fits(w, p, l, t)
  PROVE  /\ Sane(p, u) /\ Fits(w, p, l, u)
         /\ w.count > 0 /\ w.startAt + Duration <= u
              => \A i \in 1..Len(p) : p[i].since + Duration <= u
<1>1. /\ Len(p) \in Nat /\ Duration \in Nat /\ w.count \in Nat /\ w.startAt \in Nat
      /\ Let(w, l) \in Nat
      /\ \A i \in 1..Len(p) : p[i] \in Calls
  BY RateAssumption DEF Windows, Let
<1>2. Sane(p, u)
  BY <1>1, SMTT(60) DEF Sane, Calls
<1>3. Fits(w, p, l, u)
  BY <1>1, SMTT(60) DEF Fits, Calls
<1>4. ASSUME w.count > 0, w.startAt + Duration <= u, NEW i \in 1..Len(p)
      PROVE  p[i].since + Duration <= u
  <2>1. p[i].since = w.startAt \/ p[i].since + Duration <= w.startAt
    BY <1>1, <1>4 DEF Fits
  <2> QED
    BY <1>1, <1>4, <2>1, SMTT(60) DEF Calls
<1> QED
  BY <1>2, <1>3, <1>4

LEMMA PurgedFits ==
  ASSUME NEW p \in Seq(Calls), NEW l \in Nat \ {0}, NEW t \in Nat,
         \A i \in 1..Len(p) : p[i].since + Duration <= t
  PROVE  Fits(NoWindow, p, l, t)
<1>1. NoWindow.count = 0 /\ NoWindow.startAt = 0 /\ Let(NoWindow, l) = 0
  BY DEF NoWindow, Let
<1> QED
  BY <1>1 DEF Fits

-----------------------------------------------------------------------------
LEMMA InitOK == Init => IInv
<1> SUFFICES ASSUME Init PROVE IInv
  OBVIOUS
<1>1. TypeOK
  BY DEF Init, TypeOK, NoWindow, Untold
<1>2. ASSUME NEW s \in Slots PROVE SlotInv(s)
  <2>1. passed[s] = <<>> /\ windows[s] = NoWindow /\ now = 0 /\ LimitOf(s) \in Nat \ {0}
    BY LimitType DEF Init
  <2>2. passed[s] \in Seq(Calls) /\ Len(passed[s]) = 0
    BY <2>1
  <2>4. now \in Nat /\ \A i \in 1..Len(passed[s]) : passed[s][i].since + Duration <= now
    BY <2>1, <2>2
  <2>5. Fits(NoWindow, passed[s], LimitOf(s), now)
    BY <2>1, <2>2, <2>4, PurgedFits
  <2>3. Fits(windows[s], passed[s], LimitOf(s), now)
    BY <2>1, <2>5
  <2> QED
    BY <2>2, <2>3 DEF SlotInv, Sane, Spaced
<1> QED
  BY <1>1, <1>2 DEF IInv

\* The window a call finds is over, or there is none: the calls before it
\* belong to windows that are over.
LEMMA BeforeFirst ==
  ASSUME IInv, NEW s \in Slots, ~Open(s) \/ Over(s)
  PROVE  \A i \in 1..Len(passed[s]) : passed[s][i].since + Duration <= now
<1>1. /\ now \in Nat /\ windows[s] \in Windows /\ passed[s] \in Seq(Calls)
      /\ LimitOf(s) \in Nat \ {0} /\ SlotInv(s)
  BY LimitType DEF IInv, TypeOK, Windows
<1>2. CASE ~Open(s)
  <2>1. windows[s].count = 0
    BY <1>1, <1>2 DEF Open, Windows
  <2> QED
    BY <1>1, <2>1 DEF SlotInv, Fits
<1>3. CASE Open(s) /\ Over(s)
  <2>1. windows[s].count > 0 /\ windows[s].startAt + Duration <= now
    BY <1>1, <1>3, RateAssumption DEF Open, Over, Windows
  <2> QED
    BY <1>1, <2>1, LaterFits DEF SlotInv
<1> QED
  BY <1>2, <1>3

LEMMA AllowFirstOK ==
  ASSUME IInv, NEW s \in Slots, AllowFirst(s) PROVE IInv'
<1> DEFINE w == [windows EXCEPT ![s] = [count |-> 1, startAt |-> now]]
           call == [at |-> now, since |-> now]
<1>1. /\ now \in Nat /\ windows \in [Slots -> Windows] /\ passed \in [Slots -> Seq(Calls)]
      /\ told \in [Slots -> [remaining : Nat, reset : Int]]
      /\ LimitOf(s) \in Nat \ {0}
  BY LimitType DEF IInv, TypeOK, Windows
<1>2. /\ now' = now
      /\ passed' = [passed EXCEPT ![s] = Append(@, call)]
      /\ windows' = w \/ windows' = Purged(s, w)
      /\ told' = [told EXCEPT ![s] = [remaining |-> LimitOf(s) - 1,
                                       reset |-> (now + Duration) \div Second]]
  BY DEF AllowFirst, LetThrough, Tell
<1>3. w \in [Slots -> Windows] /\ w[s] = [count |-> 1, startAt |-> now]
      /\ \A t \in Slots \ {s} : w[t] = windows[t]
  BY <1>1 DEF Windows
<1>4. \A t \in Slots : Purged(s, w)[t] = w[t]
        \/ /\ Purged(s, w)[t] = NoWindow
           /\ w[t].count > 0 /\ now - w[t].startAt >= Duration
  <2> HIDE DEF w
  <2> QED
    BY DEF Purged
<1>5. NoWindow \in Windows
  BY DEF NoWindow, Windows
<1>6. Purged(s, w) \in [Slots -> Windows]
  <2> HIDE DEF w
  <2> QED
    BY <1>3, <1>5 DEF Purged
<1> HIDE DEF w
<1>7. TypeOK'
  <2>1. call \in Calls
    BY <1>1 DEF Calls
  <2>2. passed' \in [Slots -> Seq(Calls)]
    BY <1>1, <1>2, <2>1
  <2>3. (now + Duration) \div Second \in Int
    BY <1>1, RateAssumption, Floor
  <2>4. told' \in [Slots -> [remaining : Nat, reset : Int]]
    BY <1>1, <1>2, <2>3
  <2>5. windows' \in [Slots -> Windows]
    BY <1>2, <1>3, <1>6
  <2> QED
    BY <1>1, <1>2, <2>2, <2>4, <2>5 DEF TypeOK, Windows
<1>8. ASSUME NEW t \in Slots PROVE SlotInv(t)'
  <2>1. /\ SlotInv(t) /\ passed[t] \in Seq(Calls) /\ LimitOf(t) \in Nat \ {0}
        /\ LimitOf(t)' = LimitOf(t) /\ windows[t] \in Windows
    BY <1>1, LimitType DEF IInv, LimitOf
  <2>2. CASE t = s
    <3>1. \A i \in 1..Len(passed[s]) : passed[s][i].since + Duration <= now
      BY BeforeFirst DEF AllowFirst
    <3>2. passed'[s] = Append(passed[s], call)
      BY <1>1, <1>2
    <3>3. /\ Sane(passed'[s], now) /\ Spaced(passed'[s], LimitOf(s))
          /\ Fits([count |-> 1, startAt |-> now], passed'[s], LimitOf(s), now)
      BY <1>1, <2>1, <2>2, <3>1, <3>2, FirstFits DEF SlotInv
    <3>4. windows'[s] = [count |-> 1, startAt |-> now]
      <4>1. ~(now - w[s].startAt >= Duration)
        BY <1>1, <1>3, RateAssumption
      <4> QED
        BY <1>2, <1>3, <1>4, <4>1
    <3> QED
      BY <1>2, <2>1, <2>2, <3>3, <3>4 DEF SlotInv, Sane, Spaced, Fits
  <2>3. CASE t # s
    <3>1. passed'[t] = passed[t] /\ w[t] = windows[t]
      BY <1>1, <1>2, <1>3, <2>3
    <3>2. CASE windows'[t] = w[t]
      BY <1>2, <2>1, <3>1, <3>2 DEF SlotInv, Sane, Spaced, Fits
    <3>3. CASE /\ windows'[t] = NoWindow
               /\ w[t].count > 0 /\ now - w[t].startAt >= Duration
      <4>1. windows[t].count > 0 /\ windows[t].startAt + Duration <= now
        BY <1>1, <2>1, <3>1, <3>3, RateAssumption, SMTT(60) DEF Windows
      <4>2. \A i \in 1..Len(passed[t]) : passed[t][i].since + Duration <= now
        BY <1>1, <2>1, <4>1, LaterFits, SMTT(60) DEF SlotInv
      <4>3. Fits(NoWindow, passed[t], LimitOf(t), now)
        BY <1>1, <2>1, <4>2, PurgedFits
      <4> QED
        BY <1>2, <2>1, <3>1, <3>3, <4>3 DEF SlotInv, Sane, Spaced, Fits
    <3> QED
      BY <1>2, <1>4, <3>2, <3>3
  <2> QED
    BY <2>2, <2>3
<1> QED
  BY <1>7, <1>8 DEF IInv

LEMMA AllowNextOK ==
  ASSUME IInv, NEW s \in Slots, AllowNext(s) PROVE IInv'
<1> DEFINE w == windows[s]
           v == [count |-> w.count + 1, startAt |-> w.startAt]
           call == [at |-> now, since |-> w.startAt]
<1>1. /\ now \in Nat /\ windows \in [Slots -> Windows] /\ passed \in [Slots -> Seq(Calls)]
      /\ told \in [Slots -> [remaining : Nat, reset : Int]]
      /\ LimitOf(s) \in Nat \ {0} /\ w \in Windows
  BY LimitType DEF IInv, TypeOK, Windows
<1>2. [w EXCEPT !.count = w.count + 1] = v
  BY <1>1, Counted
<1>3. windows' = [windows EXCEPT ![s] = v]
  BY <1>2 DEF AllowNext
<1>4. /\ now' = now
      /\ passed' = [passed EXCEPT ![s] = Append(@, call)]
      /\ told' = [told EXCEPT ![s] = [remaining |-> LimitOf(s) - w.count - 1,
                                       reset |-> (w.startAt + Duration) \div Second]]
      /\ w.count > 0 /\ w.count < LimitOf(s) /\ ~(now - w.startAt >= Duration)
  BY DEF AllowNext, LetThrough, Tell, Open, Over
<1>5. /\ v \in Windows /\ call \in Calls /\ now < w.startAt + Duration
      /\ w.count \in Nat /\ w.startAt \in Nat
  <2> HIDE DEF w
  <2>1. w.count \in Nat /\ w.startAt \in Nat
    BY <1>1 DEF Windows
  <2>2. v \in Windows /\ call \in Calls
    BY <1>1, <2>1 DEF Windows, Calls
  <2>3. now < w.startAt + Duration
    BY <1>1, <1>4, <2>1, RateAssumption
  <2> QED
    BY <2>1, <2>2, <2>3
<1> HIDE DEF w, v, call
<1>6. TypeOK'
  <2>1. (w.startAt + Duration) \div Second \in Int
    BY <1>5, RateAssumption, Floor
  <2>2. told' \in [Slots -> [remaining : Nat, reset : Int]]
    BY <1>1, <1>4, <1>5, <2>1, SMTT(60)
  <2>3. passed' \in [Slots -> Seq(Calls)] /\ windows' \in [Slots -> Windows]
    BY <1>1, <1>3, <1>4, <1>5
  <2> QED
    BY <1>1, <1>4, <2>2, <2>3 DEF TypeOK, Windows
<1>7. ASSUME NEW t \in Slots PROVE SlotInv(t)'
  <2>1. SlotInv(t) /\ LimitOf(t)' = LimitOf(t)
    BY DEF IInv, LimitOf
  <2>2. CASE t = s
    <3>1. passed'[s] = Append(passed[s], call) /\ windows'[s] = v
      BY <1>1, <1>3, <1>4
    <3>2. Sane(passed[s], now) /\ Spaced(passed[s], LimitOf(s))
          /\ Fits(w, passed[s], LimitOf(s), now)
      BY <2>1, <2>2 DEF SlotInv, w
    <3>3. /\ Sane(passed'[s], now) /\ Spaced(passed'[s], LimitOf(s))
          /\ Fits(v, passed'[s], LimitOf(s), now)
      BY <1>1, <1>4, <1>5, <3>1, <3>2, NextFits DEF v, call
    <3> QED
      BY <1>4, <2>1, <2>2, <3>1, <3>3 DEF SlotInv, Sane, Spaced, Fits
  <2>3. CASE t # s
    <3>1. passed'[t] = passed[t] /\ windows'[t] = windows[t]
      BY <1>1, <1>3, <1>4, <2>3
    <3> QED
      BY <1>4, <2>1, <3>1 DEF SlotInv, Sane, Spaced, Fits
  <2> QED
    BY <2>2, <2>3
<1> QED
  BY <1>6, <1>7 DEF IInv

\* A refusal counts beyond the limit, which changes no part of Fits.
LEMMA RefuseOK ==
  ASSUME IInv, NEW s \in Slots, Refuse(s) PROVE IInv'
<1> DEFINE w == windows[s]
           v == [count |-> w.count + 1, startAt |-> w.startAt]
<1>1. /\ now \in Nat /\ windows \in [Slots -> Windows] /\ passed \in [Slots -> Seq(Calls)]
      /\ told \in [Slots -> [remaining : Nat, reset : Int]]
      /\ LimitOf(s) \in Nat \ {0} /\ w \in Windows
  BY LimitType DEF IInv, TypeOK, Windows
<1>2. [w EXCEPT !.count = w.count + 1] = v
  BY <1>1, Counted
<1>3. windows' = [windows EXCEPT ![s] = v]
  BY <1>2 DEF Refuse
<1>4. /\ now' = now /\ passed' = passed
      /\ told' = [told EXCEPT ![s] = [remaining |-> 0,
                                       reset |-> (w.startAt + Duration) \div Second]]
      /\ w.count > 0 /\ w.count >= LimitOf(s)
  BY DEF Refuse, Tell, Open
<1>5. v \in Windows /\ w.count \in Nat /\ w.startAt \in Nat
  BY <1>1 DEF Windows
<1>6. /\ v.startAt = w.startAt /\ v.count > 0
      /\ Let(v, LimitOf(s)) = Let(w, LimitOf(s))
  BY <1>1, <1>4, <1>5 DEF Let
<1> HIDE DEF w, v
<1>7. TypeOK'
  <2>1. (w.startAt + Duration) \div Second \in Int
    BY <1>5, RateAssumption, Floor
  <2>2. told' \in [Slots -> [remaining : Nat, reset : Int]]
    BY <1>1, <1>4, <2>1
  <2>3. windows' \in [Slots -> Windows]
    BY <1>1, <1>3, <1>5
  <2> QED
    BY <1>1, <1>4, <2>2, <2>3 DEF TypeOK, Windows
<1>8. ASSUME NEW t \in Slots PROVE SlotInv(t)'
  <2>1. SlotInv(t) /\ LimitOf(t)' = LimitOf(t)
    BY DEF IInv, LimitOf
  <2>2. CASE t = s
    <3>1. windows'[s] = v
      BY <1>1, <1>3
    <3>2. Fits(w, passed[s], LimitOf(s), now)
      BY <2>1, <2>2 DEF SlotInv, w
    <3>3. Fits(v, passed[s], LimitOf(s), now)
      BY <1>4, <1>5, <1>6, <3>2 DEF Fits
    <3> QED
      BY <1>4, <2>1, <2>2, <3>1, <3>3 DEF SlotInv, Sane, Spaced, Fits
  <2>3. CASE t # s
    <3>1. windows'[t] = windows[t]
      BY <1>1, <1>3, <2>3
    <3> QED
      BY <1>4, <2>1, <3>1 DEF SlotInv, Sane, Spaced, Fits
  <2> QED
    BY <2>2, <2>3
<1> QED
  BY <1>7, <1>8 DEF IInv

LEMMA ElapseOK ==
  ASSUME IInv, NEW u \in 1..MaxTime, Elapse(u) PROVE IInv'
<1>1. /\ now \in Nat /\ u \in Nat /\ now <= u /\ now' = u
      /\ windows' = windows /\ passed' = passed /\ told' = told
  BY RateAssumption DEF IInv, TypeOK, Elapse
<1>2. TypeOK'
  BY <1>1 DEF IInv, TypeOK
<1>3. ASSUME NEW t \in Slots PROVE SlotInv(t)'
  <2>1. /\ SlotInv(t) /\ passed[t] \in Seq(Calls) /\ windows[t] \in Windows
        /\ LimitOf(t) \in Nat \ {0} /\ LimitOf(t)' = LimitOf(t)
    BY LimitType DEF IInv, TypeOK, Windows, LimitOf
  <2>2. Sane(passed[t], u) /\ Fits(windows[t], passed[t], LimitOf(t), u)
    BY <1>1, <2>1, LaterFits DEF SlotInv
  <2> QED
    BY <1>1, <2>1, <2>2 DEF SlotInv, Sane, Spaced, Fits
<1> QED
  BY <1>2, <1>3 DEF IInv

LEMMA StepOK == IInv /\ [Next]_vars => IInv'
<1> SUFFICES ASSUME IInv, [Next]_vars PROVE IInv'
  OBVIOUS
<1>1. ASSUME NEW s \in Slots, AllowFirst(s) PROVE IInv'
  BY <1>1, AllowFirstOK
<1>2. ASSUME NEW s \in Slots, AllowNext(s) PROVE IInv'
  BY <1>2, AllowNextOK
<1>3. ASSUME NEW s \in Slots, Refuse(s) PROVE IInv'
  BY <1>3, RefuseOK
<1>4. ASSUME NEW u \in 1..MaxTime, Elapse(u) PROVE IInv'
  BY <1>4, ElapseOK
<1>5. CASE UNCHANGED vars
  BY <1>5 DEF vars, IInv, TypeOK, SlotInv, Sane, Spaced, Fits, LimitOf
<1> QED
  BY <1>1, <1>2, <1>3, <1>4, <1>5 DEF Next

LEMMA Inductive == Spec => []IInv
BY InitOK, StepOK, PTL DEF Spec

-----------------------------------------------------------------------------
\* Allow (ratelimit.go:37): clock, windows and answers keep their types, and
\* no answer tells of fewer than no calls remaining.
THEOREM TypeCorrect == Spec => []TypeOK
<1>1. IInv => TypeOK
  BY DEF IInv
<1> QED
  BY <1>1, Inductive, PTL

\* However the calls fall around the end of a window, and whatever is purged,
\* no caller gets more than twice its limit through within a Duration.
THEOREM TwiceCorrect == Spec => []AtMostTwice
<1>1. IInv => AtMostTwice
  <2> SUFFICES ASSUME IInv, NEW s \in Slots, NEW i \in 1..Len(passed[s]),
                      i + 2 * LimitOf(s) <= Len(passed[s])
               PROVE  passed[s][i + 2 * LimitOf(s)].at > passed[s][i].at + Duration
    BY DEF AtMostTwice
  <2> DEFINE p == passed[s]
             l == LimitOf(s)
  <2>1. /\ p \in Seq(Calls) /\ l \in Nat \ {0} /\ Duration \in Nat
        /\ Sane(p, now) /\ Spaced(p, l)
    BY LimitType, RateAssumption DEF IInv, TypeOK, SlotInv
  <2> HIDE DEF p, l
  <2>2. i \in 1..Len(p) /\ i + 2 * l <= Len(p)
    BY DEF p, l
  <2>3. /\ i + l \in 1..Len(p) /\ i + 2 * l \in 1..Len(p)
        /\ p[i] \in Calls /\ p[i + l] \in Calls /\ p[i + 2 * l] \in Calls
    BY <2>1, <2>2
  <2>4. /\ p[i].since + Duration <= p[i + l].since
        /\ p[i + l].since + Duration <= p[i + 2 * l].since
    BY <2>1, <2>2, <2>3 DEF Spaced
  <2>5. p[i].at < p[i].since + Duration /\ p[i + 2 * l].since <= p[i + 2 * l].at
    BY <2>1, <2>2, <2>3 DEF Sane
  <2>6. p[i + 2 * l].at > p[i].at + Duration
    <3>1. ASSUME NEW a \in Calls, NEW b \in Calls, NEW c \in Calls,
                 a.since + Duration <= b.since, b.since + Duration <= c.since,
                 a.at < a.since + Duration, c.since <= c.at
          PROVE  c.at > a.at + Duration
      BY <2>1, <3>1, SMTT(60) DEF Calls
    <3> QED
      BY <2>3, <2>4, <2>5, <3>1
  <2> QED
    BY <2>6 DEF p, l
<1> QED
  BY <1>1, Inductive, PTL

\* A caller is refused only after as many calls as its limit went through
\* within the last Duration.
THEOREM RefusalCorrect == Spec => RefusedHadLimit
<1>1. IInv /\ [Next]_vars =>
        [\A s \in Slots : Refuse(s)
           => LET n == Len(passed[s]) IN
              /\ n >= LimitOf(s)
              /\ now - passed[s][n - LimitOf(s) + 1].at < Duration]_vars
  <2> SUFFICES ASSUME IInv, NEW s \in Slots, Refuse(s)
               PROVE  LET n == Len(passed[s]) IN
                      /\ n >= LimitOf(s)
                      /\ now - passed[s][n - LimitOf(s) + 1].at < Duration
    OBVIOUS
  <2> DEFINE p == passed[s]
             l == LimitOf(s)
             w == windows[s]
  <2>1. /\ p \in Seq(Calls) /\ l \in Nat \ {0} /\ Duration \in Nat /\ now \in Nat
        /\ w \in Windows /\ Sane(p, now) /\ Fits(w, p, l, now)
    BY LimitType, RateAssumption DEF IInv, TypeOK, SlotInv, Windows
  <2>2. w.count > 0 /\ w.count >= l /\ ~(now - w.startAt >= Duration)
    BY DEF Refuse, Open, Over
  <2> HIDE DEF p, l, w
  <2>3. Let(w, l) = l
    BY <2>1, <2>2 DEF Let, Windows
  <2>4. l <= Len(p) /\ Len(p) - l + 1 \in 1..Len(p)
    BY <2>1, <2>3 DEF Fits
  <2>5. p[Len(p) - l + 1].since = w.startAt
    BY <2>1, <2>2, <2>3, <2>4 DEF Fits
  <2>6. p[Len(p) - l + 1].since <= p[Len(p) - l + 1].at /\ p[Len(p) - l + 1] \in Calls
    BY <2>1, <2>4 DEF Sane
  <2>7. now - p[Len(p) - l + 1].at < Duration
    BY <2>1, <2>2, <2>5, <2>6, SMTT(60) DEF Calls, Windows
  <2> QED
    BY <2>1, <2>4, <2>7 DEF p, l
<1> QED
  BY <1>1, Inductive, PTL DEF Spec, RefusedHadLimit

-----------------------------------------------------------------------------
(* The headers of the last answer tell of the window that is open.         *)

Heard(s) == Open(s) =>
  /\ told[s].reset = (windows[s].startAt + Duration) \div Second
  /\ windows[s].count >= LimitOf(s) => told[s].remaining = 0

AllHeard == \A s \in Slots : Heard(s)

LEMMA Floored ==
  ASSUME NEW x \in Nat, NEW d \in Nat \ {0}
  PROVE  x < ((x \div d) + 1) * d
BY SMTT(30)

LEMMA Answered ==
  ASSUME IInv, NEW s \in Slots, NEW left \in Int, NEW start \in Nat, Tell(s, left, start)
  PROVE  /\ told'[s].remaining = left /\ told'[s].reset = (start + Duration) \div Second
         /\ \A t \in Slots \ {s} : told'[t] = told[t]
<1> DEFINE a == [remaining |-> left, reset |-> (start + Duration) \div Second]
<1>1. a.remaining = left /\ a.reset = (start + Duration) \div Second
  OBVIOUS
<1>2. told' = [told EXCEPT ![s] = a] /\ DOMAIN told = Slots
  BY DEF Tell, IInv, TypeOK
<1> HIDE DEF a
<1> QED
  BY <1>1, <1>2

LEMMA HeardStep == IInv /\ AllHeard /\ [Next]_vars => AllHeard'
<1> SUFFICES ASSUME IInv, AllHeard, [Next]_vars, NEW t \in Slots PROVE Heard(t)'
  BY DEF AllHeard
<1>1. Heard(t) /\ windows[t] \in Windows /\ DOMAIN windows = Slots /\ now \in Nat
  BY DEF AllHeard, IInv, TypeOK, Windows
<1>2. LimitOf(t) \in Nat \ {0} /\ LimitOf(t)' = LimitOf(t)
  BY LimitType DEF LimitOf
<1>3. CASE UNCHANGED <<windows, told>>
  BY <1>1, <1>2, <1>3 DEF Heard, Open
<1>4. ASSUME windows'[t] = windows[t] \/ windows'[t] = NoWindow, told'[t] = told[t]
      PROVE  Heard(t)'
  BY <1>1, <1>2, <1>4 DEF Heard, Open, NoWindow
<1>5. ASSUME NEW s \in Slots, AllowFirst(s)
      PROVE  Heard(t)'
  <2> DEFINE w == [windows EXCEPT ![s] = [count |-> 1, startAt |-> now]]
  <2>1. LimitOf(s) \in Nat \ {0}
    BY LimitType
  <2>2. /\ told'[s].remaining = LimitOf(s) - 1
        /\ told'[s].reset = (now + Duration) \div Second
        /\ \A u \in Slots \ {s} : told'[u] = told[u]
    BY <1>1, <1>5, <2>1, Answered DEF AllowFirst
  <2>3. windows'[t] = w[t] \/ windows'[t] = NoWindow
    BY <1>1, <1>5 DEF AllowFirst, Purged
  <2>4. CASE t # s
    BY <1>1, <1>4, <2>2, <2>3, <2>4
  <2>5. CASE t = s
    <3>1. w[t].count = 1 /\ w[t].startAt = now
      BY <1>1, <2>5
    <3> HIDE DEF w
    <3>2. CASE windows'[t] = NoWindow
      BY <3>2 DEF Heard, Open, NoWindow
    <3>3. CASE windows'[t] = w[t]
      BY <1>2, <2>1, <2>2, <2>5, <3>1, <3>3 DEF Heard, Open
    <3> QED
      BY <2>3, <3>2, <3>3
  <2> QED
    BY <2>4, <2>5
<1>6. ASSUME NEW s \in Slots, AllowNext(s) \/ Refuse(s)
      PROVE  Heard(t)'
  <2> DEFINE w == windows[s]
             c == [windows[s] EXCEPT !.count = @ + 1]
  <2>1. LimitOf(s) \in Nat \ {0} /\ w \in Windows
    BY LimitType DEF IInv, TypeOK, Windows
  <2>2. windows' = [windows EXCEPT ![s] = c]
    BY <1>1, <1>6 DEF AllowNext, Refuse
  <2>3. c.count = w.count + 1 /\ c.startAt = w.startAt
    BY <2>1 DEF Windows
  <2>4. PICK left \in Int : /\ Tell(s, left, w.startAt)
                            /\ w.count + 1 >= LimitOf(s) => left = 0
    <3>1. CASE AllowNext(s)
      BY <2>1, <3>1 DEF AllowNext, Windows
    <3>2. CASE Refuse(s)
      BY <3>2 DEF Refuse
    <3> QED
      BY <1>6, <3>1, <3>2
  <2>5. /\ told'[s].remaining = left /\ told'[s].reset = (w.startAt + Duration) \div Second
        /\ \A u \in Slots \ {s} : told'[u] = told[u]
    BY <2>1, <2>4, Answered DEF Windows
  <2> HIDE DEF c
  <2>6. CASE t # s
    BY <1>1, <1>4, <2>2, <2>5, <2>6
  <2>7. CASE t = s
    BY <1>1, <1>2, <2>2, <2>3, <2>4, <2>5, <2>7 DEF Heard
  <2> QED
    BY <2>6, <2>7
<1> QED
  BY <1>3, <1>5, <1>6 DEF Next, Elapse, vars

LEMMA AlwaysHeard == Spec => []AllHeard
<1>1. Init => AllHeard
  BY DEF Init, AllHeard, Heard, Open, NoWindow
<1> QED
  BY <1>1, HeardStep, Inductive, PTL DEF Spec

\* The headers can be relied on: who was told that calls remain is not refused
\* before the reset, and nobody is a second after it.
THEOREM ToldCorrect == Spec => ToldIsKept
<1>1. IInv /\ AllHeard /\ [Next]_vars =>
        [\A s \in Slots : Refuse(s)
           => told[s].remaining = 0 /\ now < (told[s].reset + 1) * Second]_vars
  <2> SUFFICES ASSUME IInv, AllHeard, NEW s \in Slots, Refuse(s)
               PROVE  told[s].remaining = 0 /\ now < (told[s].reset + 1) * Second
    OBVIOUS
  <2> DEFINE x == windows[s].startAt + Duration
  <2>1. windows[s] \in Windows /\ now \in Nat /\ Duration \in Nat /\ Second \in Nat \ {0}
    BY RateAssumption DEF IInv, TypeOK, Windows
  <2>2. told[s].reset = x \div Second /\ told[s].remaining = 0 /\ now < x
    BY <2>1 DEF AllHeard, Heard, Refuse, Over, Windows
  <2>3. x \in Nat
    BY <2>1 DEF Windows
  <2> HIDE DEF x
  <2>4. x < ((x \div Second) + 1) * Second
    BY <2>1, <2>3, Floored
  <2>5. ((x \div Second) + 1) * Second \in Int
    BY <2>1, <2>3
  <2> QED
    BY <2>1, <2>2, <2>3, <2>4, <2>5
<1> QED
  BY <1>1, Inductive, AlwaysHeard, PTL DEF Spec, ToldIsKept

-----------------------------------------------------------------------------
(* Every caller has the window of CallerWindow: the window in force.        *)

CallerStep(t) == [Caller(t)!WindowNext]_(Caller(t)!windowVars)

LEMMA SlotTypes ==
  ASSUME IInv, NEW t \in Slots
  PROVE  /\ now \in Nat /\ windows[t] \in Windows /\ passed[t] \in Seq(Calls)
         /\ LimitOf(t) \in Nat \ {0} /\ LimitOf(t)' = LimitOf(t)
         /\ windows[t].count \in Nat /\ windows[t].startAt \in Nat
         /\ windows[t].startAt <= now
         /\ Duration \in Nat \ {0}
BY LimitType, RateAssumption DEF IInv, TypeOK, Windows, SlotInv, Fits, LimitOf

\* The calls of others, and a purge, leave a caller the window it has.
LEMMA ApartStutter ==
  ASSUME IInv, NEW t \in Slots, UNCHANGED now, passed'[t] = passed[t],
         windows'[t] = windows[t] \/ (windows'[t] = NoWindow /\ Over(t))
  PROVE  CallerStep(t)
<1>1. LimitOf(t)' = LimitOf(t)
  BY DEF LimitOf
<1>2. CASE windows'[t] = windows[t]
  <2>1. WindowInForce(t)' = WindowInForce(t)
    BY <1>1, <1>2 DEF WindowInForce, InForce, Open, Over, Used
  <2>2. QED
    BY <2>1 DEF CallerStep, Caller!windowVars
<1>3. CASE windows'[t] = NoWindow /\ Over(t)
  <2>1. ~InForce(t) /\ ~InForce(t)'
    BY <1>3 DEF InForce, Open, NoWindow
  <2>2. WindowInForce(t)' = WindowInForce(t)
    BY <2>1 DEF WindowInForce
  <2>3. QED
    BY <2>2 DEF CallerStep, Caller!windowVars
<1>4. QED
  BY <1>2, <1>3

LEMMA FirstBegins ==
  ASSUME IInv, NEW s \in Slots, AllowFirst(s)
  PROVE  \A t \in Slots : CallerStep(t)
<1> DEFINE w == [windows EXCEPT ![s] = [count |-> 1, startAt |-> now]]
<1>1. /\ windows \in [Slots -> Windows] /\ passed \in [Slots -> Seq(Calls)]
      /\ now' = now /\ ~InForce(s)
      /\ passed' = [passed EXCEPT ![s] = Append(@, [at |-> now, since |-> now])]
      /\ windows' = w \/ windows' = Purged(s, w)
  BY DEF IInv, TypeOK, Windows, AllowFirst, LetThrough, InForce
<1>2. w[s].count = 1 /\ w[s].startAt = now /\ \A t \in Slots \ {s} : w[t] = windows[t]
  BY <1>1
<1> HIDE DEF w
<1>3. \A t \in Slots : windows'[t] = w[t]
        \/ (windows'[t] = NoWindow /\ w[t].count > 0 /\ now - w[t].startAt >= Duration)
  BY <1>1 DEF Purged
<1>4. ASSUME NEW t \in Slots, t # s PROVE CallerStep(t)
  <2>1. passed'[t] = passed[t] /\ w[t] = windows[t]
    BY <1>1, <1>2, <1>4
  <2>2. windows'[t] = windows[t] \/ (windows'[t] = NoWindow /\ Over(t))
    BY <1>3, <2>1 DEF Over
  <2>3. QED
    BY <1>1, <2>1, <2>2, ApartStutter
<1>5. CallerStep(s)
  <2>1. windows'[s] = w[s]
    <3>1. ~(now - w[s].startAt >= Duration)
      BY <1>2, SlotTypes
    <3>2. QED
      BY <1>3, <3>1
  <2>2. InForce(s)' /\ Used(s)' = 1
    <3>1. Open(s)'
      BY <1>2, <2>1 DEF Open
    <3>2. ~Over(s)'
      BY <1>1, <1>2, <2>1, SlotTypes DEF Over
    <3>3. Used(s)' = 1
      BY <1>2, <2>1, SlotTypes DEF Used
    <3>4. QED
      BY <3>1, <3>2, <3>3 DEF InForce
  <2>3. WindowInForce(s) = [used |-> 0, startAt |-> 0]
    BY <1>1 DEF WindowInForce
  <2>4. WindowInForce(s)' = [used |-> 1, startAt |-> now]
    BY <1>2, <2>1, <2>2 DEF WindowInForce
  <2>5. Caller(s)!Begin
    BY <1>1, <2>3, <2>4 DEF Caller!Begin, Caller!InForce, Caller!Pass
  <2>6. QED
    BY <2>5 DEF CallerStep, Caller!WindowNext
<1>6. QED
  BY <1>4, <1>5

\* A call below the limit uses the window, and one above it changes nothing of
\* it: what is counted above the limit is not used.
LEMMA NextUses ==
  ASSUME IInv, NEW s \in Slots, AllowNext(s) \/ Refuse(s)
  PROVE  \A t \in Slots : CallerStep(t)
<1>1. /\ windows \in [Slots -> Windows] /\ passed \in [Slots -> Seq(Calls)]
      /\ now' = now /\ InForce(s)
      /\ windows' = [windows EXCEPT ![s].count = @ + 1]
      /\ \A t \in Slots \ {s} : passed'[t] = passed[t]
  BY DEF IInv, TypeOK, Windows, AllowNext, Refuse, LetThrough, InForce
<1>2. /\ windows'[s].count = windows[s].count + 1 /\ windows'[s].startAt = windows[s].startAt
      /\ \A t \in Slots \ {s} : windows'[t] = windows[t]
  BY <1>1 DEF Windows
<1>3. InForce(s)'
  BY <1>1, <1>2, SlotTypes DEF InForce, Open, Over
<1>4. ASSUME NEW t \in Slots, t # s PROVE CallerStep(t)
  BY <1>1, <1>2, <1>4, ApartStutter
<1>5. CASE AllowNext(s)
  <2>1. /\ windows[s].count < LimitOf(s) /\ windows[s].count > 0
        /\ passed'[s] = Append(passed[s], [at |-> now, since |-> windows[s].startAt])
    BY <1>1, <1>5 DEF AllowNext, LetThrough, Open
  <2>2. /\ Used(s) = windows[s].count /\ Used(s)' = Used(s) + 1
        /\ Used(s) > 0 /\ Used(s) < LimitOf(s)
    BY <1>2, <2>1, SlotTypes DEF Used
  <2>3. /\ WindowInForce(s) = [used |-> Used(s), startAt |-> windows[s].startAt]
        /\ WindowInForce(s)' = [used |-> Used(s) + 1, startAt |-> windows[s].startAt]
    BY <1>1, <1>2, <1>3, <2>2 DEF WindowInForce
  <2>4. Caller(s)!Use
    BY <1>1, <2>1, <2>2, <2>3 DEF Caller!Use, Caller!InForce, Caller!Pass
  <2>5. QED
    BY <1>4, <2>4 DEF CallerStep, Caller!WindowNext
<1>6. CASE Refuse(s)
  <2>1. windows[s].count >= LimitOf(s) /\ passed'[s] = passed[s]
    BY <1>6 DEF Refuse
  <2>2. Used(s) = LimitOf(s) /\ Used(s)' = LimitOf(s)
    BY <1>2, <2>1, SlotTypes DEF Used
  <2>3. WindowInForce(s)' = WindowInForce(s)
    BY <1>1, <1>2, <1>3, <2>2 DEF WindowInForce
  <2>4. CallerStep(s)
    BY <1>1, <2>1, <2>3 DEF CallerStep, Caller!windowVars
  <2>5. QED
    BY <1>4, <2>4
<1>7. QED
  BY <1>5, <1>6

\* A window is in force until Duration has gone by, and not longer.
LEMMA ClockElapses ==
  ASSUME IInv, NEW u \in 1..MaxTime, Elapse(u)
  PROVE  \A t \in Slots : CallerStep(t)
<1> SUFFICES ASSUME NEW t \in Slots PROVE CallerStep(t)
  OBVIOUS
<1>1. /\ now' \in Nat /\ now' > now
      /\ UNCHANGED <<windows, passed>>
  BY RateAssumption, SlotTypes DEF Elapse
<1>2. Used(t)' = Used(t)
  BY <1>1, SlotTypes DEF Used
<1>3. Used(t) > 0 <=> Open(t)
  BY SlotTypes DEF Used, Open
<1>4. InForce(t)' <=> InForce(t) /\ now' - windows[t].startAt < Duration
  BY <1>1, SlotTypes DEF InForce, Open, Over
<1>5. WindowInForce(t).used > 0 <=> InForce(t)
  <2>1. CASE InForce(t)
    BY <1>3, <2>1 DEF WindowInForce, InForce
  <2>2. CASE ~InForce(t)
    BY <2>2 DEF WindowInForce
  <2>3. QED
    BY <2>1, <2>2
<1>6. WindowInForce(t)' =
        IF WindowInForce(t).used > 0 /\ now' - WindowInForce(t).startAt < Duration
          THEN WindowInForce(t) ELSE [used |-> 0, startAt |-> 0]
  <2>1. CASE InForce(t)
    <3>1. WindowInForce(t) = [used |-> Used(t), startAt |-> windows[t].startAt]
      BY <2>1 DEF WindowInForce
    <3>2. WindowInForce(t)' = IF now' - windows[t].startAt < Duration
                                THEN [used |-> Used(t), startAt |-> windows[t].startAt]
                                ELSE [used |-> 0, startAt |-> 0]
      BY <1>1, <1>2, <1>4, <2>1 DEF WindowInForce
    <3>3. QED
      BY <1>5, <2>1, <3>1, <3>2
  <2>2. CASE ~InForce(t)
    BY <1>4, <1>5, <2>2 DEF WindowInForce
  <2>3. QED
    BY <2>1, <2>2
<1>7. Caller(t)!Elapse
  BY <1>1, <1>6 DEF Caller!Elapse, Caller!InForce, Caller!None
<1>8. QED
  BY <1>7 DEF CallerStep, Caller!WindowNext

LEMMA ApartStep == IInv /\ [Next]_vars => \A t \in Slots : CallerStep(t)
<1> SUFFICES ASSUME IInv, [Next]_vars, NEW t \in Slots PROVE CallerStep(t)
  OBVIOUS
<1>1. CASE \E s \in Slots : AllowFirst(s) \/ AllowNext(s) \/ Refuse(s)
  BY <1>1, FirstBegins, NextUses
<1>2. CASE \E u \in 1..MaxTime : Elapse(u)
  BY <1>2, ClockElapses
<1>3. CASE UNCHANGED vars
  BY <1>3, ApartStutter DEF vars
<1>4. QED
  BY <1>1, <1>2, <1>3 DEF Next

\* ratelimit.go: what a caller is let through goes by a window that only its own
\* calls open and use up, and only the clock ends.
THEOREM ApartCorrect == Spec => CallersApart
<1>1. Init => \A s \in Slots : Caller(s)!WindowInit
  <2> SUFFICES ASSUME Init, NEW s \in Slots PROVE Caller(s)!WindowInit
    OBVIOUS
  <2>1. now = 0 /\ passed[s] = <<>> /\ ~InForce(s)
    BY DEF Init, InForce, Open, NoWindow
  <2>2. WindowInForce(s) = [used |-> 0, startAt |-> 0]
    BY <2>1 DEF WindowInForce
  <2>3. QED
    BY <2>1, <2>2 DEF Caller!WindowInit, Caller!None
<1>2. IInv /\ [Next]_vars => \A s \in Slots : [Caller(s)!WindowNext]_(Caller(s)!windowVars)
  BY ApartStep DEF CallerStep
<1>3. QED
  BY <1>1, <1>2, Inductive, PTL DEF Spec, CallersApart

=============================================================================
