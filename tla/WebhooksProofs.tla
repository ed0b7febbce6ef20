--------------------------- MODULE WebhooksProofs ---------------------------
(***************************************************************************)
(* What Webhooks keeps for any keys, names, calls and bounds: types, the   *)
(* secrets that let a webhook through, that one taken back never does      *)
(* again, what a restart leaves in force, and how often a key is announced *)
(* as about to expire.                                                     *)
(***************************************************************************)
EXTENDS Webhooks, TLAPS

\* A call that has read the instance has read a secret.
FallbackRead == \A c \in Calls : call[c].at = "found" => call[c].fallback # 0

\* What is known of the notices of one key: a key that is not there has none; a
\* notice to come has no record yet; a key that may still be announced, and has
\* no record, has not been announced since the last restart; a record is not a
\* day old before its key expires.
Accounted(k) ==
  /\ warned[k] <= restarts + 1
  /\ key[k].status = "absent"
       => warned[k] = 0 /\ noted[k] = "no" /\ <<k, "expiring">> \notin check
  /\ <<k, "expiring">> \in check => noted[k] = "no" /\ warned[k] <= restarts
  /\ key[k].due \in {"far", "soon"}
       => noted[k] # "old" /\ (noted[k] = "no" => warned[k] <= restarts)

NoticesAccounted == \A k \in Keys : Accounted(k)

Inv == TypeOK /\ FallbackRead /\ NoticesAccounted

USE KeysAssumption, WebhooksAssumption

-----------------------------------------------------------------------------
(* The keys.                                                               *)

\* The types of the variables of WebhookKeys, and the cascade.
KeysOK ==
  /\ hook \in 0..issued /\ issued \in 1..MaxIssued
  /\ key \in [Keys -> Rows \cup {NoKey, Gone}]
  /\ hook = 0 => Present = {}

\* No operation of the owner, and no passing of time, spoils the keys.
LEMMA KeyStepOK == KeysOK /\ KeyStep => KeysOK'
<1> SUFFICES ASSUME KeysOK, KeyStep PROVE KeysOK'
  OBVIOUS
<1> USE DEF KeysOK
<1>1. CASE \E k \in Keys : DeleteKey(k)
  BY <1>1 DEF DeleteKey, Present, Gone, NoKey
<1>2. CASE \E k \in Keys : Age(k)
  BY <1>2 DEF Age, Present, Gone, NoKey, Rows, Dues
<1>3. CASE \E k \in Keys, n \in Names, d \in Dues : CreateKey(k, n, d)
  BY <1>3 DEF CreateKey, Present, Gone, NoKey, Rows, Dues
<1>4. CASE \E k \in Keys, s \in {"active", "disabled"} : ToggleKey(k, s)
  BY <1>4 DEF ToggleKey, Present, Gone, NoKey, Rows
<1>5. CASE RegenerateWebhookSecret
  BY <1>5 DEF RegenerateWebhookSecret, Present
<1>6. CASE DeleteInstance
  BY <1>6 DEF DeleteInstance, Present, Gone, NoKey
<1> QED
  BY <1>1, <1>2, <1>3, <1>4, <1>5, <1>6 DEF KeyStep

\* Nor does the migration.
LEMMA MigrateOK == KeysOK /\ Migrate => KeysOK'
<1> SUFFICES ASSUME KeysOK, Migrate PROVE KeysOK'
  OBVIOUS
<1> USE DEF KeysOK
<1>1. CASE hook # 0 /\ Present = {}
  <2>1. PICK k \in Keys :
           key' = [key EXCEPT ![k] = [status |-> "active", name |-> Default,
                                      value |-> hook, due |-> "never"]]
    BY <1>1 DEF Migrate
  <2>2. [status |-> "active", name |-> Default, value |-> hook, due |-> "never"] \in Rows
    BY <1>1 DEF Rows, Dues
  <2> QED
    BY <1>1, <2>1, <2>2 DEF Migrate
<1>2. CASE ~(hook # 0 /\ Present = {})
  BY <1>2 DEF Migrate, Present
<1> QED
  BY <1>1, <1>2

\* A key that comes was not there; no step makes one that was there absent, or
\* puts off when it expires.
LEMMA KeyChange ==
  ASSUME KeysOK, KeyStep \/ Migrate, NEW k \in Keys
  PROVE  /\ key'[k].status = "absent" => key[k].status = "absent"
         /\ key'[k].due \in {"far", "soon"}
              => key[k].status = "absent" \/ key[k].due \in {"far", "soon"}
<1> USE DEF KeysOK
<1>1. CASE \E j \in Keys : DeleteKey(j)
  BY <1>1 DEF DeleteKey, Gone, NoKey
<1>2. CASE \E j \in Keys : Age(j)
  BY <1>2 DEF Age, Gone, NoKey, Rows
<1>3. CASE \E j \in Keys, n \in Names, d \in Dues : CreateKey(j, n, d)
  BY <1>3 DEF CreateKey
<1>4. CASE \E j \in Keys, s \in {"active", "disabled"} : ToggleKey(j, s)
  BY <1>4 DEF ToggleKey, Present, Rows, Gone, NoKey
<1>5. CASE RegenerateWebhookSecret
  BY <1>5 DEF RegenerateWebhookSecret
<1>6. CASE DeleteInstance
  BY <1>6 DEF DeleteInstance, Present, Gone, NoKey
<1>7. CASE Migrate
  BY <1>7 DEF Migrate
<1> QED
  BY <1>1, <1>2, <1>3, <1>4, <1>5, <1>6, <1>7 DEF KeyStep

-----------------------------------------------------------------------------
(* The invariant.                                                          *)

LEMMA InitInv == Init => Inv
<1> SUFFICES ASSUME Init PROVE Inv
  OBVIOUS
<1> USE DEF Init, KeysInit
<1>1. TypeOK
  BY DEF TypeOK, NoKey, NewCall, Places, Hints, Present
<1>2. FallbackRead
  BY DEF FallbackRead, NewCall
<1>3. NoticesAccounted
  BY DEF NoticesAccounted, Accounted, NoKey
<1> QED
  BY <1>1, <1>2, <1>3 DEF Inv

\* An owner's step leaves calls and notices alone.
LEMMA OwnerInv == Inv /\ Owner => Inv'
<1> SUFFICES ASSUME Inv, Owner PROVE Inv'
  OBVIOUS
<1> USE DEF Inv, Owner, checkVars
<1>1. KeysOK /\ KeysOK'
  BY KeyStepOK DEF KeysOK, TypeOK
<1>2. issued <= issued'
  BY DEF KeyStep, DeleteKey, Age, CreateKey, ToggleKey, RegenerateWebhookSecret,
         DeleteInstance, TypeOK
<1>3. call' \in [Calls -> [at : Places, proof : 0..issued', hint : Hints,
                           fallback : 0..issued']]
  <2>1. 0..issued \subseteq 0..issued'
    BY <1>1, <1>2 DEF KeysOK
  <2> QED
    BY <2>1 DEF TypeOK
<1>4. TypeOK'
  BY <1>1, <1>3 DEF TypeOK, KeysOK
<1>5. FallbackRead'
  BY DEF FallbackRead
<1>6. ASSUME NEW k \in Keys PROVE Accounted(k)'
  <2>1. Accounted(k)
    BY DEF NoticesAccounted
  <2>2. /\ key'[k].status = "absent" => key[k].status = "absent"
        /\ key'[k].due \in {"far", "soon"}
             => key[k].status = "absent" \/ key[k].due \in {"far", "soon"}
    BY <1>1, KeyChange
  <2>3. warned[k] \in Nat /\ restarts \in Nat
    BY DEF TypeOK
  <2> QED
    BY <2>1, <2>2, <2>3 DEF Accounted
<1> QED
  BY <1>4, <1>5, <1>6 DEF NoticesAccounted

\* A call touches nothing but itself.
LEMMA CallInv == ASSUME Inv, NEW c \in Calls, CallStep(c) PROVE Inv'
<1> USE DEF Inv, keyVars, checkVars
<1>1. UNCHANGED <<keyVars, checkVars, restarts>>
  BY DEF CallStep, Receive, Verify, Refuse, Push, StoreOffline
<1>2. /\ call' \in [Calls -> [at : Places, proof : 0..issued, hint : Hints,
                              fallback : 0..issued]]
      /\ FallbackRead'
  <2> USE DEF TypeOK, FallbackRead
  <2>1. ASSUME NEW s \in 1..issued, NEW n \in Hints, Receive(c, s, n)
        PROVE  /\ call' \in [Calls -> [at : Places, proof : 0..issued, hint : Hints,
                                       fallback : 0..issued]]
               /\ FallbackRead'
    BY <2>1 DEF Receive, Places
  <2>2. ASSUME NEW from, NEW to \in Places \ {"found"}, Move(c, from, to)
        PROVE  /\ call' \in [Calls -> [at : Places, proof : 0..issued, hint : Hints,
                                       fallback : 0..issued]]
               /\ FallbackRead'
    <3>1. call' = [call EXCEPT ![c] = [at |-> to, proof |-> 0, hint |-> None, fallback |-> 0]]
      <4>1. [NewCall EXCEPT !.at = to] = [at |-> to, proof |-> 0, hint |-> None, fallback |-> 0]
        BY DEF NewCall
      <4> QED
        BY <2>2, <4>1 DEF Move
    <3>2. [at |-> to, proof |-> 0, hint |-> None, fallback |-> 0]
            \in [at : Places, proof : 0..issued, hint : Hints, fallback : 0..issued]
      BY DEF Hints
    <3> QED
      BY <3>1, <3>2
  <2>3. {"verified", "refused", "sent", "unsent", "stored"} \subseteq Places \ {"found"}
    BY DEF Places
  <2>4. CASE Verify(c)
    BY <2>2, <2>3, <2>4 DEF Verify
  <2>5. CASE Refuse(c)
    BY <2>2, <2>3, <2>5 DEF Refuse
  <2>6. CASE Push(c)
    BY <2>2, <2>3, <2>6 DEF Push
  <2>7. CASE StoreOffline(c)
    BY <2>2, <2>3, <2>7 DEF StoreOffline
  <2> QED
    BY <2>1, <2>4, <2>5, <2>6, <2>7 DEF CallStep
<1>3. TypeOK'
  BY <1>1, <1>2 DEF TypeOK, Present
<1>4. NoticesAccounted'
  BY <1>1 DEF NoticesAccounted, Accounted
<1> QED
  BY <1>2, <1>3, <1>4

\* The check touches nothing but its notices and its record of them.
LEMMA CheckInv == Inv /\ CheckStep => Inv'
<1> SUFFICES ASSUME Inv, CheckStep PROVE Inv'
  OBVIOUS
<1> USE DEF Inv, keyVars
<1>1. UNCHANGED <<keyVars, call, restarts>>
  BY DEF CheckStep, CheckList, NotifyExpiring, NotifyExpired, NotifyFail, Notify, Forget
<1>2. FallbackRead'
  BY <1>1 DEF FallbackRead
<1>4. CASE CheckList
  <2>1. TypeOK'
    <3>1. Expiring \subseteq Keys \X Kinds
      BY DEF Expiring, Kinds
    <3> QED
      BY <1>1, <1>4, <3>1 DEF CheckList, TypeOK, Present
  <2>2. ASSUME NEW k \in Keys PROVE Accounted(k)'
    <3>1. Accounted(k) /\ warned[k] \in Nat /\ restarts \in Nat
      BY DEF NoticesAccounted, TypeOK
    <3>2. <<k, "expiring">> \in check'
            => key[k].status = "active" /\ key[k].due = "soon" /\ noted'[k] = "no"
      BY <1>4 DEF CheckList, Expiring
    <3>3. noted'[k] = IF noted[k] = "old" THEN "no" ELSE noted[k]
      BY <1>4 DEF CheckList
    <3>4. warned' = warned
      BY <1>4 DEF CheckList
    <3> QED
      BY <1>1, <3>1, <3>2, <3>3, <3>4 DEF Accounted
  <2> QED
    BY <1>2, <2>1, <2>2 DEF NoticesAccounted
<1>5. ASSUME NEW j \in Keys, NEW kind \in Kinds, Notify(j, kind),
             told' \subseteq Keys, warned' \in [Keys -> Nat],
             \A k \in Keys : warned'[k] = IF k = j /\ kind = "expiring" /\ warned' # warned
                                            THEN warned[k] + 1 ELSE warned[k]
      PROVE  Inv'
  <2>1. TypeOK'
    BY <1>1, <1>5 DEF Notify, TypeOK, Present
  <2>2. ASSUME NEW k \in Keys PROVE Accounted(k)'
    <3>1. Accounted(k) /\ warned[k] \in Nat /\ restarts \in Nat
      BY DEF NoticesAccounted, TypeOK
    <3>2. check' \subseteq check /\ <<j, kind>> \in check /\ <<j, kind>> \notin check'
      BY <1>5 DEF Notify
    <3>3. noted'[k] = IF k = j /\ kind = "expiring" THEN "fresh" ELSE noted[k]
      BY <1>5 DEF Notify, TypeOK
    <3>4. warned'[k] = IF k = j /\ kind = "expiring" /\ warned' # warned
                         THEN warned[k] + 1 ELSE warned[k]
      BY <1>5
    <3> QED
      BY <1>1, <3>1, <3>2, <3>3, <3>4 DEF Accounted
  <2> QED
    BY <1>2, <2>1, <2>2 DEF NoticesAccounted
<1>6. CASE \E k \in Keys : NotifyExpiring(k)
  BY <1>5, <1>6 DEF NotifyExpiring, TypeOK, Kinds
<1>7. CASE \E k \in Keys : NotifyExpired(k)
  BY <1>5, <1>7 DEF NotifyExpired, TypeOK, Kinds
<1>8. CASE \E k \in Keys, kind \in Kinds : NotifyFail(k, kind)
  BY <1>5, <1>8 DEF NotifyFail, TypeOK
<1>9. CASE \E k \in Keys : Forget(k)
  <2>1. PICK j \in Keys : Forget(j)
    BY <1>9
  <2>2. TypeOK'
    BY <1>1, <2>1 DEF Forget, TypeOK, Present
  <2>3. NoticesAccounted'
    BY <1>1, <2>1, ZenonT(60) DEF Forget, NoticesAccounted, Accounted, TypeOK
  <2> QED
    BY <1>2, <2>2, <2>3
<1> QED
  BY <1>4, <1>6, <1>7, <1>8, <1>9 DEF CheckStep

\* A restart runs the migration, and starts the notices again.
LEMMA RestartInv == Inv /\ Restart => Inv'
<1> SUFFICES ASSUME Inv, Restart PROVE Inv'
  OBVIOUS
<1> USE DEF Inv, Restart
<1>1. KeysOK /\ KeysOK'
  BY MigrateOK DEF KeysOK, TypeOK
<1>2. UNCHANGED <<hook, issued>>
  BY DEF Migrate
<1>3. ASSUME NEW c \in Calls
      PROVE  /\ Cut(c) \in [at : Places, proof : 0..issued, hint : Hints, fallback : 0..issued]
             /\ Cut(c).at # "found"
  <2>1. [at |-> "lost", proof |-> 0, hint |-> None, fallback |-> 0]
          \in [at : Places, proof : 0..issued, hint : Hints, fallback : 0..issued]
    BY DEF Places, Hints, TypeOK
  <2> QED
    BY <2>1 DEF Cut, NewCall, TypeOK
<1>4. TypeOK'
  BY <1>1, <1>2, <1>3 DEF TypeOK, KeysOK
<1>5. FallbackRead'
  BY <1>3 DEF FallbackRead
<1>6. ASSUME NEW k \in Keys PROVE Accounted(k)'
  <2>1. Accounted(k) /\ warned[k] \in Nat /\ restarts \in Nat
    BY DEF NoticesAccounted, TypeOK
  <2>2. key'[k].status = "absent" => key[k].status = "absent"
    BY <1>1, KeyChange
  <2> QED
    BY <2>1, <2>2 DEF Accounted
<1> QED
  BY <1>4, <1>5, <1>6 DEF NoticesAccounted

LEMMA NextInv == Inv /\ [Next]_vars => Inv'
<1> SUFFICES ASSUME Inv, [Next]_vars PROVE Inv'
  OBVIOUS
<1>1. CASE UNCHANGED vars
  BY <1>1 DEF vars, keyVars, Inv, TypeOK, Present, FallbackRead, NoticesAccounted, Accounted
<1> QED
  BY <1>1, OwnerInv, CallInv, CheckInv, RestartInv DEF Next

LEMMA AlwaysInv == Spec => []Inv
  BY InitInv, NextInv, PTL DEF Spec

-----------------------------------------------------------------------------
(* The theorems.                                                           *)

\* Every variable keeps its type, and no key outlives its instance.
THEOREM TypeCorrect == Spec => []TypeOK
  BY AlwaysInv, PTL DEF Inv

\* Between two restarts a key is announced as about to expire at most once.
THEOREM WarnedCorrect == Spec => []WarnedOnce
<1>1. Inv => WarnedOnce
  BY DEF Inv, NoticesAccounted, Accounted, WarnedOnce
<1> QED
  BY AlwaysInv, <1>1, PTL

\* The secret c was signed with is in force, or is the one c read from its
\* instance before the owner replaced that.
Sound(c) == \/ call[c].proof \in InForce
            \/ call[c].fallback # hook /\ call[c].proof = call[c].fallback

\* A call is let through by Verify alone.
LEMMA LetThroughStep ==
  ASSUME Inv, [Next]_vars, NEW c \in Calls, call[c].at = "found", call'[c].at = "verified"
  PROVE  Sound(c)
<1>1. Verify(c)
  <2>1. call' # call
    OBVIOUS
  <2>2. ~Owner /\ ~CheckStep /\ ~Restart
    BY <2>1 DEF Owner, CheckStep, CheckList, NotifyExpiring, NotifyExpired, NotifyFail,
          Notify, Forget, Restart, Cut, NewCall
  <2>3. PICK d \in Calls : CallStep(d)
    BY <2>1, <2>2 DEF Next, vars
  <2>4. d = c
    BY <2>3 DEF CallStep, Receive, Verify, Refuse, Push, StoreOffline, Move, Inv, TypeOK
  <2> QED
    BY <2>3, <2>4 DEF CallStep, Receive, Refuse, Push, StoreOffline, Move, Inv, TypeOK, NewCall
<1>2. CASE \E k \in Candidates(c) : key[k].value = call[c].proof
  <2>1. PICK k \in Active : key[k].value = call[c].proof
    BY <1>2 DEF Candidates
  <2>2. hook # 0
    BY <2>1 DEF Active, Present, Inv, TypeOK
  <2> QED
    BY <2>1, <2>2 DEF InForce, Sound
<1>3. CASE Active = {} /\ call[c].fallback = call[c].proof
  <2>1. call[c].fallback # 0
    BY DEF Inv, FallbackRead
  <2> QED
    BY <1>3, <2>1 DEF InForce, Sound
<1> QED
  BY <1>1, <1>2, <1>3 DEF Verify

\* Only a secret in force lets a webhook through, but for the one the call had
\* read before the owner replaced it.
THEOREM LetThroughCorrect == Spec => LetThroughInForce
<1>1. Inv /\ [Next]_vars
        => [\A c \in Calls : call[c].at = "found" /\ call'[c].at = "verified"
              => \/ call[c].proof \in InForce
                 \/ call[c].fallback # hook /\ call[c].proof = call[c].fallback]_vars
  BY LetThroughStep DEF Sound
<1> QED
  BY AlwaysInv, <1>1, PTL DEF Spec, LetThroughInForce

-----------------------------------------------------------------------------
(* Taking a secret back.  The owner does so by deleting the key that        *)
(* carries it or by regenerating the webhook secret: neither is undone,     *)
(* while a key that is disabled may be enabled again.                       *)

\* s was handed out, and neither the instance nor a key carries it.
Withdrawn(s) == s \in 1..issued /\ s # hook /\ \A k \in Present : key[k].value # s

\* No call under way has read s from the instance.
Unheld(s) == \A c \in Calls : call[c].at = "found" => call[c].fallback # s

PassesWith(s) ==
  \E c \in Calls : call[c].at = "found" /\ call'[c].at = "verified" /\ call[c].proof = s

\* No operation of the owner, no passing of time and no migration brings a
\* secret back: what they write is new, or the instance carries it.
LEMMA WithdrawnStep ==
  ASSUME KeysOK, KeyStep \/ Migrate, NEW s, Withdrawn(s)
  PROVE  Withdrawn(s)'
<1> USE DEF KeysOK, Withdrawn
<1>1. CASE \E k \in Keys : DeleteKey(k)
  BY <1>1 DEF DeleteKey, Present, Gone, NoKey
<1>2. CASE \E k \in Keys : Age(k)
  BY <1>2 DEF Age, Present, Gone, NoKey, Rows
<1>3. CASE \E k \in Keys, n \in Names, d \in Dues : CreateKey(k, n, d)
  BY <1>3 DEF CreateKey, Present
<1>4. CASE \E k \in Keys, t \in {"active", "disabled"} : ToggleKey(k, t)
  BY <1>4 DEF ToggleKey, Present, Rows, Gone, NoKey
<1>5. CASE RegenerateWebhookSecret
  BY <1>5 DEF RegenerateWebhookSecret, Present
<1>6. CASE DeleteInstance
  BY <1>6 DEF DeleteInstance, Present, Gone, NoKey
<1>7. CASE Migrate
  BY <1>7 DEF Migrate, Present
<1> QED
  BY <1>1, <1>2, <1>3, <1>4, <1>5, <1>6, <1>7 DEF KeyStep

\* Nor does a call read it again.
LEMMA VoidStep ==
  ASSUME Inv, [Next]_vars, NEW s, Withdrawn(s), Unheld(s)
  PROVE  Withdrawn(s)' /\ Unheld(s)'
<1>1. CASE Owner
  BY <1>1, WithdrawnStep DEF Owner, Unheld, Inv, TypeOK, KeysOK
<1>2. CASE Restart
  BY <1>2, WithdrawnStep DEF Restart, Cut, NewCall, Unheld, Inv, TypeOK, KeysOK
<1>3. CASE CheckStep
  BY <1>3 DEF CheckStep, CheckList, NotifyExpiring, NotifyExpired, NotifyFail, Notify, Forget,
        keyVars, Withdrawn, Present, Unheld
<1>4. ASSUME NEW c \in Calls, CallStep(c) PROVE Withdrawn(s)' /\ Unheld(s)'
  <2>1. UNCHANGED keyVars
    BY <1>4 DEF CallStep, Receive, Verify, Refuse, Push, StoreOffline
  <2>2. \/ call'[c].at # "found"
        \/ call'[c].fallback = hook
    BY <1>4 DEF CallStep, Receive, Verify, Refuse, Push, StoreOffline, Move, NewCall, Inv, TypeOK
  <2>3. \A d \in Calls \ {c} : call'[d] = call[d]
    BY <1>4 DEF CallStep, Receive, Verify, Refuse, Push, StoreOffline, Move, Inv, TypeOK
  <2> QED
    BY <2>1, <2>2, <2>3 DEF keyVars, Withdrawn, Present, Unheld
<1>5. CASE UNCHANGED vars
  BY <1>5 DEF vars, keyVars, Withdrawn, Present, Unheld
<1> QED
  BY <1>1, <1>2, <1>3, <1>4, <1>5 DEF Next

\* A secret that its owner has taken back, once the calls that had read it from
\* the instance are over, lets no webhook through any more: not after a key is
\* enabled or created, nor after a restart whose migration adds a key.
THEOREM WithdrawnForGood ==
  ASSUME NEW s \in Nat
  PROVE  Spec => [](Withdrawn(s) /\ Unheld(s) => [][~PassesWith(s)]_vars)
<1>1. Inv /\ Withdrawn(s) /\ Unheld(s) /\ [Next]_vars => Withdrawn(s)' /\ Unheld(s)'
  BY VoidStep
<1>2. ASSUME Inv, Withdrawn(s), Unheld(s), [Next]_vars PROVE ~PassesWith(s)
  <2> SUFFICES ASSUME PassesWith(s) PROVE FALSE
    OBVIOUS
  <2>1. PICK c \in Calls :
          call[c].at = "found" /\ call'[c].at = "verified" /\ call[c].proof = s
    BY DEF PassesWith
  <2>2. s \in InForce \/ call[c].fallback = s
    BY <1>2, <2>1, LetThroughStep DEF Sound
  <2>3. s \notin InForce
    BY <1>2 DEF Withdrawn, InForce, Active, Present
  <2> QED
    BY <1>2, <2>1, <2>2, <2>3 DEF Unheld
<1>3. Inv /\ Withdrawn(s) /\ Unheld(s) /\ [Next]_vars => [~PassesWith(s)]_vars
  BY <1>2
<1> QED
  BY AlwaysInv, <1>1, <1>3, PTL DEF Spec

\* A restart leaves the secrets in force as they were.
THEOREM RestartCorrect == Spec => RestartKeepsForce
<1>1. ASSUME Inv, [Next]_vars, restarts' # restarts PROVE InForce' = InForce
  <2>1. Migrate /\ KeysOK
    BY <1>1 DEF Next, vars, Owner, CallStep, Receive, Verify, Refuse, Push, StoreOffline,
          CheckStep, CheckList, NotifyExpiring, NotifyExpired, NotifyFail, Notify, Forget,
          Restart, Inv, TypeOK, KeysOK
  <2>2. CASE hook # 0 /\ Present = {}
    <3>1. PICK k \in Keys :
             key' = [key EXCEPT ![k] = [status |-> "active", name |-> Default,
                                        value |-> hook, due |-> "never"]]
      BY <2>1, <2>2 DEF Migrate
    <3>2. Active = {}
      BY <2>2 DEF Active, Present
    <3>3. Active' = {k} /\ key'[k].value = hook /\ hook' = hook
      BY <2>1, <3>1, <3>2 DEF Active, KeysOK, Migrate
    <3> QED
      BY <2>2, <3>2, <3>3 DEF InForce
  <2>3. CASE ~(hook # 0 /\ Present = {})
    BY <2>1, <2>3 DEF Migrate, InForce, Active
  <2> QED
    BY <2>2, <2>3
<1>2. Inv /\ [Next]_vars => [restarts' # restarts => InForce' = InForce]_vars
  BY <1>1
<1> QED
  BY AlwaysInv, <1>2, PTL DEF Spec, RestartKeepsForce
=============================================================================
