------------------------------ MODULE Webhooks ------------------------------
(***************************************************************************)
(* Who uses the keys of WebhookKeys while they change: the calls of        *)
(* IncomingWebhook (internal/handler/webhook.go), which read the instance  *)
(* and then the keys, and the check for keys about to expire               *)
(* (internal/service/webhook_key_checker.go), which remembers its notices  *)
(* in memory.  A restart of the server runs the migration, loses that      *)
(* memory and the calls in flight.                                         *)
(*                                                                         *)
(* A secret stands for the signatures made with it: a call carries the     *)
(* secret it was signed with.  Time, content and form of the body are      *)
(* checked without reading any state: such a refusal is that of Refuse.    *)
(***************************************************************************)
EXTENDS WebhookKeys

CONSTANTS
  Calls,       \* webhook requests
  MaxRestarts, \* bound on the restarts of the server
  None         \* no X-Relay-KeyId

ASSUME WebhooksAssumption == None \notin Names \cup Keys /\ MaxRestarts \in Nat

VARIABLES
  call,      \* what each request carries, has read and is doing
  check,     \* the notices the check under way has still to make
  noted,     \* notifiedExpiringKeys: whether a notice is on record, for how long
  warned,    \* stored notices that a key is about to expire
  told,      \* keys with a stored notice that they have expired
  restarts

vars == <<keyVars, call, check, noted, warned, told, restarts>>
checkVars == <<check, noted, warned, told>>

Places == {"new", "found", "verified", "unsent", "sent", "stored", "refused", "lost"}
Hints == Names \cup Keys \cup {None}
Kinds == {"expiring", "expired"}
NewCall == [at |-> "new", proof |-> 0, hint |-> None, fallback |-> 0]

Init ==
  /\ KeysInit
  /\ call = [c \in Calls |-> NewCall]
  /\ check = {}
  /\ noted = [k \in Keys |-> "no"]
  /\ warned = [k \in Keys |-> 0]
  /\ told = {}
  /\ restarts = 0

-----------------------------------------------------------------------------
\* A call goes on; what it carried matters no more.
Move(c, from, to) ==
  /\ call[c].at \in from
  /\ call' = [call EXCEPT ![c] = [NewCall EXCEPT !.at = to]]

Cut(c) == IF call[c].at \in {"found", "verified", "unsent"}
            THEN [NewCall EXCEPT !.at = "lost"] ELSE call[c]

\* The active keys that a call may be signed with: all, or those that have the
\* id or the name it gives.
Candidates(c) == {k \in Active : call[c].hint \in {None, k, key[k].name}}

\* The keys that GetExpiringKeys finds, with what the check makes of them.
Expiring ==
  {<<k, IF key[k].due = "past" THEN "expired" ELSE "expiring">> :
     k \in {j \in Keys : key[j].status = "active" /\ key[j].due \in {"soon", "past"}}}

-----------------------------------------------------------------------------
(* Wrong forms of actions below, each a plausible slip in the code.         *)

\* The fallback secret is tried whenever no key matches.
VerifyFallsBack(c) ==
  /\ \/ \E k \in Candidates(c) : key[k].value = call[c].proof
     \/ call[c].hint = None /\ call[c].fallback = call[c].proof
  /\ Move(c, {"found"}, "verified")
  /\ UNCHANGED <<keyVars, checkVars, restarts>>

\* The migration without NOT EXISTS.
RestartAddsKey ==
  /\ restarts < MaxRestarts
  /\ restarts' = restarts + 1
  /\ \E k \in Keys :
       /\ hook # 0 /\ key[k].status = "absent"
       /\ key' = [key EXCEPT ![k] = [NoKey EXCEPT !.status = "active", !.value = hook]]
  /\ call' = [c \in Calls |-> Cut(c)]
  /\ check' = {}
  /\ noted' = [k \in Keys |-> "no"]
  /\ UNCHANGED <<hook, issued, warned, told>>

\* notifiedExpiringKeys.Store is forgotten.
NotifyUnrecorded(k) ==
  /\ <<k, "expiring">> \in check
  /\ warned' = [warned EXCEPT ![k] = @ + 1]
  /\ check' = check \ {<<k, "expiring">>}
  /\ UNCHANGED <<keyVars, call, noted, told, restarts>>

\* GetExpiringKeys AND expires_at > NOW().
CheckUnexpired ==
  /\ check = {}
  /\ noted' = [k \in Keys |-> IF noted[k] = "old" THEN "no" ELSE noted[k]]
  /\ check' = {n \in Expiring : n[2] = "expiring" /\ noted'[n[1]] = "no"}
  /\ UNCHANGED <<keyVars, call, warned, told, restarts>>

-----------------------------------------------------------------------------
(* IncomingWebhook.                                                        *)

\* The row of the instance gives the fallback secret.
Receive(c, s, n) ==
  /\ call[c].at = "new" /\ hook # 0
  /\ call' = [call EXCEPT ![c] = [at |-> "found", proof |-> s, hint |-> n, fallback |-> hook]]
  /\ UNCHANGED <<keyVars, checkVars, restarts>>

\* verifyWebhookSignature: a candidate key, or the fallback if no key is active.
Verify(c) ==
  /\ \/ \E k \in Candidates(c) : key[k].value = call[c].proof
     \/ call[c].hint = None /\ Active = {} /\ call[c].fallback = call[c].proof
  /\ Move(c, {"found"}, "verified")
  /\ UNCHANGED <<keyVars, checkVars, restarts>>

\* No match, keys that cannot be read, or a body that is not accepted.
Refuse(c) ==
  /\ Move(c, {"found", "verified"}, "refused")
  /\ UNCHANGED <<keyVars, checkVars, restarts>>

\* OnEvent: queued for the client, or not connected, or the client is busy.
Push(c) ==
  /\ \E to \in {"sent", "unsent"} : Move(c, {"verified"}, to)
  /\ UNCHANGED <<keyVars, checkVars, restarts>>

\* storeOfflineEvent, or Redis is unavailable.  Nothing reads what is stored.
StoreOffline(c) ==
  /\ \E to \in {"stored", "refused"} : Move(c, {"unsent"}, to)
  /\ UNCHANGED <<keyVars, checkVars, restarts>>

-----------------------------------------------------------------------------
(* CheckExpiringWebhookKeys, every five minutes and at the start.  Only its *)
(* goroutine touches notifiedExpiringKeys.                                  *)

\* A query that fails leaves it to the next check.
CheckList ==
  /\ check = {}
  /\ noted' = [k \in Keys |-> IF noted[k] = "old" THEN "no" ELSE noted[k]]
  /\ check' = {n \in Expiring : noted'[n[1]] = "no"}
  /\ UNCHANGED <<keyVars, call, warned, told, restarts>>

\* A key about to expire is put on record before the notice is stored.
Notify(k, kind) ==
  /\ <<k, kind>> \in check
  /\ check' = check \ {<<k, kind>>}
  /\ noted' = IF kind = "expiring" THEN [noted EXCEPT ![k] = "fresh"] ELSE noted
  /\ UNCHANGED <<keyVars, call, restarts>>

NotifyExpiring(k) ==
  /\ Notify(k, "expiring")
  /\ warned' = [warned EXCEPT ![k] = @ + 1]
  /\ UNCHANGED told

NotifyExpired(k) ==
  /\ Notify(k, "expired")
  /\ told' = told \cup {k}
  /\ UNCHANGED warned

\* CreateAndNotify fails: logged, and the record stays.
NotifyFail(k, kind) ==
  /\ Notify(k, kind)
  /\ UNCHANGED <<warned, told>>

\* A record is a day old.  It was made at most a day before the key expires.
Forget(k) ==
  /\ noted[k] = "fresh"
  /\ key[k].due \notin {"far", "soon"}
  /\ noted' = [noted EXCEPT ![k] = "old"]
  /\ UNCHANGED <<keyVars, call, check, warned, told, restarts>>

-----------------------------------------------------------------------------
Restart ==
  /\ restarts < MaxRestarts
  /\ restarts' = restarts + 1
  /\ Migrate
  /\ call' = [c \in Calls |-> Cut(c)]
  /\ check' = {}
  /\ noted' = [k \in Keys |-> "no"]
  /\ UNCHANGED <<warned, told>>

Owner == KeyStep /\ UNCHANGED <<call, checkVars, restarts>>

CallStep(c) ==
  \/ \E s \in 1..issued, n \in Hints : Receive(c, s, n)
  \/ Verify(c) \/ Refuse(c) \/ Push(c) \/ StoreOffline(c)

CheckStep ==
  \/ CheckList
  \/ \E k \in Keys :
       \/ NotifyExpiring(k) \/ NotifyExpired(k) \/ Forget(k)
       \/ \E kind \in Kinds : NotifyFail(k, kind)

Next == Owner \/ Restart \/ CheckStep \/ \E c \in Calls : CallStep(c)

(***************************************************************************)
(* Fairness: the ticker of the check keeps firing, a record grows old, the *)
(* notices of a check are all attempted, and the database does not refuse  *)
(* every notice of a key.                                                  *)
(***************************************************************************)
Fairness ==
  /\ WF_vars(CheckList)
  /\ \A k \in Keys :
       /\ WF_vars(Forget(k))
       /\ \A kind \in Kinds : WF_vars(NotifyFail(k, kind))
       /\ SF_vars(NotifyExpired(k))

Spec == Init /\ [][Next]_vars
FairSpec == Spec /\ Fairness
-----------------------------------------------------------------------------
(* Properties.                                                             *)

\* The types; no key outlives its instance, whose rows the database cascades to.
TypeOK ==
  /\ hook \in 0..issued /\ issued \in 1..MaxIssued
  /\ key \in [Keys -> Rows \cup {NoKey, Gone}]
  /\ call \in [Calls -> [at : Places, proof : 0..issued, hint : Hints,
                         fallback : 0..issued]]
  /\ check \subseteq Keys \X Kinds
  /\ noted \in [Keys -> {"no", "fresh", "old"}]
  /\ warned \in [Keys -> Nat]
  /\ told \subseteq Keys
  /\ restarts \in 0..MaxRestarts
  /\ hook = 0 => Present = {}

\* A webhook is let through only with a secret in force when its keys are read,
\* unless the owner changed the webhook secret, or deleted the instance, after
\* the call read it: then the one it read may pass.
LetThroughInForce ==
  [][\A c \in Calls : call[c].at = "found" /\ call'[c].at = "verified"
       => \/ call[c].proof \in InForce
          \/ call[c].fallback # hook /\ call[c].proof = call[c].fallback]_vars

\* A restart changes neither what signs a webhook nor what does not: the key it
\* may add carries the secret that was in force.
RestartKeepsForce == [][restarts' # restarts => InForce' = InForce]_vars

\* Between two restarts, a key is announced as about to expire at most once: its
\* record outlives the day in which it may be announced.
WarnedOnce == \A k \in Keys : warned[k] <= restarts + 1

\* The owner of a key that is active when it expires is told so, unless the key
\* goes away first, though a notice that it is about to expire holds this one
\* back for a day (notifiedIDs), and though a notice may fail.
ExpiredIsTold ==
  \A k \in Keys : (key[k].status = "active" /\ key[k].due = "past")
                    ~> (k \in told \/ key[k].status # "active")
=============================================================================
