---------------------------- MODULE WebhookKeys ----------------------------
(***************************************************************************)
(* What signs the webhooks of one relay instance: its webhook_secret and   *)
(* its rows of relay_webhook_keys, which the owner creates, toggles and    *)
(* deletes (internal/handler/relay.go) and which a start of the server may *)
(* add to (RunRelayMigrations).  The handlers check ownership and then     *)
(* make one write, which fails if the row is gone: one step each.          *)
(***************************************************************************)
EXTENDS Naturals, FiniteSets

CONSTANTS
  Keys,        \* ids of relay_webhook_keys
  Names,       \* names of keys
  Default,     \* the name the migration gives
  MaxIssued    \* bound on the secrets handed out

ASSUME KeysAssumption == Default \in Names /\ MaxIssued \in Nat \ {0}

VARIABLES
  hook,    \* webhook_secret of the instance, 0 once the instance is deleted
  issued,  \* number of secrets handed out; each is random, so none comes twice
  key      \* rows of relay_webhook_keys

keyVars == <<hook, issued, key>>

Dues == {"never", "far", "soon", "past"}
NoKey == [status |-> "absent", name |-> Default, value |-> 0, due |-> "never"]

\* due: no expires_at, more than a day ahead, less than that, reached.
Rows == [status : {"active", "disabled"}, name : Names, value : Nat \ {0}, due : Dues]
Gone == [NoKey EXCEPT !.status = "deleted"]

Present == {k \in Keys : key[k].status \in {"active", "disabled"}}
\* GetActiveKeysForVerification.
Active == {k \in Keys : key[k].status = "active" /\ key[k].due # "past"}

KeysInit ==
  /\ hook = 1 /\ issued = 1
  /\ key = [k \in Keys |-> NoKey]

CreateKey(k, n, d) ==
  /\ hook # 0 /\ key[k].status = "absent" /\ issued < MaxIssued
  /\ issued' = issued + 1
  /\ key' = [key EXCEPT ![k] = [status |-> "active", name |-> n, value |-> issued + 1, due |-> d]]
  /\ UNCHANGED hook

ToggleKey(k, s) ==
  /\ k \in Present /\ key[k].status # s
  /\ key' = [key EXCEPT ![k].status = s]
  /\ UNCHANGED <<hook, issued>>

DeleteKey(k) ==
  /\ k \in Present
  /\ key' = [key EXCEPT ![k] = Gone]
  /\ UNCHANGED <<hook, issued>>

\* The keys are left alone, one that carries the old secret included.
RegenerateWebhookSecret ==
  /\ hook # 0 /\ issued < MaxIssued
  /\ hook' = issued + 1 /\ issued' = issued + 1
  /\ UNCHANGED key

\* A wrong form of the next action: no ON DELETE CASCADE.
DeleteInstanceAlone ==
  /\ hook # 0
  /\ hook' = 0
  /\ UNCHANGED <<issued, key>>

\* ON DELETE CASCADE.
DeleteInstance ==
  /\ hook # 0
  /\ hook' = 0
  /\ key' = [k \in Keys |-> IF k \in Present THEN Gone ELSE key[k]]
  /\ UNCHANGED issued

\* Time passes for a key.
Age(k) ==
  /\ key[k].due \in {"far", "soon"}
  /\ key' = [key EXCEPT ![k].due = IF key[k].due = "far" THEN "soon" ELSE "past"]
  /\ UNCHANGED <<hook, issued>>

\* INSERT INTO relay_webhook_keys ... WHERE NOT EXISTS: the secret of an
\* instance without keys becomes its key.
Migrate ==
  /\ IF hook # 0 /\ Present = {}
       THEN \E k \in Keys :
              /\ key[k].status = "absent"
              /\ key' = [key EXCEPT ![k] = [status |-> "active", name |-> Default,
                                            value |-> hook, due |-> "never"]]
       ELSE UNCHANGED key
  /\ UNCHANGED <<hook, issued>>

KeyStep ==
  \/ \E k \in Keys : DeleteKey(k) \/ Age(k)
                     \/ (\E n \in Names, d \in Dues : CreateKey(k, n, d))
                     \/ (\E s \in {"active", "disabled"} : ToggleKey(k, s))
  \/ RegenerateWebhookSecret \/ DeleteInstance

\* The secrets that sign a webhook which names no key.
InForce ==
  IF hook = 0 THEN {} ELSE IF Active = {} THEN {hook} ELSE {key[k].value : k \in Active}
=============================================================================
