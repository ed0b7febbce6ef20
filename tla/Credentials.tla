---------------------------- MODULE Credentials ----------------------------
(***************************************************************************)
(* What the flows of registration, login, reset and GitHub promise         *)
(* together of keys: an account is opened once, by one party, under a name *)
(* of its own, and stays theirs; its key is only ever replaced, by one     *)
(* that was never used before; and a party is told no key but those of its *)
(* accounts and of accounts shared with it, by a sign-in of the owner that *)
(* was answered to the party's page.                                       *)
(***************************************************************************)
EXTENDS Naturals

CONSTANTS Users, Parties, Names, MaxIssued, None

VARIABLES
  owner,  \* the party each account is of, None before it is opened
  name,   \* the name of each account
  key,    \* the key of each account, 0 before it is opened
  made,   \* the account each key was made for
  known,  \* the keys each party was told
  shared  \* the parties that accounts were shared with, and which

accountVars == <<owner, name, key, made>>
credentialVars == <<accountVars, known, shared>>

CredentialsInit ==
  /\ owner = [u \in Users |-> None]
  /\ name = [u \in Users |-> None]
  /\ key = [u \in Users |-> 0]
  /\ made = [k \in 1..MaxIssued |-> None]
  /\ known = [p \in Parties |-> {}]
  /\ shared = {}

Opened == {u \in Users : owner[u] # None}

\* With nobody, or with one party.
Share(u) == UNCHANGED shared \/ \E p \in Parties : shared' = shared \cup {<<p, u>>}

\* To nobody, or to one party: the owner, or one the account is shared with.
Tell(u, k) ==
  \/ UNCHANGED known
  \/ \E p \in Parties : /\ owner'[u] = p \/ <<p, u>> \in shared'
                        /\ known' = [known EXCEPT ![p] = @ \cup {k}]

Make(u, k) ==
  /\ made[k] = None
  /\ made' = [made EXCEPT ![k] = u]
  /\ key' = [key EXCEPT ![u] = k]

Open(u, k, p, n) ==
  /\ u \notin Opened
  /\ \A v \in Opened : name[v] # n
  /\ owner' = [owner EXCEPT ![u] = p]
  /\ name' = [name EXCEPT ![u] = n]
  /\ Share(u) /\ Tell(u, k)

Replace(u, k) ==
  /\ u \in Opened
  /\ UNCHANGED <<owner, name, known, shared>>

Remind(u, k) ==
  /\ made[k] = u
  /\ UNCHANGED accountVars
  /\ Share(u) /\ Tell(u, k)

CredentialsNext ==
  \E u \in Users, k \in 1..MaxIssued :
    \/ Remind(u, k)
    \/ Make(u, k) /\ (Replace(u, k) \/ \E p \in Parties, n \in Names : Open(u, k, p, n))

CredentialsSpec == CredentialsInit /\ [][CredentialsNext]_credentialVars
=============================================================================
