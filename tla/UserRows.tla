------------------------------ MODULE UserRows ------------------------------
(***************************************************************************)
(* The table users and the statements made on it                           *)
(* (internal/repository/user.go).  No row is ever deleted.  Names, keys,   *)
(* GitHub identities and bind codes are unique.  Every UPDATE sets         *)
(* updated_at, from which the age of a bind code is counted.               *)
(*                                                                         *)
(* A key is a number no other key has, and so is a reset token: both are   *)
(* random.  A bind code stands for its row.                                *)
(***************************************************************************)
EXTENDS Naturals

CONSTANTS
  Users,      \* row ids
  Names,      \* user names
  GitHubs,    \* GitHub identities
  People,     \* those who register an instance themselves
  MaxIssued,  \* bound on the keys handed out
  MaxTokens,  \* bound on the reset tokens handed out
  None

Parties == GitHubs \cup People

ASSUME RowsAssumption ==
  /\ None \notin Users \cup Names \cup Parties
  /\ MaxIssued \in Nat
  /\ MaxTokens \in Nat

VARIABLES
  user,    \* the rows
  issued,  \* number of keys handed out
  minted,  \* number of reset tokens handed out
  made     \* history: the row each key was made for

rowVars == <<user, issued, minted, made>>

NoRow == [name |-> None, owner |-> None, github |-> None, key |-> 0, token |-> 0,
          live |-> FALSE, code |-> FALSE, observer |-> None, recent |-> FALSE]

Row == [name : Names \cup {None}, owner : Parties \cup {None}, github : GitHubs \cup {None},
        key : Nat, token : Nat, live : BOOLEAN, code : BOOLEAN,
        observer : Users \cup {None}, recent : BOOLEAN]

RowsInit ==
  /\ user = [u \in Users |-> NoRow]
  /\ issued = 0
  /\ minted = 0
  /\ made = [k \in 1..MaxIssued |-> None]

Stored == {u \in Users : user[u].name # None}

-----------------------------------------------------------------------------
(* Queries: the ids of the rows found, none or one.                        *)

GetByUsername(n) == {u \in Stored : user[u].name = n}
GetByAPIKey(k) == {u \in Stored : user[u].key = k}
GetByGitHubID(g) == {u \in Stored : user[u].github = g}
GetByBindCode(u) == {v \in Stored : v = u /\ user[v].code}
GetUserByResetToken(t) == {u \in Stored : user[u].token = t}

-----------------------------------------------------------------------------
(* Statements.                                                             *)

NextNumber == issued + 1
NextToken == minted + 1
Fresh == issued < MaxIssued /\ issued' = NextNumber /\ UNCHANGED minted

\* Any UPDATE: with it the row is recent again.
Update(u, row) == user' = [user EXCEPT ![u] = [row EXCEPT !.recent = TRUE]]

\* INSERT by Create, with a bind code, and by CreateWithGitHub, without.
Insert(u, row) ==
  /\ u \notin Stored
  /\ GetByUsername(row.name) = {}
  /\ row.github = None \/ GetByGitHubID(row.github) = {}
  /\ Fresh
  /\ user' = [user EXCEPT ![u] = row]
  /\ made' = [made EXCEPT ![NextNumber] = u]

Create(u, n, p) ==
  Insert(u, [NoRow EXCEPT !.name = n, !.owner = p, !.key = NextNumber,
                          !.code = TRUE, !.recent = TRUE])

CreateWithGitHub(u, n, g) ==
  Insert(u, [NoRow EXCEPT !.name = n, !.owner = g, !.github = g, !.key = NextNumber,
                          !.recent = TRUE])

\* Wrong: the second statement of BindObserver left out, bind_code = NULL.
BindKeepsCode(u, observer) ==
  /\ Update(u, [user[u] EXCEPT !.observer = observer])
  /\ UNCHANGED <<issued, minted, made>>

\* By id only: that the code still stands is not tested again.
BindObserver(u, observer) ==
  /\ Update(u, [user[u] EXCEPT !.observer = observer, !.code = FALSE])
  /\ UNCHANGED <<issued, minted, made>>

UpdateResetToken(u) ==
  /\ minted < MaxTokens /\ minted' = NextToken
  /\ Update(u, [user[u] EXCEPT !.token = NextToken, !.live = TRUE])
  /\ UNCHANGED <<issued, made>>

ClearResetToken(u) ==
  /\ Update(u, [user[u] EXCEPT !.token = 0, !.live = FALSE])
  /\ UNCHANGED <<issued, minted, made>>

UpdateAPIKey(u) ==
  /\ Fresh
  /\ Update(u, [user[u] EXCEPT !.key = NextNumber])
  /\ made' = [made EXCEPT ![NextNumber] = u]

\* UpdateProfile, UpdatePassword and UpdateAvatarURL.
Touch(u) ==
  /\ u \in Stored
  /\ Update(u, user[u])
  /\ UNCHANGED <<issued, minted, made>>

\* Twenty-four hours go by since the token was stored, or since the row was
\* updated, which matters as long as its bind code stands.
Age(u) ==
  /\ \/ user[u].live /\ user' = [user EXCEPT ![u].live = FALSE]
     \/ user[u].recent /\ user[u].code /\ user' = [user EXCEPT ![u].recent = FALSE]
  /\ UNCHANGED <<issued, minted, made>>
=============================================================================
