------------------------------ MODULE Accounts ------------------------------
(***************************************************************************)
(* The handlers that create accounts, hand out keys and bind observers:    *)
(* internal/handler/auth.go, github.go, reset_key.go and bind.go, with     *)
(* internal/middleware/auth.go before them.  A request reads and writes    *)
(* rows of UserRows one statement at a time and may break off after any of *)
(* them, when the database fails it or the process ends.                   *)
(*                                                                         *)
(* A request is made by a party: a GitHub identity, proved by the callback,*)
(* or somebody who has registered.  What a party can present is what it    *)
(* was told: keys, reset tokens and JWTs.  The callback of a sign-in sends *)
(* its answer to the page that the state of the call names, and the page   *)
(* may be of another party: strayed remembers of whom.  The answer of a    *)
(* reset is a step of its own; a key that was just read or made for a new  *)
(* row is told with the statement.  Either may be lost.                    *)
(***************************************************************************)
EXTENDS UserRows, Sequences

CONSTANTS
  Requests,   \* goroutines serving HTTP calls
  Passwords,  \* those who give a password when they register
  Candidates  \* per GitHub identity: its login, then the login with 2, 3, ...

ASSUME AccountsAssumption ==
  /\ Passwords \subseteq People
  /\ Candidates \in [GitHubs -> Seq(Names)]

VARIABLES
  req,      \* what each request is doing and has read
  keys,     \* history: the keys each party was told
  tokens,   \* history: the reset tokens each party was told
  strayed,  \* history: parties whose page was sent a key or JWT of which row
  crossed   \* history: the requests that overlapped another reset of the same key

vars == <<rowVars, req, keys, tokens, strayed, crossed>>
toldVars == <<keys, tokens, strayed>>

Places == {"idle", "register", "github_insert", "confirm_key", "confirm_clear", "direct",
           "answer", "bind_code", "bind"}
Idle == [at |-> "idle", by |-> None, to |-> None, row |-> None, name |-> None, key |-> 0,
         free |-> FALSE]

\* The requests that change the key of a row and answer with it.
Keyed(u) == {r \in Requests :
               /\ req[r].at \in {"confirm_key", "confirm_clear", "direct", "answer"}
               /\ req[r].row = u}
Confirming(u) == {r \in Keyed(u) : req[r].at \in {"confirm_key", "confirm_clear"}}

Init ==
  /\ RowsInit
  /\ req = [r \in Requests |-> Idle]
  /\ keys = [p \in Parties |-> {}]
  /\ tokens = [p \in Parties |-> {}]
  /\ strayed = {}
  /\ crossed = {}

At(r, place) == req[r].at = place
Begin(r, call) == req' = [req EXCEPT ![r] = call]
Cross(r, u) == crossed' = IF Keyed(u) = {} THEN crossed ELSE crossed \cup Keyed(u) \cup {r}
End(r) == req' = [req EXCEPT ![r] = Idle] /\ crossed' = crossed \ {r}

TellKey(p, k) == keys' = [keys EXCEPT ![p] = @ \cup {k}]
TellOrLose(p, k) == TellKey(p, k) \/ UNCHANGED keys

\* The answer of a reset, with the key made before.
Answering(r, k) == [req[r] EXCEPT !.at = "answer", !.key = k]

Answer(r) ==
  /\ At(r, "answer")
  /\ TellKey(req[r].to, req[r].key)
  /\ End(r)
  /\ UNCHANGED <<rowVars, tokens, strayed>>

-----------------------------------------------------------------------------
(* Wrong forms of actions below, each a plausible slip in the code.        *)

\* The row named in the state is reset, whoever the identity belongs to.
GitHubResetByName(g, n) ==
  /\ \E u \in GetByUsername(n) : UpdateResetToken(u)
  /\ tokens' = [tokens EXCEPT ![g] = @ \cup {NextToken}]
  /\ UNCHANGED <<req, keys, strayed, crossed>>

\* The token is cleared before the key is replaced.
ConfirmClearsFirst(r) ==
  /\ At(r, "confirm_key")
  /\ ClearResetToken(req[r].row)
  /\ Begin(r, [req[r] EXCEPT !.at = "confirm_clear", !.key = user[req[r].row].key])
  /\ UNCHANGED <<toldVars, crossed>>

\* That the statement failed is overlooked.
ConfirmKeyUnchecked(r) ==
  /\ At(r, "confirm_key")
  /\ Fresh
  /\ Begin(r, [req[r] EXCEPT !.at = "confirm_clear", !.key = NextNumber])
  /\ UNCHANGED <<user, made, toldVars, crossed>>

-----------------------------------------------------------------------------
(* Register: the name is looked up, then the row inserted.  A look-up that *)
(* fails is taken for a name that is free, so any name may get this far.   *)
(* A password that was not given is generated, and told to nobody.         *)

RegisterCheck(r, p, n) ==
  /\ At(r, "idle")
  /\ Begin(r, [Idle EXCEPT !.at = "register", !.to = p, !.name = n])
  /\ UNCHANGED <<rowVars, toldVars, crossed>>

Register(r) ==
  /\ At(r, "register")
  /\ \E u \in Users : Create(u, req[r].name, req[r].to)
  /\ TellOrLose(req[r].to, NextNumber)
  /\ End(r)
  /\ UNCHANGED <<tokens, strayed>>

\* Login: the key of the row, to who knows its password.
Login(p, n) ==
  /\ \E u \in GetByUsername(n) :
       user[u].owner = p /\ TellKey(p, user[u].key)
  /\ UNCHANGED <<rowVars, req, tokens, strayed, crossed>>

-----------------------------------------------------------------------------
(* Callback, whose state names the flow and the page answered.             *)
(* findOrCreateUser takes a failed look-up for no row, and a failed probe  *)
(* of a name for a name that is free; the insertion tells.  Names are      *)
(* never given up, so the look-ups are one step.                           *)

Stray(g, to, u) == strayed' = IF to = g THEN strayed ELSE strayed \cup {<<to, u>>}

\* The key of the row found; the avatar may be written.
GitHubFind(g, to) ==
  /\ \E u \in GetByGitHubID(g) :
       /\ TellKey(to, user[u].key)
       /\ Touch(u) \/ UNCHANGED rowVars
       /\ Stray(g, to, u)
  /\ UNCHANGED <<req, tokens, crossed>>

GitHubMiss(r, g, to) ==
  LET names == Candidates[g] IN
  /\ At(r, "idle")
  /\ \E i \in 1..Len(names) :
       /\ \A j \in 1..(i - 1) : GetByUsername(names[j]) # {}
       /\ Begin(r, [Idle EXCEPT !.at = "github_insert", !.by = g, !.to = to, !.name = names[i]])
  /\ UNCHANGED <<rowVars, toldVars, crossed>>

GitHubInsert(r) ==
  /\ At(r, "github_insert")
  /\ \E u \in Users :
       /\ CreateWithGitHub(u, req[r].name, req[r].by)
       /\ \/ TellKey(req[r].to, NextNumber) /\ Stray(req[r].by, req[r].to, u)
          \/ UNCHANGED <<keys, strayed>>
  /\ End(r)
  /\ UNCHANGED tokens

\* findUser for a reset that goes no further: the name is not that of the row,
\* or the token is not stored.  The avatar may have been written.
GitHubStray(g) ==
  /\ \E u \in GetByGitHubID(g) : Touch(u)
  /\ UNCHANGED <<req, toldVars, crossed>>

\* The reset flow: the identity must be that of the row with the name asked
\* for, of which HandleResetKeyCallback then replaces the reset token.  The
\* page answered is the site's own.
GitHubReset(g, n) ==
  /\ \E u \in GetByGitHubID(g) : user[u].name = n /\ UpdateResetToken(u)
  /\ tokens' = [tokens EXCEPT ![g] = @ \cup {NextToken}]
  /\ UNCHANGED <<req, keys, strayed, crossed>>

-----------------------------------------------------------------------------
(* ResetKeyConfirm: look the token up, replace the key, clear the token.   *)

ConfirmFind(r, p, t) ==
  /\ At(r, "idle")
  /\ t \in tokens[p]
  /\ \E u \in GetUserByResetToken(t) :
       /\ user[u].live
       /\ Begin(r, [Idle EXCEPT !.at = "confirm_key", !.to = p, !.row = u])
       /\ Cross(r, u)
  /\ UNCHANGED <<rowVars, toldVars>>

ConfirmKey(r) ==
  /\ At(r, "confirm_key")
  /\ UpdateAPIKey(req[r].row)
  /\ Begin(r, [req[r] EXCEPT !.at = "confirm_clear", !.key = NextNumber])
  /\ UNCHANGED <<toldVars, crossed>>

ConfirmClear(r) ==
  /\ At(r, "confirm_clear")
  /\ ClearResetToken(req[r].row)
  /\ Begin(r, Answering(r, req[r].key))
  /\ UNCHANGED <<toldVars, crossed>>

\* A JWT for the row, which the direct login of its identity sent to the page
\* of the party.  That is a day ago at most, and nothing a JWT depends on
\* changes: the login and the use of the JWT are one step.
SignedIn(p, u) == user[u].github # None /\ Stray(user[u].github, p, u)

\* AuthMiddleware takes the key of the row or a JWT.
Authenticated(p, u) ==
  /\ u \in Stored
  /\ (user[u].key \in keys[p] /\ UNCHANGED strayed) \/ SignedIn(p, u)

\* UpdateProfile and ChangePassword update the row and nothing that is read
\* here: what comes between authentication and update makes no difference.
UpdateProfile(p, u) ==
  /\ Authenticated(p, u)
  /\ Touch(u)
  /\ UNCHANGED <<req, keys, tokens, crossed>>

\* The old password is known to who registered and gave one; that of a row
\* created for a GitHub identity is generated too.
ChangePassword(p, u) ==
  /\ p \in Passwords
  /\ user[u].owner = p
  /\ UpdateProfile(p, u)

\* ResetKeyDirect.
DirectAuth(r, p, u) ==
  /\ At(r, "idle")
  /\ Authenticated(p, u)
  /\ Begin(r, [Idle EXCEPT !.at = "direct", !.to = p, !.row = u])
  /\ Cross(r, u)
  /\ UNCHANGED <<rowVars, keys, tokens>>

Direct(r) ==
  /\ At(r, "direct")
  /\ UpdateAPIKey(req[r].row)
  /\ Begin(r, Answering(r, NextNumber))
  /\ UNCHANGED <<toldVars, crossed>>

-----------------------------------------------------------------------------
(* Bind: the observer by its key, the instance by its code, which must not *)
(* be older than a day by updated_at; then the binding.                    *)

BindAuth(r, p) ==
  /\ At(r, "idle")
  /\ \E k \in keys[p] : \E v \in GetByAPIKey(k) :
       Begin(r, [Idle EXCEPT !.at = "bind_code", !.by = v])
  /\ UNCHANGED <<rowVars, toldVars, crossed>>

BindCode(r, u) ==
  /\ At(r, "bind_code")
  /\ u \in GetByBindCode(u)
  /\ user[u].recent
  /\ Begin(r, [req[r] EXCEPT !.at = "bind", !.row = u, !.free = (user[u].observer = None)])
  /\ UNCHANGED <<rowVars, toldVars, crossed>>

Bind(r) ==
  /\ At(r, "bind")
  /\ BindObserver(req[r].row, req[r].by)
  /\ End(r)
  /\ UNCHANGED toldVars

\* A statement fails, the insertion on a duplicate included, the answer does
\* not arrive, or the process ends: the request stops where it is.
BreakOff(r) ==
  /\ ~At(r, "idle")
  /\ End(r)
  /\ UNCHANGED <<rowVars, toldVars>>

\* A day goes by.
AgeRow(u) ==
  /\ Age(u)
  /\ UNCHANGED <<req, toldVars, crossed>>

RowStep(u) ==
  \/ AgeRow(u)
  \/ \E p \in Parties : UpdateProfile(p, u) \/ ChangePassword(p, u)

RequestBegins(r) ==
  \/ \E p \in People, n \in Names : RegisterCheck(r, p, n)
  \/ \E g \in GitHubs, to \in Parties : GitHubMiss(r, g, to)
  \/ \E p \in Parties : \/ \E t \in tokens[p] : ConfirmFind(r, p, t)
                        \/ \E u \in Users : DirectAuth(r, p, u)
                        \/ BindAuth(r, p)

RequestStep(r) ==
  \/ Register(r) \/ GitHubInsert(r) \/ ConfirmKey(r) \/ ConfirmClear(r) \/ Direct(r)
  \/ Bind(r) \/ Answer(r) \/ BreakOff(r)
  \/ \E u \in Users : BindCode(r, u)

Next ==
  \/ \E r \in Requests : RequestBegins(r) \/ RequestStep(r)
  \/ \E p \in Passwords, n \in Names : Login(p, n)
  \/ \E g \in GitHubs : \/ GitHubStray(g)
                        \/ \E to \in Parties : GitHubFind(g, to)
                        \/ \E n \in Names : GitHubReset(g, n)
  \/ \E u \in Users : RowStep(u)

Spec == Init /\ [][Next]_vars

-----------------------------------------------------------------------------
Calls == [at : Places, by : Parties \cup Users \cup {None}, to : Parties \cup {None},
          row : Users \cup {None}, name : Names \cup {None}, key : Nat, free : BOOLEAN]

TypeOK ==
  /\ user \in [Users -> Row]
  /\ issued \in 0..MaxIssued
  /\ minted \in 0..MaxTokens
  /\ made \in [1..MaxIssued -> Users \cup {None}]
  /\ req \in [Requests -> Calls]
  /\ keys \in [Parties -> SUBSET (1..MaxIssued)]
  /\ tokens \in [Parties -> SUBSET (1..MaxTokens)]
  /\ strayed \in SUBSET (Parties \X Stored)
  /\ crossed \in SUBSET Requests
  /\ \A u \in Users : /\ user[u].live => user[u].token # 0
                      /\ user[u].token # 0 => user[u].github # None

\* No flow tells the key of one account to another party, though names are
\* shared, a token or a JWT stands for the key, and requests race: but to one
\* whose page the owner let a sign-in be answered to, which is told later keys
\* of the account too.
KeyGoesToOwner ==
  \A p \in Parties : \A k \in keys[p] :
    user[made[k]].owner = p \/ <<p, made[k]>> \in strayed

\* Whoever resets a key is answered with the key the row then has: but for
\* resets of the same row that overlap, of which one may replace the key the
\* other answers with.
AnsweredKeyWorks ==
  \A r \in Requests \ crossed :
    At(r, "answer") => user[req[r].row].key = req[r].key

\* A bind code binds one observer: a second one takes its place only by a
\* request that had looked the code up before the first was bound.
CodeBindsOnce ==
  [][\A u \in Users :
       user[u].observer # None /\ user'[u].observer # user[u].observer
         => \E r \in Requests : At(r, "bind") /\ req[r].row = u /\ req[r].free]_vars

\* A reset token that stands goes only when a newer one is stored or when a
\* confirmation has replaced the key: until then it can be tried again.
TokenOutlivesFailure ==
  [][\A u \in Users :
       user[u].token # 0 /\ user'[u].token # user[u].token
         => \/ user'[u].token > user[u].token
            \/ \E r \in Confirming(u) : req[r].key # 0 /\ made[req[r].key] = u
                 /\ user[u].key >= req[r].key]_vars

\* The flows keep the promise of Credentials together: no row changes hands or
\* name, no key comes back, and none is told but to the owner of its row and to
\* pages the owner let a sign-in be answered to.
Promise == INSTANCE Credentials WITH
  owner <- [u \in Users |-> user[u].owner],
  name <- [u \in Users |-> user[u].name],
  key <- [u \in Users |-> user[u].key],
  known <- keys,
  shared <- strayed
CredentialsSpec == Promise!CredentialsSpec
=============================================================================
