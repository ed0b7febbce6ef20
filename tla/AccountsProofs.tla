--------------------------- MODULE AccountsProofs ---------------------------
(***************************************************************************)
(* Proofs about Accounts, for any rows, names, identities, parties and     *)
(* requests: a key is told to the owner of its row, and to pages a sign-in *)
(* of the owner was answered to; a reset that overlaps no other is         *)
(* answered with the key that stands; a bind code binds one observer; a    *)
(* reset token stands until it has done its work.                          *)
(*                                                                         *)
(* The argument is in two halves.  Every statement keeps RowInv and only   *)
(* lets the table Grow: rows stay, with their owners, and a number once    *)
(* handed out keeps its meaning.  What parties were told, and what         *)
(* requests have read, then stays true whatever runs in between.           *)
(***************************************************************************)
EXTENDS Accounts, TLAPS

USE RowsAssumption

RowInv ==
  /\ user \in [Users -> Row]
  /\ issued \in 0..MaxIssued
  /\ minted \in 0..MaxTokens
  /\ made \in [1..MaxIssued -> Users \cup {None}]
  /\ \A u \in Users :
       /\ user[u].token \in 0..minted
       /\ user[u].live => user[u].token # 0
       /\ user[u].token # 0 => user[u].github # None
       /\ user[u].github # None => user[u].owner = user[u].github
       /\ u \notin Stored => user[u] = NoRow
       /\ user[u].code => user[u].observer = None
  /\ \A u \in Stored :
       /\ user[u].owner \in Parties
       /\ user[u].key \in 1..issued
       /\ made[user[u].key] = u

Grow ==
  /\ issued' >= issued /\ minted' >= minted
  /\ \A k \in 1..issued : made'[k] = made[k]
  /\ \A u \in Stored : /\ u \in Stored' /\ user'[u].owner = user[u].owner
                       /\ user'[u].key >= user[u].key
  /\ \A u \in Users : user'[u].token \in {user[u].token, 0} \/ user'[u].token = NextToken

\* A statement on one row that is stored: what it may change.
Changed(u, row) ==
  /\ row \in Row
  /\ row.name = user[u].name /\ row.owner = user[u].owner /\ row.github = user[u].github
  /\ row.live => row.token # 0
  /\ row.token # 0 => row.github # None
  /\ row.code => row.observer = None

LEMMA RowsInitially == RowsInit => RowInv
BY DEF RowsInit, RowInv, NoRow, Row, Stored, Parties

\* An insertion keeps the table, and its key is the key of the new row.
LEMMA InsertGrows ==
  ASSUME RowInv, NEW u \in Users, NEW row \in Row, Insert(u, row),
         row.name # None, row.owner \in Parties, row.key = NextNumber, row.token = 0,
         ~row.live, row.observer = None, row.github # None => row.owner = row.github
  PROVE  RowInv' /\ Grow /\ u \in Stored' /\ user'[u].owner = row.owner
         /\ NextNumber \in 1..MaxIssued /\ issued' = NextNumber /\ made'[NextNumber] = u
<1>1. /\ user' = [user EXCEPT ![u] = row]
      /\ made' = [made EXCEPT ![issued + 1] = u]
      /\ issued' = issued + 1 /\ issued < MaxIssued /\ issued \in Nat
      /\ minted' = minted /\ minted \in Nat
      /\ user[u].name = None
  BY DEF Insert, Fresh, NextNumber, Stored, RowInv
<1>2. user' \in [Users -> Row] /\ issued' \in 0..MaxIssued
      /\ made' \in [1..MaxIssued -> Users \cup {None}] /\ issued + 1 \in 1..MaxIssued
  BY <1>1 DEF RowInv
<1>3. user'[u] = row /\ \A v \in Users \ {u} : user'[v] = user[v]
  BY <1>1 DEF RowInv
<1>4. made'[issued + 1] = u /\ \A k \in 1..issued : made'[k] = made[k]
  BY <1>1, <1>2 DEF RowInv
<1>5. Stored' = Stored \cup {u} /\ u \notin Stored
  BY <1>1, <1>3 DEF Stored
<1>6. \A v \in Users :
        /\ user'[v].token \in 0..minted'
        /\ user'[v].live => user'[v].token # 0
        /\ user'[v].token # 0 => user'[v].github # None
        /\ user'[v].github # None => user'[v].owner = user'[v].github
        /\ v \notin Stored' => user'[v] = NoRow
        /\ user'[v].code => user'[v].observer = None
  BY <1>1, <1>3, <1>5 DEF RowInv
<1>7. \A v \in Stored' :
        /\ user'[v].owner \in Parties
        /\ user'[v].key \in 1..issued'
        /\ made'[user'[v].key] = v
  BY <1>1, <1>3, <1>4, <1>5 DEF RowInv, NextNumber
<1>8. RowInv'
  BY <1>1, <1>2, <1>6, <1>7 DEF RowInv
<1>9. Grow
  <2>1. \A v \in Stored : /\ v \in Stored' /\ user'[v].owner = user[v].owner
                         /\ user'[v].key >= user[v].key
    BY <1>1, <1>3, <1>5 DEF RowInv, Stored
  <2>2. \A v \in Users : user'[v].token \in {user[v].token, 0}
    BY <1>3
  <2>3. QED
    BY <1>1, <1>4, <2>1, <2>2 DEF Grow
<1>10. QED
  BY <1>1, <1>2, <1>3, <1>4, <1>5, <1>8, <1>9 DEF NextNumber

\* An update of a row that hands out no number.
LEMMA UpdateGrows ==
  ASSUME RowInv, NEW u \in Stored, NEW row, Changed(u, row),
         row.key = user[u].key, row.token \in {user[u].token, 0},
         user' = [user EXCEPT ![u] = row], UNCHANGED <<issued, minted, made>>
  PROVE  RowInv' /\ Grow
<1>1. u \in Users /\ user'[u] = row /\ (\A v \in Users \ {u} : user'[v] = user[v]) /\ user' \in [Users -> Row]
  BY DEF RowInv, Changed, Stored
<1>2. Stored' = Stored
  BY <1>1 DEF Stored, Changed
<1>3. RowInv'
  BY <1>1, <1>2 DEF RowInv, Changed, Stored
<1>4. Grow
  BY <1>1, <1>2 DEF Grow, RowInv, Changed
<1>5. QED
  BY <1>3, <1>4

\* An update that stores a key.
LEMMA KeyNumberGrows ==
  ASSUME RowInv, NEW u \in Stored, NEW row, Changed(u, row), Fresh,
         user' = [user EXCEPT ![u] = row],
         row.key = NextNumber, row.token = user[u].token,
         made' = [made EXCEPT ![NextNumber] = u]
  PROVE  RowInv' /\ Grow /\ NextNumber \in 1..MaxIssued /\ issued' = NextNumber
<1>1. /\ issued' = issued + 1 /\ issued + 1 \in 1..MaxIssued /\ issued \in Nat
      /\ issued' \in 0..MaxIssued /\ minted' = minted /\ minted \in Nat
  BY DEF Fresh, NextNumber, RowInv
<1>2. u \in Users /\ user'[u] = row /\ (\A v \in Users \ {u} : user'[v] = user[v])
      /\ user' \in [Users -> Row]
  BY DEF RowInv, Changed, Stored
<1>3. Stored' = Stored
  BY <1>2 DEF Stored, Changed
<1>4. /\ made' \in [1..MaxIssued -> Users \cup {None}]
      /\ \A k \in 1..issued : made'[k] = made[k]
      /\ made'[issued + 1] = u
  BY <1>1, <1>2 DEF RowInv, NextNumber
<1>5. \A v \in Users :
        /\ user'[v].token \in 0..minted'
        /\ user'[v].live => user'[v].token # 0
        /\ user'[v].token # 0 => user'[v].github # None
        /\ user'[v].github # None => user'[v].owner = user'[v].github
        /\ v \notin Stored' => user'[v] = NoRow
        /\ user'[v].code => user'[v].observer = None
  BY <1>1, <1>2, <1>3 DEF RowInv, Changed, NextNumber
<1>6. \A v \in Stored' :
        /\ user'[v].owner \in Parties
        /\ user'[v].key \in 1..issued'
        /\ made'[user'[v].key] = v
  BY <1>1, <1>2, <1>3, <1>4 DEF RowInv, Changed, NextNumber
<1>7. RowInv'
  BY <1>1, <1>2, <1>4, <1>5, <1>6 DEF RowInv
<1>8. Grow
  BY <1>1, <1>2, <1>3, <1>4 DEF Grow, RowInv, Changed, NextNumber, Stored
<1>9. QED
  BY <1>1, <1>7, <1>8 DEF NextNumber

\* An update that stores a reset token.
LEMMA TokenNumberGrows ==
  ASSUME RowInv, NEW u \in Stored, NEW row, Changed(u, row),
         minted < MaxTokens, minted' = NextToken, UNCHANGED <<issued, made>>,
         user' = [user EXCEPT ![u] = row],
         row.key = user[u].key, row.token = NextToken
  PROVE  RowInv' /\ Grow /\ NextToken \in 1..MaxTokens
<1>1. /\ minted' = minted + 1 /\ minted + 1 \in 1..MaxTokens /\ minted \in Nat
      /\ minted' \in 0..MaxTokens /\ issued \in Nat
  BY DEF NextToken, RowInv
<1>2. u \in Users /\ user'[u] = row /\ (\A v \in Users \ {u} : user'[v] = user[v])
      /\ user' \in [Users -> Row]
  BY DEF RowInv, Changed, Stored
<1>3. Stored' = Stored
  BY <1>2 DEF Stored, Changed
<1>5. \A v \in Users :
        /\ user'[v].token \in 0..minted'
        /\ user'[v].live => user'[v].token # 0
        /\ user'[v].token # 0 => user'[v].github # None
        /\ user'[v].github # None => user'[v].owner = user'[v].github
        /\ v \notin Stored' => user'[v] = NoRow
        /\ user'[v].code => user'[v].observer = None
  BY <1>1, <1>2, <1>3 DEF RowInv, Changed, NextToken
<1>6. \A v \in Stored' :
        /\ user'[v].owner \in Parties
        /\ user'[v].key \in 1..issued'
        /\ made'[user'[v].key] = v
  BY <1>1, <1>2, <1>3 DEF RowInv, Changed
<1>7. RowInv'
  BY <1>1, <1>2, <1>5, <1>6 DEF RowInv
<1>8. Grow
  BY <1>1, <1>2, <1>3 DEF Grow, RowInv, Changed, NextToken, Stored
<1>9. QED
  BY <1>1, <1>7, <1>8 DEF NextToken
-----------------------------------------------------------------------------
(* The statements.                                                         *)

LEMMA NewRow == NoRow \in Row /\ \A u \in Users, n \in Names, k \in Nat :
  /\ \A p \in Parties :
       [NoRow EXCEPT !.name = n, !.owner = p, !.key = k, !.code = TRUE, !.recent = TRUE] \in Row
  /\ \A g \in GitHubs :
       [NoRow EXCEPT !.name = n, !.owner = g, !.github = g, !.key = k, !.recent = TRUE] \in Row
BY ZenonT(60) DEF NoRow, Row, Parties

LEMMA CreateGrows ==
  ASSUME RowInv, NEW u \in Users, NEW n \in Names, NEW p \in Parties,
         \/ Create(u, n, p)
         \/ p \in GitHubs /\ CreateWithGitHub(u, n, p)
  PROVE  /\ RowInv' /\ Grow /\ u \in Stored' /\ user'[u].owner = p
         /\ NextNumber \in 1..MaxIssued /\ issued' = NextNumber /\ made'[NextNumber] = u
<1>1. NextNumber \in Nat /\ n # None
  BY DEF NextNumber, RowInv
<1>2. CASE Create(u, n, p)
  <2> DEFINE row == [NoRow EXCEPT !.name = n, !.owner = p, !.key = NextNumber,
                                  !.code = TRUE, !.recent = TRUE]
  <2>1. /\ row \in Row /\ row.name = n /\ row.owner = p /\ row.key = NextNumber
        /\ row.token = 0 /\ ~row.live /\ row.github = None
        /\ row.observer = None
    BY <1>1, NewRow DEF NoRow
  <2>2. Insert(u, row)
    BY <1>2 DEF Create
  <2> HIDE DEF row
  <2>3. QED
    BY <1>1, <2>1, <2>2, InsertGrows
<1>3. CASE p \in GitHubs /\ CreateWithGitHub(u, n, p)
  <2> DEFINE row == [NoRow EXCEPT !.name = n, !.owner = p, !.github = p,
                                  !.key = NextNumber, !.recent = TRUE]
  <2>1. /\ row \in Row /\ row.name = n /\ row.owner = p /\ row.key = NextNumber
        /\ row.token = 0 /\ ~row.live /\ row.github = p
        /\ row.observer = None
    BY <1>1, <1>3, NewRow DEF NoRow
  <2>2. Insert(u, row)
    BY <1>3 DEF CreateWithGitHub
  <2> HIDE DEF row
  <2>3. QED
    BY <1>1, <2>1, <2>2, InsertGrows
<1>4. QED
  BY <1>2, <1>3

\* Rows with a field or two replaced.
LEMMA RowFields ==
  ASSUME NEW r \in Row
  PROVE  /\ [r EXCEPT !.recent = TRUE] \in Row
         /\ \A o \in Users : [[r EXCEPT !.observer = o, !.code = FALSE] EXCEPT !.recent = TRUE] \in Row
         /\ \A t \in Nat, l \in BOOLEAN :
              [[r EXCEPT !.token = t, !.live = l] EXCEPT !.recent = TRUE] \in Row
         /\ \A k \in Nat : [[r EXCEPT !.key = k] EXCEPT !.recent = TRUE] \in Row
         /\ [r EXCEPT !.live = FALSE] \in Row
         /\ [r EXCEPT !.recent = FALSE] \in Row
BY DEF Row

\* Updates that hand out nothing.
LEMMA SmallGrows ==
  ASSUME RowInv, NEW u \in Users,
         \/ Touch(u) \/ Age(u)
         \/ u \in Stored /\ (ClearResetToken(u) \/ \E o \in Users : BindObserver(u, o))
  PROVE  RowInv' /\ Grow
<1>1. user[u] \in Row /\ (user[u].live => user[u].token # 0)
      /\ (user[u].token # 0 => user[u].github # None) /\ user[u].token \in 0..minted
      /\ (user[u].code => user[u].observer = None)
  BY DEF RowInv
<1>9. u \in Stored
  BY DEF RowInv, Touch, Age, NoRow
<1> DEFINE r == user[u]
<1>2. CASE Touch(u)
  <2> DEFINE row == [r EXCEPT !.recent = TRUE]
  <2>1. Changed(u, row) /\ row.key = r.key /\ row.token = r.token
    BY <1>1, RowFields, ZenonT(60) DEF Changed, Row
  <2>2. user' = [user EXCEPT ![u] = row] /\ UNCHANGED <<issued, minted, made>>
    BY <1>2 DEF Touch, Update
  <2> HIDE DEF row
  <2>3. QED
    BY <1>9, <2>1, <2>2, UpdateGrows
<1>3. CASE ClearResetToken(u)
  <2> DEFINE row == [[r EXCEPT !.token = 0, !.live = FALSE] EXCEPT !.recent = TRUE]
  <2>1. Changed(u, row) /\ row.key = r.key /\ row.token = 0
    BY <1>1, RowFields, ZenonT(60) DEF Changed, Row
  <2>2. user' = [user EXCEPT ![u] = row] /\ UNCHANGED <<issued, minted, made>>
    BY <1>1, <1>3 DEF ClearResetToken, Update, Row
  <2> HIDE DEF row
  <2>3. QED
    BY <1>9, <2>1, <2>2, UpdateGrows
<1>4. ASSUME NEW o \in Users, BindObserver(u, o) PROVE RowInv' /\ Grow
  <2> DEFINE row == [[r EXCEPT !.observer = o, !.code = FALSE] EXCEPT !.recent = TRUE]
  <2>1. row \in Row
    BY <1>1, RowFields
  <2>2. /\ row.name = r.name /\ row.owner = r.owner /\ row.github = r.github
        /\ row.live = r.live /\ row.recent /\ row.key = r.key /\ row.token = r.token
        /\ ~row.code
    BY <1>1 DEF Row
  <2>3. user' = [user EXCEPT ![u] = row] /\ UNCHANGED <<issued, minted, made>>
    BY <1>1, <1>4 DEF BindObserver, Update, Row
  <2> HIDE DEF row
  <2>4. Changed(u, row)
    BY <1>1, <2>1, <2>2 DEF Changed
  <2>5. QED
    BY <1>9, <2>2, <2>3, <2>4, UpdateGrows
<1>5. ASSUME NEW row, Age(u), user' = [user EXCEPT ![u] = row],
             \/ row = [r EXCEPT !.live = FALSE]
             \/ row = [r EXCEPT !.recent = FALSE]
      PROVE  RowInv' /\ Grow
  <2>1. row \in Row
    BY <1>1, <1>5, RowFields
  <2>2. /\ row.name = r.name /\ row.owner = r.owner /\ row.github = r.github
        /\ (row.live => r.live) /\ row.key = r.key /\ row.token = r.token
        /\ row.code = r.code /\ row.observer = r.observer
    BY <1>1, <1>5 DEF Row
  <2>3. UNCHANGED <<issued, minted, made>>
    BY <1>5 DEF Age
  <2>4. Changed(u, row)
    BY <1>1, <2>1, <2>2 DEF Changed
  <2>5. QED
    BY <1>9, <1>5, <2>2, <2>3, <2>4, UpdateGrows
<1>6. CASE Age(u)
  BY <1>5, <1>6 DEF Age
<1>7. QED
  BY <1>2, <1>3, <1>4, <1>6

\* A new key is made for the row that gets it.
LEMMA KeyGrows ==
  ASSUME RowInv, NEW u \in Stored, UpdateAPIKey(u)
  PROVE  /\ RowInv' /\ Grow /\ user'[u].key = NextNumber
         /\ NextNumber \in 1..MaxIssued /\ issued' = NextNumber /\ made'[NextNumber] = u
<1> DEFINE row == [[user[u] EXCEPT !.key = NextNumber] EXCEPT !.recent = TRUE]
<1>1. /\ user[u] \in Row /\ (user[u].live => user[u].token # 0)
      /\ user[u].token # 0 => user[u].github # None
      /\ user[u].code => user[u].observer = None
      /\ NextNumber \in Nat
  BY DEF RowInv, Stored, NextNumber
<1>2. Changed(u, row) /\ row.key = NextNumber /\ row.token = user[u].token
  BY <1>1, RowFields, ZenonT(60) DEF Changed, Row
<1>3. /\ user' = [user EXCEPT ![u] = row] /\ Fresh
      /\ made' = [made EXCEPT ![NextNumber] = u]
  BY <1>1 DEF UpdateAPIKey, Update, Row
<1> HIDE DEF row
<1>4. RowInv' /\ Grow /\ NextNumber \in 1..MaxIssued /\ issued' = NextNumber
  BY <1>2, <1>3, KeyNumberGrows
<1>5. QED
  BY <1>2, <1>3, <1>4 DEF RowInv, Stored

LEMMA TokenGrows ==
  ASSUME RowInv, NEW u \in Stored, UpdateResetToken(u), user[u].github # None
  PROVE  /\ RowInv' /\ Grow
         /\ NextToken \in 1..MaxTokens /\ minted' = NextToken /\ issued' = issued
         /\ \A v \in Users : user'[v].token = NextToken => v = u
<1> DEFINE row == [[user[u] EXCEPT !.token = NextToken, !.live = TRUE] EXCEPT !.recent = TRUE]
<1>1. /\ user[u] \in Row /\ NextToken \in Nat /\ NextToken # 0
      /\ user[u].code => user[u].observer = None
  BY DEF RowInv, Stored, NextToken
<1>2. Changed(u, row) /\ row.key = user[u].key /\ row.token = NextToken
  BY <1>1, RowFields, ZenonT(60) DEF Changed, Row
<1>3. /\ user' = [user EXCEPT ![u] = row] /\ UNCHANGED <<issued, made>>
      /\ minted < MaxTokens /\ minted' = NextToken
  BY <1>1 DEF UpdateResetToken, Update, Row
<1> HIDE DEF row
<1>4. RowInv' /\ Grow /\ NextToken \in 1..MaxTokens
  BY <1>2, <1>3, TokenNumberGrows
<1>5. \A v \in Users \ {u} : user'[v].token \in 0..minted
  BY <1>3 DEF RowInv
<1>6. QED
  BY <1>3, <1>4, <1>5 DEF NextToken, RowInv
-----------------------------------------------------------------------------
(* What was told and read stays true.                                      *)

\* The owner of a row, and parties a sign-in of the owner was answered to.
Holder(p, u) == user[u].owner = p \/ <<p, u>> \in strayed

\* A party knows the keys of the rows it holds alone, and a token it knows is
\* no other's.
Told ==
  /\ keys \in [Parties -> SUBSET (1..issued)]
  /\ \A p \in Parties : \A k \in keys[p] : made[k] \in Stored /\ Holder(p, made[k])
  /\ tokens \in [Parties -> SUBSET (1..minted)]
  /\ \A p \in Parties : \A t \in tokens[p], u \in Stored :
       user[u].token = t => user[u].owner = p
  /\ strayed \in SUBSET (Parties \X Stored)

\* A request that resets a key is of a holder of the row, and answers with a
\* key of that row.
Calling(r) ==
  /\ req[r].at = "register" => req[r].to \in People /\ req[r].name \in Names
  /\ req[r].at = "github_insert" =>
       req[r].by \in GitHubs /\ req[r].to \in Parties /\ req[r].name \in Names
  /\ req[r].at = "bind_code" => req[r].by \in Users
  /\ req[r].at = "bind" => req[r].row \in Stored /\ req[r].by \in Users /\ req[r].free
  /\ req[r].at \in {"confirm_key", "confirm_clear", "direct", "answer"} =>
       req[r].row \in Stored /\ req[r].to \in Parties /\ Holder(req[r].to, req[r].row)
  /\ req[r].at \in {"confirm_clear", "answer"} =>
       /\ req[r].key \in 1..issued /\ made[req[r].key] = req[r].row
       /\ user[req[r].row].key >= req[r].key

Reqs == /\ req \in [Requests -> Calls] /\ crossed \in SUBSET Requests
        /\ \A r \in Requests : Calling(r)

IInv == RowInv /\ Told /\ Reqs

\* Whatever grows leaves a holder what it is.
LEMMA StillHolds ==
  ASSUME Grow, strayed \subseteq strayed', NEW p, NEW u \in Stored, Holder(p, u)
  PROVE  u \in Stored' /\ Holder(p, u)'
BY DEF Grow, Holder

\* Tokens that were told are no other's, as long as none is told.
LEMMA TokensKept ==
  ASSUME RowInv, RowInv', Told, Grow, UNCHANGED tokens
  PROVE  /\ (tokens \in [Parties -> SUBSET (1..minted)])'
         /\ \A p \in Parties : \A t \in tokens'[p], u \in Stored' :
              user'[u].token = t => user'[u].owner = p
<1>1. minted \in Nat /\ minted' \in Nat /\ minted' >= minted
  BY DEF RowInv, Grow
<1>2. tokens \in [Parties -> SUBSET (1..minted)]
  BY DEF Told
<1>3. ASSUME NEW p \in Parties, NEW t \in tokens'[p], NEW u \in Stored', user'[u].token = t
      PROVE  user'[u].owner = p
  <2>1. t \in tokens[p] /\ t \in 1..minted /\ u \in Users
    BY <1>2, <1>3 DEF Stored
  <2>2. user[u].token = t
    BY <1>1, <1>3, <2>1 DEF Grow, NextToken
  <2>3. u \in Stored
    BY <1>1, <2>1, <2>2 DEF RowInv, Stored, NoRow
  <2>4. QED
    BY <1>3, <2>1, <2>2, <2>3 DEF Told, Grow
<1>4. QED
  BY <1>1, <1>2, <1>3

\* A key is told to a holder of its row, or nothing is told.
LEMMA KeyTold ==
  ASSUME RowInv, RowInv', Told, Grow, NEW p \in Parties, NEW k \in 1..issued',
         (made[k] \in Stored /\ Holder(p, made[k]))',
         TellKey(p, k) \/ UNCHANGED keys, UNCHANGED tokens,
         strayed \subseteq strayed', (strayed \in SUBSET (Parties \X Stored))'
  PROVE  Told'
<1>1. issued \in Nat /\ issued' \in Nat /\ issued' >= issued
  BY DEF RowInv, Grow
<1>2. keys \in [Parties -> SUBSET (1..issued)]
  BY DEF Told
<1>3. /\ (keys \in [Parties -> SUBSET (1..issued)])'
      /\ \A q \in Parties : \A l \in keys'[q] : l \in keys[q] \/ (q = p /\ l = k)
  <2>1. CASE TellKey(p, k)
    BY <1>1, <1>2, <2>1 DEF TellKey
  <2>2. CASE UNCHANGED keys
    BY <1>1, <1>2, <2>2
  <2>3. QED
    BY <2>1, <2>2
<1>4. ASSUME NEW q \in Parties, NEW l \in keys'[q]
      PROVE  (made[l] \in Stored /\ Holder(q, made[l]))'
  <2>1. CASE q = p /\ l = k
    BY <2>1
  <2>2. CASE l \in keys[q]
    <3>1. l \in 1..issued /\ made[l] \in Stored /\ Holder(q, made[l])
      BY <1>2, <2>2 DEF Told
    <3>2. made'[l] = made[l]
      BY <3>1 DEF Grow
    <3>3. (made[l] \in Stored)' /\ Holder(q, made[l])'
      BY <3>1, <3>2 DEF Grow, Holder
    <3>4. QED
      BY <3>3
  <2>3. QED
    BY <1>3, <1>4, <2>1, <2>2
<1>5. QED
  BY <1>3, <1>4, TokensKept DEF Told

\* Nothing is told.
LEMMA ToldKept ==
  ASSUME RowInv, RowInv', Told, Grow, UNCHANGED <<keys, tokens>>,
         strayed \subseteq strayed', (strayed \in SUBSET (Parties \X Stored))'
  PROVE  Told'
<1>1. issued \in Nat /\ issued' \in Nat /\ issued' >= issued
  BY DEF RowInv, Grow
<1>2. (keys \in [Parties -> SUBSET (1..issued)])'
  BY <1>1 DEF Told
<1>3. ASSUME NEW q \in Parties, NEW l \in keys'[q]
      PROVE  (made[l] \in Stored /\ Holder(q, made[l]))'
  <2>1. l \in 1..issued /\ made[l] \in Stored /\ Holder(q, made[l])
    BY <1>3 DEF Told
  <2>2. made'[l] = made[l]
    BY <2>1 DEF Grow
  <2>3. (made[l] \in Stored)' /\ Holder(q, made[l])'
    BY <2>1, <2>2 DEF Grow, Holder
  <2>4. QED
    BY <2>3
<1>4. QED
  BY <1>2, <1>3, TokensKept DEF Told

\* What pages were answered to.
LEMMA PagesKept ==
  ASSUME Told, Grow, UNCHANGED strayed
  PROVE  strayed \subseteq strayed' /\ (strayed \in SUBSET (Parties \X Stored))'
BY DEF Told, Grow

LEMMA PagesStray ==
  ASSUME Told, Grow, NEW g, NEW to \in Parties, NEW u \in Stored', Stray(g, to, u)
  PROVE  /\ strayed \subseteq strayed' /\ (strayed \in SUBSET (Parties \X Stored))'
         /\ to = g \/ <<to, u>> \in strayed'
BY DEF Told, Grow, Stray

LEMMA ReqsKept ==
  ASSUME RowInv, RowInv', Reqs, Grow, strayed \subseteq strayed',
         req' \in [Requests -> Calls], crossed' \in SUBSET Requests,
         \A r \in Requests : req'[r] = req[r] \/ Calling(r)'
  PROVE  Reqs'
<1> SUFFICES ASSUME NEW r \in Requests, req'[r] = req[r] PROVE Calling(r)'
  BY DEF Reqs
<1>1. Calling(r)
  BY DEF Reqs
<1>2. \A k \in 1..issued : k \in 1..issued' /\ made'[k] = made[k]
  BY DEF Grow, RowInv
<1> DEFINE c == req[r]
<1>3. req'[r] = c
  OBVIOUS
<1>4. c.at = "bind" => c.row \in Stored'
  BY <1>1 DEF Calling, Grow
<1>5. c.at \in {"confirm_key", "confirm_clear", "direct", "answer"} =>
        c.row \in Stored' /\ Holder(c.to, c.row)'
  <2>1. SUFFICES ASSUME c.at \in {"confirm_key", "confirm_clear", "direct", "answer"}
                 PROVE  c.row \in Stored' /\ Holder(c.to, c.row)'
    OBVIOUS
  <2>2. c.row \in Stored /\ Holder(c.to, c.row)
    BY <1>1, <2>1 DEF Calling
  <2>3. c.row \in Stored' /\ (user'[c.row].owner = c.to \/ <<c.to, c.row>> \in strayed')
    BY <2>2 DEF Grow, Holder
  <2>4. QED
    BY <1>3, <2>3 DEF Holder
<1>6. c.at \in {"confirm_clear", "answer"} => c.key \in 1..issued' /\ made'[c.key] = c.row
  BY <1>1, <1>2 DEF Calling
<1>7. c.at \in {"confirm_clear", "answer"} => user'[c.row].key >= c.key
  <2>1. SUFFICES ASSUME c.at \in {"confirm_clear", "answer"} PROVE user'[c.row].key >= c.key
    OBVIOUS
  <2>2. c.row \in Stored /\ user[c.row].key >= c.key /\ c.key \in Nat
    BY <1>1, <2>1 DEF Calling, RowInv
  <2>3. c.row \in Stored' /\ user'[c.row].key >= user[c.row].key
    BY <2>2 DEF Grow
  <2>4. user[c.row].key \in Nat /\ user'[c.row].key \in Nat
    BY <2>2, <2>3 DEF RowInv
  <2>5. QED
    BY <2>2, <2>3, <2>4
<1> DEFINE H(to, row) == Holder(to, row)'
<1>8. c.at \in {"confirm_key", "confirm_clear", "direct", "answer"} => H(c.to, c.row)
  BY <1>5, <1>3 DEF Holder
<1>9. QED
  BY <1>1, <1>3, <1>4, <1>5, <1>6, <1>7 DEF Calling, Holder

\* A request ends or breaks off, or goes on.
LEMMA IdleCall == Idle \in Calls /\ Idle.at = "idle"
BY DEF Idle, Calls, Places

LEMMA EndKept ==
  ASSUME RowInv, RowInv', Reqs, Grow, strayed \subseteq strayed', NEW r \in Requests, End(r)
  PROVE  Reqs'
<1>1. /\ req' \in [Requests -> Calls] /\ req'[r] = Idle
      /\ \A q \in Requests \ {r} : req'[q] = req[q]
      /\ crossed' \in SUBSET Requests
  BY IdleCall DEF End, Reqs
<1>2. Calling(r)'
  BY <1>1, IdleCall DEF Calling
<1>3. QED
  BY <1>1, <1>2, ReqsKept

LEMMA BeginKept ==
  ASSUME RowInv, RowInv', Reqs, Grow, strayed \subseteq strayed', NEW r \in Requests,
         NEW c \in Calls, Begin(r, c), crossed' \in SUBSET Requests, Calling(r)'
  PROVE  Reqs'
<1>1. req' \in [Requests -> Calls] /\ \A q \in Requests \ {r} : req'[q] = req[q]
  BY DEF Begin, Reqs
<1>2. QED
  BY <1>1, ReqsKept

LEMMA CrossKept ==
  ASSUME Reqs, NEW r \in Requests, NEW u, Cross(r, u) \/ UNCHANGED crossed
  PROVE  crossed' \in SUBSET Requests
BY DEF Reqs, Cross, Keyed

\* Steps that leave the table alone.
LEMMA SameRows ==
  ASSUME RowInv, UNCHANGED rowVars
  PROVE  RowInv' /\ Grow /\ Stored' = Stored
<1>1. RowInv' /\ Stored' = Stored
  BY DEF RowInv, rowVars, Stored
<1>2. Grow
  BY DEF RowInv, rowVars, Stored, Grow
<1>3. QED
  BY <1>1, <1>2
-----------------------------------------------------------------------------
(* The steps.                                                              *)

LEMMA SafeInit == Init => IInv
<1> SUFFICES ASSUME Init PROVE IInv
  OBVIOUS
<1>1. RowInv /\ Stored = {}
  BY RowsInitially DEF Init, RowsInit, Stored, NoRow
<1>2. Told
  BY <1>1 DEF Init, Told
<1>3. Reqs
  BY IdleCall DEF Init, Reqs, Calling
<1>4. QED
  BY <1>1, <1>2, <1>3 DEF IInv

\* A step that tells nothing: the rest is about the request.
LEMMA QuietTold ==
  ASSUME IInv, RowInv', Grow, UNCHANGED toldVars, Reqs'
  PROVE  IInv'
<1>1. Told'
  BY ToldKept, PagesKept DEF IInv, toldVars
<1>2. QED
  BY <1>1 DEF IInv

\* The calls with fields replaced.
LEMMA NewCalls ==
  /\ \A p \in People, n \in Names :
       [Idle EXCEPT !.at = "register", !.to = p, !.name = n] \in Calls
  /\ \A g \in GitHubs, p \in Parties, n \in Names :
       [Idle EXCEPT !.at = "github_insert", !.by = g, !.to = p, !.name = n] \in Calls
  /\ \A p \in Parties, u \in Users :
       /\ [Idle EXCEPT !.at = "confirm_key", !.to = p, !.row = u] \in Calls
       /\ [Idle EXCEPT !.at = "direct", !.to = p, !.row = u] \in Calls
  /\ \A v \in Users : [Idle EXCEPT !.at = "bind_code", !.by = v] \in Calls
BY ZenonT(60) DEF Idle, Calls, Places, Parties

LEMMA NextCalls ==
  ASSUME NEW c \in Calls
  PROVE  /\ \A k \in Nat : /\ [c EXCEPT !.at = "confirm_clear", !.key = k] \in Calls
                           /\ [c EXCEPT !.at = "answer", !.key = k] \in Calls
         /\ \A w \in Users, f \in BOOLEAN :
              [c EXCEPT !.at = "bind", !.row = w, !.free = f] \in Calls
BY ZenonT(60) DEF Calls, Places

\* Who gets through the middleware is a holder of the row then.
LEMMA AuthHolder ==
  ASSUME RowInv, Told, NEW p \in Parties, NEW u \in Users, Authenticated(p, u),
         UNCHANGED <<user, made>>, Grow
  PROVE  /\ u \in Stored /\ Holder(p, u)'
         /\ strayed \subseteq strayed' /\ (strayed \in SUBSET (Parties \X Stored))'
<1>1. u \in Stored /\ u \in Stored'
  BY DEF Authenticated, Grow
<1>2. made[user[u].key] = u
  BY <1>1 DEF RowInv
<1>3. CASE user[u].key \in keys[p] /\ UNCHANGED strayed
  <2>1. Holder(p, u)
    BY <1>1, <1>2, <1>3 DEF Told
  <2>2. Holder(p, u)'
    BY <1>3, <2>1 DEF Holder
  <2>3. QED
    BY <1>1, <1>3, <2>2, PagesKept
<1>4. CASE user[u].github # None /\ Stray(user[u].github, p, u)
  <2>1. user[u].owner = user[u].github
    BY <1>1, <1>4 DEF RowInv
  <2>2. /\ strayed \subseteq strayed' /\ (strayed \in SUBSET (Parties \X Stored))'
        /\ p = user[u].github \/ <<p, u>> \in strayed'
    BY <1>1, <1>4, PagesStray
  <2>3. Holder(p, u)'
    BY <2>1, <2>2 DEF Holder
  <2>4. QED
    BY <1>1, <2>2, <2>3
<1>5. QED
  BY <1>3, <1>4 DEF Authenticated, SignedIn

\* The beginnings of requests.
LEMMA BeginStep ==
  ASSUME IInv, NEW r \in Requests, RequestBegins(r)
  PROVE  IInv'
<1>1. RowInv /\ Told /\ Reqs
  BY DEF IInv
<1>2. UNCHANGED <<rowVars, keys, tokens>>
  BY DEF RequestBegins, RegisterCheck, GitHubMiss, ConfirmFind, DirectAuth, BindAuth, toldVars
<1>3. RowInv' /\ Grow /\ Stored' = Stored
  BY <1>1, <1>2, SameRows
<1>4. UNCHANGED <<user, made>>
  BY <1>2 DEF rowVars
<1>5. ASSUME NEW c \in Calls, Begin(r, c), Calling(r)', crossed' \in SUBSET Requests,
             strayed \subseteq strayed', (strayed \in SUBSET (Parties \X Stored))'
      PROVE  IInv'
  <2>1. Reqs'
    BY <1>1, <1>3, <1>5, BeginKept
  <2>2. Told'
    BY <1>1, <1>2, <1>3, <1>5, ToldKept
  <2>3. QED
    BY <1>3, <2>1, <2>2 DEF IInv
<1>6. ASSUME NEW c \in Calls, Begin(r, c) PROVE req'[r] = c
  BY <1>1, <1>6 DEF Begin, Reqs
<1>7. ASSUME UNCHANGED <<strayed, crossed>>
      PROVE  /\ crossed' \in SUBSET Requests
             /\ strayed \subseteq strayed' /\ (strayed \in SUBSET (Parties \X Stored))'
  BY <1>1, <1>3, <1>7, PagesKept DEF Reqs
<1>8. ASSUME NEW p \in People, NEW n \in Names, RegisterCheck(r, p, n) PROVE IInv'
  <2> DEFINE c == [Idle EXCEPT !.at = "register", !.to = p, !.name = n]
  <2>1. c \in Calls /\ c.at = "register" /\ c.to = p /\ c.name = n
    BY NewCalls DEF Idle
  <2>2. Begin(r, c) /\ UNCHANGED <<strayed, crossed>>
    BY <1>8 DEF RegisterCheck, toldVars
  <2> HIDE DEF c
  <2>3. Calling(r)'
    BY <1>6, <2>1, <2>2 DEF Calling
  <2>4. QED
    BY <1>5, <1>7, <2>1, <2>2, <2>3
<1>9. ASSUME NEW g \in GitHubs, NEW to \in Parties, GitHubMiss(r, g, to) PROVE IInv'
  <2>1. PICK i \in 1..Len(Candidates[g]) :
          Begin(r, [Idle EXCEPT !.at = "github_insert", !.by = g, !.to = to,
                                !.name = Candidates[g][i]])
    BY <1>9 DEF GitHubMiss
  <2>2. PICK n \in Names : n = Candidates[g][i]
    BY <2>1, AccountsAssumption
  <2> DEFINE c == [Idle EXCEPT !.at = "github_insert", !.by = g, !.to = to, !.name = n]
  <2>3. c \in Calls /\ c.at = "github_insert" /\ c.by = g /\ c.to = to /\ c.name = n
    BY NewCalls DEF Idle
  <2>4. Begin(r, c) /\ UNCHANGED <<strayed, crossed>>
    BY <1>9, <2>1, <2>2 DEF GitHubMiss, toldVars
  <2> HIDE DEF c
  <2>5. Calling(r)'
    BY <1>6, <2>3, <2>4 DEF Calling
  <2>6. QED
    BY <1>5, <1>7, <2>3, <2>4, <2>5
<1>10. ASSUME NEW p \in Parties, NEW t \in tokens[p], ConfirmFind(r, p, t) PROVE IInv'
  <2>1. PICK u \in GetUserByResetToken(t) :
          /\ Begin(r, [Idle EXCEPT !.at = "confirm_key", !.to = p, !.row = u])
          /\ Cross(r, u)
    BY <1>10 DEF ConfirmFind
  <2> DEFINE c == [Idle EXCEPT !.at = "confirm_key", !.to = p, !.row = u]
  <2>2. u \in Stored /\ u \in Users /\ user[u].owner = p
    BY <1>1, <1>10 DEF GetUserByResetToken, Stored, Told
  <2>3. c \in Calls /\ c.at = "confirm_key" /\ c.to = p /\ c.row = u
    BY <2>2, NewCalls DEF Idle
  <2>4. Begin(r, c) /\ crossed' \in SUBSET Requests /\ UNCHANGED strayed
    BY <1>1, <1>10, <2>1, CrossKept DEF ConfirmFind, toldVars
  <2> HIDE DEF c
  <2>5. u \in Stored' /\ Holder(p, u)'
    BY <1>3, <1>4, <2>2 DEF Holder
  <2>6. Calling(r)'
    BY <1>6, <2>3, <2>4, <2>5 DEF Calling
  <2>7. QED
    BY <1>1, <1>3, <1>5, <2>3, <2>4, <2>6, PagesKept
<1>11. ASSUME NEW p \in Parties, NEW u \in Users, DirectAuth(r, p, u) PROVE IInv'
  <2> DEFINE c == [Idle EXCEPT !.at = "direct", !.to = p, !.row = u]
  <2>1. /\ u \in Stored /\ Holder(p, u)'
        /\ strayed \subseteq strayed' /\ (strayed \in SUBSET (Parties \X Stored))'
    BY <1>1, <1>3, <1>4, <1>11, AuthHolder DEF DirectAuth
  <2>2. c \in Calls /\ c.at = "direct" /\ c.to = p /\ c.row = u
    BY NewCalls DEF Idle
  <2>3. Begin(r, c) /\ crossed' \in SUBSET Requests
    BY <1>1, <1>11, CrossKept DEF DirectAuth
  <2> HIDE DEF c
  <2>4. Calling(r)'
    BY <1>3, <1>6, <2>1, <2>2, <2>3 DEF Calling
  <2>5. QED
    BY <1>5, <2>1, <2>2, <2>3, <2>4
<1>12. ASSUME NEW p \in Parties, BindAuth(r, p) PROVE IInv'
  <2>1. PICK v \in Stored : Begin(r, [Idle EXCEPT !.at = "bind_code", !.by = v])
    BY <1>12 DEF BindAuth, GetByAPIKey
  <2> DEFINE c == [Idle EXCEPT !.at = "bind_code", !.by = v]
  <2>2. v \in Users
    BY DEF Stored
  <2>3. c \in Calls /\ c.at = "bind_code" /\ c.by = v
    BY <2>2, NewCalls DEF Idle
  <2>4. Begin(r, c) /\ UNCHANGED <<strayed, crossed>>
    BY <1>12, <2>1 DEF BindAuth, toldVars
  <2> HIDE DEF c
  <2>5. Calling(r)'
    BY <1>6, <2>2, <2>3, <2>4 DEF Calling
  <2>6. QED
    BY <1>5, <1>7, <2>3, <2>4, <2>5
<1>13. QED
  BY <1>8, <1>9, <1>10, <1>11, <1>12 DEF RequestBegins

\* The statements a request goes on with.
LEMMA GoOnStep ==
  ASSUME IInv, NEW r \in Requests, RequestStep(r)
  PROVE  IInv'
<1>1. RowInv /\ Told /\ Reqs /\ Calling(r) /\ req[r] \in Calls /\ crossed \in SUBSET Requests
  BY DEF IInv, Reqs
<1>2. CASE Register(r)
  <2>1. PICK n \in Names, p \in Parties : n = req[r].name /\ p = req[r].to
    BY <1>1, <1>2 DEF Register, At, Calling, Parties
  <2>2. PICK u \in Users : Create(u, n, p)
    BY <1>2, <2>1 DEF Register
  <2>3. TellOrLose(p, NextNumber) /\ End(r) /\ UNCHANGED <<tokens, strayed>>
    BY <1>2, <2>1 DEF Register
  <2>4. /\ RowInv' /\ Grow /\ u \in Stored' /\ user'[u].owner = p
        /\ issued' = NextNumber /\ made'[NextNumber] = u
        /\ NextNumber \in 1..issued'
    BY <1>1, <2>1, <2>2, CreateGrows
  <2>5. strayed \subseteq strayed' /\ (strayed \in SUBSET (Parties \X Stored))'
    BY <1>1, <2>3, <2>4, PagesKept
  <2>6. PICK k \in 1..issued' : k = NextNumber
    BY <2>4
  <2>7. (made[k] \in Stored /\ Holder(p, made[k]))'
    BY <2>4, <2>6 DEF Holder
  <2>8. Told'
    BY <1>1, <2>1, <2>3, <2>4, <2>5, <2>6, <2>7, KeyTold DEF TellOrLose
  <2>9. QED
    BY <1>1, <2>3, <2>4, <2>5, <2>8, EndKept DEF IInv
<1>3. CASE GitHubInsert(r)
  <2>1. PICK n \in Names, g \in GitHubs, p \in Parties :
          n = req[r].name /\ g = req[r].by /\ p = req[r].to /\ g \in Parties
    BY <1>1, <1>3 DEF GitHubInsert, At, Calling, Parties
  <2>2. PICK u \in Users :
          /\ CreateWithGitHub(u, n, g)
          /\ \/ TellKey(p, NextNumber) /\ Stray(g, p, u)
             \/ UNCHANGED <<keys, strayed>>
    BY <1>3, <2>1 DEF GitHubInsert
  <2>3. End(r) /\ UNCHANGED tokens
    BY <1>3 DEF GitHubInsert
  <2>4. /\ RowInv' /\ Grow /\ u \in Stored' /\ user'[u].owner = g
        /\ issued' = NextNumber /\ made'[NextNumber] = u
        /\ NextNumber \in 1..issued'
    BY <1>1, <2>1, <2>2, CreateGrows
  <2>5. PICK k \in 1..issued' : k = NextNumber
    BY <2>4
  <2>6. CASE UNCHANGED <<keys, strayed>>
    <3>1. strayed \subseteq strayed' /\ (strayed \in SUBSET (Parties \X Stored))'
      BY <1>1, <2>4, <2>6, PagesKept
    <3>2. Told'
      BY <1>1, <2>3, <2>4, <2>6, <3>1, ToldKept
    <3>3. QED
      BY <1>1, <2>3, <2>4, <3>1, <3>2, EndKept DEF IInv
  <2>7. CASE TellKey(p, NextNumber) /\ Stray(g, p, u)
    <3>1. /\ strayed \subseteq strayed' /\ (strayed \in SUBSET (Parties \X Stored))'
          /\ p = g \/ <<p, u>> \in strayed'
      BY <1>1, <2>1, <2>4, <2>7, PagesStray
    <3>2. (made[k] \in Stored /\ Holder(p, made[k]))'
      BY <2>4, <2>5, <3>1 DEF Holder
    <3>3. Told'
      BY <1>1, <2>1, <2>3, <2>4, <2>5, <2>7, <3>1, <3>2, KeyTold
    <3>4. QED
      BY <1>1, <2>3, <2>4, <3>1, <3>3, EndKept DEF IInv
  <2>8. QED
    BY <2>2, <2>6, <2>7
<1>4. CASE ConfirmKey(r) \/ Direct(r)
  <2> DEFINE c == [req[r] EXCEPT !.at = IF At(r, "direct") THEN "answer" ELSE "confirm_clear",
                                 !.key = NextNumber]
  <2>1. PICK u \in Stored, p \in Parties : u = req[r].row /\ p = req[r].to /\ Holder(p, u)
    BY <1>1, <1>4 DEF ConfirmKey, Direct, At, Calling
  <2>2. UpdateAPIKey(u) /\ Begin(r, c) /\ UNCHANGED <<toldVars, crossed>>
    BY <1>4, <2>1 DEF ConfirmKey, Direct, At, Answering
  <2>3. /\ RowInv' /\ Grow /\ user'[u].key = NextNumber
        /\ NextNumber \in 1..MaxIssued /\ issued' = NextNumber /\ made'[NextNumber] = u
    BY <1>1, <2>1, <2>2, KeyGrows
  <2>4. /\ c \in Calls /\ c.at \in {"confirm_clear", "answer"} /\ c.to = p /\ c.row = u
        /\ c.key = NextNumber
    <3>1. NextNumber \in Nat
      BY <2>3
    <3>2. c \in Calls
      BY <1>1, <3>1, NextCalls
    <3>3. QED
      BY <1>1, <2>1, <3>2 DEF Calls
  <2> HIDE DEF c
  <2>5. req'[r] = c /\ UNCHANGED strayed
    BY <1>1, <2>2 DEF Begin, Reqs, toldVars
  <2>6. u \in Stored' /\ Holder(p, u)'
    BY <2>1, <2>3, <2>5 DEF Grow, Holder
  <2>7. Calling(r)'
    BY <2>1, <2>3, <2>4, <2>5, <2>6 DEF Calling
  <2>8. Reqs'
    BY <1>1, <2>2, <2>3, <2>4, <2>5, <2>7, BeginKept
  <2>9. QED
    BY <2>2, <2>3, <2>8, QuietTold
<1>5. CASE ConfirmClear(r)
  <2>1. PICK u \in Stored, p \in Parties, k \in 1..issued :
          /\ u = req[r].row /\ p = req[r].to /\ k = req[r].key
          /\ u \in Users /\ Holder(p, u) /\ made[k] = u /\ user[u].key >= k
    BY <1>1, <1>5 DEF ConfirmClear, At, Calling, Stored
  <2> DEFINE c == Answering(r, k)
  <2>2. ClearResetToken(u) /\ Begin(r, c) /\ UNCHANGED <<toldVars, crossed>>
    BY <1>5, <2>1 DEF ConfirmClear
  <2>3. c \in Calls /\ c.at = "answer" /\ c.to = p /\ c.row = u /\ c.key = k
    <3>1. k \in Nat
      BY <1>1, SMTT(60) DEF RowInv
    <3>2. c \in Calls
      BY <1>1, <3>1, NextCalls DEF Answering
    <3>3. QED
      BY <1>1, <2>1, <3>2 DEF Calls, Answering
  <2> HIDE DEF c
  <2>4. RowInv' /\ Grow
    BY <1>1, <2>1, <2>2, SmallGrows
  <2>5. req'[r] = c /\ UNCHANGED strayed
    BY <1>1, <2>2 DEF Begin, Reqs, toldVars
  <2>6. u \in Stored' /\ Holder(p, u)'
    BY <2>1, <2>4, <2>5 DEF Grow, Holder
  <2>7. k \in 1..issued' /\ made'[k] = u /\ user'[u].key >= k
    <3>1. issued \in Nat /\ issued' \in Nat /\ issued' >= issued
      BY <1>1, <2>4 DEF RowInv, Grow
    <3>2. user[u].key \in Nat /\ user'[u].key \in Nat /\ user'[u].key >= user[u].key
      BY <1>1, <2>1, <2>4, <2>6 DEF RowInv, Grow
    <3>3. QED
      BY <2>1, <2>4, <3>1, <3>2 DEF Grow
  <2>8. Calling(r)'
    BY <2>1, <2>3, <2>5, <2>6, <2>7 DEF Calling
  <2>9. Reqs'
    BY <1>1, <2>2, <2>3, <2>4, <2>5, <2>8, BeginKept
  <2>10. QED
    BY <2>2, <2>4, <2>9, QuietTold
<1>6. CASE Answer(r)
  <2>1. PICK k \in 1..issued : k = req[r].key
    BY <1>1, <1>6 DEF Answer, At, Calling
  <2>2. PICK u \in Stored, p \in Parties :
          p = req[r].to /\ Holder(p, u) /\ made[k] = u
    BY <1>1, <1>6, <2>1 DEF Answer, At, Calling
  <2>3. TellKey(p, k) /\ End(r) /\ UNCHANGED <<rowVars, tokens, strayed>>
    BY <1>6, <2>1, <2>2 DEF Answer
  <2>4. RowInv' /\ Grow /\ k \in 1..issued'
    BY <1>1, <2>3, SameRows DEF rowVars
  <2>5. strayed \subseteq strayed' /\ (strayed \in SUBSET (Parties \X Stored))'
    BY <1>1, <2>3, <2>4, PagesKept
  <2>6. (made[k] \in Stored /\ Holder(p, made[k]))'
    BY <2>2, <2>3, <2>4, <2>5 DEF Grow, Holder
  <2>7. Told'
    BY <1>1, <2>2, <2>3, <2>4, <2>5, <2>6, KeyTold
  <2>8. QED
    BY <1>1, <2>3, <2>4, <2>5, <2>7, EndKept DEF IInv
<1>7. ASSUME NEW u \in Users, BindCode(r, u) PROVE IInv'
  <2> DEFINE f == user[u].observer = None
             c == [req[r] EXCEPT !.at = "bind", !.row = u, !.free = f]
  <2>1. u \in Stored /\ f = TRUE /\ req[r].by \in Users
    BY <1>1, <1>7 DEF BindCode, GetByBindCode, RowInv, At, Calling
  <2>2. Begin(r, c) /\ UNCHANGED <<rowVars, toldVars, crossed>>
    BY <1>7 DEF BindCode
  <2>3. c \in Calls /\ c.at = "bind" /\ c.by = req[r].by /\ c.row = u /\ c.free
    BY <1>1, <2>1, NextCalls DEF Calls
  <2> HIDE DEF c
  <2>4. RowInv' /\ Grow /\ Stored' = Stored
    BY <1>1, <2>2, SameRows
  <2>5. req'[r] = c /\ UNCHANGED strayed
    BY <1>1, <2>2 DEF Begin, Reqs, toldVars
  <2>6. Calling(r)'
    BY <2>1, <2>3, <2>4, <2>5 DEF Calling
  <2>7. Reqs'
    BY <1>1, <2>2, <2>3, <2>4, <2>5, <2>6, BeginKept
  <2>8. QED
    BY <2>2, <2>4, <2>7, QuietTold
<1>8. CASE Bind(r)
  <2>1. req[r].row \in Stored /\ req[r].row \in Users /\ req[r].by \in Users
    BY <1>1, <1>8 DEF Bind, At, Calling, Stored
  <2>2. RowInv' /\ Grow
    BY <1>1, <1>8, <2>1, SmallGrows DEF Bind
  <2>3. End(r) /\ UNCHANGED toldVars /\ UNCHANGED strayed
    BY <1>8 DEF Bind, toldVars
  <2>4. QED
    BY <1>1, <2>2, <2>3, EndKept, QuietTold
<1>9. CASE BreakOff(r)
  <2>1. RowInv' /\ Grow
    BY <1>1, <1>9, SameRows DEF BreakOff
  <2>2. End(r) /\ UNCHANGED toldVars /\ UNCHANGED strayed
    BY <1>9 DEF BreakOff, toldVars
  <2>3. QED
    BY <1>1, <2>1, <2>2, EndKept, QuietTold
<1>10. QED
  BY <1>2, <1>3, <1>4, <1>5, <1>6, <1>7, <1>8, <1>9 DEF RequestStep

\* Calls of one statement.
AtOnce ==
  \/ \E p \in Passwords, n \in Names : Login(p, n)
  \/ \E g \in GitHubs : \/ GitHubStray(g)
                        \/ \E to \in Parties : GitHubFind(g, to)
                        \/ \E n \in Names : GitHubReset(g, n)
  \/ \E u \in Users : RowStep(u)

LEMMA AtOnceStep ==
  ASSUME IInv, AtOnce
  PROVE  IInv'
<1>1. RowInv /\ Told /\ Reqs
  BY DEF IInv
<1>2. UNCHANGED <<req, crossed>>
  BY DEF AtOnce, Login, GitHubFind, GitHubStray, GitHubReset, RowStep, AgeRow,
     UpdateProfile, ChangePassword
<1>3. ASSUME RowInv', Grow, strayed \subseteq strayed' PROVE Reqs'
  BY <1>1, <1>2, <1>3, ReqsKept DEF Reqs
<1>4. ASSUME NEW p \in Parties, NEW u \in Stored, Holder(p, u)', RowInv', Grow,
             TellKey(p, user[u].key), UNCHANGED tokens,
             strayed \subseteq strayed', (strayed \in SUBSET (Parties \X Stored))'
      PROVE  IInv'
  <2>1. user[u].key \in 1..issued /\ made[user[u].key] = u
    BY <1>1 DEF RowInv
  <2>2. PICK k \in 1..issued' : k = user[u].key /\ made'[k] = u /\ u \in Stored'
    BY <1>1, <1>4, <2>1 DEF Grow, RowInv
  <2>3. (made[k] \in Stored /\ Holder(p, made[k]))'
    BY <1>4, <2>2 DEF Holder
  <2>4. Told'
    BY <1>1, <1>4, <2>2, <2>3, KeyTold
  <2>5. QED
    BY <1>3, <1>4, <2>4 DEF IInv
<1>5. ASSUME NEW p \in Passwords, NEW n \in Names, Login(p, n) PROVE IInv'
  <2>1. PICK u \in GetByUsername(n) : user[u].owner = p /\ TellKey(p, user[u].key)
    BY <1>5 DEF Login
  <2>2. u \in Stored /\ p \in Parties
    BY AccountsAssumption DEF GetByUsername, Parties
  <2>3. RowInv' /\ Grow /\ UNCHANGED <<user, strayed>> /\ UNCHANGED tokens
    BY <1>1, <1>5, SameRows DEF Login, rowVars
  <2>4. Holder(p, u)'
    BY <2>1, <2>3 DEF Holder
  <2>5. strayed \subseteq strayed' /\ (strayed \in SUBSET (Parties \X Stored))'
    BY <1>1, <2>3, PagesKept
  <2>6. QED
    BY <1>4, <2>1, <2>2, <2>3, <2>4, <2>5
<1>6. \A g \in GitHubs : \A u \in GetByGitHubID(g) :
        g \in Parties /\ u \in Stored /\ u \in Users /\ user[u].github = g /\ user[u].owner = g
          /\ g # None
  BY <1>1 DEF GetByGitHubID, RowInv, Stored, Parties
<1>7. ASSUME NEW g \in GitHubs, NEW to \in Parties, GitHubFind(g, to) PROVE IInv'
  <2>1. PICK u \in GetByGitHubID(g) :
          TellKey(to, user[u].key) /\ (Touch(u) \/ UNCHANGED rowVars) /\ Stray(g, to, u)
    BY <1>7 DEF GitHubFind
  <2>2. RowInv' /\ Grow
    BY <1>1, <1>6, <2>1, SameRows, SmallGrows
  <2>3. u \in Stored /\ u \in Stored' /\ user'[u].owner = g
    BY <1>6, <2>2 DEF Grow
  <2>4. /\ strayed \subseteq strayed' /\ (strayed \in SUBSET (Parties \X Stored))'
        /\ to = g \/ <<to, u>> \in strayed'
    BY <1>1, <2>1, <2>2, <2>3, PagesStray
  <2>5. Holder(to, u)'
    BY <2>3, <2>4 DEF Holder
  <2>6. UNCHANGED tokens
    BY <1>7 DEF GitHubFind
  <2>7. QED
    BY <1>4, <2>1, <2>2, <2>3, <2>4, <2>5, <2>6
<1>8. ASSUME NEW u \in Users, Touch(u) \/ Age(u), UNCHANGED <<keys, tokens>>,
             UNCHANGED strayed \/ \E p \in Parties : Stray(user[u].github, p, u)
      PROVE  IInv'
  <2>1. RowInv' /\ Grow
    BY <1>1, <1>8, SmallGrows
  <2>2. strayed \subseteq strayed' /\ (strayed \in SUBSET (Parties \X Stored))'
    <3>1. u \in Stored'
      BY <1>1, <1>8, <2>1 DEF Touch, Age, RowInv, NoRow, Grow
    <3>2. QED
      BY <1>1, <1>8, <2>1, <3>1, PagesKept, PagesStray
  <2>3. Told'
    BY <1>1, <1>8, <2>1, <2>2, ToldKept
  <2>4. QED
    BY <1>3, <2>1, <2>2, <2>3 DEF IInv
<1>9. ASSUME NEW g \in GitHubs, GitHubStray(g) PROVE IInv'
  BY <1>6, <1>8, <1>9 DEF GitHubStray, toldVars
<1>10. ASSUME NEW g \in GitHubs, NEW n \in Names, GitHubReset(g, n) PROVE IInv'
  <2>1. PICK u \in GetByGitHubID(g) : UpdateResetToken(u)
    BY <1>10 DEF GitHubReset
  <2>2. /\ RowInv' /\ Grow
        /\ NextToken \in 1..MaxTokens /\ minted' = NextToken /\ issued' = issued
        /\ \A v \in Users : user'[v].token = NextToken => v = u
    BY <1>1, <1>6, <2>1, TokenGrows
  <2>3. /\ minted \in Nat /\ NextToken = minted + 1
        /\ tokens' = [tokens EXCEPT ![g] = @ \cup {NextToken}]
        /\ UNCHANGED <<keys, strayed>>
    BY <1>1, <1>10 DEF GitHubReset, RowInv, NextToken
  <2> HIDE DEF NextToken
  <2>4. /\ (keys \in [Parties -> SUBSET (1..issued)])'
        /\ (tokens \in [Parties -> SUBSET (1..minted)])'
    BY <1>1, <1>6, <2>2, <2>3 DEF Told
  <2>5. ASSUME NEW p \in Parties, NEW k \in keys'[p]
        PROVE  (made[k] \in Stored /\ Holder(p, made[k]))'
    <3>1. k \in 1..issued /\ made[k] \in Stored /\ Holder(p, made[k])
      BY <1>1, <2>3, <2>5 DEF Told
    <3>2. made'[k] = made[k]
      BY <2>2, <3>1 DEF Grow
    <3>3. QED
      BY <2>2, <2>3, <3>1, <3>2 DEF Grow, Holder
  <2>6. ASSUME NEW p \in Parties, NEW t \in tokens'[p], NEW v \in Stored', user'[v].token = t
        PROVE  user'[v].owner = p
    <3>1. v \in Users
      BY DEF Stored
    <3>2. CASE t = NextToken
      <4>1. v = u /\ user'[v].owner = g
        BY <1>6, <2>2, <2>6, <3>1, <3>2 DEF Grow
      <4>2. p = g
        BY <1>1, <2>3, <2>6, <3>2 DEF Told
      <4>3. QED
        BY <4>1, <4>2
    <3>3. CASE t # NextToken
      <4>1. t \in tokens[p] /\ t \in 1..minted
        BY <1>1, <1>6, <2>3, <2>6, <3>3 DEF Told
      <4>2. user[v].token = t
        BY <2>2, <2>3, <2>6, <3>1, <3>3, <4>1 DEF Grow
      <4>3. v \in Stored
        BY <1>1, <3>1, <4>1, <4>2 DEF RowInv, Stored, NoRow
      <4>4. QED
        BY <1>1, <2>2, <4>1, <4>2, <4>3 DEF Told, Grow
    <3>4. QED
      BY <3>2, <3>3
  <2>7. strayed \subseteq strayed' /\ (strayed \in SUBSET (Parties \X Stored))'
    BY <1>1, <2>2, <2>3, PagesKept
  <2>8. Told'
    BY <2>4, <2>5, <2>6, <2>7 DEF Told
  <2>9. QED
    BY <1>3, <2>2, <2>7, <2>8 DEF IInv
<1>11. ASSUME NEW u \in Users, RowStep(u) PROVE IInv'
  <2>1. CASE AgeRow(u)
    BY <1>8, <2>1 DEF AgeRow, toldVars
  <2>2. ASSUME NEW p \in Parties, UpdateProfile(p, u) \/ ChangePassword(p, u) PROVE IInv'
    BY <1>8, <2>2 DEF UpdateProfile, ChangePassword, Authenticated, SignedIn
  <2>3. QED
    BY <1>11, <2>1, <2>2 DEF RowStep
<1>12. QED
  BY <1>5, <1>7, <1>9, <1>10, <1>11 DEF AtOnce

LEMMA SafeStep == IInv /\ [Next]_vars => IInv'
<1> SUFFICES ASSUME IInv, [Next]_vars PROVE IInv'
  OBVIOUS
<1>1. CASE Next
  BY <1>1, BeginStep, GoOnStep, AtOnceStep DEF Next, AtOnce
<1>2. CASE UNCHANGED vars
  <2>1. RowInv' /\ Grow
    BY <1>2, SameRows DEF vars, IInv
  <2>2. Reqs'
    BY <1>2, <2>1, ReqsKept DEF vars, IInv, Reqs
  <2>3. QED
    BY <1>2, <2>1, <2>2, QuietTold DEF vars, toldVars
<1>3. QED
  BY <1>1, <1>2

LEMMA Inductive == Spec => []IInv
<1>1. QED
  BY SafeInit, SafeStep, PTL DEF Spec

\* The tables, the requests and what was told keep their types; only a row of
\* a GitHub identity has a reset token.
THEOREM TypeCorrect == Spec => []TypeOK
<1>1. ASSUME IInv PROVE TypeOK
  <2>1. RowInv /\ Told /\ Reqs
    BY <1>1 DEF IInv
  <2>2. /\ issued \in Nat /\ MaxIssued \in Nat /\ issued <= MaxIssued
        /\ minted \in Nat /\ MaxTokens \in Nat /\ minted <= MaxTokens
    BY <2>1 DEF RowInv
  <2>3. keys \in [Parties -> SUBSET (1..MaxIssued)] /\ tokens \in [Parties -> SUBSET (1..MaxTokens)]
    BY <2>1, <2>2 DEF Told
  <2>4. QED
    BY <2>1, <2>3 DEF RowInv, Told, Reqs, TypeOK
<1>2. QED
  BY <1>1, Inductive, PTL

\* auth.go, github.go, reset_key.go: whatever races or breaks off, the key of a
\* row is told to the owner of the row, and to a party whose page a sign-in of
\* the owner was answered to, alone.
THEOREM KeysCorrect == Spec => []KeyGoesToOwner
<1>1. IInv => KeyGoesToOwner
  BY DEF IInv, Told, KeyGoesToOwner, Holder
<1>2. QED
  BY <1>1, Inductive, PTL

-----------------------------------------------------------------------------
(* What a statement leaves alone.                                          *)

SameOwners == \A v \in Users : user'[v].owner = user[v].owner /\ user'[v].name = user[v].name

LEMMA BindFields ==
  ASSUME RowInv, NEW u \in Users, Touch(u) \/ Age(u) \/ \E o \in Users : BindObserver(u, o)
  PROVE  /\ \A v \in Users : user'[v].key = user[v].key /\ user'[v].token = user[v].token
         /\ \A v \in Users \ {u} : user'[v] = user[v]
         /\ SameOwners
<1>1. user \in [Users -> Row] /\ user[u] \in Row
  BY DEF RowInv
<1>2. CASE Touch(u)
  <2>1. user' = [user EXCEPT ![u] = [user[u] EXCEPT !.recent = TRUE]]
    BY <1>2 DEF Touch, Update
  <2>2. QED
    BY <1>1, <2>1 DEF Row, SameOwners
<1>3. CASE Age(u)
  <2> DEFINE a == [user[u] EXCEPT !.live = FALSE]
             b == [user[u] EXCEPT !.recent = FALSE]
  <2>1. user' = [user EXCEPT ![u] = a] \/ user' = [user EXCEPT ![u] = b]
    BY <1>1, <1>3 DEF Age
  <2>2. \A row \in {a, b} : /\ row.key = user[u].key /\ row.token = user[u].token
                            /\ row.owner = user[u].owner /\ row.name = user[u].name
    BY <1>1 DEF Row
  <2> HIDE DEF a, b
  <2>3. QED
    BY <1>1, <2>1, <2>2 DEF SameOwners
<1>4. CASE \E o \in Users : BindObserver(u, o)
  <2>1. PICK o \in Users : BindObserver(u, o)
    BY <1>4
  <2>2. user' = [user EXCEPT ![u] = [[user[u] EXCEPT !.observer = o, !.code = FALSE]
                                      EXCEPT !.recent = TRUE]]
    BY <2>1 DEF BindObserver, Update
  <2>3. QED
    BY <1>1, <2>2 DEF Row, SameOwners
<1>5. QED
  BY <1>2, <1>3, <1>4

LEMMA ClearFields ==
  ASSUME RowInv, NEW u \in Users, ClearResetToken(u)
  PROVE  /\ \A v \in Users : user'[v].key = user[v].key /\ user'[v].observer = user[v].observer
         /\ \A v \in Users \ {u} : user'[v].token = user[v].token
         /\ SameOwners
<1> DEFINE row == [[user[u] EXCEPT !.token = 0, !.live = FALSE] EXCEPT !.recent = TRUE]
<1>1. user \in [Users -> Row]
  BY DEF RowInv
<1>2. user' = [user EXCEPT ![u] = row]
  BY DEF ClearResetToken, Update
<1>3. /\ row.key = user[u].key /\ row.observer = user[u].observer
      /\ row.owner = user[u].owner /\ row.name = user[u].name
  BY <1>1 DEF Row
<1> HIDE DEF row
<1>4. QED
  BY <1>1, <1>2, <1>3 DEF SameOwners

LEMMA KeyFields ==
  ASSUME RowInv, NEW u \in Users, UpdateAPIKey(u)
  PROVE  /\ \A v \in Users : user'[v].token = user[v].token /\ user'[v].observer = user[v].observer
         /\ \A v \in Users \ {u} : user'[v].key = user[v].key
         /\ SameOwners
<1> DEFINE row == [[user[u] EXCEPT !.key = NextNumber] EXCEPT !.recent = TRUE]
<1>1. user \in [Users -> Row]
  BY DEF RowInv
<1>2. user' = [user EXCEPT ![u] = row]
  BY DEF UpdateAPIKey, Update
<1>3. /\ row.token = user[u].token /\ row.observer = user[u].observer
      /\ row.owner = user[u].owner /\ row.name = user[u].name
  BY <1>1 DEF Row
<1> HIDE DEF row
<1>4. QED
  BY <1>1, <1>2, <1>3 DEF SameOwners

LEMMA TokenFields ==
  ASSUME RowInv, NEW u \in Users, UpdateResetToken(u)
  PROVE  /\ \A v \in Users : user'[v].key = user[v].key /\ user'[v].observer = user[v].observer
         /\ \A v \in Users \ {u} : user'[v].token = user[v].token
         /\ user'[u].token = NextToken
         /\ SameOwners
<1> DEFINE row == [[user[u] EXCEPT !.token = NextToken, !.live = TRUE] EXCEPT !.recent = TRUE]
<1>1. user \in [Users -> Row]
  BY DEF RowInv
<1>2. user' = [user EXCEPT ![u] = row]
  BY DEF UpdateResetToken, Update
<1>3. /\ row.key = user[u].key /\ row.observer = user[u].observer /\ row.token = NextToken
      /\ row.owner = user[u].owner /\ row.name = user[u].name
  BY <1>1 DEF Row
<1> HIDE DEF row
<1>4. QED
  BY <1>1, <1>2, <1>3 DEF SameOwners

LEMMA AgeFields ==
  ASSUME RowInv, NEW u \in Users, Touch(u) \/ Age(u)
  PROVE  \A v \in Users : user'[v].observer = user[v].observer
<1>1. user \in [Users -> Row] /\ user[u] \in Row
  BY DEF RowInv
<1>2. CASE Touch(u)
  <2>1. user' = [user EXCEPT ![u] = [user[u] EXCEPT !.recent = TRUE]]
    BY <1>2 DEF Touch, Update
  <2>2. QED
    BY <1>1, <2>1 DEF Row
<1>3. CASE Age(u)
  <2> DEFINE a == [user[u] EXCEPT !.live = FALSE]
             b == [user[u] EXCEPT !.recent = FALSE]
  <2>1. user' = [user EXCEPT ![u] = a] \/ user' = [user EXCEPT ![u] = b]
    BY <1>1, <1>3 DEF Age
  <2>2. \A row \in {a, b} : row.observer = user[u].observer
    BY <1>1 DEF Row
  <2> HIDE DEF a, b
  <2>3. QED
    BY <1>1, <2>1, <2>2
<1>4. QED
  BY <1>2, <1>3

LEMMA InsertFields ==
  ASSUME RowInv, NEW u \in Users, NEW n \in Names, NEW p \in Parties,
         Create(u, n, p) \/ (p \in GitHubs /\ CreateWithGitHub(u, n, p))
  PROVE  u \notin Stored /\ (\A v \in Users \ {u} : user'[v] = user[v])
         /\ user'[u].key = NextNumber
<1>1. user \in [Users -> Row]
  BY DEF RowInv
<1>2. CASE Create(u, n, p)
  <2> DEFINE row == [NoRow EXCEPT !.name = n, !.owner = p, !.key = NextNumber,
                                  !.code = TRUE, !.recent = TRUE]
  <2>1. row.key = NextNumber
    BY DEF NoRow
  <2>2. Insert(u, row)
    BY <1>2 DEF Create
  <2> HIDE DEF row
  <2>3. QED
    BY <1>1, <2>1, <2>2 DEF Insert
<1>3. CASE p \in GitHubs /\ CreateWithGitHub(u, n, p)
  <2> DEFINE row == [NoRow EXCEPT !.name = n, !.owner = p, !.github = p,
                                  !.key = NextNumber, !.recent = TRUE]
  <2>1. row.key = NextNumber
    BY DEF NoRow
  <2>2. Insert(u, row)
    BY <1>3 DEF CreateWithGitHub
  <2> HIDE DEF row
  <2>3. QED
    BY <1>1, <2>1, <2>2 DEF Insert
<1>4. QED
  BY <1>2, <1>3

\* A row is inserted, and its key told with the statement or to nobody.
Inserts(u) ==
  \E n \in Names, p \in Parties :
    /\ Create(u, n, p) \/ (p \in GitHubs /\ CreateWithGitHub(u, n, p))
    /\ \/ UNCHANGED <<keys, strayed>>
       \/ \E to \in Parties : TellKey(to, NextNumber) /\ Stray(p, to, u)

LEMMA RegisterInserts ==
  ASSUME IInv, NEW r \in Requests, Register(r) \/ GitHubInsert(r)
  PROVE  \E u \in Users : Inserts(u)
<1>1. Calling(r)
  BY DEF IInv, Reqs
<1>2. CASE Register(r)
  <2>1. PICK n \in Names, p \in Parties : n = req[r].name /\ p = req[r].to
    BY <1>1, <1>2 DEF Register, At, Calling, Parties
  <2>2. PICK u \in Users : Create(u, n, p)
    BY <1>2, <2>1 DEF Register
  <2>3. UNCHANGED <<keys, strayed>> \/ (TellKey(p, NextNumber) /\ Stray(p, p, u))
    BY <1>2, <2>1 DEF Register, TellOrLose, Stray
  <2>4. QED
    BY <2>1, <2>2, <2>3 DEF Inserts
<1>3. CASE GitHubInsert(r)
  <2>1. PICK n \in Names, g \in GitHubs, to \in Parties :
          n = req[r].name /\ g = req[r].by /\ to = req[r].to /\ g \in Parties
    BY <1>1, <1>3 DEF GitHubInsert, At, Calling, Parties
  <2>2. PICK u \in Users :
          /\ CreateWithGitHub(u, n, g)
          /\ \/ TellKey(to, NextNumber) /\ Stray(g, to, u)
             \/ UNCHANGED <<keys, strayed>>
    BY <1>3, <2>1 DEF GitHubInsert
  <2>3. QED
    BY <2>1, <2>2 DEF Inserts
<1>4. QED
  BY <1>2, <1>3

\* A step is one of these.
LEMMA Kinds ==
  ASSUME IInv, [Next]_vars
  PROVE  \/ UNCHANGED rowVars
         \/ \E u \in Users : Touch(u) \/ Age(u) \/ Inserts(u)
         \/ \E r \in Requests : ConfirmKey(r) \/ Direct(r) \/ ConfirmClear(r) \/ Bind(r)
         \/ \E g \in GitHubs, n \in Names : GitHubReset(g, n)
<1>1. ASSUME NEW r \in Requests, RequestBegins(r) PROVE UNCHANGED rowVars
  BY <1>1 DEF RequestBegins, RegisterCheck, GitHubMiss, ConfirmFind, DirectAuth, BindAuth
<1>2. ASSUME NEW r \in Requests, RequestStep(r)
      PROVE  \/ UNCHANGED rowVars
             \/ \E u \in Users : Inserts(u)
             \/ ConfirmKey(r) \/ Direct(r) \/ ConfirmClear(r) \/ Bind(r)
  <2>1. CASE Register(r) \/ GitHubInsert(r)
    BY <2>1, RegisterInserts
  <2>2. CASE ~Register(r) /\ ~GitHubInsert(r)
    BY <1>2, <2>2 DEF RequestStep, Answer, BreakOff, BindCode
  <2>3. QED
    BY <2>1, <2>2
<1>3. ASSUME NEW u \in Users, RowStep(u) PROVE Touch(u) \/ Age(u)
  BY <1>3 DEF RowStep, AgeRow, UpdateProfile, ChangePassword
<1>4. ASSUME NEW p \in Passwords, NEW n \in Names, Login(p, n) PROVE UNCHANGED rowVars
  BY <1>4 DEF Login
<1>5. ASSUME NEW g \in GitHubs, GitHubStray(g) \/ \E to \in Parties : GitHubFind(g, to)
      PROVE  UNCHANGED rowVars \/ \E u \in Users : Touch(u)
  BY <1>5 DEF GitHubFind, GitHubStray, GetByGitHubID, Stored
<1>6. CASE UNCHANGED vars
  BY <1>6 DEF vars
<1>7. QED
  BY <1>1, <1>2, <1>3, <1>4, <1>5, <1>6, SMTT(60) DEF Next
-----------------------------------------------------------------------------
(* Bindings and reset tokens.                                              *)

\* What a request about to write holds.
LEMMA Writers ==
  ASSUME IInv, NEW r \in Requests
  PROVE  /\ ConfirmKey(r) \/ Direct(r) \/ ConfirmClear(r) \/ Bind(r) =>
              req[r].row \in Stored /\ req[r].row \in Users
         /\ Bind(r) => req[r].by \in Users /\ req[r].free
         /\ ConfirmClear(r) => /\ req[r].key # 0 /\ made[req[r].key] = req[r].row
                               /\ user[req[r].row].key >= req[r].key
BY DEF IInv, Reqs, Calling, RowInv, ConfirmKey, Direct, ConfirmClear, Bind, At, Stored

LEMMA BindOnceStep ==
  ASSUME IInv, [Next]_vars, NEW u \in Users,
         user[u].observer # None, user'[u].observer # user[u].observer
  PROVE  \E r \in Requests : At(r, "bind") /\ req[r].row = u /\ req[r].free
<1>1. RowInv
  BY DEF IInv
<1>2. ~UNCHANGED rowVars
  BY DEF rowVars
<1>3. ASSUME NEW v \in Users, Touch(v) \/ Age(v) PROVE FALSE
  BY <1>1, <1>3, AgeFields
<1>4. ASSUME NEW v \in Users, Inserts(v) PROVE FALSE
  BY <1>1, <1>4, InsertFields, SMTT(60) DEF Inserts, RowInv, NoRow
<1>5. ASSUME NEW r \in Requests, ConfirmKey(r) \/ Direct(r) PROVE FALSE
  BY <1>1, <1>5, Writers, KeyFields DEF ConfirmKey, Direct
<1>6. ASSUME NEW r \in Requests, ConfirmClear(r) PROVE FALSE
  BY <1>1, <1>6, Writers, ClearFields DEF ConfirmClear
<1>7. ASSUME NEW g \in GitHubs, NEW n \in Names, GitHubReset(g, n) PROVE FALSE
  BY <1>1, <1>7, TokenFields DEF GitHubReset, GetByGitHubID, Stored
<1>8. ASSUME NEW r \in Requests, Bind(r)
      PROVE  At(r, "bind") /\ req[r].row = u /\ req[r].free
  BY <1>1, <1>8, Writers, BindFields DEF Bind
<1>9. QED
  BY <1>2, <1>3, <1>4, <1>5, <1>6, <1>7, <1>8, Kinds

\* bind.go: a second observer takes the place of the first only by a request
\* that had found the code when nobody was bound.
THEOREM BindCorrect == Spec => CodeBindsOnce
<1>1. IInv /\ [Next]_vars =>
        [\A u \in Users :
           user[u].observer # None /\ user'[u].observer # user[u].observer
             => \E r \in Requests : At(r, "bind") /\ req[r].row = u /\ req[r].free]_vars
  BY BindOnceStep
<1>2. QED
  BY <1>1, Inductive, PTL DEF Spec, CodeBindsOnce

LEMMA TokenStep ==
  ASSUME IInv, [Next]_vars, NEW u \in Users,
         user[u].token # 0, user'[u].token # user[u].token
  PROVE  \/ user'[u].token > user[u].token
         \/ \E r \in Confirming(u) : req[r].key # 0 /\ made[req[r].key] = u
                                       /\ user[u].key >= req[r].key
<1>1. RowInv
  BY DEF IInv
<1>2. ~UNCHANGED rowVars
  BY DEF rowVars
<1>3. ASSUME NEW v \in Users, Touch(v) \/ Age(v) PROVE FALSE
  BY <1>1, <1>3, BindFields
<1>4. ASSUME NEW v \in Users, Inserts(v) PROVE FALSE
  BY <1>1, <1>4, InsertFields, SMTT(60) DEF Inserts, RowInv, NoRow
<1>5. ASSUME NEW r \in Requests, ConfirmKey(r) \/ Direct(r) PROVE FALSE
  BY <1>1, <1>5, Writers, KeyFields DEF ConfirmKey, Direct
<1>6. ASSUME NEW r \in Requests, Bind(r) PROVE FALSE
  BY <1>1, <1>6, Writers, BindFields DEF Bind
<1>7. ASSUME NEW g \in GitHubs, NEW n \in Names, GitHubReset(g, n)
      PROVE  user'[u].token > user[u].token
  <2>1. PICK v \in GetByGitHubID(g) : UpdateResetToken(v)
    BY <1>7 DEF GitHubReset
  <2>2. v = u /\ user'[u].token = minted + 1
    BY <1>1, <2>1, TokenFields DEF GetByGitHubID, Stored, NextToken
  <2>3. QED
    BY <1>1, <2>2 DEF RowInv
<1>8. ASSUME NEW r \in Requests, ConfirmClear(r)
      PROVE  /\ r \in Confirming(u) /\ req[r].key # 0 /\ made[req[r].key] = u
             /\ user[u].key >= req[r].key
  <2>1. req[r].row = u
    BY <1>1, <1>8, Writers, ClearFields DEF ConfirmClear
  <2>2. QED
    BY <1>8, <2>1, Writers DEF ConfirmClear, At, Confirming, Keyed
<1>9. QED
  BY <1>2, <1>3, <1>4, <1>5, <1>6, <1>7, <1>8, Kinds

\* reset_key.go: a reset that breaks off leaves its token: one that stands goes
\* for a newer one, or when the key has been replaced.
THEOREM TokenCorrect == Spec => TokenOutlivesFailure
<1>1. IInv /\ [Next]_vars =>
        [\A u \in Users :
           user[u].token # 0 /\ user'[u].token # user[u].token
             => \/ user'[u].token > user[u].token
                \/ \E r \in Confirming(u) : req[r].key # 0 /\ made[req[r].key] = u
                     /\ user[u].key >= req[r].key]_vars
  BY TokenStep
<1>2. QED
  BY <1>1, Inductive, PTL DEF Spec, TokenOutlivesFailure
-----------------------------------------------------------------------------
(* The answers of resets.  Of two that are on their way for one row both    *)
(* overlapped the other; one that overlapped none holds the key of the row. *)

Resetting == {"confirm_key", "confirm_clear", "direct", "answer"}
Replacing == {"confirm_clear", "answer"}

Answers ==
  /\ \A r, q \in Requests :
       r # q /\ req[r].at \in Resetting /\ req[q].at \in Resetting /\ req[r].row = req[q].row
         => r \in crossed
  /\ \A r \in Requests \ crossed :
       req[r].at \in Replacing => user[req[r].row].key = req[r].key

\* The key of a row that is stored changes with a reset alone.
LEMMA KeysStand ==
  ASSUME IInv, [Next]_vars, \A r \in Requests : ~ConfirmKey(r) /\ ~Direct(r)
  PROVE  \A v \in Stored : user'[v].key = user[v].key
<1>1. RowInv /\ Stored \subseteq Users
  BY DEF IInv, Stored
<1>2. CASE UNCHANGED rowVars
  BY <1>2 DEF rowVars
<1>3. ASSUME NEW u \in Users, Touch(u) \/ Age(u)
      PROVE  \A v \in Stored : user'[v].key = user[v].key
  BY <1>1, <1>3, BindFields
<1>4. ASSUME NEW u \in Users, Inserts(u)
      PROVE  \A v \in Stored : user'[v].key = user[v].key
  <2>1. u \notin Stored /\ \A v \in Users \ {u} : user'[v] = user[v]
    BY <1>1, <1>4, InsertFields DEF Inserts
  <2>2. QED
    BY <1>1, <2>1
<1>5. ASSUME NEW r \in Requests, ConfirmClear(r)
      PROVE  \A v \in Stored : user'[v].key = user[v].key
  BY <1>1, <1>5, Writers, ClearFields DEF ConfirmClear
<1>6. ASSUME NEW r \in Requests, Bind(r)
      PROVE  \A v \in Stored : user'[v].key = user[v].key
  BY <1>1, <1>6, Writers, BindFields DEF Bind
<1>7. ASSUME NEW g \in GitHubs, NEW n \in Names, GitHubReset(g, n)
      PROVE  \A v \in Stored : user'[v].key = user[v].key
  <2>1. PICK u \in Users : UpdateResetToken(u)
    BY <1>7 DEF GitHubReset, GetByGitHubID, Stored
  <2>2. QED
    BY <1>1, <2>1, TokenFields
<1>8. QED
  BY <1>2, <1>3, <1>4, <1>5, <1>6, <1>7, Kinds

\* Requests end, or do something that is no reset.
LEMMA AnswersSame ==
  ASSUME IInv, Answers, \A v \in Stored : user'[v].key = user[v].key,
         \A q \in Requests : \/ req'[q].at \notin Resetting
                             \/ req'[q] = req[q] /\ (q \in crossed <=> q \in crossed')
  PROVE  Answers'
<1>1. ASSUME NEW r \in Requests, NEW q \in Requests, r # q,
             req'[r].at \in Resetting, req'[q].at \in Resetting, req'[r].row = req'[q].row
      PROVE  r \in crossed'
  BY <1>1 DEF Answers
<1>2. ASSUME NEW r \in Requests, r \notin crossed', req'[r].at \in Replacing
      PROVE  user'[req'[r].row].key = req'[r].key
  <2>1. req'[r] = req[r] /\ r \notin crossed
    BY <1>2 DEF Replacing, Resetting
  <2>2. req[r].row \in Stored /\ user[req[r].row].key = req[r].key
    BY <1>2, <2>1 DEF Answers, Replacing, IInv, Reqs, Calling
  <2>3. QED
    BY <2>1, <2>2
<1>3. QED
  BY <1>1, <1>2 DEF Answers

\* A reset begins: it and those of the row on their way overlap.
LEMMA AnswersFind ==
  ASSUME IInv, Answers, NEW r \in Requests, NEW u, NEW c \in Calls, At(r, "idle"),
         Begin(r, c), c.at \in {"confirm_key", "direct"}, c.row = u, Cross(r, u),
         UNCHANGED user
  PROVE  Answers'
<1>1. req'[r] = c /\ \A q \in Requests \ {r} : req'[q] = req[q]
  BY DEF Begin, IInv, Reqs
<1>2. crossed \subseteq crossed'
      /\ \A q \in Requests : q \in Keyed(u) => q \in crossed' /\ r \in crossed'
  BY DEF Cross
<1>3. \A q \in Requests \ {r} :
        req'[q].at \in Resetting /\ req'[q].row = u => q \in Keyed(u)
  BY <1>1 DEF Keyed, Resetting
<1>4. ASSUME NEW p \in Requests, NEW q \in Requests, p # q,
             req'[p].at \in Resetting, req'[q].at \in Resetting, req'[p].row = req'[q].row
      PROVE  p \in crossed'
  <2>1. CASE p # r /\ q # r
    BY <1>1, <1>2, <1>4, <2>1 DEF Answers
  <2>2. CASE p = r
    BY <1>1, <1>2, <1>3, <1>4, <2>2
  <2>3. CASE q = r
    BY <1>1, <1>2, <1>3, <1>4, <2>3
  <2>4. QED
    BY <2>1, <2>2, <2>3
<1>5. ASSUME NEW q \in Requests, q \notin crossed', req'[q].at \in Replacing
      PROVE  user'[req'[q].row].key = req'[q].key
  BY <1>1, <1>2, <1>5 DEF Answers, Replacing
<1>6. QED
  BY <1>4, <1>5 DEF Answers

\* A reset goes on: those of the row on their way have overlapped it.
LEMMA AnswersGoOn ==
  ASSUME IInv, Answers, NEW r \in Requests, NEW c \in Calls,
         Begin(r, c), UNCHANGED crossed, req[r].at \in Resetting, c.at \in Resetting,
         c.row = req[r].row, user'[c.row].key = c.key,
         \A v \in Stored \ {c.row} : user'[v].key = user[v].key
  PROVE  Answers'
<1>1. req'[r] = c /\ \A q \in Requests \ {r} : req'[q] = req[q]
  BY DEF Begin, IInv, Reqs
<1>2. ASSUME NEW p \in Requests, NEW q \in Requests, p # q,
             req'[p].at \in Resetting, req'[q].at \in Resetting, req'[p].row = req'[q].row
      PROVE  p \in crossed'
  BY <1>1, <1>2 DEF Answers
<1>3. ASSUME NEW q \in Requests, q \notin crossed', req'[q].at \in Replacing
      PROVE  user'[req'[q].row].key = req'[q].key
  <2>1. CASE q = r
    BY <1>1, <2>1
  <2>2. CASE q # r
    <3>1. req'[q] = req[q] /\ q \notin crossed /\ req[q].at \in Resetting
      BY <1>1, <1>3, <2>2 DEF Replacing, Resetting
    <3>2. req[q].row # c.row
      BY <2>2, <3>1 DEF Answers
    <3>3. req[q].row \in Stored /\ user[req[q].row].key = req[q].key
      BY <1>3, <3>1 DEF Answers, Replacing, IInv, Reqs, Calling
    <3>4. QED
      BY <3>1, <3>2, <3>3
  <2>3. QED
    BY <2>1, <2>2
<1>4. QED
  BY <1>2, <1>3 DEF Answers

LEMMA AnswersReset ==
  ASSUME IInv, Answers, NEW r \in Requests, ConfirmKey(r) \/ Direct(r) \/ ConfirmClear(r)
  PROVE  Answers'
<1>1. RowInv /\ req[r] \in Calls /\ Calling(r)
  BY DEF IInv, Reqs
<1>2. PICK u \in Stored : u = req[r].row
  BY <1>1 DEF ConfirmKey, Direct, ConfirmClear, At, Calling
<1>3. u \in Users /\ Stored \subseteq Users
  BY DEF Stored
<1>4. req[r].at \in Resetting /\ UNCHANGED crossed
  BY DEF ConfirmKey, Direct, ConfirmClear, At, Resetting
<1>5. CASE ConfirmKey(r) \/ Direct(r)
  <2>1. UpdateAPIKey(u)
    BY <1>2, <1>5 DEF ConfirmKey, Direct
  <2>2. /\ user'[u].key = NextNumber /\ NextNumber \in Nat
        /\ \A v \in Stored \ {u} : user'[v].key = user[v].key
    BY <1>1, <1>3, <2>1, KeyGrows, KeyFields
  <2>3. PICK c \in Calls :
          /\ Begin(r, c) /\ c.at \in Resetting /\ c.row = u /\ c.key = NextNumber
    <3>1. CASE ConfirmKey(r)
      <4> DEFINE c == [req[r] EXCEPT !.at = "confirm_clear", !.key = NextNumber]
      <4>1. c \in Calls /\ c.at \in Resetting /\ c.row = u /\ c.key = NextNumber
        BY <1>1, <1>2, <2>2, NextCalls DEF Calls, Resetting
      <4>2. QED
        BY <3>1, <4>1 DEF ConfirmKey
    <3>2. CASE Direct(r)
      <4> DEFINE c == Answering(r, NextNumber)
      <4>1. c \in Calls /\ c.at \in Resetting /\ c.row = u /\ c.key = NextNumber
        BY <1>1, <1>2, <2>2, NextCalls DEF Calls, Resetting, Answering
      <4>2. QED
        BY <3>2, <4>1 DEF Direct
    <3>3. QED
      BY <1>5, <3>1, <3>2
  <2>4. QED
    BY <1>2, <1>4, <2>2, <2>3, AnswersGoOn
<1>6. CASE ConfirmClear(r) /\ r \notin crossed
  <2>1. ClearResetToken(u) /\ At(r, "confirm_clear")
    BY <1>2, <1>6 DEF ConfirmClear
  <2>2. \A v \in Stored : user'[v].key = user[v].key
    BY <1>1, <1>3, <2>1, ClearFields
  <2>3. user[u].key = req[r].key /\ req[r].key \in Nat
    BY <1>1, <1>2, <1>6, <2>1 DEF Answers, At, Replacing, Calls
  <2>4. PICK c \in Calls :
          /\ Begin(r, c) /\ c.at \in Resetting /\ c.row = u /\ c.key = req[r].key
    <3> DEFINE c == Answering(r, req[r].key)
    <3>1. c \in Calls /\ c.at \in Resetting /\ c.row = u /\ c.key = req[r].key
      BY <1>1, <1>2, <2>3, NextCalls DEF Calls, Resetting, Answering
    <3>2. QED
      BY <1>6, <3>1 DEF ConfirmClear
  <2>5. QED
    BY <1>2, <1>4, <2>2, <2>3, <2>4, AnswersGoOn
<1>7. CASE ConfirmClear(r) /\ r \in crossed
  <2>1. ClearResetToken(u) /\ At(r, "confirm_clear") /\ Begin(r, Answering(r, req[r].key))
    BY <1>2, <1>7 DEF ConfirmClear
  <2>2. \A v \in Stored : user'[v].key = user[v].key
    BY <1>1, <1>3, <2>1, ClearFields
  <2>3. /\ req'[r].at \in Resetting /\ req'[r].row = req[r].row
        /\ \A q \in Requests \ {r} : req'[q] = req[q]
    BY <1>1, <2>1 DEF Begin, Answering, IInv, Reqs, Calls, Resetting
  <2>4. ASSUME NEW p \in Requests, NEW q \in Requests, p # q,
               req'[p].at \in Resetting, req'[q].at \in Resetting, req'[p].row = req'[q].row
        PROVE  p \in crossed'
    BY <1>4, <2>3, <2>4 DEF Answers
  <2>5. ASSUME NEW q \in Requests, q \notin crossed', req'[q].at \in Replacing
        PROVE  user'[req'[q].row].key = req'[q].key
    <3>1. req'[q] = req[q] /\ q \notin crossed
      BY <1>4, <1>7, <2>3, <2>5
    <3>2. req[q].row \in Stored /\ user[req[q].row].key = req[q].key
      BY <2>5, <3>1 DEF Answers, Replacing, IInv, Reqs, Calling
    <3>3. QED
      BY <2>2, <3>1, <3>2
  <2>6. QED
    BY <2>4, <2>5 DEF Answers
<1>8. QED
  BY <1>5, <1>6, <1>7

LEMMA AnswersStep == IInv /\ Answers /\ [Next]_vars => Answers'
<1> SUFFICES ASSUME IInv, Answers, [Next]_vars PROVE Answers'
  OBVIOUS
<1>1. CASE \E r \in Requests : ConfirmKey(r) \/ Direct(r) \/ ConfirmClear(r)
  BY <1>1, AnswersReset
<1>2. CASE \E r \in Requests, p \in Parties : \/ \E t \in tokens[p] : ConfirmFind(r, p, t)
                                              \/ \E u \in Users : DirectAuth(r, p, u)
  <2>1. PICK r \in Requests, p \in Parties : \/ \E t \in tokens[p] : ConfirmFind(r, p, t)
                                             \/ \E u \in Users : DirectAuth(r, p, u)
    BY <1>2
  <2>2. PICK u \in Users, place \in {"confirm_key", "direct"} :
          /\ At(r, "idle") /\ Cross(r, u) /\ UNCHANGED rowVars
          /\ Begin(r, [Idle EXCEPT !.at = place, !.to = p, !.row = u])
    BY <2>1 DEF ConfirmFind, DirectAuth, GetUserByResetToken, Stored
  <2>3. PICK c \in Calls : /\ c = [Idle EXCEPT !.at = place, !.to = p, !.row = u]
                           /\ c.at = place /\ c.row = u
    BY <2>2, NewCalls DEF Idle
  <2>4. QED
    BY <2>2, <2>3, AnswersFind DEF rowVars
<1>3. CASE /\ ~\E r \in Requests : ConfirmKey(r) \/ Direct(r) \/ ConfirmClear(r)
           /\ ~\E r \in Requests, p \in Parties : \/ \E t \in tokens[p] : ConfirmFind(r, p, t)
                                                  \/ \E u \in Users : DirectAuth(r, p, u)
  <2>1. \A v \in Stored : user'[v].key = user[v].key
    BY <1>3, KeysStand
  <2>2. CASE UNCHANGED <<req, crossed>>
    BY <2>1, <2>2, AnswersSame
  <2>3. ASSUME NEW r \in Requests, End(r) PROVE Answers'
    <3>1. /\ req'[r].at \notin Resetting /\ crossed' = crossed \ {r}
          /\ \A q \in Requests \ {r} : req'[q] = req[q]
      BY <2>3 DEF End, Idle, Resetting, IInv, Reqs
    <3>2. QED
      BY <2>1, <3>1, AnswersSame
  <2>4. ASSUME NEW r \in Requests, NEW c, Begin(r, c), c.at \notin Resetting, UNCHANGED crossed
        PROVE  Answers'
    <3>1. /\ req'[r].at \notin Resetting
          /\ \A q \in Requests \ {r} : req'[q] = req[q]
      BY <2>4 DEF Begin, IInv, Reqs
    <3>2. QED
      BY <2>1, <2>4, <3>1, AnswersSame
  <2>5. ASSUME NEW r \in Requests, RequestBegins(r) PROVE Answers'
    <3>1. \/ \E p \in People, n \in Names : RegisterCheck(r, p, n)
          \/ \E g \in GitHubs, to \in Parties : GitHubMiss(r, g, to)
          \/ \E p \in Parties : BindAuth(r, p)
      BY <1>3, <2>5 DEF RequestBegins
    <3>2. UNCHANGED crossed
      BY <3>1 DEF RegisterCheck, GitHubMiss, BindAuth
    <3>3. ASSUME NEW p \in People, NEW n \in Names, RegisterCheck(r, p, n) PROVE Answers'
      <4> DEFINE c == [Idle EXCEPT !.at = "register", !.to = p, !.name = n]
      <4>1. Begin(r, c) /\ c.at \notin Resetting
        BY <3>3 DEF RegisterCheck, Idle, Resetting
      <4> HIDE DEF c
      <4>2. QED
        BY <2>4, <3>2, <4>1
    <3>4. ASSUME NEW g \in GitHubs, NEW to \in Parties, GitHubMiss(r, g, to) PROVE Answers'
      <4>1. PICK i \in 1..Len(Candidates[g]) :
              Begin(r, [Idle EXCEPT !.at = "github_insert", !.by = g, !.to = to,
                                    !.name = Candidates[g][i]])
        BY <3>4 DEF GitHubMiss
      <4> DEFINE c == [Idle EXCEPT !.at = "github_insert", !.by = g, !.to = to,
                                   !.name = Candidates[g][i]]
      <4>2. Begin(r, c) /\ c.at \notin Resetting
        BY <4>1 DEF Idle, Resetting
      <4> HIDE DEF c
      <4>3. QED
        BY <2>4, <3>2, <4>2
    <3>5. ASSUME NEW p \in Parties, BindAuth(r, p) PROVE Answers'
      <4>1. PICK v : Begin(r, [Idle EXCEPT !.at = "bind_code", !.by = v])
        BY <3>5 DEF BindAuth
      <4> DEFINE c == [Idle EXCEPT !.at = "bind_code", !.by = v]
      <4>2. Begin(r, c) /\ c.at \notin Resetting
        BY <4>1 DEF Idle, Resetting
      <4> HIDE DEF c
      <4>3. QED
        BY <2>4, <3>2, <4>2
    <3>6. QED
      BY <3>1, <3>3, <3>4, <3>5
  <2>6. ASSUME NEW r \in Requests, RequestStep(r) PROVE Answers'
    <3>1. End(r) \/ \E u \in Users : BindCode(r, u)
      BY <1>3, <2>6 DEF RequestStep, Register, GitHubInsert, Bind, Answer, BreakOff
    <3>2. ASSUME NEW u \in Users, BindCode(r, u) PROVE Answers'
      <4> DEFINE c == [req[r] EXCEPT !.at = "bind", !.row = u,
                                     !.free = (user[u].observer = None)]
      <4>1. Begin(r, c) /\ c.at \notin Resetting /\ UNCHANGED crossed
        BY <3>2 DEF BindCode, IInv, Reqs, Calls, Resetting
      <4> HIDE DEF c
      <4>2. QED
        BY <2>4, <4>1
    <3>3. QED
      BY <2>3, <3>1, <3>2
  <2>7. CASE AtOnce
    BY <2>2, <2>7 DEF AtOnce, Login, GitHubFind, GitHubStray, GitHubReset, RowStep, AgeRow,
       UpdateProfile, ChangePassword
  <2>8. QED
    BY <2>2, <2>5, <2>6, <2>7 DEF Next, AtOnce, vars
<1>4. QED
  BY <1>1, <1>2, <1>3

\* reset_key.go: the key a reset answers with is the key the row then has,
\* unless a reset of the same row overlapped it.
THEOREM AnswerCorrect == Spec => []AnsweredKeyWorks
<1>1. Init => Answers
  <2> SUFFICES ASSUME Init PROVE Answers
    OBVIOUS
  <2>1. \A r \in Requests : req[r].at \notin Resetting /\ req[r].at \notin Replacing
    BY IdleCall DEF Init, Resetting, Replacing
  <2>2. QED
    BY <2>1 DEF Answers
<1>2. Answers => AnsweredKeyWorks
  BY DEF Answers, Replacing, At, AnsweredKeyWorks
<1>3. QED
  BY <1>1, <1>2, AnswersStep, Inductive, PTL DEF Spec
-----------------------------------------------------------------------------
(* The flows keep the promise of Credentials.  A number that has not been   *)
(* handed out is the key of no row yet.                                     *)

Unmade == \A k \in (issued + 1)..MaxIssued : made[k] = None

OwnerOf == [u \in Users |-> user[u].owner]
NameOf == [u \in Users |-> user[u].name]
KeyOf == [u \in Users |-> user[u].key]

QuietRows == SameOwners /\ UNCHANGED made /\ \A v \in Users : user'[v].key = user[v].key

LEMMA QuietViews ==
  ASSUME QuietRows
  PROVE  OwnerOf' = OwnerOf /\ NameOf' = NameOf /\ KeyOf' = KeyOf /\ made' = made
BY DEF QuietRows, SameOwners, OwnerOf, NameOf, KeyOf

LEMMA RowsQuiet ==
  ASSUME UNCHANGED rowVars
  PROVE  QuietRows
BY DEF rowVars, QuietRows, SameOwners

\* A row is opened when it is stored.
LEMMA OpenedStored ==
  ASSUME RowInv, NEW u \in Users
  PROVE  /\ OwnerOf[u] # None <=> u \in Stored
         /\ OwnerOf[u] = user[u].owner /\ NameOf[u] = user[u].name
BY DEF RowInv, OwnerOf, NameOf, Stored, NoRow

LEMMA UnmadeKept ==
  ASSUME RowInv, Unmade, issued' = issued \/ issued' = NextNumber, UNCHANGED made
  PROVE  Unmade'
BY DEF RowInv, Unmade, NextNumber

LEMMA UnmadeMakes ==
  ASSUME RowInv, Unmade, NEW u \in Users, issued' = NextNumber,
         made' = [made EXCEPT ![NextNumber] = u]
  PROVE  Unmade'
BY DEF RowInv, Unmade, NextNumber

\* Nothing is told, and no row changes what is told of it.
LEMMA PromiseStutter ==
  ASSUME QuietRows, UNCHANGED <<keys, strayed>>
  PROVE  [Promise!CredentialsNext]_(Promise!credentialVars)
BY QuietViews DEF Promise!credentialVars, Promise!accountVars, OwnerOf, NameOf, KeyOf

\* The page of one party at most is answered to for a row.
Shares(u) == UNCHANGED strayed \/ \E p \in Parties : strayed' = strayed \cup {<<p, u>>}

\* A key made for a row is told to a holder, or a page is answered to.
LEMMA PromiseRemind ==
  ASSUME IInv, IInv', QuietRows, NEW u \in Stored, NEW k \in 1..issued, made[k] = u, Shares(u),
         UNCHANGED keys \/ \E p \in Parties : TellKey(p, k)
  PROVE  [Promise!CredentialsNext]_(Promise!credentialVars)
<1>1. u \in Users /\ k \in 1..MaxIssued
  BY DEF Stored, IInv, RowInv
<1>2. ASSUME NEW p \in Parties, TellKey(p, k)
      PROVE  OwnerOf'[u] = p \/ <<p, u>> \in strayed'
  <2>1. k \in keys'[p]
    BY <1>2 DEF TellKey, IInv, Told
  <2>2. made'[k] = u
    BY DEF QuietRows
  <2>3. Holder(p, u)'
    BY <2>1, <2>2 DEF IInv, Told
  <2>4. QED
    BY <1>1, <2>3 DEF Holder, OwnerOf
<1>3. Promise!Tell(u, k)
  BY <1>2 DEF Promise!Tell, TellKey, OwnerOf
<1>4. Promise!Share(u)
  BY DEF Promise!Share, Shares
<1>5. Promise!Remind(u, k)
  BY <1>3, <1>4, QuietViews DEF Promise!Remind, Promise!accountVars, OwnerOf, NameOf, KeyOf
<1>6. QED
  BY <1>1, <1>5 DEF Promise!CredentialsNext

\* The key of a row is replaced by one that was never used.
LEMMA PromiseReplace ==
  ASSUME IInv, Unmade, NEW u \in Stored, UpdateAPIKey(u), UNCHANGED <<keys, strayed>>
  PROVE  Unmade' /\ [Promise!CredentialsNext]_(Promise!credentialVars)
<1>1. RowInv /\ u \in Users
  BY DEF IInv, Stored
<1>2. /\ user'[u].key = NextNumber /\ NextNumber \in 1..MaxIssued /\ issued' = NextNumber
      /\ \A v \in Users \ {u} : user'[v].key = user[v].key
      /\ SameOwners
  BY <1>1, KeyGrows, KeyFields
<1>3. made' = [made EXCEPT ![NextNumber] = u]
  BY DEF UpdateAPIKey
<1>4. PICK k \in 1..MaxIssued : k = NextNumber
  BY <1>2
<1>5. made[k] = None
  BY <1>4 DEF Unmade, NextNumber
<1>6. OwnerOf' = OwnerOf /\ NameOf' = NameOf /\ KeyOf' = [KeyOf EXCEPT ![u] = k]
  BY <1>1, <1>2, <1>4 DEF SameOwners, OwnerOf, NameOf, KeyOf
<1>7. Promise!Make(u, k)
  BY <1>3, <1>4, <1>5, <1>6 DEF Promise!Make, KeyOf
<1>8. OwnerOf[u] # None
  BY <1>1, OpenedStored
<1>9. Promise!Replace(u, k)
  BY <1>1, <1>4, <1>6, <1>8
     DEF Promise!Replace, Promise!Opened, OwnerOf, NameOf, KeyOf
<1>10. Unmade'
  BY <1>1, <1>2, <1>3, UnmadeMakes
<1>11. QED
  BY <1>1, <1>7, <1>9, <1>10 DEF Promise!CredentialsNext

\* A row is opened under a name nobody has, and its key told to a holder.
LEMMA PromiseOpen ==
  ASSUME IInv, IInv', Unmade, NEW u \in Users, Inserts(u)
  PROVE  Unmade' /\ [Promise!CredentialsNext]_(Promise!credentialVars)
<1>1. RowInv
  BY DEF IInv
<1>2. PICK n \in Names, p \in Parties :
        /\ Create(u, n, p) \/ (p \in GitHubs /\ CreateWithGitHub(u, n, p))
        /\ \/ UNCHANGED <<keys, strayed>>
           \/ \E to \in Parties : TellKey(to, NextNumber) /\ Stray(p, to, u)
  BY DEF Inserts
<1>3. PICK row \in Row :
        Insert(u, row) /\ row.name = n /\ row.owner = p /\ row.key = NextNumber
  <2>1. NextNumber \in Nat
    BY <1>1 DEF RowInv, NextNumber
  <2>2. CASE Create(u, n, p)
    <3> DEFINE row == [NoRow EXCEPT !.name = n, !.owner = p, !.key = NextNumber,
                                    !.code = TRUE, !.recent = TRUE]
    <3>1. row \in Row /\ row.name = n /\ row.owner = p /\ row.key = NextNumber
      BY <2>1 DEF NoRow, Row
    <3>2. Insert(u, row)
      BY <2>2 DEF Create
    <3> HIDE DEF row
    <3>3. QED
      BY <3>1, <3>2
  <2>3. CASE p \in GitHubs /\ CreateWithGitHub(u, n, p)
    <3> DEFINE row == [NoRow EXCEPT !.name = n, !.owner = p, !.github = p,
                                    !.key = NextNumber, !.recent = TRUE]
    <3>1. row \in Row /\ row.name = n /\ row.owner = p /\ row.key = NextNumber
      BY <2>1, <2>3 DEF NoRow, Row
    <3>2. Insert(u, row)
      BY <2>3 DEF CreateWithGitHub
    <3> HIDE DEF row
    <3>3. QED
      BY <3>1, <3>2
  <2>4. QED
    BY <1>2, <2>2, <2>3
<1>4. /\ u \notin Stored /\ GetByUsername(n) = {}
      /\ issued < MaxIssued /\ issued' = NextNumber /\ issued \in Nat
      /\ user' = [user EXCEPT ![u] = row]
      /\ made' = [made EXCEPT ![NextNumber] = u]
      /\ user \in [Users -> Row]
  BY <1>1, <1>3 DEF Insert, Fresh, RowInv
<1>5. PICK k \in 1..MaxIssued : k = NextNumber
  BY <1>4 DEF NextNumber
<1>6. made[k] = None
  BY <1>5 DEF Unmade, NextNumber
<1>7. /\ OwnerOf' = [OwnerOf EXCEPT ![u] = p]
      /\ NameOf' = [NameOf EXCEPT ![u] = n]
      /\ KeyOf' = [KeyOf EXCEPT ![u] = k]
  BY <1>3, <1>4, <1>5 DEF OwnerOf, NameOf, KeyOf
<1>8. /\ OwnerOf[u] = None
      /\ \A v \in Users : OwnerOf[v] # None => NameOf[v] # n
  BY <1>1, <1>4, OpenedStored DEF GetByUsername
<1>9. Promise!Make(u, k)
  BY <1>4, <1>5, <1>6, <1>7 DEF Promise!Make, KeyOf
<1>10. Promise!Share(u)
  BY <1>2 DEF Promise!Share, Stray
<1>11. ASSUME NEW to \in Parties, TellKey(to, k)
       PROVE  OwnerOf'[u] = to \/ <<to, u>> \in strayed'
  <2>1. k \in keys'[to]
    BY <1>11 DEF TellKey, IInv, Told
  <2>2. made'[k] = u
    BY <1>1, <1>4, <1>5 DEF RowInv
  <2>3. Holder(to, u)'
    BY <2>1, <2>2 DEF IInv, Told
  <2>4. QED
    BY <2>3 DEF Holder, OwnerOf
<1>12. Promise!Tell(u, k)
  <2>1. UNCHANGED keys \/ \E to \in Parties : TellKey(to, k)
    BY <1>2, <1>5
  <2>2. QED
    BY <1>11, <2>1 DEF Promise!Tell, TellKey, OwnerOf
<1>13. Promise!Open(u, k, p, n)
  BY <1>7, <1>8, <1>10, <1>12 DEF Promise!Open, Promise!Opened, OwnerOf, NameOf
<1>14. Unmade'
  BY <1>1, <1>4, UnmadeMakes
<1>15. QED
  BY <1>9, <1>13, <1>14 DEF Promise!CredentialsNext

\* The statements that make no key.
LEMMA QuietStatements ==
  ASSUME RowInv, NEW u \in Users,
         \/ Touch(u) \/ Age(u) \/ ClearResetToken(u) \/ UpdateResetToken(u)
         \/ \E o \in Users : BindObserver(u, o)
  PROVE  QuietRows /\ (issued' = issued \/ issued' = NextNumber)
<1>1. CASE Touch(u) \/ Age(u) \/ \E o \in Users : BindObserver(u, o)
  BY <1>1, BindFields DEF QuietRows, Touch, Age, BindObserver
<1>2. CASE ClearResetToken(u)
  BY <1>2, ClearFields DEF QuietRows, ClearResetToken
<1>3. CASE UpdateResetToken(u)
  BY <1>3, TokenFields DEF QuietRows, UpdateResetToken
<1>4. QED
  BY <1>1, <1>2, <1>3

\* The key of a row, told by a sign-in or held by who gets through the
\* middleware.
LEMMA RemindRow ==
  ASSUME IInv, IInv', QuietRows, NEW u \in Stored, Shares(u),
         UNCHANGED keys \/ \E p \in Parties : TellKey(p, user[u].key)
  PROVE  [Promise!CredentialsNext]_(Promise!credentialVars)
<1>1. PICK k \in 1..issued : k = user[u].key /\ made[k] = u
  BY DEF IInv, RowInv
<1>2. QED
  BY <1>1, PromiseRemind

LEMMA AuthShares ==
  ASSUME NEW p \in Parties, NEW u, Authenticated(p, u)
  PROVE  u \in Stored /\ Shares(u)
BY DEF Authenticated, SignedIn, Shares, Stray

\* What Login and GitHubFind tell is the key of the row they found.
LEMMA RemindAtOnce ==
  ASSUME IInv, IInv',
         \/ \E p \in Passwords, n \in Names : Login(p, n)
         \/ \E g \in GitHubs, to \in Parties : GitHubFind(g, to)
         \/ \E p \in Parties, u \in Users : UpdateProfile(p, u) \/ ChangePassword(p, u)
  PROVE  [Promise!CredentialsNext]_(Promise!credentialVars)
<1>1. RowInv
  BY DEF IInv
<1>2. ASSUME NEW p \in Passwords, NEW n \in Names, Login(p, n)
      PROVE  [Promise!CredentialsNext]_(Promise!credentialVars)
  <2>1. PICK u \in Stored : TellKey(p, user[u].key)
    BY <1>2 DEF Login, GetByUsername
  <2>2. QuietRows /\ Shares(u) /\ p \in Parties
    BY <1>2, RowsQuiet, AccountsAssumption DEF Login, Shares, Parties
  <2>3. QED
    BY <2>1, <2>2, RemindRow
<1>3. ASSUME NEW g \in GitHubs, NEW to \in Parties, GitHubFind(g, to)
      PROVE  [Promise!CredentialsNext]_(Promise!credentialVars)
  <2>1. PICK u \in Stored :
          TellKey(to, user[u].key) /\ (Touch(u) \/ UNCHANGED rowVars) /\ Stray(g, to, u)
    BY <1>3 DEF GitHubFind, GetByGitHubID
  <2>2. u \in Users /\ Shares(u)
    BY <2>1 DEF Stored, Shares, Stray
  <2>3. QuietRows
    BY <1>1, <2>1, <2>2, RowsQuiet, QuietStatements
  <2>4. QED
    BY <2>1, <2>2, <2>3, RemindRow
<1>4. ASSUME NEW p \in Parties, NEW u \in Users, UpdateProfile(p, u) \/ ChangePassword(p, u)
      PROVE  [Promise!CredentialsNext]_(Promise!credentialVars)
  <2>1. Authenticated(p, u) /\ Touch(u) /\ UNCHANGED keys
    BY <1>4 DEF UpdateProfile, ChangePassword
  <2>2. QuietRows
    BY <1>1, <2>1, QuietStatements
  <2>3. QED
    BY <2>1, <2>2, AuthShares, RemindRow
<1>5. QED
  BY <1>2, <1>3, <1>4

\* A reset answers with a key made for the row, even if it stands no more.
LEMMA RemindAnswer ==
  ASSUME IInv, IInv', NEW r \in Requests,
         Answer(r) \/ \E p \in Parties, u \in Users : DirectAuth(r, p, u)
  PROVE  [Promise!CredentialsNext]_(Promise!credentialVars)
<1>1. Calling(r)
  BY DEF IInv, Reqs
<1>2. CASE Answer(r)
  <2>1. PICK u \in Stored, k \in 1..issued, p \in Parties :
          u = req[r].row /\ k = req[r].key /\ p = req[r].to /\ made[k] = u
    BY <1>1, <1>2 DEF Calling, Answer, At
  <2>2. TellKey(p, k) /\ UNCHANGED rowVars /\ UNCHANGED strayed
    BY <1>2, <2>1 DEF Answer
  <2>3. QED
    BY <2>1, <2>2, RowsQuiet, PromiseRemind DEF Shares
<1>3. ASSUME NEW p \in Parties, NEW u \in Users, DirectAuth(r, p, u)
      PROVE  [Promise!CredentialsNext]_(Promise!credentialVars)
  <2>1. Authenticated(p, u) /\ UNCHANGED rowVars /\ UNCHANGED keys
    BY <1>3 DEF DirectAuth
  <2>2. QED
    BY <2>1, RowsQuiet, AuthShares, RemindRow
<1>4. QED
  BY <1>2, <1>3

\* The keys of rows are replaced.
LEMMA Replaces ==
  ASSUME IInv, Unmade, NEW r \in Requests, ConfirmKey(r) \/ Direct(r)
  PROVE  Unmade' /\ [Promise!CredentialsNext]_(Promise!credentialVars)
<1>1. PICK u \in Stored : u = req[r].row
  BY DEF IInv, Reqs, Calling, ConfirmKey, Direct, At
<1>2. UpdateAPIKey(u) /\ UNCHANGED <<keys, strayed>>
  BY <1>1 DEF ConfirmKey, Direct, toldVars
<1>3. QED
  BY <1>1, <1>2, PromiseReplace

\* The other steps tell nothing and make no key.
LEMMA OthersStutter ==
  ASSUME IInv, [Next]_vars,
         \A p \in Passwords, n \in Names : ~Login(p, n),
         \A g \in GitHubs, to \in Parties : ~GitHubFind(g, to),
         \A p \in Parties, u \in Users : ~UpdateProfile(p, u) /\ ~ChangePassword(p, u),
         \A r \in Requests, p \in Parties, u \in Users : ~DirectAuth(r, p, u),
         \A r \in Requests : /\ ~Answer(r) /\ ~ConfirmKey(r) /\ ~Direct(r)
                             /\ ~Register(r) /\ ~GitHubInsert(r)
  PROVE  QuietRows /\ UNCHANGED <<keys, strayed>>
<1>1. RowInv
  BY DEF IInv
<1>2. ASSUME NEW r \in Requests, Bind(r) \/ ConfirmClear(r)
      PROVE  QuietRows /\ UNCHANGED <<keys, strayed>>
  <2>1. /\ req[r].row \in Users /\ UNCHANGED <<keys, strayed>>
        /\ ClearResetToken(req[r].row) \/ \E o \in Users : BindObserver(req[r].row, o)
    BY <1>2, Writers DEF ConfirmClear, Bind, toldVars
  <2>2. QED
    BY <1>1, <2>1, QuietStatements
<1>3. ASSUME NEW r \in Requests, RequestBegins(r)
      PROVE  QuietRows /\ UNCHANGED <<keys, strayed>>
  <2>1. UNCHANGED rowVars /\ UNCHANGED <<keys, strayed>>
    BY <1>3 DEF RequestBegins, RegisterCheck, GitHubMiss, ConfirmFind, BindAuth, toldVars
  <2>2. QED
    BY <2>1, RowsQuiet, SMTT(60)
<1>4. ASSUME NEW r \in Requests, RequestStep(r)
      PROVE  QuietRows /\ UNCHANGED <<keys, strayed>>
  <2>1. CASE Bind(r) \/ ConfirmClear(r)
    BY <1>2, <2>1
  <2>2. CASE ~Bind(r) /\ ~ConfirmClear(r)
    <3>1. UNCHANGED rowVars /\ UNCHANGED <<keys, strayed>>
      BY <1>4, <2>2 DEF RequestStep, BreakOff, BindCode, toldVars
    <3>2. QED
      BY <3>1, RowsQuiet
  <2>3. QED
    BY <2>1, <2>2
<1>5. ASSUME NEW u \in Users, RowStep(u) PROVE QuietRows /\ UNCHANGED <<keys, strayed>>
  <2>1. Age(u) /\ UNCHANGED <<keys, strayed>>
    BY <1>5 DEF RowStep, AgeRow, toldVars
  <2>2. QED
    BY <1>1, <2>1, QuietStatements
<1>6. ASSUME NEW g \in GitHubs, GitHubStray(g) \/ \E n \in Names : GitHubReset(g, n)
      PROVE  QuietRows /\ UNCHANGED <<keys, strayed>>
  <2>1. /\ UNCHANGED <<keys, strayed>>
        /\ \E u \in Users : Touch(u) \/ UpdateResetToken(u)
    BY <1>6 DEF GitHubStray, GitHubReset, GetByGitHubID, Stored, toldVars
  <2>2. QED
    BY <1>1, <2>1, QuietStatements
<1>7. CASE UNCHANGED vars
  BY <1>7, RowsQuiet DEF vars, rowVars
<1>8. QED
  BY <1>3, <1>4, <1>5, <1>6, <1>7 DEF Next

LEMMA UnmadeStep == IInv /\ Unmade /\ [Next]_vars => Unmade'
<1> SUFFICES ASSUME IInv, Unmade, [Next]_vars PROVE Unmade'
  OBVIOUS
<1>1. RowInv
  BY DEF IInv
<1>2. CASE UNCHANGED rowVars
  BY <1>1, <1>2, UnmadeKept DEF rowVars
<1>3. ASSUME NEW u \in Users, Touch(u) \/ Age(u) PROVE Unmade'
  BY <1>1, <1>3, QuietStatements, UnmadeKept DEF QuietRows
<1>4. ASSUME NEW u \in Users, Inserts(u) PROVE Unmade'
  BY <1>4, SafeStep, PromiseOpen
<1>5. ASSUME NEW r \in Requests, ConfirmKey(r) \/ Direct(r) PROVE Unmade'
  BY <1>5, Replaces
<1>6. ASSUME NEW r \in Requests, ConfirmClear(r) \/ Bind(r) PROVE Unmade'
  <2>1. /\ req[r].row \in Users
        /\ ClearResetToken(req[r].row) \/ \E o \in Users : BindObserver(req[r].row, o)
    BY <1>6, Writers DEF ConfirmClear, Bind
  <2>2. QED
    BY <1>1, <2>1, QuietStatements, UnmadeKept DEF QuietRows
<1>7. ASSUME NEW g \in GitHubs, NEW n \in Names, GitHubReset(g, n) PROVE Unmade'
  <2>1. PICK u \in Users : UpdateResetToken(u)
    BY <1>7 DEF GitHubReset, GetByGitHubID, Stored
  <2>2. QED
    BY <1>1, <2>1, QuietStatements, UnmadeKept DEF QuietRows
<1>8. QED
  BY <1>2, <1>3, <1>4, <1>5, <1>6, <1>7, Kinds

LEMMA PromiseStep ==
  IInv /\ Unmade /\ [Next]_vars => [Promise!CredentialsNext]_(Promise!credentialVars)
<1> SUFFICES ASSUME IInv, Unmade, [Next]_vars
             PROVE  [Promise!CredentialsNext]_(Promise!credentialVars)
  OBVIOUS
<1>1. IInv'
  BY SafeStep
<1>2. CASE \E r \in Requests : Register(r) \/ GitHubInsert(r)
  BY <1>1, <1>2, RegisterInserts, PromiseOpen
<1>3. CASE \E r \in Requests : ConfirmKey(r) \/ Direct(r)
  BY <1>3, Replaces
<1>4. CASE \E r \in Requests :
             Answer(r) \/ \E p \in Parties, u \in Users : DirectAuth(r, p, u)
  BY <1>1, <1>4, RemindAnswer
<1>5. CASE \/ \E p \in Passwords, n \in Names : Login(p, n)
           \/ \E g \in GitHubs, to \in Parties : GitHubFind(g, to)
           \/ \E p \in Parties, u \in Users : UpdateProfile(p, u) \/ ChangePassword(p, u)
  BY <1>1, <1>5, RemindAtOnce
<1>6. QED
  BY <1>2, <1>3, <1>4, <1>5, OthersStutter, PromiseStutter

\* auth.go, github.go, reset_key.go: whatever races or breaks off, accounts do
\* not change hands or names, keys are used once, and are told to owners and to
\* pages that a sign-in of the owner was answered to.
THEOREM PromiseCorrect == Spec => CredentialsSpec
<1>1. Init => Unmade
  BY DEF Init, RowsInit, Unmade
<1>2. Init => Promise!CredentialsInit
  BY DEF Init, RowsInit, NoRow, Promise!CredentialsInit
<1>3. QED
  BY <1>1, <1>2, UnmadeStep, PromiseStep, Inductive, PTL
     DEF Spec, CredentialsSpec, Promise!CredentialsSpec

-----------------------------------------------------------------------------
(* What Credentials promises, told of one key: once replaced, it never      *)
(* authenticates anybody again.                                             *)

HasKey(u, k) == user[u].key = k
Dead(k) == \A v \in Users : user[v].key # k
\* The key was made for the row, which has another.
Replaced(u, k) == made[k] = u /\ user[u].key # k

LEMMA KeyMade ==
  ASSUME IInv, NEW u \in Users, NEW k \in 1..MaxIssued, HasKey(u, k)
  PROVE  made[k] = u
<1>1. u \in Stored
  BY DEF IInv, RowInv, NoRow, HasKey
<1>2. QED
  BY <1>1 DEF IInv, RowInv, HasKey

LEMMA ReplacedDead ==
  ASSUME IInv, NEW u \in Users, NEW k \in 1..MaxIssued, Replaced(u, k)
  PROVE  Dead(k)
BY KeyMade DEF Replaced, Dead, HasKey

\* No step of the flows takes up a key that was made before.
LEMMA MadeBefore ==
  ASSUME [Promise!CredentialsNext]_(Promise!credentialVars), IInv, IInv',
         NEW u \in Users, NEW k \in 1..MaxIssued, made[k] = u
  PROVE  made'[k] = u /\ (user[u].key # k => user'[u].key # k)
<1>1. CASE UNCHANGED Promise!credentialVars
  <2>1. UNCHANGED <<KeyOf, made>>
    BY <1>1 DEF Promise!credentialVars, Promise!accountVars, KeyOf
  <2>2. QED
    BY <2>1 DEF KeyOf
<1>2. ASSUME NEW v \in Users, NEW n \in 1..MaxIssued, Promise!Remind(v, n)
      PROVE  UNCHANGED <<KeyOf, made>>
  BY <1>2 DEF Promise!Remind, Promise!accountVars, KeyOf
<1>3. ASSUME NEW v \in Users, NEW n \in 1..MaxIssued, Promise!Make(v, n)
      PROVE  made'[k] = u /\ (user[u].key # k => user'[u].key # k)
  <2>1. made[n] = None /\ made' = [made EXCEPT ![n] = v] /\ KeyOf' = [KeyOf EXCEPT ![v] = n]
    BY <1>3 DEF Promise!Make, KeyOf
  <2>2. n # k /\ made'[k] = u
    BY <2>1 DEF IInv, RowInv
  <2>3. KeyOf'[u] \in {KeyOf[u], n}
    BY <2>1 DEF KeyOf
  <2>4. QED
    BY <2>2, <2>3 DEF KeyOf
<1>4. QED
  BY <1>1, <1>2, <1>3 DEF Promise!CredentialsNext, KeyOf

\* reset_key.go, github.go: an API key that was replaced is the key of no
\* account ever after, so what was leaked or lost stays void.
THEOREM ReplacedStaysVoid ==
  ASSUME NEW u \in Users, NEW k \in 1..MaxIssued
  PROVE  Spec => [](HasKey(u, k) => [](~HasKey(u, k) => []Dead(k)))
<1>1. IInv /\ HasKey(u, k) => made[k] = u
  BY KeyMade
<1>2. IInv /\ IInv' /\ made[k] = u /\ [Promise!CredentialsNext]_(Promise!credentialVars)
        => (made[k] = u)' /\ (~HasKey(u, k) => ~HasKey(u, k)')
  BY MadeBefore DEF HasKey
<1>3. IInv /\ made[k] = u /\ ~HasKey(u, k) => Dead(k)
  BY ReplacedDead DEF Replaced, HasKey
<1>4. Spec => [][Promise!CredentialsNext]_(Promise!credentialVars)
  BY PromiseCorrect, PTL DEF CredentialsSpec, Promise!CredentialsSpec
<1>5. QED
  BY <1>1, <1>2, <1>3, <1>4, Inductive, PTL

=============================================================================
