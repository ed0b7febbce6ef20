----------------------------- MODULE Engagement -----------------------------
(***************************************************************************)
(* What users leave on an asset: favourites, reviews and the average of    *)
(* their scores, installs and downloads and the counts of them             *)
(* (internal/handler/review.go and asset.go, internal/repository/          *)
(* favorite.go, review.go, asset_install.go and asset.go).  A request is   *)
(* a goroutine that does one statement after another; requests of one user *)
(* may overlap.                                                            *)
(*                                                                         *)
(* An install is recorded per user and instance, a download per user: both *)
(* by one transaction, a row first and the count of the asset after it.    *)
(* PostgreSQL makes a transaction wait for the key of a row that another   *)
(* has inserted, and for the asset that another has updated, until that    *)
(* one ends.  An average is kept as the scores it was computed from.       *)
(***************************************************************************)
EXTENDS Naturals, FiniteSets

CONSTANTS
  Assets,      \* asset ids, one use each
  Users,       \* reviewers, and who keeps favourites
  Holders,     \* of installs, a user with an instance, and of downloads
  Author,      \* a holder who may download what is not approved
  Scores,      \* what a review may say, as one number
  Requests,    \* goroutines serving HTTP calls
  Goroutines,  \* recomputations of averages under way: named bound
  None

ASSUME EngagementAssumption ==
  /\ Scores \subseteq Nat \ {0}
  /\ None \notin Assets \cup Users \cup Holders

VARIABLES
  asset,    \* "approved", "unapproved" or "deleted"
  fav,      \* table asset_favorites
  score,    \* table reviews, 0 for no row
  average,  \* the scores that avg_rating was computed from
  rows,     \* committed rows of asset_installs and asset_downloads
  count,    \* install_count and download_count
  req,      \* what each request is doing and has read
  comp,     \* the recomputations
  odd,      \* history: an odd number of toggles were answered
  crossed,  \* history: two toggles of one favourite have overlapped
  told,     \* history: the scores one of which stands, all told or lost
  missed    \* history: since the last review a recomputation failed or overlapped

tableVars == <<asset, fav, score, average, rows, count>>
historyVars == <<odd, crossed, told, missed>>
vars == <<tableVars, req, comp, historyVars>>

Tables == {"install", "download"}
Places == {"idle", "toggle", "review", "answer", "insert", "count", "commit"}
Idle == [at |-> "idle", table |-> "install", who |-> None, asset |-> None,
         seen |-> FALSE, value |-> 0]
Resting == [at |-> "none", asset |-> None, seen |-> [u \in Users |-> 0]]
NoScores == [u \in Users |-> 0]

Init ==
  /\ asset = [a \in Assets |-> "unapproved"]
  /\ fav = {}
  /\ score = [a \in Assets |-> NoScores]
  /\ average = [a \in Assets |-> NoScores]
  /\ rows = [t \in Tables |-> {}]
  /\ count = [t \in Tables |-> [a \in Assets |-> 0]]
  /\ req = [r \in Requests |-> Idle]
  /\ comp = [g \in Goroutines |-> Resting]
  /\ odd = {}
  /\ crossed = {}
  /\ told = [a \in Assets |-> [u \in Users |-> {0}]]
  /\ missed = {}

Present(a) == asset[a] # "deleted"
At(r, place) == req[r].at = place
Begin(r, call) == req' = [req EXCEPT ![r] = call]
Advance(r, place) == req' = [req EXCEPT ![r].at = place]
ToAnswer(r) == req' = [req EXCEPT ![r].at = "answer", ![r].seen = FALSE]
End(r) == req' = [req EXCEPT ![r] = Idle]

Key(r) == <<req[r].who, req[r].asset>>
Answering(k) == {r \in Requests : At(r, "answer") /\ Key(r) = k}
HasInserted(r) == req[r].at \in {"count", "commit"}
HasCounted(r) == req[r].at = "commit"
Flip(k) == IF k \in crossed THEN odd ELSE (odd \ {k}) \cup ({k} \ odd)

\* Wrong: review.ID = existing.ID left out, so that an UPDATE finds no row.
ScoredWithoutId(r) ==
  IF Present(req[r].asset) /\ ~req[r].seen
    THEN [score EXCEPT ![req[r].asset][req[r].who] = req[r].value]
    ELSE score

\* The reviews with that of the request: none of an asset that is gone.
Scored(r) ==
  IF Present(req[r].asset)
    THEN [score EXCEPT ![req[r].asset][req[r].who] = req[r].value]
    ELSE score

\* What was told of a review before it is stored anew is history, once none of
\* those that stored it is still to be answered.
Forget(r) ==
  told' = IF Answering(Key(r)) = {} THEN [told EXCEPT ![req[r].asset][req[r].who] = {}] ELSE told

\* The answers of requests arrive, or are lost, in any order.
Tell(ended) ==
  told' = [a \in Assets |-> [u \in Users |->
             told[a][u] \cup {req[r].value : r \in ended \cap Answering(<<u, a>>)}]]

-----------------------------------------------------------------------------
(* Wrong forms of actions below, each a plausible slip in the code.        *)

\* The count is read by a statement and written by another, without a lock.
UpdateCountUnlocked(r) ==
  /\ At(r, "count")
  /\ req' = [req EXCEPT ![r].at = "commit",
                        ![r].value = count[req[r].table][req[r].asset] + 1]
  /\ UNCHANGED <<tableVars, comp, historyVars>>

\* A deleted asset is only marked.
DeleteMarks(a) ==
  /\ Present(a)
  /\ asset' = [asset EXCEPT ![a] = "deleted"]
  /\ UNCHANGED <<fav, score, average, rows, count, req, comp, historyVars>>

\* The error of the DELETE is not looked at.
ToggleDeleteUnchecked(r) ==
  /\ At(r, "toggle")
  /\ req[r].seen
  /\ fav' \in {fav, fav \ {Key(r)}}
  /\ odd' = Flip(Key(r))
  /\ End(r)
  /\ UNCHANGED <<asset, score, average, rows, count, comp, crossed, told, missed>>

\* Only a new review has the average recomputed.
ReviewUpdateAlone(r) ==
  /\ At(r, "review")
  /\ req[r].seen
  /\ score' = Scored(r)
  /\ Forget(r)
  /\ ToAnswer(r)
  /\ missed' = missed \ {req[r].asset}
  /\ UNCHANGED <<asset, fav, average, rows, count, comp, odd, crossed>>

-----------------------------------------------------------------------------
(* ToggleFavorite: test, then delete or insert.                            *)

ToggleTest(r, u, a) ==
  LET call == [Idle EXCEPT !.at = "toggle", !.who = u, !.asset = a,
                           !.seen = <<u, a>> \in fav]
      others == {s \in Requests : At(s, "toggle") /\ Key(s) = <<u, a>>} IN
  /\ At(r, "idle")
  /\ asset[a] = "approved"
  /\ Begin(r, call)
  /\ crossed' = IF others = {} THEN crossed ELSE crossed \cup {<<u, a>>}
  /\ odd' = odd \ crossed'
  /\ UNCHANGED <<tableVars, comp, told, missed>>

ToggleDelete(r) ==
  /\ At(r, "toggle")
  /\ req[r].seen
  /\ fav' = fav \ {Key(r)}
  /\ odd' = Flip(Key(r))
  /\ End(r)
  /\ UNCHANGED <<asset, score, average, rows, count, comp, crossed, told, missed>>

\* A row that is there by now makes the insertion fail: BreakOff.
ToggleInsert(r) ==
  /\ At(r, "toggle")
  /\ ~req[r].seen
  /\ Present(req[r].asset)
  /\ Key(r) \notin fav
  /\ fav' = fav \cup {Key(r)}
  /\ odd' = Flip(Key(r))
  /\ End(r)
  /\ UNCHANGED <<asset, score, average, rows, count, comp, crossed, told, missed>>

-----------------------------------------------------------------------------
(* Create, of a review: look for one, then update or insert, then have the *)
(* average recomputed by a goroutine, then answer.  A failed look-up counts*)
(* as none.  The goroutine begins with the statement: one that never does, *)
(* because the process ends, is one that has done nothing when it ends.    *)

ReviewFind(r, u, a, s) ==
  /\ At(r, "idle")
  /\ asset[a] = "approved"
  /\ \E seen \in {FALSE, score[a][u] # 0} :
       Begin(r, [Idle EXCEPT !.at = "review", !.who = u, !.asset = a,
                             !.seen = seen, !.value = s])
  /\ UNCHANGED <<tableVars, comp, historyVars>>

StoreReview(r) ==
  LET a == req[r].asset IN
  /\ score' = Scored(r)
  /\ Forget(r)
  /\ \E g \in Goroutines :
       /\ comp[g].at = "none"
       /\ comp' = [comp EXCEPT ![g].at = "start", ![g].asset = a]
  /\ missed' = missed \ {a}
  /\ ToAnswer(r)
  /\ UNCHANGED <<asset, fav, average, rows, count, odd, crossed>>

\* By id: a row that went with its asset meanwhile is not missed.
ReviewUpdate(r) ==
  /\ At(r, "review")
  /\ req[r].seen
  /\ StoreReview(r)

ReviewCreate(r) ==
  /\ At(r, "review")
  /\ ~req[r].seen
  /\ Present(req[r].asset)
  /\ score[req[r].asset][req[r].who] = 0
  /\ StoreReview(r)

AnswerReview(r) ==
  /\ At(r, "answer")
  /\ Tell({r})
  /\ End(r)
  /\ UNCHANGED <<tableVars, comp, odd, crossed, missed>>

\* UpdateAvgRating: the statement computes the average from the rows it sees
\* when it starts, then waits for the asset if another updates it, and writes.
AverageRead(g) ==
  LET a == comp[g].asset
      overlaps == \E h \in Goroutines : comp[h].at = "read" /\ comp[h].asset = a IN
  /\ comp[g].at = "start"
  /\ comp' = [comp EXCEPT ![g].at = "read", ![g].seen = score[a]]
  /\ missed' = IF overlaps THEN missed \cup {a} ELSE missed
  /\ UNCHANGED <<tableVars, req, odd, crossed, told>>

AverageWrite(g) ==
  LET a == comp[g].asset IN
  /\ comp[g].at = "read"
  /\ \A r \in Requests : HasCounted(r) => req[r].asset # a
  /\ average' = IF Present(a) THEN [average EXCEPT ![a] = comp[g].seen] ELSE average
  /\ comp' = [comp EXCEPT ![g] = Resting]
  /\ UNCHANGED <<asset, fav, score, rows, count, req, historyVars>>

\* Nobody looks at its error.
AverageFail(g) ==
  /\ comp[g].at # "none"
  /\ comp' = [comp EXCEPT ![g] = Resting]
  /\ missed' = missed \cup {comp[g].asset}
  /\ UNCHANGED <<tableVars, req, odd, crossed, told>>

-----------------------------------------------------------------------------
(* Install and IncrementDownloadCount.                                     *)

MayCount(t, h, a) ==
  \/ asset[a] = "approved"
  \/ t = "download" /\ h = Author /\ Present(a)

CountBegin(r, t, h, a) ==
  /\ At(r, "idle")
  /\ MayCount(t, h, a)
  /\ Begin(r, [Idle EXCEPT !.at = "insert", !.table = t, !.who = h, !.asset = a])
  /\ UNCHANGED <<tableVars, comp, historyVars>>

InsertRow(r) ==
  LET t == req[r].table IN
  /\ At(r, "insert")
  /\ Present(req[r].asset)
  /\ Key(r) \notin rows[t]
  /\ \A s \in Requests : HasInserted(s) => req[s].table # t \/ Key(s) # Key(r)
  /\ Advance(r, "count")
  /\ UNCHANGED <<tableVars, comp, historyVars>>

\* ON CONFLICT DO NOTHING: nothing more is done.
InsertNothing(r) ==
  /\ At(r, "insert")
  /\ Key(r) \in rows[req[r].table]
  /\ End(r)
  /\ UNCHANGED <<tableVars, comp, historyVars>>

\* The asset is locked until the transaction ends.
UpdateCount(r) ==
  /\ At(r, "count")
  /\ \A s \in Requests : HasCounted(s) => req[s].asset # req[r].asset
  /\ req' = [req EXCEPT ![r].at = "commit",
                        ![r].value = count[req[r].table][req[r].asset] + 1]
  /\ UNCHANGED <<tableVars, comp, historyVars>>

Commit(r) ==
  LET t == req[r].table IN
  /\ At(r, "commit")
  /\ rows' = [rows EXCEPT ![t] = @ \cup {Key(r)}]
  /\ count' = [count EXCEPT ![t][req[r].asset] = req[r].value]
  /\ End(r)
  /\ UNCHANGED <<asset, fav, score, average, comp, historyVars>>

\* A statement fails, on a key or on an asset that is gone included: an open
\* transaction is rolled back, and nothing is answered but an error.
BreakOff(r) ==
  /\ req[r].at \notin {"idle", "answer"}
  /\ End(r)
  /\ UNCHANGED <<tableVars, comp, historyVars>>

-----------------------------------------------------------------------------
(* The asset itself, as AssetReview has it: it is approved or not, and its *)
(* author may delete it.  No ON DELETE CASCADE stands on favourites and    *)
(* downloads: one of them makes the deletion fail, for good.  Notifications*)
(* of the asset only forget it (ON DELETE SET NULL).                       *)

Decide(a) ==
  /\ Present(a)
  /\ asset' = [asset EXCEPT ![a] = IF @ = "approved" THEN "unapproved" ELSE "approved"]
  /\ UNCHANGED <<fav, score, average, rows, count, req, comp, historyVars>>

Of(a, table) == {k \in table : k[2] = a}

Delete(a) ==
  /\ Present(a)
  /\ Of(a, fav) = {} /\ Of(a, rows["download"]) = {}
  /\ \A r \in Requests : HasInserted(r) => req[r].asset # a
  /\ asset' = [asset EXCEPT ![a] = "deleted"]
  /\ score' = [score EXCEPT ![a] = NoScores]
  /\ average' = [average EXCEPT ![a] = NoScores]
  /\ rows' = [rows EXCEPT !["install"] = @ \ Of(a, @)]
  /\ count' = [t \in Tables |-> [count[t] EXCEPT ![a] = 0]]
  /\ told' = [told EXCEPT ![a] = [u \in Users |-> {}]]
  /\ missed' = missed \ {a}
  /\ UNCHANGED <<fav, req, comp, odd, crossed>>

\* The process ends: requests, goroutines and open transactions with it.
Restart ==
  /\ Tell(Requests)
  /\ req' = [r \in Requests |-> Idle]
  /\ comp' = [g \in Goroutines |-> Resting]
  /\ missed' = missed \cup {comp[g].asset : g \in {h \in Goroutines : comp[h].at # "none"}}
  /\ UNCHANGED <<tableVars, odd, crossed>>

RequestStep(r) ==
  \/ \E a \in Assets : \/ \E u \in Users : \/ ToggleTest(r, u, a)
                                           \/ \E s \in Scores : ReviewFind(r, u, a, s)
                       \/ \E t \in Tables, h \in Holders : CountBegin(r, t, h, a)
  \/ ToggleDelete(r) \/ ToggleInsert(r) \/ ReviewUpdate(r) \/ ReviewCreate(r)
  \/ AnswerReview(r)
  \/ InsertRow(r) \/ InsertNothing(r) \/ UpdateCount(r) \/ Commit(r)
  \/ BreakOff(r)

Next ==
  \/ \E r \in Requests : RequestStep(r)
  \/ \E g \in Goroutines : AverageRead(g) \/ AverageWrite(g) \/ AverageFail(g)
  \/ \E a \in Assets : Decide(a) \/ Delete(a)
  \/ Restart

Spec == Init /\ [][Next]_vars

-----------------------------------------------------------------------------
Reviews == [Users -> Scores \cup {0}]
Favourites == Users \X Assets

TypeOK ==
  /\ asset \in [Assets -> {"approved", "unapproved", "deleted"}]
  /\ fav \in SUBSET Favourites
  /\ score \in [Assets -> Reviews]
  /\ average \in [Assets -> Reviews]
  /\ rows \in [Tables -> SUBSET (Holders \X Assets)]
  /\ count \in [Tables -> [Assets -> Nat]]
  /\ req \in [Requests -> [at : Places, table : Tables,
                           who : Users \cup Holders \cup {None},
                           asset : Assets \cup {None}, seen : BOOLEAN, value : Nat]]
  /\ comp \in [Goroutines -> [at : {"none", "start", "read"}, asset : Assets \cup {None},
                              seen : Reviews]]
  /\ odd \in SUBSET Favourites
  /\ crossed \in SUBSET Favourites
  /\ told \in [Assets -> [Users -> SUBSET (Scores \cup {0})]]
  /\ missed \in SUBSET Assets
  /\ \A a \in Assets : ~Present(a) => Of(a, fav) = {} /\ score[a] = NoScores

\* install_count and download_count are the numbers of rows, whoever installs
\* twice, at once or again, and wherever a transaction breaks off.
CountsMatch ==
  \A t \in Tables, a \in Assets :
    Present(a) => count[t][a] = Cardinality(Of(a, rows[t]))

\* A favourite stands when an odd number of its toggles took effect, those
\* answered with an error not counted: but for toggles that overlapped.
FavouriteParity == \A k \in Favourites \ crossed : k \in fav <=> k \in odd

\* The review that stands is the one the user was last told is stored, or whose
\* answer was lost; where answers of several were due at once, since they may
\* arrive in another order, one of those.  One answered with an error never is.
ToldReviewStands ==
  \A a \in Assets, u \in Users :
    Present(a) /\ Answering(<<u, a>>) = {} => score[a][u] \in told[a][u]

\* When nothing recomputes the average it is that of the reviews: but for
\* recomputations that failed or overlapped since the last review.
AverageSettles ==
  \A a \in Assets \ missed :
    Present(a) /\ (\A g \in Goroutines : comp[g].asset # a) => average[a] = score[a]

\* Requests that overlap, break off or are repeated leave what single steps
\* would: a row and its count come together, a favourite or a review is that
\* of its user, and an asset goes with what was left on it.
Record == INSTANCE AssetRecord WITH gone <- {a \in Assets : ~Present(a)}
RecordSpec == Record!RecordSpec
=============================================================================
