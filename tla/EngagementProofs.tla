--------------------------- MODULE EngagementProofs ---------------------------
(***************************************************************************)
(* Proofs about Engagement, for any assets, users, holders, scores,        *)
(* requests and goroutines: the counts of an asset are the numbers of its  *)
(* rows, a favourite stands after an odd number of toggles, a review that  *)
(* stands is one its user was told of or was to be, and averages settle.   *)
(*                                                                         *)
(* Each is a part of the invariant of its own, kept by most steps because  *)
(* they do not touch what it speaks of.                                    *)
(***************************************************************************)
EXTENDS Engagement, FiniteSetTheorems, TLAPS

USE EngagementAssumption

ReqSet == [at : Places, table : Tables, who : Users \cup Holders \cup {None},
           asset : Assets \cup {None}, seen : BOOLEAN, value : Nat]
CompSet == [at : {"none", "start", "read"}, asset : Assets \cup {None}, seen : Reviews]

\* What a request is about.
ReqType(r) ==
  /\ req[r].at = "toggle" => req[r].who \in Users /\ req[r].asset \in Assets
  /\ req[r].at \in {"review", "answer"} =>
       req[r].who \in Users /\ req[r].asset \in Assets /\ req[r].value \in Scores
  /\ req[r].at \in {"insert", "count", "commit"} =>
       req[r].who \in Holders /\ req[r].asset \in Assets

ReqsType == req \in [Requests -> ReqSet] /\ \A r \in Requests : ReqType(r)

CompsType ==
  /\ comp \in [Goroutines -> CompSet]
  /\ \A g \in Goroutines : /\ comp[g].at # "none" => comp[g].asset \in Assets
                           /\ comp[g].at = "none" => comp[g].asset = None

TablesType ==
  /\ asset \in [Assets -> {"approved", "unapproved", "deleted"}]
  /\ fav \in SUBSET Favourites
  /\ score \in [Assets -> Reviews]
  /\ average \in [Assets -> Reviews]
  /\ rows \in [Tables -> SUBSET (Holders \X Assets)]
  /\ count \in [Tables -> [Assets -> Nat]]
  /\ odd \in SUBSET Favourites
  /\ crossed \in SUBSET Favourites
  /\ told \in [Assets -> [Users -> SUBSET (Scores \cup {0})]]
  /\ missed \in SUBSET Assets
  /\ \A a \in Assets : ~Present(a) => Of(a, fav) = {} /\ score[a] = NoScores

Typed == ReqsType /\ CompsType /\ TablesType

LEMMA TypedTypes == Typed => TypeOK
BY DEF Typed, ReqsType, CompsType, TablesType, TypeOK, ReqSet, CompSet

LEMMA Constants ==
  /\ Idle \in ReqSet /\ Idle.at = "idle"
  /\ Resting \in CompSet /\ Resting.at = "none" /\ Resting.asset = None
  /\ NoScores \in Reviews
BY DEF Idle, ReqSet, Places, Tables, Resting, CompSet, NoScores, Reviews

LEMMA TypedInit == Init => Typed
BY Constants DEF Init, Typed, ReqsType, ReqType, CompsType, TablesType, Tables, Present

\* A request moves on to another call, or ends.
LEMMA Begins ==
  ASSUME ReqsType, NEW r \in Requests, NEW c, Begin(r, c)
  PROVE  req'[r] = c /\ \A s \in Requests \ {r} : req'[s] = req[s]
BY DEF ReqsType, Begin

LEMMA Ends ==
  ASSUME ReqsType, NEW r \in Requests, End(r)
  PROVE  req'[r] = Idle /\ \A s \in Requests \ {r} : req'[s] = req[s]
BY DEF ReqsType, End

LEMMA ReqsKept ==
  ASSUME ReqsType, NEW r \in Requests, NEW c \in ReqSet,
         req' = [req EXCEPT ![r] = c], ReqType(r)'
  PROVE  ReqsType'
<1>1. req' \in [Requests -> ReqSet] /\ \A s \in Requests \ {r} : req'[s] = req[s]
  BY DEF ReqsType
<1>2. QED
  BY <1>1 DEF ReqsType, ReqType

-----------------------------------------------------------------------------
(* Types.                                                                  *)

LEMMA ReqsTyped == Typed /\ [Next]_vars => ReqsType'
<1> SUFFICES ASSUME Typed, [Next]_vars PROVE ReqsType'
  OBVIOUS
<1>1. ReqsType /\ TablesType
  BY DEF Typed
<1>2. CASE UNCHANGED req
  BY <1>1, <1>2 DEF ReqsType, ReqType
<1>3. ASSUME NEW r \in Requests, End(r) PROVE ReqsType'
  <2>1. req' = [req EXCEPT ![r] = Idle] /\ req'[r] = Idle
    BY <1>1, <1>3, Ends DEF End
  <2>2. QED
    BY <1>1, <2>1, Constants, ReqsKept DEF ReqType
<1>4. ASSUME NEW r \in Requests, NEW c \in ReqSet, Begin(r, c),
             \/ c.at = "toggle" /\ c.who \in Users /\ c.asset \in Assets
             \/ c.at = "review" /\ c.who \in Users /\ c.asset \in Assets /\ c.value \in Scores
             \/ c.at = "insert" /\ c.who \in Holders /\ c.asset \in Assets
      PROVE  ReqsType'
  <2>1. req' = [req EXCEPT ![r] = c] /\ req'[r] = c
    BY <1>1, <1>4, Begins DEF Begin
  <2>2. QED
    BY <1>1, <1>4, <2>1, ReqsKept DEF ReqType
<1>5. ASSUME NEW r \in Requests, NEW u \in Users, NEW a \in Assets, ToggleTest(r, u, a)
      PROVE  ReqsType'
  <2> DEFINE b == <<u, a>> \in fav
             c == [Idle EXCEPT !.at = "toggle", !.who = u, !.asset = a, !.seen = b]
  <2>1. Begin(r, c)
    BY <1>5 DEF ToggleTest
  <2>2. b \in BOOLEAN
    OBVIOUS
  <2> HIDE DEF b
  <2>3. c \in ReqSet /\ c.at = "toggle" /\ c.who = u /\ c.asset = a
    BY <2>2 DEF Idle, ReqSet, Places, Tables
  <2> HIDE DEF c
  <2>4. QED
    BY <1>4, <2>1, <2>3
<1>6. ASSUME NEW r \in Requests, NEW u \in Users, NEW a \in Assets, NEW s \in Scores,
             ReviewFind(r, u, a, s)
      PROVE  ReqsType'
  <2>1. PICK b \in BOOLEAN :
          Begin(r, [Idle EXCEPT !.at = "review", !.who = u, !.asset = a, !.seen = b, !.value = s])
    BY <1>6 DEF ReviewFind
  <2> DEFINE c == [Idle EXCEPT !.at = "review", !.who = u, !.asset = a, !.seen = b, !.value = s]
  <2>2. c \in ReqSet /\ c.at = "review" /\ c.who = u /\ c.asset = a /\ c.value = s
    BY DEF Idle, ReqSet, Places, Tables
  <2>3. Begin(r, c)
    BY <2>1
  <2> HIDE DEF c
  <2>4. QED
    BY <1>4, <2>2, <2>3
<1>7. ASSUME NEW r \in Requests, NEW t \in Tables, NEW h \in Holders, NEW a \in Assets,
             CountBegin(r, t, h, a)
      PROVE  ReqsType'
  <2> DEFINE c == [Idle EXCEPT !.at = "insert", !.table = t, !.who = h, !.asset = a]
  <2>1. Begin(r, c)
    BY <1>7 DEF CountBegin
  <2>2. c \in ReqSet /\ c.at = "insert" /\ c.who = h /\ c.asset = a
    BY DEF Idle, ReqSet, Places
  <2> HIDE DEF c
  <2>3. QED
    BY <1>4, <2>1, <2>2
<1>8. ASSUME NEW r \in Requests, NEW c \in ReqSet, req' = [req EXCEPT ![r] = c],
             req[r].at \in {"insert", "count"},
             c.at \in {"count", "commit"}, c.who = req[r].who, c.asset = req[r].asset
      PROVE  ReqsType'
  <2>1. req'[r] = c
    BY <1>1, <1>8 DEF ReqsType
  <2>2. req[r].who \in Holders /\ req[r].asset \in Assets
    BY <1>1, <1>8 DEF ReqsType, ReqType
  <2>3. ReqType(r)'
    BY <1>8, <2>1, <2>2 DEF ReqType
  <2>4. QED
    BY <1>1, <1>8, <2>3, ReqsKept
<1>9. ASSUME NEW r \in Requests, InsertRow(r) PROVE ReqsType'
  <2> DEFINE c == [req[r] EXCEPT !.at = "count"]
  <2>1. req[r] \in ReqSet /\ req' = [req EXCEPT ![r] = c] /\ req[r].at = "insert"
    BY <1>1, <1>9 DEF InsertRow, Advance, ReqsType, At
  <2>0. c = [req[r] EXCEPT !.at = "count"]
    OBVIOUS
  <2> HIDE DEF c
  <2>2. c \in ReqSet /\ c.at = "count" /\ c.who = req[r].who /\ c.asset = req[r].asset
    <3>1. PICK b \in ReqSet : b = req[r]
      BY <2>1
    <3>2. c = [b EXCEPT !.at = "count"]
      BY <2>0, <3>1
    <3>3. c \in ReqSet /\ c.at = "count" /\ c.who = b.who /\ c.asset = b.asset
      BY <3>2 DEF ReqSet, Places
    <3>4. QED
      BY <3>1, <3>3
  <2>3. QED
    BY <1>8, <2>1, <2>2
<1>10. ASSUME NEW r \in Requests, UpdateCount(r) PROVE ReqsType'
  <2> DEFINE v == count[req[r].table][req[r].asset] + 1
             c == [req[r] EXCEPT !.at = "commit", !.value = v]
  <2>1. req[r] \in ReqSet /\ req' = [req EXCEPT ![r] = c] /\ req[r].at = "count"
    BY <1>1, <1>10 DEF UpdateCount, ReqsType, At
  <2>2. v \in Nat
    <3>1. req[r].table \in Tables /\ req[r].asset \in Assets
      BY <1>1, <2>1 DEF ReqSet, ReqsType, ReqType
    <3>2. count[req[r].table][req[r].asset] \in Nat
      BY <1>1, <3>1 DEF TablesType
    <3>3. QED
      BY <3>2
  <2> HIDE DEF v
  <2>0. c = [req[r] EXCEPT !.at = "commit", !.value = v]
    OBVIOUS
  <2> HIDE DEF c
  <2>3. c \in ReqSet /\ c.at = "commit" /\ c.who = req[r].who /\ c.asset = req[r].asset
    <3>1. PICK k \in Nat : k = v
      BY <2>2
    <3>2. PICK b \in ReqSet : b = req[r]
      BY <2>1
    <3>3. c = [b EXCEPT !.at = "commit", !.value = k]
      BY <2>0, <3>1, <3>2
    <3>4. c \in ReqSet /\ c.at = "commit" /\ c.who = b.who /\ c.asset = b.asset
      BY <3>3 DEF ReqSet, Places
    <3>5. QED
      BY <3>2, <3>4
  <2>4. QED
    BY <1>8, <2>1, <2>3
<1>14. ASSUME NEW r \in Requests, ReviewUpdate(r) \/ ReviewCreate(r) PROVE ReqsType'
  <2>1. /\ At(r, "review") /\ ToAnswer(r)
    BY <1>14 DEF ReviewUpdate, ReviewCreate, StoreReview
  <2> DEFINE c == [req[r] EXCEPT !.at = "answer", !.seen = FALSE]
  <2>2. req[r] \in ReqSet /\ req' = [req EXCEPT ![r] = c]
    BY <1>1, <2>1 DEF ReqsType, ToAnswer
  <2>3. c \in ReqSet /\ c.at = "answer" /\ c.who = req[r].who /\ c.asset = req[r].asset
        /\ c.value = req[r].value
    BY <2>2 DEF ReqSet, Places
  <2> HIDE DEF c
  <2>4. req'[r] = c
    BY <1>1, <2>2 DEF ReqsType
  <2>5. ReqType(r)'
    BY <1>1, <2>1, <2>3, <2>4 DEF ReqsType, ReqType, At
  <2>6. QED
    BY <1>1, <2>2, <2>3, <2>5, ReqsKept
<1>11. ASSUME NEW r \in Requests, RequestStep(r) PROVE ReqsType'
  BY <1>3, <1>5, <1>6, <1>7, <1>9, <1>10, <1>11, <1>14 DEF RequestStep, ToggleDelete,
     ToggleInsert, AnswerReview, InsertNothing, Commit, BreakOff
<1>12. CASE Restart
  BY <1>12, Constants, SMTT(60) DEF Restart, ReqsType, ReqType
<1>13. QED
  BY <1>2, <1>11, <1>12 DEF Next, AverageRead, AverageWrite, AverageFail, Decide, Delete, vars

LEMMA CompsTyped == Typed /\ [Next]_vars => CompsType'
<1> SUFFICES ASSUME Typed, [Next]_vars PROVE CompsType'
  OBVIOUS
<1>1. ReqsType /\ CompsType /\ TablesType
  BY DEF Typed
<1>2. CASE UNCHANGED comp
  BY <1>1, <1>2 DEF CompsType
<1>3. ASSUME NEW g \in Goroutines, NEW c \in CompSet, comp' = [comp EXCEPT ![g] = c],
             c.at # "none" => c.asset \in Assets, c.at = "none" => c.asset = None
      PROVE  CompsType'
  BY <1>1, <1>3 DEF CompsType
<1>4. ASSUME NEW r \in Requests, StoreReview(r), At(r, "review") PROVE CompsType'
  <2>1. PICK g \in Goroutines : comp' = [comp EXCEPT ![g].at = "start", ![g].asset = req[r].asset]
    BY <1>4 DEF StoreReview
  <2> DEFINE c == [comp[g] EXCEPT !.at = "start", !.asset = req[r].asset]
  <2>2. req[r].asset \in Assets /\ comp[g] \in CompSet
    BY <1>1, <1>4 DEF ReqsType, ReqType, At, CompsType
  <2>3. c \in CompSet /\ c.at = "start" /\ c.asset = req[r].asset
    BY <2>2 DEF CompSet
  <2>4. comp' = [comp EXCEPT ![g] = c]
    BY <1>1, <2>1 DEF CompsType
  <2> HIDE DEF c
  <2>5. QED
    BY <1>3, <2>2, <2>3, <2>4
<1>5. ASSUME NEW g \in Goroutines, AverageRead(g) PROVE CompsType'
  <2> DEFINE c == [comp[g] EXCEPT !.at = "read", !.seen = score[comp[g].asset]]
  <2>1. comp[g].at = "start" /\ comp' = [comp EXCEPT ![g] = c] /\ comp[g] \in CompSet
    BY <1>1, <1>5 DEF AverageRead, CompsType
  <2>2. comp[g].asset \in Assets /\ score[comp[g].asset] \in Reviews
    <3>1. comp[g].at # "none"
      BY <2>1
    <3>2. comp[g].asset \in Assets
      BY <1>1, <3>1 DEF CompsType
    <3>3. score \in [Assets -> Reviews]
      BY <1>1 DEF TablesType
    <3> HIDE DEF c
    <3>4. QED
      BY <3>2, <3>3
  <2>3. c \in CompSet /\ c.at = "read" /\ c.asset = comp[g].asset
    BY <2>1, <2>2 DEF CompSet
  <2> HIDE DEF c
  <2>4. QED
    BY <1>3, <2>1, <2>2, <2>3
<1>6. ASSUME NEW g \in Goroutines, AverageWrite(g) \/ AverageFail(g) PROVE CompsType'
  BY <1>3, <1>6, Constants DEF AverageWrite, AverageFail
<1>7. CASE Restart
  BY <1>7, Constants DEF Restart, CompsType
<1>8. QED
  BY <1>2, <1>4, <1>5, <1>6, <1>7, ZenonT(60) DEF Next, RequestStep, ToggleTest, ToggleDelete,
     ToggleInsert,
     ReviewFind, ReviewUpdate, ReviewCreate, AnswerReview, CountBegin, InsertRow, InsertNothing,
     UpdateCount, Commit, BreakOff, Decide, Delete, vars

LEMMA TablesTyped == Typed /\ [Next]_vars => TablesType'
<1> SUFFICES ASSUME Typed, [Next]_vars PROVE TablesType'
  OBVIOUS
<1>1. ReqsType /\ CompsType /\ TablesType
  BY DEF Typed
<1>0. ASSUME NEW e \in SUBSET Requests, Tell(e)
      PROVE  told' \in [Assets -> [Users -> SUBSET (Scores \cup {0})]]
  <2>1. ASSUME NEW a \in Assets, NEW u \in Users, NEW r \in e \cap Answering(<<u, a>>)
        PROVE  req[r].value \in Scores
    BY <1>1 DEF Answering, At, ReqsType, ReqType
  <2> DEFINE more(a, u) == {req[r].value : r \in e \cap Answering(<<u, a>>)}
  <2>2. \A a \in Assets, u \in Users : more(a, u) \in SUBSET (Scores \cup {0})
    BY <2>1
  <2>3. told' = [a \in Assets |-> [u \in Users |-> told[a][u] \cup more(a, u)]]
    BY <1>0 DEF Tell
  <2> HIDE DEF more
  <2>4. \A a \in Assets, u \in Users : told[a][u] \in SUBSET (Scores \cup {0})
    BY <1>1 DEF TablesType
  <2>5. QED
    BY <2>2, <2>3, <2>4
<1>2. CASE /\ UNCHANGED <<tableVars, odd, crossed>> /\ missed' \in SUBSET Assets
           /\ told' \in [Assets -> [Users -> SUBSET (Scores \cup {0})]]
  BY <1>1, <1>2 DEF TablesType, tableVars, Present, Of
<1>3. CASE UNCHANGED <<req, comp, historyVars>> /\ \E a \in Assets : Decide(a)
  BY <1>1, <1>3 DEF TablesType, Decide, Present, Of, historyVars
<1>4. ASSUME NEW a \in Assets, Delete(a) PROVE TablesType'
  <2>1. NoScores \in Reviews /\ "install" \in Tables
    BY Constants DEF Tables
  <2>2. /\ asset' \in [Assets -> {"approved", "unapproved", "deleted"}]
        /\ score' \in [Assets -> Reviews]
        /\ average' \in [Assets -> Reviews]
        /\ rows' \in [Tables -> SUBSET (Holders \X Assets)]
        /\ missed' \in SUBSET Assets
        /\ UNCHANGED <<fav, odd, crossed>>
    BY <1>1, <1>4, <2>1 DEF TablesType, Delete, Of
  <2>5. told' \in [Assets -> [Users -> SUBSET (Scores \cup {0})]]
    BY <1>1, <1>4 DEF TablesType, Delete
  <2>6. count' \in [Tables -> [Assets -> Nat]]
    BY <1>1, <1>4 DEF TablesType, Delete
  <2>3. ASSUME NEW b \in Assets, ~Present(b)' PROVE Of(b, fav)' = {} /\ score'[b] = NoScores
    BY <1>1, <1>4, <2>3 DEF TablesType, Delete, Present, Of
  <2>4. QED
    BY <1>1, <2>2, <2>3, <2>5, <2>6 DEF TablesType
<1>5. ASSUME NEW r \in Requests, NEW u \in Users, NEW a \in Assets, ToggleTest(r, u, a)
      PROVE  TablesType'
  <2>1. /\ crossed' \in SUBSET Favourites /\ odd' \in SUBSET Favourites
        /\ UNCHANGED <<tableVars, told, missed>>
    BY <1>1, <1>5 DEF ToggleTest, TablesType, Favourites
  <2>2. QED
    BY <1>1, <2>1 DEF TablesType, tableVars, Present, Of
<1>6. ASSUME NEW r \in Requests, At(r, "toggle") PROVE Key(r) \in Favourites
  BY <1>1, <1>6 DEF ReqsType, ReqType, At, Key, Favourites
<1>7. ASSUME NEW r \in Requests, ToggleDelete(r) \/ ToggleInsert(r) PROVE TablesType'
  <2>1. /\ fav' \in SUBSET Favourites /\ odd' \in SUBSET Favourites
        /\ UNCHANGED <<asset, score, average, rows, count, crossed, told, missed>>
    BY <1>1, <1>6, <1>7 DEF ToggleDelete, ToggleInsert, TablesType, Flip
  <2>2. ASSUME NEW b \in Assets, ~Present(b) PROVE Of(b, fav') = {}
    BY <1>1, <1>7, <2>2 DEF ToggleDelete, ToggleInsert, TablesType, Of, Key
  <2>3. QED
    BY <1>1, <2>1, <2>2 DEF TablesType, Present, Of
<1>8. ASSUME NEW r \in Requests, At(r, "review"), StoreReview(r) PROVE TablesType'
  <2>1. /\ req[r].asset \in Assets /\ req[r].who \in Users /\ req[r].value \in Scores \cup {0}
    BY <1>1, <1>8 DEF ReqsType, ReqType, At
  <2>2. \A m \in [Assets -> Reviews] :
          [m EXCEPT ![req[r].asset][req[r].who] = req[r].value] \in [Assets -> Reviews]
    BY <2>1 DEF Reviews
  <2>3. /\ score' \in [Assets -> Reviews]
        /\ missed' \in SUBSET Assets
        /\ UNCHANGED <<asset, fav, average, rows, count, odd, crossed>>
    BY <1>1, <1>8, <2>2 DEF StoreReview, Scored, TablesType
  <2>6. told' \in [Assets -> [Users -> SUBSET (Scores \cup {0})]]
    BY <1>1, <1>8, <2>1 DEF StoreReview, Forget, TablesType
  <2>4. ASSUME NEW b \in Assets, ~Present(b) PROVE score'[b] = NoScores
    BY <1>1, <1>8, <2>4 DEF StoreReview, Scored, TablesType, Present
  <2>5. QED
    BY <1>1, <2>3, <2>4, <2>6 DEF TablesType, Present, Of
<1>9. ASSUME NEW g \in Goroutines, AverageWrite(g) PROVE TablesType'
  <2>1. comp[g].seen \in Reviews
    BY <1>1 DEF CompsType, CompSet
  <2>2. average' \in [Assets -> Reviews]
    BY <1>1, <1>9, <2>1 DEF AverageWrite, TablesType
  <2>3. UNCHANGED <<asset, fav, score, rows, count, historyVars>>
    BY <1>9 DEF AverageWrite
  <2>4. QED
    BY <1>1, <2>2, <2>3 DEF TablesType, historyVars, Present, Of
<1>13. missed \in SUBSET Assets /\ told \in [Assets -> [Users -> SUBSET (Scores \cup {0})]]
  BY <1>1, SMTT(60) DEF TablesType
<1>10. ASSUME NEW g \in Goroutines, AverageRead(g) \/ AverageFail(g) PROVE TablesType'
  <2>1. comp[g].asset \in Assets
    BY <1>1, <1>10 DEF CompsType, AverageRead, AverageFail
  <2>2. missed' \in SUBSET Assets
    BY <1>1, <1>10, <2>1 DEF AverageRead, AverageFail, TablesType
  <2>3. QED
    BY <1>2, <1>10, <1>13, <2>2 DEF AverageRead, AverageFail
<1>11. ASSUME NEW r \in Requests, Commit(r) PROVE TablesType'
  <2>1. req[r] \in ReqSet /\ Key(r) \in Holders \X Assets /\ req[r].asset \in Assets
    BY <1>1, <1>11 DEF Commit, ReqsType, ReqType, At, Key
  <2>2. req[r].table \in Tables /\ req[r].value \in Nat
    BY <2>1 DEF ReqSet
  <2>3. rows' \in [Tables -> SUBSET (Holders \X Assets)]
    BY <1>1, <1>11, <2>1, <2>2 DEF Commit, TablesType
  <2>4. count' \in [Tables -> [Assets -> Nat]]
    BY <1>1, <1>11, <2>1, <2>2 DEF Commit, TablesType
  <2>5. QED
    BY <1>1, <1>11, <2>3, <2>4 DEF Commit, TablesType, historyVars, Present, Of
<1>12. CASE Restart
  <2>1. missed' \in SUBSET Assets
    BY <1>1, <1>12 DEF Restart, TablesType, CompsType
  <2>2. QED
    BY <1>0, <1>2, <1>12, <2>1 DEF Restart
<1>17. ASSUME NEW r \in Requests, AnswerReview(r) PROVE TablesType'
  BY <1>0, <1>2, <1>13, <1>17, SMTT(60) DEF AnswerReview
<1>14. ASSUME NEW r \in Requests, RequestStep(r) PROVE TablesType'
  BY <1>2, <1>5, <1>7, <1>8, <1>11, <1>13, <1>14, <1>17 DEF RequestStep, ReviewFind, ReviewUpdate,
     ReviewCreate, CountBegin, InsertRow, InsertNothing, UpdateCount, BreakOff, historyVars
<1>15. CASE UNCHANGED vars
  BY <1>2, <1>13, <1>15 DEF vars, historyVars
<1>16. QED
  BY <1>3, <1>4, <1>9, <1>10, <1>12, <1>14, <1>15 DEF Next, Decide

LEMMA TypedStep == Typed /\ [Next]_vars => Typed'
BY ReqsTyped, CompsTyped, TablesTyped DEF Typed

\* The tables, requests and recomputations keep their types, and of an asset
\* that is gone no review and no favourite is left.
THEOREM TypeCorrect == Spec => []TypeOK
<1>1. QED
  BY TypedInit, TypedStep, TypedTypes, PTL DEF Spec

LEMMA AlwaysTyped == Spec => []Typed
BY TypedInit, TypedStep, PTL DEF Spec
-----------------------------------------------------------------------------
(* Which requests a step moves.                                            *)

\* Nobody is brought to a toggle, or further in a transaction.
Quiet == \A s \in Requests : req'[s] = req[s] \/ req'[s].at \in {"idle", "review", "answer", "insert"}

LEMMA Moves ==
  ASSUME Typed, [Next]_vars
  PROVE  \/ \E r \in Requests, u \in Users, a \in Assets : ToggleTest(r, u, a)
         \/ \E r \in Requests : InsertRow(r) \/ UpdateCount(r)
         \/ Quiet
<1>1. ReqsType
  BY DEF Typed
<1>2. CASE UNCHANGED req
  BY <1>2 DEF Quiet
<1>3. ASSUME NEW r \in Requests, End(r) PROVE Quiet
  BY <1>1, <1>3, Ends, Constants DEF Quiet
<1>4. ASSUME NEW r \in Requests, NEW c, Begin(r, c), c.at \in {"review", "insert"} PROVE Quiet
  BY <1>1, <1>4, Begins DEF Quiet
<1>9. ASSUME NEW r \in Requests, ToAnswer(r) PROVE Quiet
  <2>1. /\ req'[r] = [req[r] EXCEPT !.at = "answer", !.seen = FALSE] /\ req[r] \in ReqSet
        /\ \A s \in Requests \ {r} : req'[s] = req[s]
    BY <1>1, <1>9 DEF ToAnswer, ReqsType
  <2>2. req'[r].at = "answer"
    BY <2>1 DEF ReqSet
  <2>3. QED
    BY <2>1, <2>2 DEF Quiet
<1>5. ASSUME NEW r \in Requests, NEW u \in Users, NEW a \in Assets, NEW s \in Scores,
             ReviewFind(r, u, a, s)
      PROVE  Quiet
  <2>1. PICK b \in BOOLEAN :
          Begin(r, [Idle EXCEPT !.at = "review", !.who = u, !.asset = a, !.seen = b, !.value = s])
    BY <1>5 DEF ReviewFind
  <2> DEFINE c == [Idle EXCEPT !.at = "review", !.who = u, !.asset = a, !.seen = b, !.value = s]
  <2>2. c.at = "review" /\ Begin(r, c)
    BY <2>1 DEF Idle
  <2> HIDE DEF c
  <2>3. QED
    BY <1>4, <2>2
<1>6. ASSUME NEW r \in Requests, NEW t \in Tables, NEW h \in Holders, NEW a \in Assets,
             CountBegin(r, t, h, a)
      PROVE  Quiet
  <2> DEFINE c == [Idle EXCEPT !.at = "insert", !.table = t, !.who = h, !.asset = a]
  <2>1. c.at = "insert" /\ Begin(r, c)
    BY <1>6 DEF CountBegin, Idle
  <2> HIDE DEF c
  <2>2. QED
    BY <1>4, <2>1
<1>7. CASE Restart
  BY <1>7, Constants DEF Restart, Quiet
<1>8. QED
  BY <1>2, <1>3, <1>5, <1>6, <1>7, <1>9 DEF Next, RequestStep, ToggleDelete, ToggleInsert,
     ReviewUpdate, ReviewCreate, StoreReview, AnswerReview, InsertNothing, Commit, BreakOff,
     AverageRead, AverageWrite,
     AverageFail, Decide, Delete, vars
-----------------------------------------------------------------------------
(* Favourites: of one that was not crossed at most one toggle is under way,*)
(* and it has seen how things stand.                                       *)

Toggling(k) == {r \in Requests : At(r, "toggle") /\ Key(r) = k}

Favourite(k) ==
  /\ k \in fav <=> k \in odd
  /\ \A r, s \in Toggling(k) : r = s
  /\ \A r \in Toggling(k) : req[r].seen <=> k \in fav

FavInv == \A k \in Favourites \ crossed : Favourite(k)

LEMMA FavouriteKept ==
  ASSUME NEW k, Favourite(k), k \in fav' <=> k \in fav, k \in odd' <=> k \in odd,
         \A r \in Toggling(k)' : req'[r] = req[r]
  PROVE  Favourite(k)'
<1>1. Toggling(k)' \subseteq Toggling(k)
  BY DEF Toggling, At, Key
<1>2. QED
  BY <1>1 DEF Favourite

LEMMA FavStep == Typed /\ FavInv /\ [Next]_vars => FavInv'
<1> SUFFICES ASSUME Typed, FavInv, [Next]_vars PROVE FavInv'
  OBVIOUS
<1>1. ReqsType
  BY DEF Typed
<1>2. ASSUME NEW r \in Requests, NEW u \in Users, NEW a \in Assets, ToggleTest(r, u, a)
      PROVE  FavInv'
  <2> DEFINE k == <<u, a>>
             b == k \in fav
             c == [Idle EXCEPT !.at = "toggle", !.who = u, !.asset = a, !.seen = b]
  <2>1. /\ At(r, "idle") /\ Begin(r, c) /\ UNCHANGED fav /\ odd' = odd \ crossed'
        /\ crossed' = IF {s \in Requests : At(s, "toggle") /\ Key(s) = k} = {}
                        THEN crossed ELSE crossed \cup {k}
    BY <1>2 DEF ToggleTest, tableVars
  <2>2. c.at = "toggle" /\ c.who = u /\ c.asset = a /\ c.seen = b
    BY DEF Idle
  <2> HIDE DEF c
  <2>3. req'[r] = c /\ \A s \in Requests \ {r} : req'[s] = req[s]
    BY <1>1, <2>1, Begins
  <2>4. Key(r)' = k
    BY <2>2, <2>3 DEF Key
  <2> HIDE DEF k
  <2>5. ASSUME NEW l \in Favourites \ crossed' PROVE Favourite(l)'
    <3>1. l \in Favourites \ crossed /\ Favourite(l) /\ (l \in odd' <=> l \in odd)
      BY <2>1, <2>5 DEF FavInv
    <3>2. CASE l = k
      <4>1. Toggling(k) = {}
        BY <2>1, <2>5, <3>2 DEF Toggling
      <4>2. Toggling(k)' \subseteq {r}
        BY <2>3, <4>1 DEF Toggling, At, Key
      <4>3. req'[r].seen <=> k \in fav'
        BY <2>1, <2>2, <2>3
      <4>4. QED
        BY <2>1, <3>1, <3>2, <4>2, <4>3 DEF Favourite
    <3>3. CASE l # k
      <4>1. r \notin Toggling(l)'
        BY <2>4, <3>3 DEF Toggling
      <4>2. \A s \in Toggling(l)' : req'[s] = req[s]
        BY <2>3, <4>1 DEF Toggling
      <4>3. QED
        BY <2>1, <3>1, <4>2, FavouriteKept
    <3>4. QED
      BY <3>2, <3>3
  <2>6. QED
    BY <2>5 DEF FavInv
<1>3. ASSUME NEW r \in Requests, ToggleDelete(r) \/ ToggleInsert(r) PROVE FavInv'
  <2> DEFINE k == Key(r)
  <2>1. /\ At(r, "toggle") /\ End(r) /\ UNCHANGED crossed /\ odd' = Flip(k)
        /\ \/ req[r].seen /\ fav' = fav \ {k}
           \/ ~req[r].seen /\ fav' = fav \cup {k}
    BY <1>3 DEF ToggleDelete, ToggleInsert
  <2>2. req'[r] = Idle /\ \A s \in Requests \ {r} : req'[s] = req[s]
    BY <1>1, <2>1, Ends
  <2>3. r \in Toggling(k) /\ \A l : r \notin Toggling(l)'
    BY <2>1, <2>2, Constants DEF Toggling, At
  <2> HIDE DEF k
  <2>4. ASSUME NEW l \in Favourites \ crossed' PROVE Favourite(l)'
    <3>1. Favourite(l)
      BY <2>1, <2>4 DEF FavInv
    <3>2. \A s \in Toggling(l)' : req'[s] = req[s]
      BY <2>2, <2>3 DEF Toggling
    <3>3. CASE l = k
      <4>1. Toggling(l)' \subseteq Toggling(l) \ {r} /\ r \in Toggling(l)
        BY <2>3, <3>2, <3>3 DEF Toggling, At, Key
      <4>2. Toggling(l)' = {}
        BY <3>1, <4>1 DEF Favourite
      <4>3. l \in fav' <=> l \in odd'
        BY <2>1, <2>3, <2>4, <3>1, <3>3 DEF Favourite, Flip
      <4>4. QED
        BY <4>2, <4>3 DEF Favourite
    <3>4. CASE l # k
      <4>1. /\ l \in fav' <=> l \in fav
            /\ l \in odd' <=> l \in odd
        BY <2>1, <3>4 DEF Flip
      <4>2. QED
        BY <3>1, <3>2, <4>1, FavouriteKept
    <3>5. QED
      BY <3>3, <3>4
  <2>5. QED
    BY <2>4 DEF FavInv
<1>4. CASE /\ ~\E r \in Requests : \/ ToggleDelete(r) \/ ToggleInsert(r)
                                   \/ \E u \in Users, a \in Assets : ToggleTest(r, u, a)
  <2>1. UNCHANGED <<fav, odd, crossed>>
    BY <1>4, ZenonT(60) DEF Next, RequestStep, ReviewFind, ReviewUpdate, ReviewCreate, StoreReview,
       AnswerReview, CountBegin,
       InsertRow, InsertNothing, UpdateCount, Commit, BreakOff, AverageRead, AverageWrite,
       AverageFail, Decide, Delete, Restart, vars, tableVars, historyVars
  <2>2. \A s \in Requests : At(s, "toggle")' => req'[s] = req[s]
    <3>1. ASSUME NEW r \in Requests, NEW c, req' = [req EXCEPT ![r] = c], c.at # "toggle"
          PROVE  \A s \in Requests : At(s, "toggle")' => req'[s] = req[s]
      BY <1>1, <3>1 DEF ReqsType, At
    <3>2. ASSUME NEW r \in Requests, InsertRow(r)
          PROVE  \A s \in Requests : At(s, "toggle")' => req'[s] = req[s]
      <4>1. req[r] \in ReqSet
        BY <1>1 DEF ReqsType
      <4>2. [req[r] EXCEPT !.at = "count"].at = "count"
        BY <4>1 DEF ReqSet
      <4>3. QED
        BY <3>1, <3>2, <4>2 DEF InsertRow, Advance
    <3>3. ASSUME NEW r \in Requests, UpdateCount(r)
          PROVE  \A s \in Requests : At(s, "toggle")' => req'[s] = req[s]
      <4> DEFINE c == [req[r] EXCEPT !.at = "commit",
                                     !.value = count[req[r].table][req[r].asset] + 1]
      <4>1. req[r] \in ReqSet
        BY <1>1 DEF ReqsType
      <4>2. c.at = "commit"
        BY <4>1 DEF ReqSet
      <4>3. req' = [req EXCEPT ![r] = c]
        BY <1>1, <3>3 DEF UpdateCount, ReqsType
      <4> HIDE DEF c
      <4>4. QED
        BY <3>1, <4>2, <4>3
    <3>4. QED
      BY <1>4, <3>2, <3>3, Moves DEF Quiet, At
  <2>3. QED
    BY <2>1, <2>2, FavouriteKept, SMTT(60) DEF FavInv, Toggling
<1>5. QED
  BY <1>2, <1>3, <1>4

\* favorite.go: a favourite stands after an odd number of toggles, unless two of
\* them overlapped.
THEOREM ParityCorrect == Spec => []FavouriteParity
<1>1. Init => FavInv
  BY Constants DEF Init, FavInv, Favourite, Toggling, At
<1>2. FavInv => FavouriteParity
  BY DEF FavInv, Favourite, FavouriteParity
<1>3. QED
  BY <1>1, <1>2, FavStep, AlwaysTyped, PTL DEF Spec
-----------------------------------------------------------------------------
(* Reviews and their average.                                              *)

\* A review is stored, with its score.
LEMMA Storing ==
  ASSUME Typed, NEW r \in Requests, ReviewUpdate(r) \/ ReviewCreate(r)
  PROVE  /\ At(r, "review") /\ StoreReview(r)
         /\ req[r].asset \in Assets /\ req[r].who \in Users
BY DEF ReviewUpdate, ReviewCreate, Typed, ReqsType, ReqType, At

\* The review that stands is one that was told, or lost, or is to be told.
ToldInv ==
  \A a \in Assets, u \in Users :
    Present(a) => \/ score[a][u] \in told[a][u]
                  \/ \E r \in Answering(<<u, a>>) : req[r].value = score[a][u]

\* A request that is to answer does nothing else.
LEMMA AnswersStay ==
  ASSUME Typed, [Next]_vars, ~Restart, ~\E r \in Requests : AnswerReview(r)
  PROVE  \A s \in Requests : At(s, "answer") => req'[s] = req[s]
<1>1. req \in [Requests -> ReqSet]
  BY DEF Typed, ReqsType
<1>2. ASSUME NEW r \in Requests, ~At(r, "answer"), NEW c, req' = [req EXCEPT ![r] = c]
      PROVE  \A s \in Requests : At(s, "answer") => req'[s] = req[s]
  BY <1>1, <1>2
<1>3. ASSUME NEW r \in Requests, ~At(r, "answer"), End(r)
      PROVE  \A s \in Requests : At(s, "answer") => req'[s] = req[s]
  BY <1>2, <1>3 DEF End
<1>4. ASSUME NEW r \in Requests, NEW u \in Users, NEW a \in Assets, ToggleTest(r, u, a)
      PROVE  \A s \in Requests : At(s, "answer") => req'[s] = req[s]
  BY <1>2, <1>4 DEF ToggleTest, Begin, At
<1>5. ASSUME NEW r \in Requests, NEW u \in Users, NEW a \in Assets, NEW x \in Scores,
             ReviewFind(r, u, a, x)
      PROVE  \A s \in Requests : At(s, "answer") => req'[s] = req[s]
  BY <1>2, <1>5 DEF ReviewFind, Begin, At
<1>6. ASSUME NEW r \in Requests, NEW t \in Tables, NEW h \in Holders, NEW a \in Assets,
             CountBegin(r, t, h, a)
      PROVE  \A s \in Requests : At(s, "answer") => req'[s] = req[s]
  BY <1>2, <1>6 DEF CountBegin, Begin, At
<1>7. ASSUME NEW r \in Requests, ReviewUpdate(r) \/ ReviewCreate(r)
      PROVE  \A s \in Requests : At(s, "answer") => req'[s] = req[s]
  <2>1. At(r, "review") /\ ToAnswer(r)
    BY <1>7 DEF ReviewUpdate, ReviewCreate, StoreReview
  <2>2. QED
    BY <1>1, <2>1 DEF ToAnswer, At
<1>8. ASSUME NEW r \in Requests, InsertRow(r) \/ UpdateCount(r)
      PROVE  \A s \in Requests : At(s, "answer") => req'[s] = req[s]
  BY <1>1, <1>8 DEF InsertRow, UpdateCount, Advance, At
<1>9. ASSUME NEW r \in Requests, ToggleDelete(r) \/ ToggleInsert(r) \/ InsertNothing(r)
                                 \/ Commit(r) \/ BreakOff(r)
      PROVE  \A s \in Requests : At(s, "answer") => req'[s] = req[s]
  BY <1>3, <1>9 DEF ToggleDelete, ToggleInsert, InsertNothing, Commit, BreakOff, At
<1>10. CASE UNCHANGED req
  BY <1>10
<1>11. QED
  BY <1>4, <1>5, <1>6, <1>7, <1>8, <1>9, <1>10 DEF Next, RequestStep, AverageRead, AverageWrite,
     AverageFail, Decide, Delete, vars

LEMMA ToldStep == Typed /\ ToldInv /\ [Next]_vars => ToldInv'
<1> SUFFICES ASSUME Typed, ToldInv, [Next]_vars PROVE ToldInv'
  OBVIOUS
<1>1. /\ asset \in [Assets -> {"approved", "unapproved", "deleted"}]
      /\ score \in [Assets -> Reviews]
      /\ told \in [Assets -> [Users -> SUBSET (Scores \cup {0})]]
      /\ req \in [Requests -> ReqSet]
  BY DEF Typed, TablesType, ReqsType
<1>2. ASSUME \A a \in Assets : Present(a)' => Present(a) /\ score'[a] = score[a] /\ told'[a] = told[a],
             \A s \in Requests : At(s, "answer") => req'[s] = req[s]
      PROVE  ToldInv'
  BY <1>2 DEF ToldInv, Answering, At, Key
<1>3. ASSUME NEW e \in SUBSET Requests, Tell(e), UNCHANGED <<asset, score>>,
             \A s \in Requests \ e : At(s, "answer") => req'[s] = req[s]
      PROVE  ToldInv'
  <2> SUFFICES ASSUME NEW a \in Assets, NEW u \in Users, Present(a)'
               PROVE  \/ score'[a][u] \in told'[a][u]
                      \/ \E r \in Answering(<<u, a>>)' : req'[r].value = score'[a][u]
    BY DEF ToldInv
  <2>1. told'[a][u] = told[a][u] \cup {req[r].value : r \in e \cap Answering(<<u, a>>)}
    BY <1>3 DEF Tell
  <2>2. CASE score[a][u] \in told[a][u]
    BY <1>3, <2>1, <2>2
  <2>3. CASE \E r \in Answering(<<u, a>>) : req[r].value = score[a][u]
    <3>1. PICK r \in Answering(<<u, a>>) : req[r].value = score[a][u]
      BY <2>3
    <3>2. CASE r \in e
      BY <1>3, <2>1, <3>1, <3>2
    <3>3. CASE r \notin e
      <4>1. r \in Requests /\ At(r, "answer") /\ req'[r] = req[r]
        BY <1>3, <3>1, <3>3 DEF Answering
      <4>2. r \in Answering(<<u, a>>)'
        BY <3>1, <4>1 DEF Answering, At, Key
      <4>3. QED
        BY <1>3, <3>1, <4>1, <4>2
    <3>4. QED
      BY <3>2, <3>3
  <2>4. QED
    BY <1>3, <2>2, <2>3 DEF ToldInv, Present
<1>4. ASSUME NEW r \in Requests, ReviewUpdate(r) \/ ReviewCreate(r) PROVE ToldInv'
  <2>1. PICK b \in Assets, v \in Users :
          b = req[r].asset /\ v = req[r].who /\ At(r, "review") /\ StoreReview(r)
    BY <1>4, Storing
  <2>2. /\ req'[r].at = "answer" /\ req'[r].asset = b /\ req'[r].who = v
        /\ req'[r].value = req[r].value
        /\ \A s \in Requests \ {r} : req'[s] = req[s]
    BY <1>1, <2>1 DEF StoreReview, ToAnswer, ReqSet
  <2>3. /\ score' = IF Present(b) THEN [score EXCEPT ![b][v] = req[r].value] ELSE score
        /\ UNCHANGED asset
        /\ told' = IF Answering(<<v, b>>) = {} THEN [told EXCEPT ![b][v] = {}] ELSE told
    BY <2>1 DEF StoreReview, Scored, Forget, Key
  <2>4. r \in Answering(<<v, b>>)'
    BY <2>2 DEF Answering, At, Key
  <2>5. \A k : Answering(k) \subseteq Answering(k)' /\ \A s \in Answering(k) : req'[s] = req[s]
    BY <2>1, <2>2 DEF Answering, At, Key
  <2> SUFFICES ASSUME NEW a \in Assets, NEW u \in Users, Present(a)'
               PROVE  \/ score'[a][u] \in told'[a][u]
                      \/ \E s \in Answering(<<u, a>>)' : req'[s].value = score'[a][u]
    BY DEF ToldInv
  <2>6. CASE a = b /\ u = v
    <3>1. score'[b][v] = req[r].value
      BY <1>1, <2>3, <2>6 DEF Present, Reviews
    <3>2. QED
      BY <2>2, <2>4, <2>6, <3>1
  <2>7. CASE ~(a = b /\ u = v)
    <3>1. score'[a][u] = score[a][u] /\ told'[a][u] = told[a][u] /\ Present(a)
      BY <1>1, <2>3, <2>7 DEF Present, Reviews
    <3>2. QED
      BY <2>5, <3>1 DEF ToldInv
  <2>8. QED
    BY <2>6, <2>7
<1>5. ASSUME NEW r \in Requests, AnswerReview(r) PROVE ToldInv'
  <2>1. Tell({r}) /\ UNCHANGED <<asset, score>> /\ End(r)
    BY <1>5 DEF AnswerReview, tableVars
  <2>2. \A s \in Requests \ {r} : req'[s] = req[s]
    BY <1>1, <2>1 DEF End
  <2>3. QED
    BY <1>3, <2>1, <2>2
<1>6. CASE Restart
  BY <1>3, <1>6 DEF Restart, tableVars
<1>7. CASE ~Restart /\ ~\E r \in Requests : AnswerReview(r) \/ ReviewUpdate(r) \/ ReviewCreate(r)
  <2>1. \A s \in Requests : At(s, "answer") => req'[s] = req[s]
    BY <1>7, AnswersStay
  <2>2. ASSUME NEW b \in Assets, Delete(b) PROVE ToldInv'
    <3>1. /\ ~Present(b)'
          /\ \A a \in Assets \ {b} : /\ score'[a] = score[a] /\ asset'[a] = asset[a]
                                     /\ told'[a] = told[a]
      BY <1>1, <2>2 DEF Delete, Present
    <3>2. QED
      BY <1>2, <2>1, <3>1 DEF Present
  <2>3. ASSUME NEW b \in Assets, Decide(b) PROVE ToldInv'
    <3>1. UNCHANGED <<score, told>> /\ \A a \in Assets : Present(a)' => Present(a)
      BY <1>1, <2>3 DEF Decide, Present, historyVars
    <3>2. QED
      BY <1>2, <2>1, <3>1
  <2>4. CASE UNCHANGED <<asset, score, told>>
    BY <1>2, <2>1, <2>4 DEF Present
  <2>5. QED
    BY <1>7, <2>2, <2>3, <2>4, ZenonT(60) DEF Next, RequestStep, ToggleTest, ToggleDelete,
       ToggleInsert, ReviewFind, CountBegin, InsertRow, InsertNothing, UpdateCount, Commit,
       BreakOff, AverageRead, AverageWrite, AverageFail, vars, tableVars, historyVars
<1>8. QED
  BY <1>4, <1>5, <1>6, <1>7

\* review.go:76-105: the statement comes before the answer, so that two requests
\* of one user may be answered in the other order: once none is to be answered,
\* the review that stands is one of those that were told, or lost, since the last
\* time that none was, and none that was answered with an error.
THEOREM ToldCorrect == Spec => []ToldReviewStands
<1>1. Init => ToldInv
  BY DEF Init, ToldInv, NoScores
<1>2. ToldInv => ToldReviewStands
  BY DEF ToldInv, ToldReviewStands
<1>3. QED
  BY <1>1, <1>2, ToldStep, AlwaysTyped, PTL DEF Spec

\* A recomputation has still to read the reviews, or the only one has read those
\* that stand, or there is none and the average is theirs.
Settling(a) ==
  \/ \E g \in Goroutines : comp[g].at = "start" /\ comp[g].asset = a
  \/ \E g \in Goroutines : /\ comp[g].at = "read" /\ comp[g].asset = a /\ comp[g].seen = score[a]
                           /\ \A h \in Goroutines \ {g} : comp[h].asset # a
  \/ average[a] = score[a] /\ \A g \in Goroutines : comp[g].asset # a

AvgInv == \A a \in Assets \ missed : Present(a) => Settling(a)

\* What is done for another asset changes nothing.
LEMMA SettlingKept ==
  ASSUME NEW a, Settling(a), score'[a] = score[a], average'[a] = average[a],
         \A g \in Goroutines : \/ comp'[g] = comp[g]
                               \/ comp[g].asset # a /\ comp'[g].asset # a
  PROVE  Settling(a)'
BY DEF Settling

LEMMA AvgStep == Typed /\ AvgInv /\ [Next]_vars => AvgInv'
<1> SUFFICES ASSUME Typed, AvgInv, [Next]_vars PROVE AvgInv'
  OBVIOUS
<1>1. /\ asset \in [Assets -> {"approved", "unapproved", "deleted"}]
      /\ score \in [Assets -> Reviews] /\ average \in [Assets -> Reviews]
      /\ comp \in [Goroutines -> CompSet]
      /\ \A g \in Goroutines : /\ comp[g].at # "none" => comp[g].asset \in Assets
                               /\ comp[g].at = "none" => comp[g].asset = None
  BY DEF Typed, TablesType, CompsType
<1>2. CASE UNCHANGED <<score, average, comp, missed>> /\ \A a \in Assets : Present(a)' => Present(a)
  BY <1>2 DEF AvgInv, Settling
<1>3. ASSUME NEW r \in Requests, ReviewUpdate(r) \/ ReviewCreate(r) PROVE AvgInv'
  <2> DEFINE b == req[r].asset
  <2>1. /\ b \in Assets /\ UNCHANGED <<asset, average>> /\ missed' = missed \ {b}
        /\ \A a \in Assets \ {b} : score'[a] = score[a]
    <3>1. /\ b \in Assets /\ UNCHANGED <<asset, average>> /\ missed' = missed \ {b}
          /\ score' = [score EXCEPT ![b][req[r].who] = req[r].value] \/ score' = score
      BY <1>3, Storing DEF StoreReview, Scored
    <3> HIDE DEF b
    <3>2. QED
      BY <1>1, <3>1
  <2>2. PICK g \in Goroutines :
          comp[g].at = "none" /\ comp' = [comp EXCEPT ![g].at = "start", ![g].asset = b]
    BY <1>3, Storing DEF StoreReview
  <2> HIDE DEF b
  <2>3. /\ comp'[g].at = "start" /\ comp'[g].asset = b /\ comp[g].asset = None
        /\ \A h \in Goroutines \ {g} : comp'[h] = comp[h]
    BY <1>1, <2>2 DEF CompSet
  <2>4. ASSUME NEW a \in Assets \ missed', Present(a)' PROVE Settling(a)'
    <3>1. CASE a = b
      BY <2>3, <3>1 DEF Settling
    <3>2. CASE a # b
      <4>1. Settling(a) /\ score'[a] = score[a] /\ average'[a] = average[a]
        BY <2>1, <2>4, <3>2 DEF AvgInv, Present
      <4>2. \A h \in Goroutines : \/ comp'[h] = comp[h]
                                  \/ comp[h].asset # a /\ comp'[h].asset # a
        BY <2>3, <3>2
      <4>3. QED
        BY <4>1, <4>2, SettlingKept
    <3>3. QED
      BY <3>1, <3>2
  <2>5. QED
    BY <2>4 DEF AvgInv
<1>4. ASSUME NEW g \in Goroutines, AverageRead(g) PROVE AvgInv'
  <2> DEFINE b == comp[g].asset
             overlaps == \E h \in Goroutines : comp[h].at = "read" /\ comp[h].asset = b
  <2>1. /\ comp[g].at = "start" /\ b \in Assets /\ UNCHANGED <<asset, score, average>>
        /\ comp' = [comp EXCEPT ![g].at = "read", ![g].seen = score[b]]
        /\ missed' = IF overlaps THEN missed \cup {b} ELSE missed
    BY <1>1, <1>4 DEF AverageRead, tableVars
  <2>2. /\ comp'[g].at = "read" /\ comp'[g].asset = b /\ comp'[g].seen = score[b]
        /\ \A h \in Goroutines \ {g} : comp'[h] = comp[h]
    BY <1>1, <2>1 DEF CompSet
  <2>3. ASSUME NEW a \in Assets \ missed', Present(a)' PROVE Settling(a)'
    <3>1. Settling(a)
      BY <2>1, <2>3 DEF AvgInv, Present
    <3>2. CASE a = comp[g].asset /\ \E h \in Goroutines \ {g} : comp[h].at = "start" /\ comp[h].asset = a
      BY <2>2, <3>2 DEF Settling
    <3>3. CASE a = comp[g].asset /\ ~\E h \in Goroutines \ {g} : comp[h].at = "start" /\ comp[h].asset = a
      <4>1. \A h \in Goroutines : ~(comp[h].at = "read" /\ comp[h].asset = a)
        BY <2>1, <2>3, <3>3
      <4>2. \A h \in Goroutines \ {g} : comp[h].asset # a
        <5>1. \A h \in Goroutines : comp[h].at \in {"none", "start", "read"}
          BY <1>1 DEF CompSet
        <5>2. QED
          BY <1>1, <2>3, <3>3, <4>1, <5>1
      <4>3. /\ comp'[g].at = "read" /\ comp'[g].asset = a /\ comp'[g].seen = score'[a]
            /\ \A h \in Goroutines \ {g} : comp'[h].asset # a
        BY <2>1, <2>2, <3>3, <4>2
      <4>4. QED
        BY <4>3 DEF Settling
    <3>4. CASE a # comp[g].asset
      BY <2>1, <2>2, <3>1, <3>4, SettlingKept
    <3>5. QED
      BY <3>2, <3>3, <3>4
  <2>4. QED
    BY <2>3 DEF AvgInv
<1>5. ASSUME NEW g \in Goroutines, AverageWrite(g) PROVE AvgInv'
  <2>1. /\ comp[g].at = "read" /\ comp[g].asset \in Assets /\ UNCHANGED <<asset, score, missed>>
        /\ comp' = [comp EXCEPT ![g] = Resting]
        /\ average' = IF Present(comp[g].asset) THEN [average EXCEPT ![comp[g].asset] = comp[g].seen]
                                                ELSE average
    BY <1>1, <1>5 DEF AverageWrite, historyVars
  <2>2. comp'[g] = Resting /\ \A h \in Goroutines \ {g} : comp'[h] = comp[h]
    BY <1>1, <2>1
  <2>3. ASSUME NEW a \in Assets \ missed', Present(a)' PROVE Settling(a)'
    <3>1. Settling(a) /\ Present(a) /\ a # None
      BY <2>1, <2>3 DEF AvgInv, Present
    <3>2. CASE a = comp[g].asset
      <4>1. CASE \E h \in Goroutines : comp[h].at = "start" /\ comp[h].asset = a
        BY <2>1, <2>2, <4>1 DEF Settling
      <4>2. CASE \E h \in Goroutines : /\ comp[h].at = "read" /\ comp[h].asset = a
                                       /\ comp[h].seen = score[a]
                                       /\ \A i \in Goroutines \ {h} : comp[i].asset # a
        <5>1. comp[g].seen = score[a] /\ \A i \in Goroutines \ {g} : comp[i].asset # a
          BY <3>2, <4>2
        <5>2. average'[a] = score'[a]
          BY <1>1, <2>1, <3>1, <3>2, <5>1
        <5>3. QED
          BY <2>2, <3>1, <5>1, <5>2, Constants DEF Settling
      <4>3. QED
        BY <3>1, <3>2, <4>1, <4>2 DEF Settling
    <3>3. CASE a # comp[g].asset
      <4>1. average'[a] = average[a] /\ score'[a] = score[a]
        BY <1>1, <2>1, <3>3
      <4>2. QED
        BY <2>2, <3>1, <3>3, <4>1, SettlingKept, Constants
    <3>4. QED
      BY <3>2, <3>3
  <2>4. QED
    BY <2>3 DEF AvgInv
<1>6. ASSUME NEW g \in Goroutines, AverageFail(g) PROVE AvgInv'
  <2>1. /\ comp'[g] = Resting /\ \A h \in Goroutines \ {g} : comp'[h] = comp[h]
        /\ UNCHANGED <<asset, score, average>> /\ missed' = missed \cup {comp[g].asset}
    BY <1>1, <1>6 DEF AverageFail, tableVars
  <2>2. ASSUME NEW a \in Assets \ missed', Present(a)' PROVE Settling(a)'
    <3>1. Settling(a) /\ a # comp[g].asset /\ a # None
      BY <2>1, <2>2 DEF AvgInv, Present
    <3>2. QED
      BY <2>1, <3>1, SettlingKept, Constants
  <2>3. QED
    BY <2>2 DEF AvgInv
<1>7. CASE Restart
  <2>1. /\ UNCHANGED <<asset, score, average>>
        /\ comp' = [g \in Goroutines |-> Resting]
        /\ missed' = missed \cup {comp[g].asset : g \in {h \in Goroutines : comp[h].at # "none"}}
    BY <1>7 DEF Restart, tableVars
  <2>2. ASSUME NEW a \in Assets \ missed', Present(a)' PROVE Settling(a)'
    <3>1. Settling(a) /\ a # None
      BY <2>1, <2>2 DEF AvgInv, Present
    <3>2. \A g \in Goroutines : comp[g].asset # a
      BY <1>1, <2>1, <2>2, <3>1
    <3>3. QED
      BY <2>1, <3>1, <3>2, Constants DEF Settling
  <2>3. QED
    BY <2>2 DEF AvgInv
<1>8. ASSUME NEW b \in Assets, Delete(b) PROVE AvgInv'
  <2>1. /\ ~Present(b)' /\ UNCHANGED comp /\ missed' = missed \ {b}
        /\ \A a \in Assets \ {b} : /\ score'[a] = score[a] /\ asset'[a] = asset[a]
                                   /\ average'[a] = average[a]
    BY <1>1, <1>8 DEF Delete, Present
  <2>2. QED
    BY <2>1 DEF AvgInv, Present, Settling
<1>9. ASSUME NEW b \in Assets, Decide(b) PROVE AvgInv'
  <2>1. UNCHANGED <<score, average, comp, missed>> /\ \A a \in Assets : Present(a)' => Present(a)
    BY <1>1, <1>9 DEF Decide, Present, historyVars
  <2>2. QED
    BY <1>2, <2>1
<1>10. CASE UNCHANGED <<asset, score, average, comp, missed>>
  BY <1>2, <1>10 DEF Present
<1>11. QED
  BY <1>3, <1>4, <1>5, <1>6, <1>7, <1>8, <1>9, <1>10, ZenonT(60) DEF Next, RequestStep, ToggleTest,
     ToggleDelete,
     ToggleInsert, ReviewFind, AnswerReview, CountBegin, InsertRow, InsertNothing, UpdateCount,
     Commit,
     BreakOff, vars, tableVars, historyVars

\* review.go: with no recomputation under way the average is that of the reviews,
\* unless one failed or two overlapped since the last review.
THEOREM AverageCorrect == Spec => []AverageSettles
<1>1. Init => AvgInv
  BY Constants DEF Init, AvgInv, Settling
<1>2. AvgInv => AverageSettles
  BY DEF AvgInv, Settling, AverageSettles
<1>3. QED
  BY <1>1, <1>2, AvgStep, AlwaysTyped, PTL DEF Spec
-----------------------------------------------------------------------------
(* Counts: transactions under way insert different rows of assets that are *)
(* there, one at a time counts for an asset, and it has the count in hand. *)

Counted(t, a) ==
  /\ IsFiniteSet(Of(a, rows[t]))
  /\ Present(a) => count[t][a] = Cardinality(Of(a, rows[t]))

Inserted(r) == Present(req[r].asset) /\ Key(r) \notin rows[req[r].table]

Apart(r, s) ==
  /\ HasInserted(r) /\ HasInserted(s) => req[r].table # req[s].table \/ Key(r) # Key(s)
  /\ HasCounted(r) /\ HasCounted(s) => req[r].asset # req[s].asset

InHand(r) == req[r].value = count[req[r].table][req[r].asset] + 1

CountInv ==
  /\ \A t \in Tables, a \in Assets : Counted(t, a)
  /\ \A r \in Requests : HasInserted(r) => Inserted(r)
  /\ \A r, s \in Requests : r # s => Apart(r, s)
  /\ \A r \in Requests : HasCounted(r) => InHand(r)

\* What a request in a transaction is about.
LEMMA Transaction ==
  ASSUME Typed, NEW r \in Requests, req[r].at \in {"insert", "count", "commit"}
  PROVE  /\ req[r] \in ReqSet /\ req[r].table \in Tables /\ req[r].asset \in Assets
         /\ Key(r) \in Holders \X Assets /\ Key(r)[2] = req[r].asset
BY DEF Typed, ReqsType, ReqType, ReqSet, Key

LEMMA CountKept ==
  ASSUME Typed, CountInv, UNCHANGED <<rows, count>>,
         \A a \in Assets : Present(a)' <=> Present(a),
         \A s \in Requests : HasInserted(s)' => req'[s] = req[s]
  PROVE  CountInv'
<1>1. \A s \in Requests : /\ HasInserted(s)' => HasInserted(s) /\ req[s].asset \in Assets
                          /\ HasCounted(s)' => HasInserted(s)' /\ HasCounted(s)
  BY Transaction DEF HasInserted, HasCounted
<1>2. \A t \in Tables, a \in Assets : Counted(t, a)'
  BY DEF CountInv, Counted
<1>3. \A r \in Requests : HasInserted(r)' => Inserted(r)'
  BY <1>1 DEF CountInv, Inserted, Key
<1>4. \A r, s \in Requests : r # s => Apart(r, s)'
  BY <1>1 DEF CountInv, Apart, Key
<1>5. \A r \in Requests : HasCounted(r)' => InHand(r)'
  BY <1>1 DEF CountInv, InHand
<1>6. QED
  BY <1>2, <1>3, <1>4, <1>5 DEF CountInv

\* A transaction goes on: it has inserted its row, or counted it.
LEMMA CountGoesOn ==
  ASSUME Typed, CountInv, NEW r \in Requests, InsertRow(r) \/ UpdateCount(r)
  PROVE  CountInv'
<1> DEFINE a == req[r].asset
           t == req[r].table
<1>1. /\ req[r].at \in {"insert", "count"} /\ UNCHANGED <<asset, rows, count>>
      /\ req \in [Requests -> ReqSet]
  BY DEF InsertRow, UpdateCount, At, tableVars, Typed, ReqsType
<1>2. req[r] \in ReqSet /\ t \in Tables /\ a \in Assets
  BY <1>1, Transaction
<1>3. \A s \in Requests \ {r} : req'[s] = req[s]
  BY <1>1 DEF InsertRow, UpdateCount, Advance
<1>4. req'[r].asset = a /\ req'[r].table = t /\ req'[r].who = req[r].who
  BY <1>1, <1>2 DEF InsertRow, UpdateCount, Advance, ReqSet
<1>5. InsertRow(r) => /\ ~HasCounted(r)' /\ Present(a) /\ Key(r) \notin rows[t]
                      /\ \A s \in Requests : HasInserted(s) => req[s].table # t \/ Key(s) # Key(r)
  BY <1>1, <1>2 DEF InsertRow, Advance, ReqSet, HasCounted
<1>6. UpdateCount(r) => /\ HasInserted(r) /\ req'[r].value = count[t][a] + 1
                        /\ \A s \in Requests : HasCounted(s) => req[s].asset # a
  BY <1>1, <1>2 DEF UpdateCount, At, ReqSet, HasInserted
<1> HIDE DEF a, t
<1>7. \A s \in Requests \ {r} : /\ HasInserted(s)' <=> HasInserted(s)
                                /\ HasCounted(s)' <=> HasCounted(s)
                                /\ Key(s)' = Key(s)
  BY <1>3 DEF HasInserted, HasCounted, Key
<1>8. Key(r)' = Key(r)
  BY <1>4 DEF Key, a
<1>9. \A u \in Tables, b \in Assets : Counted(u, b)'
  BY <1>1 DEF CountInv, Counted, Present
<1>10. \A s \in Requests : HasInserted(s)' => Inserted(s)'
  <2>1. Inserted(r)'
    BY <1>1, <1>4, <1>5, <1>6, <1>8 DEF CountInv, Inserted, Present, a, t
  <2>2. \A s \in Requests \ {r} : HasInserted(s)' => Inserted(s)'
    BY <1>1, <1>3, <1>7 DEF CountInv, Inserted, Present
  <2>3. QED
    BY <2>1, <2>2
<1>11. \A s \in Requests \ {r} : Apart(r, s)' /\ Apart(s, r)'
  <2> SUFFICES ASSUME NEW s \in Requests \ {r} PROVE Apart(r, s)' /\ Apart(s, r)'
    OBVIOUS
  <2>1. CASE InsertRow(r)
    BY <1>3, <1>4, <1>5, <1>7, <1>8, <2>1 DEF Apart
  <2>2. CASE UpdateCount(r)
    <3>1. Apart(r, s) /\ Apart(s, r)
      BY DEF CountInv
    <3>2. HasInserted(s) => t # req[s].table \/ Key(r) # Key(s)
      BY <1>6, <2>2, <3>1 DEF Apart, t
    <3>3. HasCounted(s) => req[s].asset # a
      BY <1>6, <2>2
    <3>4. QED
      BY <1>3, <1>4, <1>7, <1>8, <3>2, <3>3 DEF Apart
  <2>3. QED
    BY <2>1, <2>2
<1>12. \A q, s \in Requests : q # s => Apart(q, s)'
  <2>1. ASSUME NEW q \in Requests \ {r}, NEW s \in Requests \ {r}, q # s PROVE Apart(q, s)'
    BY <1>3, <1>7, <2>1 DEF CountInv, Apart
  <2>2. QED
    BY <1>11, <2>1
<1>13. \A s \in Requests : HasCounted(s)' => InHand(s)'
  BY <1>1, <1>3, <1>4, <1>5, <1>6, <1>7 DEF CountInv, InHand
<1>14. QED
  BY <1>9, <1>10, <1>12, <1>13 DEF CountInv

LEMMA CountCommits ==
  ASSUME Typed, CountInv, NEW r \in Requests, Commit(r)
  PROVE  CountInv'
<1> DEFINE a == req[r].asset
           t == req[r].table
           k == Key(r)
<1>1. /\ HasInserted(r) /\ HasCounted(r) /\ End(r) /\ UNCHANGED asset
      /\ rows' = [rows EXCEPT ![t] = @ \cup {k}]
      /\ count' = [count EXCEPT ![t][a] = req[r].value]
  BY DEF Commit, At, HasInserted, HasCounted
<1>2. t \in Tables /\ a \in Assets /\ k \in Holders \X Assets /\ k[2] = a
  BY <1>1, Transaction DEF HasCounted
<1>3. /\ rows \in [Tables -> SUBSET (Holders \X Assets)] /\ count \in [Tables -> [Assets -> Nat]]
      /\ ReqsType
  BY DEF Typed, TablesType
<1>4. Present(a) /\ k \notin rows[t] /\ req[r].value = count[t][a] + 1
  BY <1>1 DEF CountInv, Inserted, InHand
<1>5. /\ ~HasInserted(r)' /\ ~HasCounted(r)'
      /\ \A s \in Requests \ {r} : req'[s] = req[s]
  BY <1>1, <1>3, Ends, Constants DEF HasInserted, HasCounted
<1>6. ASSUME NEW s \in Requests \ {r}
      PROVE  /\ HasInserted(s) => req[s].table # t \/ Key(s) # k
             /\ HasCounted(s) => req[s].asset # a
  BY <1>1 DEF CountInv, Apart
<1> HIDE DEF a, t, k
<1>7. /\ rows'[t] = rows[t] \cup {k} /\ \A u \in Tables \ {t} : rows'[u] = rows[u]
      /\ count'[t][a] = count[t][a] + 1
      /\ \A u \in Tables, b \in Assets : u # t \/ b # a => count'[u][b] = count[u][b]
  BY <1>1, <1>2, <1>3, <1>4
<1>8. ASSUME NEW u \in Tables, NEW b \in Assets PROVE Counted(u, b)'
  <2>1. Counted(u, b)
    BY DEF CountInv
  <2>2. CASE u = t /\ b = a
    <3>1. Of(a, rows'[t]) = Of(a, rows[t]) \cup {k} /\ k \notin Of(a, rows[t])
      BY <1>2, <1>4, <1>7 DEF Of
    <3>2. /\ IsFiniteSet(Of(a, rows[t]) \cup {k})
          /\ Cardinality(Of(a, rows[t]) \cup {k}) = Cardinality(Of(a, rows[t])) + 1
      BY <2>1, <2>2, <3>1, FS_AddElement DEF Counted
    <3>3. count'[t][a] = Cardinality(Of(a, rows'[t])) /\ IsFiniteSet(Of(a, rows'[t]))
      BY <1>4, <1>7, <2>1, <2>2, <3>1, <3>2 DEF Counted
    <3>4. QED
      <4>1. IsFiniteSet(Of(b, rows'[u])) /\ count'[u][b] = Cardinality(Of(b, rows'[u]))
        BY <2>2, <3>3
      <4>2. QED
        BY <4>1 DEF Counted, Of
  <2>3. CASE ~(u = t /\ b = a)
    <3>1. Of(b, rows'[u]) = Of(b, rows[u])
      BY <1>2, <1>7, <2>3 DEF Of
    <3>2. count'[u][b] = count[u][b]
      BY <1>7, <2>3
    <3>3. Present(b)' <=> Present(b)
      BY <1>1 DEF Present
    <3>4. Of(b, rows[u])' = Of(b, rows'[u])
      BY DEF Of
    <3>5. QED
      BY <2>1, <3>1, <3>2, <3>3, <3>4 DEF Counted
  <2>4. QED
    BY <2>2, <2>3
<1>9. \A s \in Requests : HasInserted(s)' => Inserted(s)'
  <2> SUFFICES ASSUME NEW s \in Requests \ {r}, HasInserted(s)' PROVE Inserted(s)'
    BY <1>5
  <2>1. HasInserted(s) /\ req'[s] = req[s]
    BY <1>5 DEF HasInserted
  <2>2. Inserted(s) /\ req[s].table \in Tables
    BY <2>1, Transaction DEF CountInv, HasInserted
  <2>3. Key(s) \notin rows'[req[s].table]
    BY <1>6, <1>7, <2>1, <2>2 DEF Inserted
  <2>4. QED
    BY <1>1, <2>1, <2>2, <2>3 DEF Inserted, Present, Key
<1>10. \A q, s \in Requests : q # s => Apart(q, s)'
  <2>1. ASSUME NEW q \in Requests \ {r}, NEW s \in Requests \ {r}, q # s PROVE Apart(q, s)'
    BY <1>5, <2>1 DEF CountInv, Apart, HasInserted, HasCounted, Key
  <2>2. QED
    BY <1>5, <2>1 DEF Apart
<1>11. \A s \in Requests : HasCounted(s)' => InHand(s)'
  <2> SUFFICES ASSUME NEW s \in Requests \ {r}, HasCounted(s)' PROVE InHand(s)'
    BY <1>5
  <2>1. HasCounted(s) /\ req'[s] = req[s] /\ InHand(s)
    BY <1>5 DEF HasCounted, CountInv
  <2>2. req[s].table \in Tables /\ req[s].asset \in Assets /\ req[s].asset # a
    BY <1>6, <2>1, Transaction DEF HasCounted
  <2>3. QED
    BY <1>7, <2>1, <2>2 DEF InHand
<1>12. QED
  BY <1>8, <1>9, <1>10, <1>11 DEF CountInv

LEMMA CountDeletes ==
  ASSUME Typed, CountInv, NEW b \in Assets, Delete(b)
  PROVE  CountInv'
<1>1. /\ asset \in [Assets -> {"approved", "unapproved", "deleted"}]
      /\ rows \in [Tables -> SUBSET (Holders \X Assets)]
  BY DEF Typed, TablesType
<1>2. /\ ~Present(b)' /\ \A a \in Assets \ {b} : Present(a)' <=> Present(a)
      /\ Of(b, rows["download"]) = {} /\ UNCHANGED req
      /\ \A t \in Tables, a \in Assets \ {b} : count'[t][a] = count[t][a]
      /\ \A r \in Requests : HasInserted(r) => req[r].asset # b
      /\ rows' = [rows EXCEPT !["install"] = @ \ Of(b, @)]
  <2>1. count \in [Tables -> [Assets -> Nat]]
    BY DEF Typed, TablesType
  <2>2. QED
    BY <1>1, <2>1 DEF Delete, Present
<1>3. /\ rows'["install"] = rows["install"] \ Of(b, rows["install"])
      /\ rows'["download"] = rows["download"]
  BY <1>1, <1>2 DEF Tables
<1>4. ASSUME NEW t \in Tables, NEW a \in Assets PROVE Counted(t, a)'
  <2>1. Counted(t, a)
    BY DEF CountInv
  <2>2. CASE a = b
    <3>1. Of(b, rows[t])' = {}
      BY <1>2, <1>3 DEF Of, Tables
    <3>2. QED
      BY <1>2, <2>2, <3>1, FS_EmptySet DEF Counted
  <2>3. CASE a # b
    <3>1. Of(a, rows[t])' = Of(a, rows[t])
      BY <1>3, <2>3 DEF Of, Tables
    <3>2. QED
      BY <1>2, <2>1, <2>3, <3>1 DEF Counted
  <2>4. QED
    BY <2>2, <2>3
<1>5. \A r \in Requests : HasInserted(r)' => Inserted(r)'
  <2> SUFFICES ASSUME NEW r \in Requests, HasInserted(r) PROVE Inserted(r)'
    BY <1>2 DEF HasInserted
  <2>1. Inserted(r) /\ req[r].table \in Tables /\ req[r].asset \in Assets /\ req[r].asset # b
    BY <1>2, Transaction DEF CountInv, HasInserted
  <2>2. rows'[req[r].table] \subseteq rows[req[r].table]
    BY <1>3, <2>1 DEF Tables
  <2>3. QED
    BY <1>2, <2>1, <2>2 DEF Inserted, Key
<1>6. \A r, s \in Requests : r # s => Apart(r, s)'
  BY <1>2 DEF CountInv, Apart, HasInserted, HasCounted, Key
<1>7. \A r \in Requests : HasCounted(r)' => InHand(r)'
  <2> SUFFICES ASSUME NEW r \in Requests, HasCounted(r) PROVE InHand(r)'
    BY <1>2 DEF HasCounted
  <2>1. InHand(r) /\ req[r].table \in Tables /\ req[r].asset \in Assets /\ req[r].asset # b
    BY <1>2, Transaction DEF CountInv, HasCounted, HasInserted
  <2>2. QED
    BY <1>2, <2>1 DEF InHand
<1>8. QED
  BY <1>4, <1>5, <1>6, <1>7 DEF CountInv

LEMMA CountStep == Typed /\ CountInv /\ [Next]_vars => CountInv'
<1> SUFFICES ASSUME Typed, CountInv, [Next]_vars PROVE CountInv'
  OBVIOUS
<1>1. ReqsType /\ asset \in [Assets -> {"approved", "unapproved", "deleted"}]
  BY DEF Typed, TablesType
<1>2. CASE \/ \E r \in Requests : InsertRow(r) \/ UpdateCount(r) \/ Commit(r)
           \/ \E b \in Assets : Delete(b)
  BY <1>2, CountGoesOn, CountCommits, CountDeletes
<1>3. CASE ~ \/ \E r \in Requests : InsertRow(r) \/ UpdateCount(r) \/ Commit(r)
             \/ \E b \in Assets : Delete(b)
  <2>1. UNCHANGED <<rows, count>>
    BY <1>3, ZenonT(60) DEF Next, RequestStep, ToggleTest, ToggleDelete, ToggleInsert, ReviewFind,
       ReviewUpdate,
       ReviewCreate, StoreReview, AnswerReview, CountBegin, InsertNothing, BreakOff, AverageRead,
       AverageWrite,
       AverageFail, Decide, Restart, vars, tableVars
  <2>2. UNCHANGED asset \/ \E b \in Assets : Decide(b)
    BY <1>3, ZenonT(60) DEF Next, RequestStep, ToggleTest, ToggleDelete, ToggleInsert, ReviewFind,
       ReviewUpdate,
       ReviewCreate, StoreReview, AnswerReview, CountBegin, InsertNothing, BreakOff, AverageRead,
       AverageWrite,
       AverageFail, Restart, vars, tableVars
  <2>3. \A a \in Assets : Present(a)' <=> Present(a)
    BY <1>1, <2>2 DEF Decide, Present
  <2>4. ASSUME NEW r \in Requests, NEW u \in Users, NEW a \in Assets, ToggleTest(r, u, a)
        PROVE  \A s \in Requests : HasInserted(s)' => req'[s] = req[s]
    <3> DEFINE c == [Idle EXCEPT !.at = "toggle", !.who = u, !.asset = a, !.seen = <<u, a>> \in fav]
    <3>1. c.at = "toggle" /\ Begin(r, c)
      BY <2>4 DEF ToggleTest, Idle
    <3> HIDE DEF c
    <3>2. QED
      BY <1>1, <3>1, Begins DEF HasInserted
  <2>5. \A s \in Requests : HasInserted(s)' => req'[s] = req[s]
    BY <1>3, <2>4, Moves DEF Quiet, HasInserted
  <2>6. QED
    BY <2>1, <2>3, <2>5, CountKept, SMTT(60)
<1>4. QED
  BY <1>2, <1>3

LEMMA CountsInductive == Spec => []CountInv
<1>1. Init => CountInv
  <2> SUFFICES ASSUME Init PROVE CountInv
    OBVIOUS
  <2>1. \A r \in Requests : ~HasInserted(r) /\ ~HasCounted(r)
    BY Constants DEF Init, HasInserted, HasCounted
  <2>2. ASSUME NEW t \in Tables, NEW a \in Assets PROVE Counted(t, a)
    <3>1. Of(a, rows[t]) = {} /\ count[t][a] = 0
      BY DEF Init, Of
    <3>2. QED
      BY <3>1, FS_EmptySet DEF Counted
  <2>3. QED
    BY <2>1, <2>2 DEF CountInv, Apart
<1>2. QED
  BY <1>1, CountStep, AlwaysTyped, PTL DEF Spec

\* asset_install.go, asset.go: the counts of an asset are the numbers of its rows,
\* whatever overlaps or breaks off.
THEOREM CountsCorrect == Spec => []CountsMatch
<1>1. CountInv => CountsMatch
  BY DEF CountInv, Counted, CountsMatch
<1>2. QED
  BY <1>1, CountsInductive, PTL

-----------------------------------------------------------------------------
(* The record of AssetRecord: each request acts on it once, or not at all.  *)

Gone == {a \in Assets : ~Present(a)}

\* The record stays, whoever's turn it is.
LEMMA RecordStutter ==
  ASSUME UNCHANGED <<asset, fav, score, rows, count>>
  PROVE  UNCHANGED Record!recordVars
BY DEF Record!recordVars, Present

LEMMA GoneKept ==
  ASSUME UNCHANGED asset
  PROVE  Gone' = Gone
BY DEF Gone, Present

\* A favourite is there or not, for its user and its asset; one of an asset that
\* is gone cannot be, so that taking it away changes nothing.
LEMMA ToggleRecorded ==
  ASSUME Typed, NEW r \in Requests, ToggleDelete(r) \/ ToggleInsert(r)
  PROVE  [Record!RecordNext]_(Record!recordVars)
<1>1. PICK u \in Users, a \in Assets : u = req[r].who /\ a = req[r].asset
  BY DEF ToggleDelete, ToggleInsert, At, Typed, ReqsType, ReqType
<1>2. /\ fav' \in {fav \cup {<<u, a>>}, fav \ {<<u, a>>}}
      /\ UNCHANGED <<asset, score, rows, count>>
      /\ Present(a) \/ fav' = fav \ {<<u, a>>}
  BY <1>1 DEF ToggleDelete, ToggleInsert, Key
<1>3. CASE Present(a)
  <2>1. a \notin Gone /\ Gone' = Gone
    BY <1>2, <1>3, GoneKept DEF Gone
  <2>2. Record!Toggle(u, a)
    BY <1>2, <2>1 DEF Record!Toggle, Gone
  <2>3. QED
    BY <2>2 DEF Record!RecordNext
<1>4. CASE ~Present(a)
  <2>1. Of(a, fav) = {}
    BY <1>4 DEF Typed, TablesType
  <2>2. fav' = fav
    BY <1>2, <1>4, <2>1 DEF Of
  <2>3. QED
    BY <1>2, <2>2, RecordStutter
<1>5. QED
  BY <1>3, <1>4

LEMMA ReviewRecorded ==
  ASSUME Typed, NEW r \in Requests, ReviewUpdate(r) \/ ReviewCreate(r)
  PROVE  [Record!RecordNext]_(Record!recordVars)
<1>1. PICK u \in Users, a \in Assets, s \in Scores :
        u = req[r].who /\ a = req[r].asset /\ s = req[r].value
  BY Storing DEF Typed, ReqsType, ReqType, At
<1>2. /\ score' = IF Present(a) THEN [score EXCEPT ![a][u] = s] ELSE score
      /\ UNCHANGED <<asset, fav, rows, count>>
  BY <1>1, Storing DEF StoreReview, Scored
<1>3. CASE Present(a)
  <2>1. a \notin Gone /\ Gone' = Gone
    BY <1>2, <1>3, GoneKept DEF Gone
  <2>2. Record!Review(u, a, s)
    BY <1>2, <1>3, <2>1 DEF Record!Review, Gone
  <2>3. QED
    BY <2>2 DEF Record!RecordNext
<1>4. CASE ~Present(a)
  BY <1>2, <1>4, RecordStutter
<1>5. QED
  BY <1>3, <1>4

\* A commit adds a row that was not there, of an asset that is, and one to the
\* count: what the request has in hand is still one more than what stands.
LEMMA CommitRecorded ==
  ASSUME Typed, CountInv, NEW r \in Requests, Commit(r)
  PROVE  [Record!RecordNext]_(Record!recordVars)
<1>1. req[r].at = "commit" /\ HasInserted(r) /\ HasCounted(r)
  BY DEF Commit, At, HasInserted, HasCounted
<1>2. PICK t \in Tables, h \in Holders, a \in Assets :
        t = req[r].table /\ h = req[r].who /\ a = req[r].asset
  BY <1>1 DEF Typed, ReqsType, ReqType, ReqSet
<1>3. /\ Present(a) /\ <<h, a>> \notin rows[t]
      /\ req[r].value = count[t][a] + 1
  BY <1>1, <1>2 DEF CountInv, Inserted, InHand, Key
<1>4. /\ rows' = [rows EXCEPT ![t] = @ \cup {<<h, a>>}]
      /\ count' = [count EXCEPT ![t][a] = req[r].value]
      /\ UNCHANGED <<asset, fav, score>>
  BY <1>2 DEF Commit, Key
<1>5. count' = [count EXCEPT ![t][a] = @ + 1]
  BY <1>3, <1>4
<1>6. a \notin Gone /\ Gone' = Gone
  BY <1>3, <1>4, GoneKept DEF Gone
<1>7. Record!Count(t, h, a)
  BY <1>3, <1>4, <1>5, <1>6 DEF Record!Count, Gone
<1>8. QED
  BY <1>7 DEF Record!RecordNext

LEMMA DeleteRecorded ==
  ASSUME Typed, NEW a \in Assets, Delete(a)
  PROVE  [Record!RecordNext]_(Record!recordVars)
<1>1. /\ asset \in [Assets -> {"approved", "unapproved", "deleted"}]
      /\ rows \in [Tables -> SUBSET (Holders \X Assets)]
  BY DEF Typed, TablesType
<1>2. /\ Present(a) /\ Of(a, fav) = {} /\ Of(a, rows["download"]) = {}
      /\ asset' = [asset EXCEPT ![a] = "deleted"]
      /\ score' = [score EXCEPT ![a] = NoScores]
      /\ rows' = [rows EXCEPT !["install"] = @ \ Of(a, @)]
      /\ count' = [t \in Tables |-> [count[t] EXCEPT ![a] = 0]]
      /\ UNCHANGED fav
  BY DEF Delete
<1>3. rows' = [t \in Tables |-> rows[t] \ Of(a, rows[t])]
  <2>1. rows["download"] \ Of(a, rows["download"]) = rows["download"]
    BY <1>2
  <2>2. ASSUME NEW t \in Tables PROVE rows'[t] = rows[t] \ Of(a, rows[t])
    BY <1>1, <1>2, <2>1 DEF Tables
  <2>3. rows' \in [Tables -> SUBSET (Holders \X Assets)]
    BY <1>1, <1>2
  <2>4. QED
    BY <2>2, <2>3
<1>4. a \notin Gone /\ Gone' = Gone \cup {a}
  BY <1>1, <1>2 DEF Gone, Present
<1>5. /\ Record!Of(a, fav) = Of(a, fav)
      /\ \A t \in Tables : Record!Of(a, rows[t]) = Of(a, rows[t])
      /\ Record!NoScores = NoScores
  BY DEF Of, Record!Of, NoScores, Record!NoScores
<1>6. Record!Erase(a)
  BY <1>2, <1>3, <1>4, <1>5 DEF Record!Erase, Gone, Tables
<1>7. QED
  BY <1>6 DEF Record!RecordNext

LEMMA DecideRecorded ==
  ASSUME Typed, NEW a \in Assets, Decide(a)
  PROVE  UNCHANGED Record!recordVars
<1>1. \A b \in Assets : Present(b)' <=> Present(b)
  BY DEF Typed, TablesType, Decide, Present
<1>2. Gone' = Gone
  BY <1>1 DEF Gone
<1>3. QED
  BY <1>2 DEF Decide, Record!recordVars, Gone

LEMMA RecordStep == Typed /\ CountInv /\ [Next]_vars => [Record!RecordNext]_(Record!recordVars)
<1> SUFFICES ASSUME Typed, CountInv, [Next]_vars
             PROVE  [Record!RecordNext]_(Record!recordVars)
  OBVIOUS
<1>1. CASE \E r \in Requests : \/ ToggleDelete(r) \/ ToggleInsert(r)
                               \/ ReviewUpdate(r) \/ ReviewCreate(r) \/ Commit(r)
  BY <1>1, ToggleRecorded, ReviewRecorded, CommitRecorded
<1>2. CASE \E a \in Assets : Decide(a) \/ Delete(a)
  BY <1>2, DecideRecorded, DeleteRecorded
<1>3. CASE UNCHANGED <<asset, fav, score, rows, count>>
  BY <1>3, RecordStutter
<1>4. QED
  BY <1>1, <1>2, <1>3, ZenonT(60)
     DEF Next, RequestStep, ToggleTest, ReviewFind, AnswerReview, CountBegin, InsertRow,
        InsertNothing,
         UpdateCount, BreakOff, AverageRead, AverageWrite, AverageFail, Restart, vars, tableVars

\* favorite.go, review.go, asset_install.go, asset.go: installs, downloads,
\* favourites, reviews and deletions change the record as single steps would,
\* whatever overlaps, breaks off or is repeated.
THEOREM RecordCorrect == Spec => RecordSpec
<1>1. Init => Record!RecordInit
  <2>1. ASSUME Init PROVE Gone = {}
    BY <2>1 DEF Init, Gone, Present
  <2>2. QED
    BY <2>1 DEF Init, Gone, Record!RecordInit, NoScores, Record!NoScores
<1>2. QED
  BY <1>1, CountsInductive, RecordStep, AlwaysTyped, PTL
     DEF Spec, RecordSpec, Record!RecordSpec

=============================================================================
