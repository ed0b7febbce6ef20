----------------------------- MODULE AssetRecord -----------------------------
(***************************************************************************)
(* What users may rely on of the record they leave on assets, as if every  *)
(* request were one step: an install or a download is a row and one more   *)
(* in the count, or nothing; a favourite or a review changes for its user  *)
(* and its asset alone, and a review is not taken back; an asset goes with *)
(* all of its record, if nobody keeps it as a favourite or has downloaded  *)
(* it, and does not come back.                                             *)
(***************************************************************************)
EXTENDS Naturals

CONSTANTS Assets, Users, Holders, Tables, Scores

VARIABLES
  gone,   \* deleted assets
  fav,    \* favourites
  score,  \* reviews, 0 for none
  rows,   \* installs and downloads
  count   \* the number of each that is shown

recordVars == <<gone, fav, score, rows, count>>

NoScores == [u \in Users |-> 0]

RecordInit ==
  /\ gone = {}
  /\ fav = {}
  /\ score = [a \in Assets |-> NoScores]
  /\ rows = [t \in Tables |-> {}]
  /\ count = [t \in Tables |-> [a \in Assets |-> 0]]

Toggle(u, a) ==
  /\ a \notin gone
  /\ fav' \in {fav \cup {<<u, a>>}, fav \ {<<u, a>>}}
  /\ UNCHANGED <<gone, score, rows, count>>

Review(u, a, s) ==
  /\ a \notin gone
  /\ score' = [score EXCEPT ![a][u] = s]
  /\ UNCHANGED <<gone, fav, rows, count>>

Count(t, h, a) ==
  /\ a \notin gone
  /\ <<h, a>> \notin rows[t]
  /\ rows' = [rows EXCEPT ![t] = @ \cup {<<h, a>>}]
  /\ count' = [count EXCEPT ![t][a] = @ + 1]
  /\ UNCHANGED <<gone, fav, score>>

Of(a, table) == {k \in table : k[2] = a}

Erase(a) ==
  /\ a \notin gone
  /\ Of(a, fav) = {} /\ Of(a, rows["download"]) = {}
  /\ gone' = gone \cup {a}
  /\ score' = [score EXCEPT ![a] = NoScores]
  /\ rows' = [t \in Tables |-> rows[t] \ Of(a, rows[t])]
  /\ count' = [t \in Tables |-> [count[t] EXCEPT ![a] = 0]]
  /\ UNCHANGED fav

RecordNext ==
  \/ \E a \in Assets : Erase(a)
  \/ \E u \in Users, a \in Assets : Toggle(u, a) \/ \E s \in Scores : Review(u, a, s)
  \/ \E t \in Tables, h \in Holders, a \in Assets : Count(t, h, a)

RecordSpec == RecordInit /\ [][RecordNext]_recordVars
=============================================================================
