---------------------------- MODULE ReviewLedger ----------------------------
(***************************************************************************)
(* What review promises of one asset: a version waits for review once, only*)
(* an administrator's decision makes it approved or rejected, an upload    *)
(* sets aside what still waits and nothing else, and a version is shown    *)
(* (as the current version, or by its content) only if it was approved at  *)
(* some time or is the one the asset was published with.                   *)
(***************************************************************************)
CONSTANTS Versions, None

VARIABLES
  status,   \* review status of each version
  opening,  \* the version the asset was published with
  passed,   \* the versions approved at some time
  shown     \* the version current, and the version whose content is shown

ledgerVars == <<status, opening, passed, shown>>

Nothing == [current |-> None, content |-> None]

LedgerInit ==
  /\ status = [v \in Versions |-> "absent"]
  /\ opening = None
  /\ passed = {}
  /\ shown = Nothing

Open(v) ==
  /\ opening = None
  /\ opening' = v
  /\ status' = [status EXCEPT ![v] = "pending"]
  /\ shown' \in {Nothing, [Nothing EXCEPT !.content = v]}
  /\ UNCHANGED passed

Submit(v) ==
  /\ opening # None
  /\ status[v] = "absent"
  /\ status' = [status EXCEPT ![v] = "pending"]
  /\ UNCHANGED <<opening, passed, shown>>

SetAside ==
  /\ status' = [v \in Versions |->
                  IF status[v] = "pending" THEN "superseded" ELSE status[v]]
  /\ UNCHANGED <<opening, passed, shown>>

Pass(v) ==
  /\ status[v] # "absent"
  /\ status' = [status EXCEPT ![v] = "approved"]
  /\ passed' = passed \cup {v}
  /\ UNCHANGED <<opening, shown>>

Refuse(v) ==
  /\ status[v] # "absent"
  /\ status' = [status EXCEPT ![v] = "rejected"]
  /\ UNCHANGED <<opening, passed, shown>>

Show(v) ==
  /\ v = opening \/ v \in passed
  /\ shown' \in {[shown EXCEPT !.current = v], [shown EXCEPT !.content = v]}
  /\ UNCHANGED <<status, opening, passed>>

Erase ==
  /\ status' = [v \in Versions |-> "absent"]
  /\ shown' = Nothing
  /\ UNCHANGED <<opening, passed>>

LedgerNext ==
  \/ SetAside \/ Erase
  \/ \E v \in Versions : Open(v) \/ Submit(v) \/ Pass(v) \/ Refuse(v) \/ Show(v)

LedgerSpec == LedgerInit /\ [][LedgerNext]_ledgerVars
=============================================================================
