------------------------- MODULE AssetReviewProofs -------------------------
(***************************************************************************)
(* What AssetReview keeps for any versions and any number of requests.     *)
(***************************************************************************)
EXTENDS AssetReview, TLAPS

Showable == {first} \cup reviewed
Settled == Present \ Pending

Showing == {"create_point", "set_sync", "set_point", "approve_asset", "approve_read",
            "approve_version", "approve_sync", "pass_point", "pass_sync"}

\* Before the asset is created nothing has happened; then it has a first version.
Untouched ==
  /\ asset.status = "absent" =>
       /\ asset = NoRow /\ first = None
       /\ \A r \in Requests : req[r] = Idle
       /\ \A v \in Versions : before[v] = {}
  /\ asset.status # "absent" => first # None

\* What is shown was approved at some time, or opened the asset.
ShownPassed ==
  /\ {asset.current, asset.content} \subseteq Showable \cup {None}
  /\ \A v \in Versions : version[v] = "approved" => v \in reviewed

\* So was the version that a request is about to show.
InHand == \A r \in Requests : req[r].at \in Showing => req[r].ver \in Showable \cup {None}

\* What an upload set aside is there and does not wait again.
AsideStays ==
  Exists =>
    /\ \A r \in Requests : At(r, "upload_insert") => req[r].list \subseteq Settled
    /\ \A v \in Versions : before[v] \subseteq Settled

IInv == TypeOK /\ Untouched /\ ShownPassed /\ InHand /\ AsideStays
-----------------------------------------------------------------------------
(* Types. *)

\* Requests for version v past the SELECT of SupersedePending.
Chosen(v) ==
  {q \in [at : {"upload_insert", "upload_supersede"}, ver : {v}, status : {"absent"},
          list : SUBSET Versions] : q.at = "upload_insert" => q.list \subseteq Settled}

LEMMA TypeInit == Init => TypeOK
  BY ReviewAssumption DEF Init, TypeOK, Places, AssetStatuses, Live, VersionStatuses,
     Versionless, NoRow, Idle, Exists, Present, At

\* What UploadVersion may go on with once SupersedePending has selected.
LEMMA UploadSelected ==
  ASSUME TypeOK, NEW r \in Requests, NEW v \in Versions, UploadSelect(r, v)
  PROVE  \E q \in Chosen(v) : req' = [req EXCEPT ![r] = q]
<1>1. Present \subseteq Versions /\ Pending \subseteq Versions
  BY DEF Present, Pending
<1>2. CASE Pending = {} /\ req' = [req EXCEPT ![r] =
             [Idle EXCEPT !.at = "upload_insert", !.ver = v, !.list = Present]]
  BY <1>1, <1>2 DEF Chosen, Idle, Settled
<1>3. CASE req' = [req EXCEPT ![r] =
             [Idle EXCEPT !.at = "upload_supersede", !.ver = v, !.list = Pending]]
  BY <1>1, <1>3 DEF Chosen, Idle
<1>4. CASE Begin(r, "upload_insert", v)
  BY <1>4 DEF Begin, Chosen, Idle
<1> QED
  BY <1>2, <1>3, <1>4 DEF UploadSelect

\* Every handler, whatever fails under it, leaves rows and requests well typed.
LEMMA TypeStep ==
  ASSUME TypeOK, [Next]_vars
  PROVE  TypeOK'
<1> USE ReviewAssumption
<1> SUFFICES ASSUME NEW r \in Requests, AuthorStep(r) \/ AdminStep(r) \/ Abort(r)
             PROVE  TypeOK'
  BY DEF AssetStatuses, At, Exists, Live, Next, Places, Present, TypeOK,
       VersionStatuses, Versionless, history, rows, vars
<1>1. ASSUME NEW v \in Versions, CreateWithVersion(r, v) PROVE TypeOK'
  BY <1>1, ZenonT(60) DEF CreateWithVersion, At, Begin, Idle, TypeOK, Versionless, Places,
       AssetStatuses, Live, VersionStatuses, Exists, Present
<1>2. ASSUME NEW v \in Versions, UploadSelect(r, v) PROVE TypeOK'
  <2>1. PICK q \in Chosen(v) : req' = [req EXCEPT ![r] = q]
    BY <1>2, UploadSelected
  <2>2. /\ q \in [at : Places, ver : Versions \cup {None},
                  status : AssetStatuses, list : SUBSET Versions]
        /\ q.at # "edit" /\ q.ver # None
    BY DEF Chosen, Places, AssetStatuses, Live
  <2>3. UNCHANGED <<asset, version, first, reviewed, before>>
    BY <1>2 DEF UploadSelect, rows, history
  <2> QED
    BY <2>1, <2>2, <2>3 DEF TypeOK, Exists, Present, At
<1>3. ASSUME NEW v \in Versions, SetCurrentCheck(r, v) PROVE TypeOK'
  BY <1>3 DEF SetCurrentCheck, At, Begin, Idle, Exists, rows, history, TypeOK,
       Versionless, Places, AssetStatuses, Live, VersionStatuses, Present
<1>4. ASSUME NEW v \in Versions, ApproveVersion(r, v) PROVE TypeOK'
  BY <1>4 DEF ApproveVersion, At, Begin, Idle, Present, Decide, TypeOK,
       Versionless, Places, AssetStatuses, Live, VersionStatuses, Exists
<1>5. ASSUME NEW v \in Versions, RejectVersion(r, v) PROVE TypeOK'
  BY <1>5 DEF RejectVersion, At, Present, Decide, TypeOK, Versionless, Places,
       AssetStatuses, Live, VersionStatuses, Exists
<1>6. ASSUME CreatePoint(r) PROVE TypeOK'
  BY <1>6 DEF CreatePoint, At, End, Idle, Exists, UpdateCurrentVersion,
       history, TypeOK, Versionless, Places, AssetStatuses, Live,
       VersionStatuses, Present
<1>7. ASSUME UploadSupersede(r) PROVE TypeOK'
  BY <1>7, SMTT(60) DEF UploadSupersede, At, Present, Pending, history, TypeOK,
       Versionless, Places, AssetStatuses, Live, VersionStatuses, Exists
<1>8. ASSUME UploadInsert(r) PROVE TypeOK'
  BY <1>8 DEF UploadInsert, At, End, Idle, Exists, Present, TypeOK,
       Versionless, Places, AssetStatuses, Live, VersionStatuses
<1>9. ASSUME SetCurrentSync(r) PROVE TypeOK'
  BY <1>9 DEF SetCurrentSync, At, Go, Exists, UpdateReadme, history, TypeOK,
       Versionless, Places, AssetStatuses, Live, VersionStatuses, Present
<1>10. ASSUME SetCurrentPoint(r) PROVE TypeOK'
  BY <1>10 DEF SetCurrentPoint, At, End, Idle, Exists, UpdateCurrentVersion,
       history, TypeOK, Versionless, Places, AssetStatuses, Live,
       VersionStatuses, Present
<1>11. ASSUME EditRead(r) PROVE TypeOK'
  BY <1>11 DEF EditRead, At, Idle, Exists, rows, history, TypeOK, Versionless,
       Places, AssetStatuses, Live, VersionStatuses, Present
<1>12. ASSUME EditWrite(r) PROVE TypeOK'
  BY <1>12 DEF EditWrite, At, End, Idle, Exists, UpdateStatus, history,
       TypeOK, Versionless, Places, AssetStatuses, Live, VersionStatuses,
       Present
<1>13. ASSUME Delete(r) PROVE TypeOK'
  BY <1>13 DEF Delete, At, Exists, NoRow, history, TypeOK, Versionless,
       Places, AssetStatuses, Live, VersionStatuses, Present
<1>14. ASSUME ApproveRead(r) PROVE TypeOK'
  BY <1>14 DEF ApproveRead, At, Begin, Idle, Exists, rows, history, TypeOK,
       Versionless, Places, AssetStatuses, Live, VersionStatuses, Present
<1>15. ASSUME ApproveAsset(r) PROVE TypeOK'
  BY <1>15, SMTT(60) DEF ApproveAsset, At, Go, End, Idle, Exists, UpdateStatus, history,
       TypeOK, Versionless, Places, AssetStatuses, Live, VersionStatuses,
       Present
<1>16. ASSUME ApproveReadVersion(r) PROVE TypeOK'
  BY <1>16, SMTT(60) DEF ApproveReadVersion, At, Go, End, Idle, Present, rows, history,
       TypeOK, Versionless, Places, AssetStatuses, Live, VersionStatuses,
       Exists
<1>17. ASSUME ApproveCurrent(r) PROVE TypeOK'
  BY <1>17 DEF ApproveCurrent, At, Go, End, Idle, Present, Decide, TypeOK,
       Versionless, Places, AssetStatuses, Live, VersionStatuses, Exists
<1>18. ASSUME ApproveSync(r) PROVE TypeOK'
  BY <1>18 DEF ApproveSync, At, End, Idle, Exists, UpdateReadme, history,
       TypeOK, Versionless, Places, AssetStatuses, Live, VersionStatuses,
       Present
<1>19. ASSUME RejectAsset(r) PROVE TypeOK'
  BY <1>19 DEF RejectAsset, At, Begin, Idle, Exists, UpdateStatus, history,
       TypeOK, Versionless, Places, AssetStatuses, Live, VersionStatuses,
       Present
<1>20. ASSUME RejectList(r) PROVE TypeOK'
  BY <1>20, SMTT(60) DEF RejectList, At, End, Idle, Pending, rows, history, TypeOK,
       Versionless, Places, AssetStatuses, Live, VersionStatuses, Exists,
       Present
<1>21. ASSUME RejectCascade(r) PROVE TypeOK'
  BY <1>21 DEF RejectCascade, At, End, Idle, Present, Decide, TypeOK,
       Versionless, Places, AssetStatuses, Live, VersionStatuses, Exists
<1>22. ASSUME PassPoint(r) PROVE TypeOK'
  BY <1>22 DEF PassPoint, At, Go, End, Idle, Exists, UpdateCurrentVersion,
       history, TypeOK, Versionless, Places, AssetStatuses, Live,
       VersionStatuses, Present
<1>23. ASSUME PassSync(r) PROVE TypeOK'
  BY <1>23 DEF PassSync, At, End, Idle, Exists, UpdateReadme, history, TypeOK,
       Versionless, Places, AssetStatuses, Live, VersionStatuses, Present
<1>24. ASSUME Abort(r) PROVE TypeOK'
  BY <1>24 DEF Abort, End, Idle, rows, history, TypeOK, Versionless, Places,
       AssetStatuses, Live, VersionStatuses, Exists, Present, At
<1> QED BY <1>1, <1>2, <1>3, <1>4, <1>5, <1>6, <1>7, <1>8, <1>9, <1>10, <1>11,
       <1>12, <1>13, <1>14, <1>15, <1>16, <1>17, <1>18, <1>19, <1>20, <1>21,
       <1>22, <1>23, <1>24
  DEF AuthorStep, AdminStep

\* Every row, request and history keeps its type, a request that has passed its
\* check holds what it read, and no version outlives its asset: the handlers
\* of asset.go and admin.go, with ON DELETE CASCADE.
THEOREM TypeCorrect == Spec => []TypeOK
<1>1. Init => TypeOK
  BY TypeInit
<1>2. TypeOK /\ [Next]_vars => TypeOK'
  BY TypeStep
<1> QED
  BY <1>1, <1>2, PTL DEF Spec
-----------------------------------------------------------------------------
(* The inductive invariant, one part at a time. *)

LEMMA SafeInit == Init => IInv
  BY TypeInit DEF Init, IInv, Untouched, ShownPassed, InHand, AsideStays, Showable, Showing,
     NoRow, Idle, Exists, Live

\* The first step of all is the creation of the asset.
LEMMA UntouchedStep ==
  ASSUME IInv, [Next]_vars
  PROVE  Untouched'
<1> USE ReviewAssumption
<1> SUFFICES ASSUME NEW r \in Requests, AuthorStep(r) \/ AdminStep(r) \/ Abort(r)
             PROVE  Untouched'
  BY DEF At, Exists, IInv, Live, Next, NoRow, Present, TypeOK, Untouched,
       history, rows, vars
<1>1. ASSUME NEW v \in Versions, CreateWithVersion(r, v) PROVE Untouched'
  BY <1>1 DEF CreateWithVersion, At, Begin, Idle, IInv, Untouched, TypeOK,
       NoRow, Exists, Live, Present
<1>2. ASSUME NEW v \in Versions, UploadSelect(r, v) PROVE Untouched'
  BY <1>2 DEF UploadSelect, At, Begin, Idle, Exists, Present, Pending, rows,
       history, IInv, Untouched, TypeOK, NoRow, Live
<1>3. ASSUME NEW v \in Versions, SetCurrentCheck(r, v) PROVE Untouched'
  BY <1>3 DEF SetCurrentCheck, At, Begin, Idle, Exists, rows, history, IInv,
       Untouched, TypeOK, NoRow, Live, Present
<1>4. ASSUME NEW v \in Versions, ApproveVersion(r, v) PROVE Untouched'
  BY <1>4 DEF ApproveVersion, At, Begin, Idle, Present, Decide, IInv,
       Untouched, TypeOK, NoRow, Exists, Live
<1>5. ASSUME NEW v \in Versions, RejectVersion(r, v) PROVE Untouched'
  BY <1>5 DEF RejectVersion, At, Present, Decide, IInv, Untouched, TypeOK,
       NoRow, Exists, Live
<1>6. ASSUME CreatePoint(r) PROVE Untouched'
  BY <1>6 DEF CreatePoint, At, End, Idle, Exists, UpdateCurrentVersion,
       history, IInv, Untouched, TypeOK, NoRow, Live, Present
<1>7. ASSUME UploadSupersede(r) PROVE Untouched'
  <2> USE DEF IInv
  <2>1. asset.status # "absent"
    BY <1>7 DEF UploadSupersede, At, Untouched, Idle
  <2> QED
    BY <1>7, <2>1 DEF UploadSupersede, history, Untouched
<1>8. ASSUME UploadInsert(r) PROVE Untouched'
  BY <1>8 DEF UploadInsert, At, End, Idle, Exists, Present, IInv, Untouched,
       TypeOK, NoRow, Live
<1>9. ASSUME SetCurrentSync(r) PROVE Untouched'
  <2> USE DEF IInv
  <2>1. asset.status # "absent"
    BY <1>9 DEF SetCurrentSync, At, Untouched, Idle
  <2>2. asset'.status = asset.status /\ UNCHANGED first
    BY <1>9 DEF SetCurrentSync, UpdateReadme, history, TypeOK
  <2> QED
    BY <2>1, <2>2 DEF Untouched
<1>10. ASSUME SetCurrentPoint(r) PROVE Untouched'
  BY <1>10 DEF SetCurrentPoint, At, End, Idle, Exists, UpdateCurrentVersion,
       history, IInv, Untouched, TypeOK, NoRow, Live, Present
<1>11. ASSUME EditRead(r) PROVE Untouched'
  BY <1>11 DEF EditRead, At, Idle, Exists, rows, history, IInv, Untouched,
       TypeOK, NoRow, Live, Present
<1>12. ASSUME EditWrite(r) PROVE Untouched'
  BY <1>12 DEF EditWrite, At, End, Idle, Exists, UpdateStatus, history, IInv,
       Untouched, TypeOK, NoRow, Live, Present
<1>13. ASSUME Delete(r) PROVE Untouched'
  BY <1>13 DEF Delete, At, Exists, NoRow, history, IInv, Untouched, TypeOK,
       Live, Present
<1>14. ASSUME ApproveRead(r) PROVE Untouched'
  BY <1>14 DEF ApproveRead, At, Begin, Idle, Exists, rows, history, IInv,
       Untouched, TypeOK, NoRow, Live, Present
<1>15. ASSUME ApproveAsset(r) PROVE Untouched'
  BY <1>15 DEF ApproveAsset, At, Go, End, Idle, Exists, UpdateStatus, history,
       IInv, Untouched, TypeOK, NoRow, Live, Present
<1>16. ASSUME ApproveReadVersion(r) PROVE Untouched'
  BY <1>16 DEF ApproveReadVersion, At, Go, End, Idle, Present, rows, history,
       IInv, Untouched, TypeOK, NoRow, Exists, Live
<1>17. ASSUME ApproveCurrent(r) PROVE Untouched'
  BY <1>17 DEF ApproveCurrent, At, Go, End, Idle, Present, Decide, IInv,
       Untouched, TypeOK, NoRow, Exists, Live
<1>18. ASSUME ApproveSync(r) PROVE Untouched'
  BY <1>18 DEF ApproveSync, At, End, Idle, Exists, UpdateReadme, history,
       IInv, Untouched, TypeOK, NoRow, Live, Present
<1>19. ASSUME RejectAsset(r) PROVE Untouched'
  BY <1>19 DEF RejectAsset, At, Begin, Idle, Exists, UpdateStatus, history,
       IInv, Untouched, TypeOK, NoRow, Live, Present
<1>20. ASSUME RejectList(r) PROVE Untouched'
  BY <1>20 DEF RejectList, At, End, Idle, Pending, rows, history, IInv,
       Untouched, TypeOK, NoRow, Exists, Live, Present
<1>21. ASSUME RejectCascade(r) PROVE Untouched'
  BY <1>21 DEF RejectCascade, At, End, Idle, Present, Decide, IInv, Untouched,
       TypeOK, NoRow, Exists, Live
<1>22. ASSUME PassPoint(r) PROVE Untouched'
  BY <1>22 DEF PassPoint, At, Go, End, Idle, Exists, UpdateCurrentVersion,
       history, IInv, Untouched, TypeOK, NoRow, Live, Present
<1>23. ASSUME PassSync(r) PROVE Untouched'
  BY <1>23 DEF PassSync, At, End, Idle, Exists, UpdateReadme, history, IInv,
       Untouched, TypeOK, NoRow, Live, Present
<1>24. ASSUME Abort(r) PROVE Untouched'
  BY <1>24 DEF Abort, End, Idle, rows, history, IInv, Untouched, TypeOK,
       NoRow, Exists, Live, Present, At
<1> QED BY <1>1, <1>2, <1>3, <1>4, <1>5, <1>6, <1>7, <1>8, <1>9, <1>10, <1>11,
       <1>12, <1>13, <1>14, <1>15, <1>16, <1>17, <1>18, <1>19, <1>20, <1>21,
       <1>22, <1>23, <1>24
  DEF AuthorStep, AdminStep

\* A version comes to be shown from the hands of a request, or from its creation.
LEMMA ShownStep ==
  ASSUME IInv, [Next]_vars
  PROVE  ShownPassed'
<1> USE ReviewAssumption
<1> SUFFICES ASSUME NEW r \in Requests, AuthorStep(r) \/ AdminStep(r) \/ Abort(r)
             PROVE  ShownPassed'
  BY DEF At, Exists, IInv, InHand, Live, Next, NoRow, Showable, Showing,
       ShownPassed, TypeOK, Untouched, history, rows, vars
<1>1. ASSUME NEW v \in Versions, CreateWithVersion(r, v) PROVE ShownPassed'
  BY <1>1 DEF CreateWithVersion, At, Begin, Idle, IInv, ShownPassed, InHand,
       Showing, Showable, Untouched, TypeOK, Live, Exists, NoRow
<1>2. ASSUME NEW v \in Versions, UploadSelect(r, v) PROVE ShownPassed'
  BY <1>2 DEF UploadSelect, At, Begin, Idle, Exists, Present, Pending, rows,
       history, IInv, ShownPassed, InHand, Showing, Showable, Untouched,
       TypeOK, Live, NoRow
<1>3. ASSUME NEW v \in Versions, SetCurrentCheck(r, v) PROVE ShownPassed'
  BY <1>3 DEF SetCurrentCheck, At, Begin, Idle, Exists, rows, history, IInv,
       ShownPassed, InHand, Showing, Showable, Untouched, TypeOK, Live, NoRow
<1>4. ASSUME NEW v \in Versions, ApproveVersion(r, v) PROVE ShownPassed'
  BY <1>4 DEF ApproveVersion, At, Begin, Idle, Present, Decide, IInv,
       ShownPassed, InHand, Showing, Showable, Untouched, TypeOK, Live,
       Exists, NoRow
<1>5. ASSUME NEW v \in Versions, RejectVersion(r, v) PROVE ShownPassed'
  BY <1>5 DEF RejectVersion, At, Present, Decide, IInv, ShownPassed, InHand,
       Showing, Showable, Untouched, TypeOK, Live, Exists, NoRow
<1>6. ASSUME CreatePoint(r) PROVE ShownPassed'
  BY <1>6 DEF CreatePoint, At, End, Idle, Exists, UpdateCurrentVersion,
       history, IInv, ShownPassed, InHand, Showing, Showable, Untouched,
       TypeOK, Live, NoRow
<1>7. ASSUME UploadSupersede(r) PROVE ShownPassed'
  BY <1>7 DEF UploadSupersede, At, Present, Pending, history, IInv,
       ShownPassed, InHand, Showing, Showable, Untouched, TypeOK, Live,
       Exists, NoRow
<1>8. ASSUME UploadInsert(r) PROVE ShownPassed'
  BY <1>8 DEF UploadInsert, At, End, Idle, Exists, Present, IInv, ShownPassed,
       InHand, Showing, Showable, Untouched, TypeOK, Live, NoRow
<1>9. ASSUME SetCurrentSync(r) PROVE ShownPassed'
  BY <1>9 DEF SetCurrentSync, At, Go, Exists, UpdateReadme, history, IInv,
       ShownPassed, InHand, Showing, Showable, Untouched, TypeOK, Live, NoRow
<1>10. ASSUME SetCurrentPoint(r) PROVE ShownPassed'
  BY <1>10 DEF SetCurrentPoint, At, End, Idle, Exists, UpdateCurrentVersion,
       history, IInv, ShownPassed, InHand, Showing, Showable, Untouched,
       TypeOK, Live, NoRow
<1>11. ASSUME EditRead(r) PROVE ShownPassed'
  BY <1>11 DEF EditRead, At, Idle, Exists, rows, history, IInv, ShownPassed,
       InHand, Showing, Showable, Untouched, TypeOK, Live, NoRow
<1>12. ASSUME EditWrite(r) PROVE ShownPassed'
  BY <1>12 DEF EditWrite, At, End, Idle, Exists, UpdateStatus, history, IInv,
       ShownPassed, InHand, Showing, Showable, Untouched, TypeOK, Live, NoRow
<1>13. ASSUME Delete(r) PROVE ShownPassed'
  BY <1>13 DEF Delete, At, Exists, NoRow, history, IInv, ShownPassed, InHand,
       Showing, Showable, Untouched, TypeOK, Live
<1>14. ASSUME ApproveRead(r) PROVE ShownPassed'
  BY <1>14 DEF ApproveRead, At, Begin, Idle, Exists, rows, history, IInv,
       ShownPassed, InHand, Showing, Showable, Untouched, TypeOK, Live, NoRow
<1>15. ASSUME ApproveAsset(r) PROVE ShownPassed'
  BY <1>15 DEF ApproveAsset, At, Go, End, Idle, Exists, UpdateStatus, history,
       IInv, ShownPassed, InHand, Showing, Showable, Untouched, TypeOK, Live,
       NoRow
<1>16. ASSUME ApproveReadVersion(r) PROVE ShownPassed'
  BY <1>16 DEF ApproveReadVersion, At, Go, End, Idle, Present, rows, history,
       IInv, ShownPassed, InHand, Showing, Showable, Untouched, TypeOK, Live,
       Exists, NoRow
<1>17. ASSUME ApproveCurrent(r) PROVE ShownPassed'
  BY <1>17 DEF ApproveCurrent, At, Go, End, Idle, Present, Decide, IInv,
       ShownPassed, InHand, Showing, Showable, Untouched, TypeOK, Live,
       Exists, NoRow
<1>18. ASSUME ApproveSync(r) PROVE ShownPassed'
  BY <1>18 DEF ApproveSync, At, End, Idle, Exists, UpdateReadme, history,
       IInv, ShownPassed, InHand, Showing, Showable, Untouched, TypeOK, Live,
       NoRow
<1>19. ASSUME RejectAsset(r) PROVE ShownPassed'
  BY <1>19 DEF RejectAsset, At, Begin, Idle, Exists, UpdateStatus, history,
       IInv, ShownPassed, InHand, Showing, Showable, Untouched, TypeOK, Live,
       NoRow
<1>20. ASSUME RejectList(r) PROVE ShownPassed'
  BY <1>20 DEF RejectList, At, End, Idle, Pending, rows, history, IInv,
       ShownPassed, InHand, Showing, Showable, Untouched, TypeOK, Live,
       Exists, NoRow
<1>21. ASSUME RejectCascade(r) PROVE ShownPassed'
  BY <1>21 DEF RejectCascade, At, End, Idle, Present, Decide, IInv,
       ShownPassed, InHand, Showing, Showable, Untouched, TypeOK, Live,
       Exists, NoRow
<1>22. ASSUME PassPoint(r) PROVE ShownPassed'
  BY <1>22 DEF PassPoint, At, Go, End, Idle, Exists, UpdateCurrentVersion,
       history, IInv, ShownPassed, InHand, Showing, Showable, Untouched,
       TypeOK, Live, NoRow
<1>23. ASSUME PassSync(r) PROVE ShownPassed'
  BY <1>23 DEF PassSync, At, End, Idle, Exists, UpdateReadme, history, IInv,
       ShownPassed, InHand, Showing, Showable, Untouched, TypeOK, Live, NoRow
<1>24. ASSUME Abort(r) PROVE ShownPassed'
  BY <1>24 DEF Abort, End, Idle, rows, history, IInv, ShownPassed, InHand,
       Showing, Showable, Untouched, TypeOK, Live, Exists, NoRow, At
<1> QED BY <1>1, <1>2, <1>3, <1>4, <1>5, <1>6, <1>7, <1>8, <1>9, <1>10, <1>11,
       <1>12, <1>13, <1>14, <1>15, <1>16, <1>17, <1>18, <1>19, <1>20, <1>21,
       <1>22, <1>23, <1>24
  DEF AuthorStep, AdminStep

\* A request takes in hand an approved version, or the current one.
LEMMA InHandStep ==
  ASSUME IInv, [Next]_vars
  PROVE  InHand'
<1> USE ReviewAssumption
<1> SUFFICES ASSUME NEW r \in Requests, AuthorStep(r) \/ AdminStep(r) \/ Abort(r)
             PROVE  InHand'
  BY DEF At, IInv, InHand, Live, Next, Showable, Showing, ShownPassed, TypeOK,
       Untouched, history, rows, vars
<1>1. ASSUME NEW v \in Versions, CreateWithVersion(r, v) PROVE InHand'
  BY <1>1 DEF CreateWithVersion, At, Begin, Idle, IInv, ShownPassed, InHand,
       Showing, Showable, TypeOK, Untouched, Live
<1>2. ASSUME NEW v \in Versions, UploadSelect(r, v) PROVE InHand'
  <2> USE DEF IInv
  <2>1. PICK q \in Chosen(v) : req' = [req EXCEPT ![r] = q]
    BY <1>2, UploadSelected
  <2>2. q.at \notin Showing
    BY DEF Chosen, Showing
  <2>3. UNCHANGED <<first, reviewed>>
    BY <1>2 DEF UploadSelect, history
  <2> QED
    BY <2>1, <2>2, <2>3 DEF InHand, Showable, TypeOK
<1>3. ASSUME NEW v \in Versions, SetCurrentCheck(r, v) PROVE InHand'
  BY <1>3 DEF SetCurrentCheck, At, Begin, Idle, Exists, rows, history, IInv,
       ShownPassed, InHand, Showing, Showable, TypeOK, Untouched, Live
<1>4. ASSUME NEW v \in Versions, ApproveVersion(r, v) PROVE InHand'
  BY <1>4 DEF ApproveVersion, At, Begin, Idle, Present, Decide, IInv,
       ShownPassed, InHand, Showing, Showable, TypeOK, Untouched, Live
<1>5. ASSUME NEW v \in Versions, RejectVersion(r, v) PROVE InHand'
  BY <1>5 DEF RejectVersion, At, Present, Decide, IInv, ShownPassed, InHand,
       Showing, Showable, TypeOK, Untouched, Live
<1>6. ASSUME CreatePoint(r) PROVE InHand'
  BY <1>6 DEF CreatePoint, At, End, Idle, Exists, UpdateCurrentVersion,
       history, IInv, ShownPassed, InHand, Showing, Showable, TypeOK,
       Untouched, Live
<1>7. ASSUME UploadSupersede(r) PROVE InHand'
  <2> USE DEF IInv
  <2>1. req'[r].at = "upload_insert"
    BY <1>7 DEF UploadSupersede, TypeOK
  <2>2. \A q \in Requests : q # r => req'[q] = req[q]
    BY <1>7 DEF UploadSupersede, TypeOK
  <2>3. UNCHANGED <<first, reviewed>>
    BY <1>7 DEF UploadSupersede, history
  <2> QED
    BY <2>1, <2>2, <2>3 DEF InHand, Showing, Showable
<1>8. ASSUME UploadInsert(r) PROVE InHand'
  BY <1>8 DEF UploadInsert, At, End, Idle, Exists, Present, IInv, ShownPassed,
       InHand, Showing, Showable, TypeOK, Untouched, Live
<1>9. ASSUME SetCurrentSync(r) PROVE InHand'
  BY <1>9 DEF SetCurrentSync, At, Go, Exists, UpdateReadme, history, IInv,
       ShownPassed, InHand, Showing, Showable, TypeOK, Untouched, Live
<1>10. ASSUME SetCurrentPoint(r) PROVE InHand'
  BY <1>10 DEF SetCurrentPoint, At, End, Idle, Exists, UpdateCurrentVersion,
       history, IInv, ShownPassed, InHand, Showing, Showable, TypeOK,
       Untouched, Live
<1>11. ASSUME EditRead(r) PROVE InHand'
  BY <1>11 DEF EditRead, At, Idle, Exists, rows, history, IInv, ShownPassed,
       InHand, Showing, Showable, TypeOK, Untouched, Live
<1>12. ASSUME EditWrite(r) PROVE InHand'
  BY <1>12 DEF EditWrite, At, End, Idle, Exists, UpdateStatus, history, IInv,
       ShownPassed, InHand, Showing, Showable, TypeOK, Untouched, Live
<1>13. ASSUME Delete(r) PROVE InHand'
  BY <1>13 DEF Delete, At, Exists, NoRow, history, IInv, ShownPassed, InHand,
       Showing, Showable, TypeOK, Untouched, Live
<1>14. ASSUME ApproveRead(r) PROVE InHand'
  BY <1>14 DEF ApproveRead, At, Begin, Idle, Exists, rows, history, IInv,
       ShownPassed, InHand, Showing, Showable, TypeOK, Untouched, Live
<1>15. ASSUME ApproveAsset(r) PROVE InHand'
  BY <1>15 DEF ApproveAsset, At, Go, End, Idle, Exists, UpdateStatus, history,
       IInv, ShownPassed, InHand, Showing, Showable, TypeOK, Untouched, Live
<1>16. ASSUME ApproveReadVersion(r) PROVE InHand'
  <2> USE DEF IInv
  <2>1. req'[r].ver \in {req[r].ver, None}
    BY <1>16 DEF ApproveReadVersion, Go, End, Idle, TypeOK
  <2>2. req[r].ver \in Showable \cup {None}
    BY <1>16 DEF ApproveReadVersion, At, InHand, Showing
  <2>3. \A q \in Requests : q # r => req'[q] = req[q]
    BY <1>16 DEF ApproveReadVersion, Go, End, TypeOK
  <2>4. UNCHANGED <<first, reviewed>>
    BY <1>16 DEF ApproveReadVersion, history
  <2> QED
    BY <2>1, <2>2, <2>3, <2>4 DEF InHand, Showable
<1>17. ASSUME ApproveCurrent(r) PROVE InHand'
  BY <1>17 DEF ApproveCurrent, At, Go, End, Idle, Present, Decide, IInv,
       ShownPassed, InHand, Showing, Showable, TypeOK, Untouched, Live
<1>18. ASSUME ApproveSync(r) PROVE InHand'
  BY <1>18 DEF ApproveSync, At, End, Idle, Exists, UpdateReadme, history,
       IInv, ShownPassed, InHand, Showing, Showable, TypeOK, Untouched, Live
<1>19. ASSUME RejectAsset(r) PROVE InHand'
  BY <1>19 DEF RejectAsset, At, Begin, Idle, Exists, UpdateStatus, history,
       IInv, ShownPassed, InHand, Showing, Showable, TypeOK, Untouched, Live
<1>20. ASSUME RejectList(r) PROVE InHand'
  BY <1>20 DEF RejectList, At, End, Idle, Pending, rows, history, IInv,
       ShownPassed, InHand, Showing, Showable, TypeOK, Untouched, Live
<1>21. ASSUME RejectCascade(r) PROVE InHand'
  BY <1>21 DEF RejectCascade, At, End, Idle, Present, Decide, IInv,
       ShownPassed, InHand, Showing, Showable, TypeOK, Untouched, Live
<1>22. ASSUME PassPoint(r) PROVE InHand'
  BY <1>22 DEF PassPoint, At, Go, End, Idle, Exists, UpdateCurrentVersion,
       history, IInv, ShownPassed, InHand, Showing, Showable, TypeOK,
       Untouched, Live
<1>23. ASSUME PassSync(r) PROVE InHand'
  BY <1>23 DEF PassSync, At, End, Idle, Exists, UpdateReadme, history, IInv,
       ShownPassed, InHand, Showing, Showable, TypeOK, Untouched, Live
<1>24. ASSUME Abort(r) PROVE InHand'
  BY <1>24 DEF Abort, End, Idle, rows, history, IInv, ShownPassed, InHand,
       Showing, Showable, TypeOK, Untouched, Live, At
<1> QED BY <1>1, <1>2, <1>3, <1>4, <1>5, <1>6, <1>7, <1>8, <1>9, <1>10, <1>11,
       <1>12, <1>13, <1>14, <1>15, <1>16, <1>17, <1>18, <1>19, <1>20, <1>21,
       <1>22, <1>23, <1>24
  DEF AuthorStep, AdminStep

\* A version that was there and not pending never becomes pending again.
LEMMA AsideStep ==
  ASSUME IInv, [Next]_vars
  PROVE  AsideStays'
<1> USE ReviewAssumption
<1> SUFFICES ASSUME NEW r \in Requests, AuthorStep(r) \/ AdminStep(r) \/ Abort(r)
             PROVE  AsideStays'
  BY DEF AsideStays, At, Exists, IInv, Live, Next, Pending, Present, Settled,
       TypeOK, Untouched, VersionStatuses, history, rows, vars
<1>1. ASSUME NEW v \in Versions, CreateWithVersion(r, v) PROVE AsideStays'
  BY <1>1 DEF CreateWithVersion, At, Begin, Idle, IInv, AsideStays, Settled,
       Untouched, TypeOK, Exists, Live, Present, Pending, VersionStatuses
<1>2. ASSUME NEW v \in Versions, UploadSelect(r, v) PROVE AsideStays'
  <2> USE DEF IInv
  <2>1. PICK q \in Chosen(v) : req' = [req EXCEPT ![r] = q]
    BY <1>2, UploadSelected
  <2>2. q.at = "upload_insert" => q.list \subseteq Settled
    BY DEF Chosen
  <2>3. UNCHANGED <<version, asset, before>>
    BY <1>2 DEF UploadSelect, rows, history
  <2> QED
    BY <2>1, <2>2, <2>3 DEF AsideStays, Settled, Exists, Present, Pending, At, TypeOK
<1>3. ASSUME NEW v \in Versions, SetCurrentCheck(r, v) PROVE AsideStays'
  BY <1>3 DEF SetCurrentCheck, At, Begin, Idle, Exists, rows, history, IInv,
       AsideStays, Settled, Untouched, TypeOK, Live, Present, Pending,
       VersionStatuses
<1>4. ASSUME NEW v \in Versions, ApproveVersion(r, v) PROVE AsideStays'
  BY <1>4 DEF ApproveVersion, At, Begin, Idle, Present, Decide, IInv,
       AsideStays, Settled, Untouched, TypeOK, Exists, Live, Pending,
       VersionStatuses
<1>5. ASSUME NEW v \in Versions, RejectVersion(r, v) PROVE AsideStays'
  BY <1>5 DEF RejectVersion, At, Present, Decide, IInv, AsideStays, Settled,
       Untouched, TypeOK, Exists, Live, Pending, VersionStatuses
<1>6. ASSUME CreatePoint(r) PROVE AsideStays'
  BY <1>6 DEF CreatePoint, At, End, Idle, Exists, UpdateCurrentVersion,
       history, IInv, AsideStays, Settled, Untouched, TypeOK, Live, Present,
       Pending, VersionStatuses
<1>7. ASSUME UploadSupersede(r) PROVE AsideStays'
  BY <1>7, SMTT(60) DEF UploadSupersede, At, Present, Pending, history, IInv,
       AsideStays, Settled, Untouched, TypeOK, Exists, Live, VersionStatuses
<1>8. ASSUME UploadInsert(r) PROVE AsideStays'
  BY <1>8 DEF UploadInsert, At, End, Idle, Exists, Present, IInv, AsideStays,
       Settled, Untouched, TypeOK, Live, Pending, VersionStatuses
<1>9. ASSUME SetCurrentSync(r) PROVE AsideStays'
  BY <1>9 DEF SetCurrentSync, At, Go, Exists, UpdateReadme, history, IInv,
       AsideStays, Settled, Untouched, TypeOK, Live, Present, Pending,
       VersionStatuses
<1>10. ASSUME SetCurrentPoint(r) PROVE AsideStays'
  BY <1>10 DEF SetCurrentPoint, At, End, Idle, Exists, UpdateCurrentVersion,
       history, IInv, AsideStays, Settled, Untouched, TypeOK, Live, Present,
       Pending, VersionStatuses
<1>11. ASSUME EditRead(r) PROVE AsideStays'
  BY <1>11 DEF EditRead, At, Idle, Exists, rows, history, IInv, AsideStays,
       Settled, Untouched, TypeOK, Live, Present, Pending, VersionStatuses
<1>12. ASSUME EditWrite(r) PROVE AsideStays'
  BY <1>12 DEF EditWrite, At, End, Idle, Exists, UpdateStatus, history, IInv,
       AsideStays, Settled, Untouched, TypeOK, Live, Present, Pending,
       VersionStatuses
<1>13. ASSUME Delete(r) PROVE AsideStays'
  BY <1>13 DEF Delete, At, Exists, NoRow, history, IInv, AsideStays, Settled,
       Untouched, TypeOK, Live, Present, Pending, VersionStatuses
<1>14. ASSUME ApproveRead(r) PROVE AsideStays'
  BY <1>14 DEF ApproveRead, At, Begin, Idle, Exists, rows, history, IInv,
       AsideStays, Settled, Untouched, TypeOK, Live, Present, Pending,
       VersionStatuses
<1>15. ASSUME ApproveAsset(r) PROVE AsideStays'
  BY <1>15 DEF ApproveAsset, At, Go, End, Idle, Exists, UpdateStatus, history,
       IInv, AsideStays, Settled, Untouched, TypeOK, Live, Present, Pending,
       VersionStatuses
<1>16. ASSUME ApproveReadVersion(r) PROVE AsideStays'
  BY <1>16, SMTT(60) DEF ApproveReadVersion, At, Go, End, Idle, Present, rows, history,
       IInv, AsideStays, Settled, Untouched, TypeOK, Exists, Live, Pending,
       VersionStatuses
<1>17. ASSUME ApproveCurrent(r) PROVE AsideStays'
  BY <1>17 DEF ApproveCurrent, At, Go, End, Idle, Present, Decide, IInv,
       AsideStays, Settled, Untouched, TypeOK, Exists, Live, Pending,
       VersionStatuses
<1>18. ASSUME ApproveSync(r) PROVE AsideStays'
  BY <1>18 DEF ApproveSync, At, End, Idle, Exists, UpdateReadme, history,
       IInv, AsideStays, Settled, Untouched, TypeOK, Live, Present, Pending,
       VersionStatuses
<1>19. ASSUME RejectAsset(r) PROVE AsideStays'
  BY <1>19 DEF RejectAsset, At, Begin, Idle, Exists, UpdateStatus, history,
       IInv, AsideStays, Settled, Untouched, TypeOK, Live, Present, Pending,
       VersionStatuses
<1>20. ASSUME RejectList(r) PROVE AsideStays'
  BY <1>20 DEF RejectList, At, End, Idle, Pending, rows, history, IInv,
       AsideStays, Settled, Untouched, TypeOK, Exists, Live, Present,
       VersionStatuses
<1>21. ASSUME RejectCascade(r) PROVE AsideStays'
  BY <1>21 DEF RejectCascade, At, End, Idle, Present, Decide, IInv,
       AsideStays, Settled, Untouched, TypeOK, Exists, Live, Pending,
       VersionStatuses
<1>22. ASSUME PassPoint(r) PROVE AsideStays'
  BY <1>22 DEF PassPoint, At, Go, End, Idle, Exists, UpdateCurrentVersion,
       history, IInv, AsideStays, Settled, Untouched, TypeOK, Live, Present,
       Pending, VersionStatuses
<1>23. ASSUME PassSync(r) PROVE AsideStays'
  BY <1>23 DEF PassSync, At, End, Idle, Exists, UpdateReadme, history, IInv,
       AsideStays, Settled, Untouched, TypeOK, Live, Present, Pending,
       VersionStatuses
<1>24. ASSUME Abort(r) PROVE AsideStays'
  BY <1>24 DEF Abort, End, Idle, rows, history, IInv, AsideStays, Settled,
       Untouched, TypeOK, Exists, Live, Present, Pending, At, VersionStatuses
<1> QED BY <1>1, <1>2, <1>3, <1>4, <1>5, <1>6, <1>7, <1>8, <1>9, <1>10, <1>11,
       <1>12, <1>13, <1>14, <1>15, <1>16, <1>17, <1>18, <1>19, <1>20, <1>21,
       <1>22, <1>23, <1>24
  DEF AuthorStep, AdminStep

LEMMA Inductive == Spec => []IInv
<1>1. Init => IInv
  BY SafeInit
<1>2. IInv /\ [Next]_vars => IInv'
  BY TypeStep, UntouchedStep, ShownStep, InHandStep, AsideStep DEF IInv
<1> QED
  BY <1>1, <1>2, PTL DEF Spec
-----------------------------------------------------------------------------
(* What follows. *)

\* UploadVersion: two versions wait for review together only if neither upload
\* had set aside, or found decided, the other's version (SupersedePending).
THEOREM PendingCorrect == Spec => []PendingTogetherOverlapped
<1>1. IInv => PendingTogetherOverlapped
  <2> SUFFICES ASSUME IInv, NEW v \in Pending, NEW w \in Pending, w \in before[v]
               PROVE  FALSE
    BY DEF PendingTogetherOverlapped
  <2>1. v \in Present
    BY DEF Pending, Present
  <2>2. before[v] \subseteq Settled
    BY <2>1 DEF IInv, TypeOK, AsideStays, Present
  <2> QED
    BY <2>2 DEF Settled
<1> QED
  BY <1>1, Inductive, PTL

\* Each step of a handler is a step of the ledger, or none.
LEMMA LedgerStep ==
  ASSUME IInv, [Next]_vars
  PROVE  [Ledger!LedgerNext]_(Ledger!ledgerVars)
<1> USE ReviewAssumption
<1> SUFFICES ASSUME NEW r \in Requests, AuthorStep(r) \/ AdminStep(r) \/ Abort(r)
             PROVE  [Ledger!LedgerNext]_(Ledger!ledgerVars)
  BY DEF Ledger!ledgerVars, Next, Shown, history, rows, vars
<1>1. ASSUME NEW v \in Versions, CreateWithVersion(r, v) PROVE [Ledger!LedgerNext]_(Ledger!ledgerVars)
  <2>1. first = None /\ Shown = Ledger!Nothing
    BY <1>1 DEF CreateWithVersion, IInv, Untouched, NoRow, Shown, Ledger!Nothing
  <2>2. Shown' \in {Ledger!Nothing, [Ledger!Nothing EXCEPT !.content = v]}
    BY <1>1 DEF CreateWithVersion, Shown, Ledger!Nothing
  <2>3. Ledger!Open(v)
    BY <1>1, <2>1, <2>2 DEF CreateWithVersion, Ledger!Open
  <2> QED
    BY <2>3 DEF Ledger!LedgerNext
<1>2. ASSUME NEW v \in Versions, UploadSelect(r, v) PROVE [Ledger!LedgerNext]_(Ledger!ledgerVars)
  BY <1>2 DEF UploadSelect, rows, history, Shown, Ledger!ledgerVars
<1>3. ASSUME NEW v \in Versions, SetCurrentCheck(r, v) PROVE [Ledger!LedgerNext]_(Ledger!ledgerVars)
  BY <1>3 DEF SetCurrentCheck, rows, history, Shown, Ledger!ledgerVars
<1>4. ASSUME NEW v \in Versions, ApproveVersion(r, v) PROVE [Ledger!LedgerNext]_(Ledger!ledgerVars)
  <2>1. UNCHANGED <<first, Shown>>
    BY <1>4 DEF ApproveVersion, Shown
  <2>2. CASE v \in Present /\ Decide(v, "approved")
    BY <2>1, <2>2 DEF Decide, Present, Ledger!LedgerNext, Ledger!Pass
  <2>3. CASE UNCHANGED <<version, reviewed>>
    BY <2>1, <2>3 DEF Ledger!ledgerVars
  <2> QED
    BY <1>4, <2>2, <2>3 DEF ApproveVersion, Decide
<1>5. ASSUME NEW v \in Versions, RejectVersion(r, v) PROVE [Ledger!LedgerNext]_(Ledger!ledgerVars)
  <2>1. UNCHANGED <<first, Shown>>
    BY <1>5 DEF RejectVersion, Shown
  <2>2. CASE v \in Present /\ Decide(v, "rejected")
    BY <2>1, <2>2 DEF Decide, Present, Ledger!LedgerNext, Ledger!Refuse
  <2>3. CASE UNCHANGED <<version, reviewed>>
    BY <2>1, <2>3 DEF Ledger!ledgerVars
  <2> QED
    BY <1>5, <2>2, <2>3 DEF RejectVersion, Decide
<1>6. ASSUME CreatePoint(r) PROVE [Ledger!LedgerNext]_(Ledger!ledgerVars)
  <2>1. req[r].ver \in Versions
    BY <1>6 DEF CreatePoint, At, IInv, TypeOK, Versionless
  <2>2. req[r].ver = first \/ req[r].ver \in reviewed
    BY <1>6, <2>1 DEF CreatePoint, At, IInv, InHand, Showing, Showable
  <2>3. UNCHANGED <<version, first, reviewed>>
    BY <1>6 DEF CreatePoint, history
  <2>4. CASE asset' = asset
    BY <2>3, <2>4 DEF Shown, Ledger!ledgerVars
  <2>5. CASE asset' = [asset EXCEPT !.current = req[r].ver]
    <3>1. Shown' = [Shown EXCEPT !.current = req[r].ver]
      BY <2>5 DEF IInv, TypeOK, Shown
    <3> QED
      BY <2>1, <2>2, <2>3, <3>1 DEF Shown, Ledger!LedgerNext, Ledger!Show
  <2> QED
    BY <1>6, <2>4, <2>5 DEF CreatePoint, UpdateCurrentVersion
<1>7. ASSUME UploadSupersede(r) PROVE [Ledger!LedgerNext]_(Ledger!ledgerVars)
  <2>1. UNCHANGED <<first, reviewed, Shown>>
    BY <1>7 DEF UploadSupersede, history, Shown
  <2>2. CASE UNCHANGED version
    BY <2>1, <2>2 DEF Ledger!ledgerVars
  <2>3. CASE version' = [v \in Versions |-> IF v \in Pending THEN "superseded" ELSE version[v]]
    BY <2>1, <2>3 DEF Pending, Ledger!LedgerNext, Ledger!SetAside
  <2> QED
    BY <1>7, <2>2, <2>3 DEF UploadSupersede
<1>8. ASSUME UploadInsert(r) PROVE [Ledger!LedgerNext]_(Ledger!ledgerVars)
  <2> DEFINE v == req[r].ver
  <2>1. UNCHANGED <<first, reviewed, Shown>>
    BY <1>8 DEF UploadInsert, Shown
  <2>2. CASE Exists /\ v \notin Present
    <3>1. v \in Versions /\ first # None
      BY <1>8, <2>2 DEF UploadInsert, At, IInv, TypeOK, Versionless, Untouched, Exists, Live
    <3> QED
      BY <1>8, <2>1, <2>2, <3>1 DEF UploadInsert, Present, Ledger!LedgerNext, Ledger!Submit
  <2>3. CASE ~(Exists /\ v \notin Present)
    BY <1>8, <2>1, <2>3 DEF UploadInsert, Ledger!ledgerVars
  <2> QED
    BY <2>2, <2>3
<1>9. ASSUME SetCurrentSync(r) PROVE [Ledger!LedgerNext]_(Ledger!ledgerVars)
  <2>1. req[r].ver \in Versions
    BY <1>9 DEF SetCurrentSync, At, IInv, TypeOK, Versionless
  <2>2. req[r].ver = first \/ req[r].ver \in reviewed
    BY <1>9, <2>1 DEF SetCurrentSync, At, IInv, InHand, Showing, Showable
  <2>3. UNCHANGED <<version, first, reviewed>>
    BY <1>9 DEF SetCurrentSync, history
  <2>4. CASE asset' = asset
    BY <2>3, <2>4 DEF Shown, Ledger!ledgerVars
  <2>5. CASE asset' = [asset EXCEPT !.content = req[r].ver]
    <3>1. Shown' = [Shown EXCEPT !.content = req[r].ver]
      BY <2>5 DEF IInv, TypeOK, Shown
    <3> QED
      BY <2>1, <2>2, <2>3, <3>1 DEF Shown, Ledger!LedgerNext, Ledger!Show
  <2> QED
    BY <1>9, <2>4, <2>5 DEF SetCurrentSync, UpdateReadme
<1>10. ASSUME SetCurrentPoint(r) PROVE [Ledger!LedgerNext]_(Ledger!ledgerVars)
  <2>1. req[r].ver \in Versions
    BY <1>10 DEF SetCurrentPoint, At, IInv, TypeOK, Versionless
  <2>2. req[r].ver = first \/ req[r].ver \in reviewed
    BY <1>10, <2>1 DEF SetCurrentPoint, At, IInv, InHand, Showing, Showable
  <2>3. UNCHANGED <<version, first, reviewed>>
    BY <1>10 DEF SetCurrentPoint, history
  <2>4. CASE asset' = asset
    BY <2>3, <2>4 DEF Shown, Ledger!ledgerVars
  <2>5. CASE asset' = [asset EXCEPT !.current = req[r].ver]
    <3>1. Shown' = [Shown EXCEPT !.current = req[r].ver]
      BY <2>5 DEF IInv, TypeOK, Shown
    <3> QED
      BY <2>1, <2>2, <2>3, <3>1 DEF Shown, Ledger!LedgerNext, Ledger!Show
  <2> QED
    BY <1>10, <2>4, <2>5 DEF SetCurrentPoint, UpdateCurrentVersion
<1>11. ASSUME EditRead(r) PROVE [Ledger!LedgerNext]_(Ledger!ledgerVars)
  BY <1>11 DEF EditRead, rows, history, Shown, Ledger!ledgerVars
<1>12. ASSUME EditWrite(r) PROVE [Ledger!LedgerNext]_(Ledger!ledgerVars)
  <2>1. Shown' = Shown
    BY <1>12 DEF EditWrite, UpdateStatus, Shown, IInv, TypeOK
  <2> QED
    BY <1>12, <2>1 DEF EditWrite, history, Ledger!ledgerVars
<1>13. ASSUME Delete(r) PROVE [Ledger!LedgerNext]_(Ledger!ledgerVars)
  <2>1. Shown' = Ledger!Nothing
    BY <1>13 DEF Delete, NoRow, Shown, Ledger!Nothing
  <2> QED
    BY <1>13, <2>1 DEF Delete, history, Ledger!LedgerNext, Ledger!Erase
<1>14. ASSUME ApproveRead(r) PROVE [Ledger!LedgerNext]_(Ledger!ledgerVars)
  BY <1>14 DEF ApproveRead, rows, history, Shown, Ledger!ledgerVars
<1>15. ASSUME ApproveAsset(r) PROVE [Ledger!LedgerNext]_(Ledger!ledgerVars)
  <2>1. Shown' = Shown
    BY <1>15 DEF ApproveAsset, UpdateStatus, Shown, IInv, TypeOK
  <2> QED
    BY <1>15, <2>1 DEF ApproveAsset, history, Ledger!ledgerVars
<1>16. ASSUME ApproveReadVersion(r) PROVE [Ledger!LedgerNext]_(Ledger!ledgerVars)
  BY <1>16 DEF ApproveReadVersion, rows, history, Shown, Ledger!ledgerVars
<1>17. ASSUME ApproveCurrent(r) PROVE [Ledger!LedgerNext]_(Ledger!ledgerVars)
  <2>1. UNCHANGED <<first, Shown>>
    BY <1>17 DEF ApproveCurrent, Shown
  <2>2. CASE req[r].ver \in Present /\ Decide(req[r].ver, "approved")
    BY <2>1, <2>2 DEF Decide, Present, Ledger!LedgerNext, Ledger!Pass
  <2>3. CASE UNCHANGED <<version, reviewed>>
    BY <2>1, <2>3 DEF Ledger!ledgerVars
  <2> QED
    BY <1>17, <2>2, <2>3 DEF ApproveCurrent, Decide
<1>18. ASSUME ApproveSync(r) PROVE [Ledger!LedgerNext]_(Ledger!ledgerVars)
  <2>1. req[r].ver \in Versions
    BY <1>18 DEF ApproveSync, At, IInv, TypeOK, Versionless
  <2>2. req[r].ver = first \/ req[r].ver \in reviewed
    BY <1>18, <2>1 DEF ApproveSync, At, IInv, InHand, Showing, Showable
  <2>3. UNCHANGED <<version, first, reviewed>>
    BY <1>18 DEF ApproveSync, history
  <2>4. CASE asset' = asset
    BY <2>3, <2>4 DEF Shown, Ledger!ledgerVars
  <2>5. CASE asset' = [asset EXCEPT !.content = req[r].ver]
    <3>1. Shown' = [Shown EXCEPT !.content = req[r].ver]
      BY <2>5 DEF IInv, TypeOK, Shown
    <3> QED
      BY <2>1, <2>2, <2>3, <3>1 DEF Shown, Ledger!LedgerNext, Ledger!Show
  <2> QED
    BY <1>18, <2>4, <2>5 DEF ApproveSync, UpdateReadme
<1>19. ASSUME RejectAsset(r) PROVE [Ledger!LedgerNext]_(Ledger!ledgerVars)
  <2>1. Shown' = Shown
    BY <1>19 DEF RejectAsset, UpdateStatus, Shown, IInv, TypeOK
  <2> QED
    BY <1>19, <2>1 DEF RejectAsset, history, Ledger!ledgerVars
<1>20. ASSUME RejectList(r) PROVE [Ledger!LedgerNext]_(Ledger!ledgerVars)
  BY <1>20 DEF RejectList, rows, history, Shown, Ledger!ledgerVars
<1>21. ASSUME RejectCascade(r) PROVE [Ledger!LedgerNext]_(Ledger!ledgerVars)
  <2> PICK v \in req[r].list : \/ Decide(v, "rejected")
                               \/ UNCHANGED <<version, reviewed>>
    BY <1>21 DEF RejectCascade
  <2>1. UNCHANGED <<first, Shown>>
    BY <1>21 DEF RejectCascade, Shown
  <2>2. CASE v \in Present /\ Decide(v, "rejected")
    BY <2>1, <2>2 DEF Decide, Present, Ledger!LedgerNext, Ledger!Refuse
  <2>3. CASE UNCHANGED <<version, reviewed>>
    BY <2>1, <2>3 DEF Ledger!ledgerVars
  <2> QED
    BY <2>2, <2>3 DEF Decide
<1>22. ASSUME PassPoint(r) PROVE [Ledger!LedgerNext]_(Ledger!ledgerVars)
  <2>1. req[r].ver \in Versions
    BY <1>22 DEF PassPoint, At, IInv, TypeOK, Versionless
  <2>2. req[r].ver = first \/ req[r].ver \in reviewed
    BY <1>22, <2>1 DEF PassPoint, At, IInv, InHand, Showing, Showable
  <2>3. UNCHANGED <<version, first, reviewed>>
    BY <1>22 DEF PassPoint, history
  <2>4. CASE asset' = asset
    BY <2>3, <2>4 DEF Shown, Ledger!ledgerVars
  <2>5. CASE asset' = [asset EXCEPT !.current = req[r].ver]
    <3>1. Shown' = [Shown EXCEPT !.current = req[r].ver]
      BY <2>5 DEF IInv, TypeOK, Shown
    <3> QED
      BY <2>1, <2>2, <2>3, <3>1 DEF Shown, Ledger!LedgerNext, Ledger!Show
  <2> QED
    BY <1>22, <2>4, <2>5 DEF PassPoint, UpdateCurrentVersion
<1>23. ASSUME PassSync(r) PROVE [Ledger!LedgerNext]_(Ledger!ledgerVars)
  <2>1. req[r].ver \in Versions
    BY <1>23 DEF PassSync, At, IInv, TypeOK, Versionless
  <2>2. req[r].ver = first \/ req[r].ver \in reviewed
    BY <1>23, <2>1 DEF PassSync, At, IInv, InHand, Showing, Showable
  <2>3. UNCHANGED <<version, first, reviewed>>
    BY <1>23 DEF PassSync, history
  <2>4. CASE asset' = asset
    BY <2>3, <2>4 DEF Shown, Ledger!ledgerVars
  <2>5. CASE asset' = [asset EXCEPT !.content = req[r].ver]
    <3>1. Shown' = [Shown EXCEPT !.content = req[r].ver]
      BY <2>5 DEF IInv, TypeOK, Shown
    <3> QED
      BY <2>1, <2>2, <2>3, <3>1 DEF Shown, Ledger!LedgerNext, Ledger!Show
  <2> QED
    BY <1>23, <2>4, <2>5 DEF PassSync, UpdateReadme
<1>24. ASSUME Abort(r) PROVE [Ledger!LedgerNext]_(Ledger!ledgerVars)
  BY <1>24 DEF Abort, rows, history, Shown, Ledger!ledgerVars
<1> QED BY <1>1, <1>2, <1>3, <1>4, <1>5, <1>6, <1>7, <1>8, <1>9, <1>10, <1>11,
       <1>12, <1>13, <1>14, <1>15, <1>16, <1>17, <1>18, <1>19, <1>20, <1>21,
       <1>22, <1>23, <1>24
  DEF AuthorStep, AdminStep

\* The handlers keep the ledger of reviews: an upload sets aside only what
\* waits, only an administrator decides, and nothing is shown that was never
\* approved, but the version the asset was created with.
THEOREM LedgerCorrect == Spec => LedgerSpec
<1>1. Init => Ledger!LedgerInit
  BY DEF Init, NoRow, Shown, Ledger!LedgerInit, Ledger!Nothing
<1>2. IInv /\ [Next]_vars => [Ledger!LedgerNext]_(Ledger!ledgerVars)
  BY LedgerStep
<1> QED
  BY <1>1, <1>2, Inductive, PTL DEF Spec, LedgerSpec, Ledger!LedgerSpec

\* Where the status of an asset comes from: of all handlers, Approve alone
\* publishes, and Update alone asks for another review.
LEMMA StatusStep ==
  ASSUME TypeOK, NEW r \in Requests, AuthorStep(r) \/ AdminStep(r) \/ Abort(r),
         asset'.status # asset.status
  PROVE  \/ ApproveAsset(r) \/ EditWrite(r)
         \/ asset.status = "absent" /\ asset'.status = "pending"
         \/ Exists /\ asset'.status \in {"rejected", "deleted"}
<1>1. ASSUME NEW v \in Versions,
             \/ UploadSelect(r, v) \/ SetCurrentCheck(r, v) \/ ApproveVersion(r, v)
             \/ RejectVersion(r, v)
      PROVE  FALSE
  BY <1>1 DEF UploadSelect, SetCurrentCheck, ApproveVersion, RejectVersion, rows
<1>2. ASSUME \/ UploadSupersede(r) \/ UploadInsert(r) \/ EditRead(r) \/ ApproveRead(r)
             \/ ApproveReadVersion(r) \/ ApproveCurrent(r) \/ RejectList(r)
             \/ RejectCascade(r) \/ Abort(r)
      PROVE  FALSE
  BY <1>2 DEF UploadSupersede, UploadInsert, EditRead, ApproveRead, ApproveReadVersion,
     ApproveCurrent, RejectList, RejectCascade, Abort, rows
<1>3. ASSUME NEW v \in Versions \cup {None}, UpdateReadme(v) \/ UpdateCurrentVersion(v)
      PROVE  FALSE
  BY <1>3 DEF UpdateReadme, UpdateCurrentVersion, TypeOK
<1>4. ASSUME \/ CreatePoint(r) \/ SetCurrentSync(r) \/ SetCurrentPoint(r)
             \/ ApproveSync(r) \/ PassPoint(r) \/ PassSync(r)
      PROVE  FALSE
  <2>1. req[r].ver \in Versions \cup {None}
    BY DEF TypeOK
  <2> QED
    BY <1>3, <1>4, <2>1 DEF CreatePoint, SetCurrentSync, SetCurrentPoint, ApproveSync,
       PassPoint, PassSync
<1>5. ASSUME NEW v \in Versions, CreateWithVersion(r, v)
      PROVE  asset.status = "absent" /\ asset'.status = "pending"
  BY <1>5 DEF CreateWithVersion
<1>6. ASSUME RejectAsset(r) PROVE Exists /\ asset'.status = "rejected"
  BY <1>6 DEF RejectAsset, UpdateStatus, TypeOK
<1>7. ASSUME Delete(r) PROVE Exists /\ asset'.status = "deleted"
  BY <1>7 DEF Delete, NoRow
<1> QED
  BY <1>1, <1>2, <1>4, <1>5, <1>6, <1>7 DEF AuthorStep, AdminStep

\* Update (asset.go:825) never writes back an approval it has read.
LEMMA EditStep ==
  ASSUME TypeOK, NEW r \in Requests, EditWrite(r), asset'.status # asset.status
  PROVE  /\ At(r, "edit") /\ ~At(r, "edit")'
         /\ asset'.status # "approved"
         /\ asset'.status = "pending" => req[r].status # "rejected"
<1>1. At(r, "edit") /\ ~At(r, "edit")'
  BY DEF EditWrite, At, End, Idle, TypeOK
<1>2. asset'.status = IF req[r].status = "approved" THEN "pending" ELSE req[r].status
  BY DEF EditWrite, UpdateStatus, TypeOK
<1> QED
  BY <1>1, <1>2

\* No edit and no failed call publishes an asset: only Approve does.
THEOREM PublishCorrect == Spec => OnlyReviewPublishes
<1> DEFINE Step == asset.status # "approved" /\ asset'.status = "approved"
              => \E r \in Requests : At(r, "approve_asset") /\ ~At(r, "approve_asset")'
<1>1. ASSUME TypeOK, [Next]_vars PROVE [Step]_vars
  <2> SUFFICES ASSUME NEW r \in Requests, AuthorStep(r) \/ AdminStep(r) \/ Abort(r),
                      asset.status # "approved", asset'.status = "approved"
               PROVE  At(r, "approve_asset") /\ ~At(r, "approve_asset")'
    BY <1>1 DEF Next
  <2>1. CASE EditWrite(r)
    BY <1>1, <2>1, EditStep
  <2>2. CASE ApproveAsset(r)
    BY <1>1, <2>2 DEF ApproveAsset, At, End, Go, Idle, TypeOK
  <2> QED
    BY <1>1, <2>1, <2>2, StatusStep
<1> QED
  BY <1>1, TypeCorrect, PTL DEF Spec, OnlyReviewPublishes

\* A rejected asset waits for review again only by an edit that read the row
\* before it was rejected.
THEOREM RejectionCorrect == Spec => RejectionStands
<1> DEFINE Step == asset.status = "rejected" /\ asset'.status = "pending"
              => \E r \in Requests : At(r, "edit") /\ ~At(r, "edit")'
                                       /\ req[r].status # "rejected"
<1>1. ASSUME TypeOK, [Next]_vars PROVE [Step]_vars
  <2> SUFFICES ASSUME NEW r \in Requests, AuthorStep(r) \/ AdminStep(r) \/ Abort(r),
                      asset.status = "rejected", asset'.status = "pending"
               PROVE  At(r, "edit") /\ ~At(r, "edit")' /\ req[r].status # "rejected"
    BY <1>1 DEF Next
  <2>1. ~ApproveAsset(r)
    BY <1>1 DEF ApproveAsset, UpdateStatus, TypeOK
  <2>2. EditWrite(r)
    BY <1>1, <2>1, StatusStep
  <2> QED
    BY <1>1, <2>2, EditStep
<1> QED
  BY <1>1, TypeCorrect, PTL DEF Spec, RejectionStands

\* What is shown, whether the asset is approved or not and whatever overlapped
\* or failed, was approved at some time or is the version the asset was
\* created with.
THEOREM ShownCorrect == Spec => []ShownPassed
<1>1. IInv => ShownPassed
  BY DEF IInv
<1> QED
  BY <1>1, Inductive, PTL
-----------------------------------------------------------------------------
(* A version is decided for good: whoever sends it again, its number never  *)
(* comes back to those that wait.                                           *)

Decided(v) == v \in Settled \/ asset.status = "deleted"

LEMMA GoneStays ==
  ASSUME TypeOK, asset.status = "deleted", [Next]_vars
  PROVE  asset'.status = "deleted"
<1> SUFFICES ASSUME NEW r \in Requests, AuthorStep(r) \/ AdminStep(r) \/ Abort(r),
                    asset'.status # asset.status
             PROVE  FALSE
  BY DEF Next, vars, rows
<1>1. ~Exists
  BY DEF Exists, Live
<1>2. CASE ApproveAsset(r) \/ EditWrite(r)
  BY <1>1, <1>2 DEF ApproveAsset, EditWrite, UpdateStatus
<1> QED
  BY <1>1, <1>2, StatusStep

LEMMA DecidedStep ==
  ASSUME TypeOK, NEW v \in Versions, v \in Settled, [Next]_vars
  PROVE  Decided(v)'
<1>1. CASE UNCHANGED version
  BY <1>1 DEF Decided, Settled, Present, Pending
<1>2. v \in Present /\ version[v] # "pending" /\ Exists
  BY DEF Settled, Present, Pending, TypeOK
<1>3. ASSUME NEW w, NEW s \in {"approved", "rejected"}, Decide(w, s)
      PROVE  Decided(v)'
  BY <1>2, <1>3 DEF Decide, TypeOK, Decided, Settled, Present, Pending
<1>4. ASSUME NEW r \in Requests, NEW w \in Versions, CreateWithVersion(r, w)
      PROVE  FALSE
  BY <1>2, <1>4 DEF CreateWithVersion, Exists, Live
<1>5. ASSUME NEW r \in Requests, UploadSupersede(r) \/ UploadInsert(r)
      PROVE  Decided(v)'
  BY <1>2, <1>5 DEF UploadSupersede, UploadInsert, TypeOK, Decided, Settled, Present, Pending
<1>6. ASSUME NEW r \in Requests, Delete(r)
      PROVE  Decided(v)'
  BY <1>6, SMTT(60) DEF Delete, NoRow, Decided
<1>7. ASSUME NEW r \in Requests, AuthorStep(r)
      PROVE  Decided(v)'
  BY <1>1, <1>4, <1>5, <1>6, <1>7 DEF AuthorStep, UploadSelect, SetCurrentCheck, CreatePoint,
     SetCurrentSync, SetCurrentPoint, EditRead, EditWrite, rows
<1>8. ASSUME NEW r \in Requests, AdminStep(r)
      PROVE  Decided(v)'
  BY <1>1, <1>3, <1>8 DEF AdminStep, ApproveRead, ApproveAsset, ApproveReadVersion,
     ApproveCurrent, ApproveSync, RejectAsset, RejectList, RejectCascade, ApproveVersion,
     PassPoint, PassSync, RejectVersion, rows
<1> QED
  BY <1>1, <1>7, <1>8 DEF Next, Abort, vars, rows

\* asset.go:639, asset_version.go:130: a version that was decided or set aside
\* never waits for review again, also when its number is sent once more, and
\* also after the asset is deleted.
THEOREM DecidedForGood ==
  ASSUME NEW v \in Versions
  PROVE  Spec => [](v \in Settled => [](v \notin Pending))
<1>1. IInv /\ Decided(v) /\ [Next]_vars => Decided(v)'
  BY GoneStays, DecidedStep DEF IInv, Decided
<1>2. v \in Settled => Decided(v)
  BY DEF Decided
<1>3. IInv /\ Decided(v) => v \notin Pending
  BY DEF IInv, TypeOK, Decided, Settled, Exists, Live, Present, Pending
<1> QED
  BY <1>1, <1>2, <1>3, Inductive, PTL DEF Spec
=============================================================================
