---------------------------- MODULE AssetReview ----------------------------
(***************************************************************************)
(* The review of one asset and its versions: the handlers of               *)
(* internal/handler/asset.go and internal/handler/admin.go that write the  *)
(* rows of assets and asset_versions.  Assets do not share rows, so one is *)
(* enough.                                                                 *)
(*                                                                         *)
(* A request is one goroutine serving one HTTP call.  Every database call  *)
(* is a step, and none of these handlers holds a transaction over two of   *)
(* them, except for the insertion of an asset with its first version.  A   *)
(* read whose result nothing can change any more, as the author of an      *)
(* asset or the number of a version, is joined to the next call.  A call   *)
(* fails when the database does, or when the client has gone away and its  *)
(* context is cancelled; Faulty says whether that happens.                 *)
(***************************************************************************)
EXTENDS FiniteSets

CONSTANTS
  Versions,    \* version numbers
  Documented,  \* those whose archive holds a README.md, SKILL.md or SOUL.md
  Requests,    \* goroutines serving HTTP calls
  Faulty,      \* whether the database may fail a call
  None

ASSUME ReviewAssumption ==
  /\ None \notin Versions
  /\ Documented \subseteq Versions
  /\ Faulty \in BOOLEAN

VARIABLES
  asset,    \* the row of assets
  version,  \* the status column of asset_versions, by version number
  req,      \* what each request is doing and has read
  first,    \* history: the version the asset was created with
  reviewed, \* history: the versions an administrator approved at some time
  before    \* history: per version, those its upload had set aside or seen decided

vars == <<asset, version, req, first, reviewed, before>>
rows == <<asset, version>>
history == <<first, reviewed, before>>

Live == {"pending", "approved", "rejected"}
AssetStatuses == Live \cup {"absent", "deleted"}
VersionStatuses == Live \cup {"absent", "superseded"}
Places == {"idle", "create_point", "upload_supersede", "upload_insert", "set_sync",
           "set_point", "edit", "approve_asset", "approve_read", "approve_version",
           "approve_sync", "reject_list", "reject_cascade", "pass_point", "pass_sync"}
Versionless == {"idle", "edit", "approve_asset", "reject_list", "reject_cascade"}

NoRow == [status |-> "absent", current |-> None, content |-> None]
Idle  == [at |-> "idle", ver |-> None, status |-> "absent", list |-> {}]

Exists  == asset.status \in Live
Present == {v \in Versions : version[v] # "absent"}
Pending == {v \in Versions : version[v] = "pending"}

Init ==
  /\ asset = NoRow
  /\ version = [v \in Versions |-> "absent"]
  /\ req = [r \in Requests |-> Idle]
  /\ first = None
  /\ reviewed = {}
  /\ before = [v \in Versions |-> {}]

-----------------------------------------------------------------------------
(* Where a request is, and the writes it makes.  An UPDATE of a row that is *)
(* gone changes nothing and raises no error.                                *)

At(r, place) == req[r].at = place
Begin(r, place, v) == req' = [req EXCEPT ![r] = [Idle EXCEPT !.at = place, !.ver = v]]
Go(r, place) == req' = [req EXCEPT ![r].at = place]
End(r) == req' = [req EXCEPT ![r] = Idle]

UpdateStatus(s) == asset' = IF Exists THEN [asset EXCEPT !.status = s] ELSE asset
UpdateCurrentVersion(v) == asset' = IF Exists THEN [asset EXCEPT !.current = v] ELSE asset
UpdateReadme(v) == asset' = IF Exists THEN [asset EXCEPT !.content = v] ELSE asset

\* AssetVersionRepository.UpdateStatus.
Decide(v, s) ==
  /\ version' = IF v \in Present THEN [version EXCEPT ![v] = s] ELSE version
  /\ reviewed' = IF v \in Present /\ s = "approved" THEN reviewed \cup {v} ELSE reviewed

-----------------------------------------------------------------------------
(* Wrong forms of actions below, each a plausible slip in the code.         *)

\* UPDATE asset_versions SET status = 'superseded' without AND status = 'pending'.
SupersedeAll(r) ==
  /\ At(r, "upload_supersede")
  /\ version' = [v \in Versions |-> IF v \in Present THEN "superseded" ELSE "absent"]
  /\ req' = [req EXCEPT ![r].at = "upload_insert", ![r].list = Present]
  /\ UNCHANGED <<asset, history>>

\* SupersedePending without its Commit: the rows stay as they were.
SupersedeUncommitted(r) ==
  /\ At(r, "upload_supersede")
  /\ req' = [req EXCEPT ![r].at = "upload_insert", ![r].list = Present]
  /\ UNCHANGED <<rows, history>>

\* Update writes the status it has read.
EditWriteBack(r) ==
  /\ At(r, "edit")
  /\ UpdateStatus(req[r].status)
  /\ End(r)
  /\ UNCHANGED <<version, history>>

\* Update always asks for a new review.
EditResubmits(r) ==
  /\ At(r, "edit")
  /\ UpdateStatus("pending")
  /\ End(r)
  /\ UNCHANGED <<version, history>>

-----------------------------------------------------------------------------
(* Create: the asset and its first version in one transaction, then the    *)
(* current version; a failure of the second call is logged only.           *)

CreateWithVersion(r, v) ==
  /\ At(r, "idle")
  /\ asset.status = "absent"
  /\ asset' = [status |-> "pending", current |-> None,
               content |-> IF v \in Documented THEN v ELSE None]
  /\ version' = [version EXCEPT ![v] = "pending"]
  /\ first' = v
  /\ Begin(r, "create_point", v)
  /\ UNCHANGED <<reviewed, before>>

CreatePoint(r) ==
  /\ At(r, "create_point")
  /\ \/ UpdateCurrentVersion(req[r].ver)
     \/ Faulty /\ UNCHANGED asset
  /\ End(r)
  /\ UNCHANGED <<version, history>>

-----------------------------------------------------------------------------
(* UploadVersion: SupersedePending is a SELECT and, if it finds rows, an   *)
(* UPDATE; its failure is logged only.  Then the insertion.                *)

UploadSelect(r, v) ==
  /\ At(r, "idle")
  /\ Exists
  /\ \/ /\ Pending = {}
        /\ req' = [req EXCEPT ![r] = [Idle EXCEPT !.at = "upload_insert", !.ver = v,
                                                  !.list = Present]]
     \/ /\ Pending # {}
        /\ req' = [req EXCEPT ![r] = [Idle EXCEPT !.at = "upload_supersede", !.ver = v,
                                                  !.list = Pending]]
     \/ Faulty /\ Begin(r, "upload_insert", v)
  /\ UNCHANGED <<rows, history>>

UploadSupersede(r) ==
  /\ At(r, "upload_supersede")
  /\ \/ /\ version' = [v \in Versions |-> IF v \in Pending THEN "superseded" ELSE version[v]]
        /\ req' = [req EXCEPT ![r].at = "upload_insert", ![r].list = Present]
     \/ /\ Faulty
        /\ req' = [req EXCEPT ![r].at = "upload_insert", ![r].list = {}]
        /\ UNCHANGED version
  /\ UNCHANGED <<asset, history>>

\* A number that is taken, or an asset that is gone, fails the insertion; the
\* pending versions have been superseded all the same.
UploadInsert(r) ==
  LET v == req[r].ver IN
  /\ At(r, "upload_insert")
  /\ IF Exists /\ v \notin Present
       THEN /\ version' = [version EXCEPT ![v] = "pending"]
            /\ before' = [before EXCEPT ![v] = req[r].list]
       ELSE UNCHANGED <<version, before>>
  /\ End(r)
  /\ UNCHANGED <<asset, first, reviewed>>

-----------------------------------------------------------------------------
(* SetCurrentVersion: only an approved version; its content first, if it   *)
(* has any, then the pointer.                                              *)

SetCurrentCheck(r, v) ==
  /\ At(r, "idle")
  /\ Exists /\ version[v] = "approved"
  /\ Begin(r, IF v \in Documented THEN "set_sync" ELSE "set_point", v)
  /\ UNCHANGED <<rows, history>>

SetCurrentSync(r) ==
  /\ At(r, "set_sync")
  /\ \/ UpdateReadme(req[r].ver)
     \/ Faulty /\ UNCHANGED asset
  /\ Go(r, "set_point")
  /\ UNCHANGED <<version, history>>

SetCurrentPoint(r) ==
  /\ At(r, "set_point")
  /\ UpdateCurrentVersion(req[r].ver)
  /\ End(r)
  /\ UNCHANGED <<version, history>>

-----------------------------------------------------------------------------
(* Update: an edit of an approved asset asks for a new review.             *)

EditRead(r) ==
  /\ At(r, "idle")
  /\ Exists
  /\ req' = [req EXCEPT ![r] = [Idle EXCEPT !.at = "edit", !.status = asset.status]]
  /\ UNCHANGED <<rows, history>>

EditWrite(r) ==
  /\ At(r, "edit")
  /\ UpdateStatus(IF req[r].status = "approved" THEN "pending" ELSE req[r].status)
  /\ End(r)
  /\ UNCHANGED <<version, history>>

\* Delete: the versions go with the row.
Delete(r) ==
  /\ At(r, "idle")
  /\ Exists
  /\ asset' = [NoRow EXCEPT !.status = "deleted"]
  /\ version' = [v \in Versions |-> "absent"]
  /\ UNCHANGED <<req, history>>

-----------------------------------------------------------------------------
(* Approve: the asset, then the version that was current when the request  *)
(* began.  Errors after the first update are dropped.                      *)

ApproveRead(r) ==
  /\ At(r, "idle")
  /\ Exists
  /\ Begin(r, "approve_asset", asset.current)
  /\ UNCHANGED <<rows, history>>

ApproveAsset(r) ==
  /\ At(r, "approve_asset")
  /\ UpdateStatus("approved")
  /\ IF req[r].ver = None THEN End(r) ELSE Go(r, "approve_read")
  /\ UNCHANGED <<version, history>>

ApproveReadVersion(r) ==
  /\ At(r, "approve_read")
  /\ LET due == req[r].ver \in Present /\ version[req[r].ver] # "approved" IN
       \/ due /\ Go(r, "approve_version")
       \/ (~due \/ Faulty) /\ End(r)
  /\ UNCHANGED <<rows, history>>

ApproveCurrent(r) ==
  /\ At(r, "approve_version")
  /\ \/ Decide(req[r].ver, "approved")
     \/ Faulty /\ UNCHANGED <<version, reviewed>>
  /\ IF req[r].ver \in Documented THEN Go(r, "approve_sync") ELSE End(r)
  /\ UNCHANGED <<asset, first, before>>

ApproveSync(r) ==
  /\ At(r, "approve_sync")
  /\ \/ UpdateReadme(req[r].ver)
     \/ Faulty /\ UNCHANGED asset
  /\ End(r)
  /\ UNCHANGED <<version, history>>

-----------------------------------------------------------------------------
(* Reject: the asset, then every version listed as pending, one by one.    *)
(* created_at orders the list; any order is allowed here.                  *)

RejectAsset(r) ==
  /\ At(r, "idle")
  /\ Exists
  /\ UpdateStatus("rejected")
  /\ Begin(r, "reject_list", None)
  /\ UNCHANGED <<version, history>>

RejectList(r) ==
  /\ At(r, "reject_list")
  /\ \/ Pending # {} /\ req' = [req EXCEPT ![r].at = "reject_cascade", ![r].list = Pending]
     \/ (Pending = {} \/ Faulty) /\ End(r)
  /\ UNCHANGED <<rows, history>>

RejectCascade(r) ==
  /\ At(r, "reject_cascade")
  /\ \E v \in req[r].list :
       /\ \/ Decide(v, "rejected")
          \/ Faulty /\ UNCHANGED <<version, reviewed>>
       /\ IF req[r].list = {v} THEN End(r)
                               ELSE req' = [req EXCEPT ![r].list = @ \ {v}]
  /\ UNCHANGED <<asset, first, before>>

-----------------------------------------------------------------------------
(* ApproveVersion: the version, whatever its status, then the pointer, then*)
(* the content.  RejectVersion: the version only.                          *)

ApproveVersion(r, v) ==
  /\ At(r, "idle")
  /\ v \in Present
  /\ Decide(v, "approved")
  /\ Begin(r, "pass_point", v)
  /\ UNCHANGED <<asset, first, before>>

PassPoint(r) ==
  /\ At(r, "pass_point")
  /\ \/ UpdateCurrentVersion(req[r].ver)
     \/ Faulty /\ UNCHANGED asset
  /\ IF req[r].ver \in Documented THEN Go(r, "pass_sync") ELSE End(r)
  /\ UNCHANGED <<version, history>>

PassSync(r) ==
  /\ At(r, "pass_sync")
  /\ \/ UpdateReadme(req[r].ver)
     \/ Faulty /\ UNCHANGED asset
  /\ End(r)
  /\ UNCHANGED <<version, history>>

RejectVersion(r, v) ==
  /\ At(r, "idle")
  /\ v \in Present
  /\ Decide(v, "rejected")
  /\ UNCHANGED <<asset, req, first, before>>

\* The database fails a call whose error ends the request.
Abort(r) ==
  /\ Faulty
  /\ req[r].at \in {"upload_insert", "set_point", "edit", "approve_asset"}
  /\ End(r)
  /\ UNCHANGED <<rows, history>>

-----------------------------------------------------------------------------
AuthorStep(r) ==
  \/ \E v \in Versions : CreateWithVersion(r, v) \/ UploadSelect(r, v) \/ SetCurrentCheck(r, v)
  \/ CreatePoint(r) \/ UploadSupersede(r) \/ UploadInsert(r)
  \/ SetCurrentSync(r) \/ SetCurrentPoint(r) \/ EditRead(r) \/ EditWrite(r) \/ Delete(r)

AdminStep(r) ==
  \/ \E v \in Versions : ApproveVersion(r, v) \/ RejectVersion(r, v)
  \/ ApproveRead(r) \/ ApproveAsset(r) \/ ApproveReadVersion(r)
  \/ ApproveCurrent(r) \/ ApproveSync(r) \/ RejectAsset(r) \/ RejectList(r)
  \/ RejectCascade(r) \/ PassPoint(r) \/ PassSync(r)

Next == \E r \in Requests : AuthorStep(r) \/ AdminStep(r) \/ Abort(r)

Spec == Init /\ [][Next]_vars
-----------------------------------------------------------------------------
(* Properties.                                                             *)

\* Rows, requests and histories have their types, a request past its check
\* has in hand what it read, and no version outlives its asset.
TypeOK ==
  /\ asset \in [status : AssetStatuses, current : Versions \cup {None},
                content : Versions \cup {None}]
  /\ version \in [Versions -> VersionStatuses]
  /\ req \in [Requests -> [at : Places, ver : Versions \cup {None},
                           status : AssetStatuses, list : SUBSET Versions]]
  /\ first \in Versions \cup {None}
  /\ reviewed \in SUBSET Versions
  /\ before \in [Versions -> SUBSET Versions]
  /\ \A r \in Requests :
       /\ req[r].ver = None => req[r].at \in Versionless
       /\ At(r, "edit") => req[r].status \in Live
  /\ Present # {} => Exists

\* Two versions wait for review together only if their uploads overlapped, or
\* one failed to set the other aside: SupersedePending leaves out none of the
\* versions that were there, whatever is uploaded or decided meanwhile.
PendingTogetherOverlapped ==
  \A v, w \in Pending : v # w => w \notin before[v]

\* Only Approve makes an asset approved: an author's edit that read the row
\* before an administrator's decision never publishes it again.
OnlyReviewPublishes ==
  [][asset.status # "approved" /\ asset'.status = "approved"
       => \E r \in Requests : At(r, "approve_asset") /\ ~At(r, "approve_asset")']_vars

\* An asset that was rejected goes back to the review queue only by an edit
\* that had read the row before the rejection.
RejectionStands ==
  [][asset.status = "rejected" /\ asset'.status = "pending"
       => \E r \in Requests : At(r, "edit") /\ ~At(r, "edit")'
                                /\ req[r].status # "rejected"]_vars

Shown == [current |-> asset.current, content |-> asset.content]

\* Whatever requests interleave and whichever database calls fail, the rows
\* are a ledger of reviews: see ReviewLedger.
Ledger == INSTANCE ReviewLedger WITH
  status <- version, opening <- first, passed <- reviewed, shown <- Shown
LedgerSpec == Ledger!LedgerSpec

\* README.md:89, in translation: "version-level review keeps content safe.
\* What users install is a reviewed version."  Users install the current
\* version of an approved asset.
CurrentIsApproved ==
  /\ asset.status = "approved" /\ asset.current \in Present
  /\ \A r \in Requests : At(r, "idle")
  => version[asset.current] = "approved"
=============================================================================
