----------------------------- MODULE AssetFiles -----------------------------
(***************************************************************************)
(* The files of one asset: storage/{asset}/{version}/{name}, which Create, *)
(* UploadVersion and CleanupOrphans write and remove with no lock between  *)
(* them, and the rows of asset_versions whose file_key points there.       *)
(*                                                                         *)
(* An upload is one HTTP call, and its name stands for the bytes it sends. *)
(* Two handles on one file mix their bytes; a handle whose file was        *)
(* removed writes into nothing.  Review is left out: see AssetReview.      *)
(***************************************************************************)
EXTENDS FiniteSets

CONSTANTS
  Versions,  \* version numbers
  Names,     \* names of uploaded archives
  Uploads,   \* calls of Create and UploadVersion
  Unsafe,    \* those whose archive ScanZip refuses
  Sweeps,    \* administrators that may call CleanupOrphans
  None,      \* no row, no file, no content
  Torn       \* the bytes of an unfinished or mixed write

Bytes == Uploads \cup {Torn}
Files == [body : Bytes, open : SUBSET Uploads, mixed : BOOLEAN]
Rows == [by : Uploads, name : Names, content : Bytes \cup {None}]

ASSUME FilesAssumption ==
  /\ Unsafe \subseteq Uploads
  /\ None \notin Uploads \cup Versions \cup Names \cup Files \cup Rows
  /\ Torn \notin Uploads \cup {None}

VARIABLES
  asset,  \* whether the row of assets is absent, present or deleted
  row,    \* per version, the upload that inserted its row, its file name and content
  dir,    \* the version directories on disk
  file,   \* the files on disk: their bytes, the handles open on them, those mixed
  up,     \* what each upload is doing
  sweep,  \* what each cleanup is doing
  raced,  \* history: the uploads that overlapped a cleanup
  tidy    \* history: the last to end was a cleanup that overlapped nothing

vars == <<asset, row, dir, file, up, sweep, raced, tidy>>

Stages == {"new", "found", "made", "open", "copied", "scanned", "read", "done"}

NewUpload == [at |-> "new", creates |-> FALSE, ver |-> None, name |-> None, got |-> None]
Resting == [at |-> "rest", valid |-> {}, todo |-> {}, alone |-> FALSE]

Paths == Versions \X Names
Path(u) == <<up[u].ver, up[u].name>>
Held(u) == LET f == file[Path(u)] IN IF f = None THEN None ELSE f.body
Rowed == {v \in Versions : row[v] # None}
Serving == {u \in Uploads : up[u].at \notin {"new", "done"}}
Sweeping == {s \in Sweeps : sweep[s].at # "rest"}

Init ==
  /\ asset = "absent"
  /\ row = [v \in Versions |-> None]
  /\ dir = {}
  /\ file = [p \in Paths |-> None]
  /\ up = [u \in Uploads |-> NewUpload]
  /\ sweep = [s \in Sweeps |-> Resting]
  /\ raced = {}
  /\ tidy = FALSE

-----------------------------------------------------------------------------
Step(u, from, to) ==
  /\ up[u].at = from
  /\ up' = [up EXCEPT ![u].at = to]

\* os.RemoveAll of version directories.
RemoveAll(D) ==
  /\ dir' = dir \ D
  /\ file' = [p \in Paths |-> IF p[1] \in D THEN None ELSE file[p]]

\* A call that changes what is on disk or in the rows spoils a cleanup under way.
Disturb ==
  /\ sweep' = [s \in Sweeps |-> [sweep[s] EXCEPT !.alone = FALSE]]
  /\ tidy' = FALSE

-----------------------------------------------------------------------------
(* Wrong forms of actions below, each a plausible slip in the code.         *)

\* UploadVersion cleans up like Create: storage/{asset}, not {asset}/{version}.
FailRemovesAsset(u) ==
  /\ ~up[u].creates
  /\ Step(u, "read", "done")
  /\ RemoveAll(Versions)
  /\ UNCHANGED <<asset, row, sweep, raced, tidy>>

\* No foreign key from asset_versions to assets.
InsertUnchecked(u) ==
  /\ ~up[u].creates
  /\ Step(u, "read", "done")
  /\ row[up[u].ver] = None
  /\ row' = [row EXCEPT ![up[u].ver] = [by |-> u, name |-> up[u].name, content |-> up[u].got]]
  /\ UNCHANGED <<asset, dir, file, sweep, raced, tidy>>

\* The scan of an asset ends at its first valid version: break for continue.
ScanStopsEarly(s) ==
  /\ sweep[s].at = "list"
  /\ sweep' = [sweep EXCEPT ![s].at = "remove",
                            ![s].todo = IF dir \cap sweep[s].valid = {} THEN dir ELSE {}]
  /\ UNCHANGED <<asset, row, dir, file, up, raced, tidy>>

\* The last RemoveAll without assetHasValid and the second ReadDir.
SweepAll(s) ==
  /\ sweep[s].at = "remove" /\ sweep[s].todo = {}
  /\ sweep' = [sweep EXCEPT ![s].at = "last"]
  /\ UNCHANGED <<asset, row, dir, file, up, raced, tidy>>

-----------------------------------------------------------------------------
(* Create and UploadVersion.  The identifier of an asset is new in Create, *)
(* and UploadVersion finds the asset first.                                *)

Begin(u, v, n, creates) ==
  /\ up[u].at = "new"
  /\ up' = [up EXCEPT ![u] = [at |-> "found", creates |-> creates,
                              ver |-> v, name |-> n, got |-> None]]
  /\ raced' = IF Sweeping = {} THEN raced ELSE raced \cup {u}
  /\ Disturb
  /\ UNCHANGED <<asset, row, dir, file>>

Create(u, v, n) ==
  /\ asset = "absent"
  /\ \A w \in Uploads : up[w].at = "new"
  /\ Begin(u, v, n, TRUE)

UploadVersion(u, v, n) ==
  /\ asset = "present"
  /\ Begin(u, v, n, FALSE)

MkdirAll(u) ==
  /\ Step(u, "found", "made")
  /\ dir' = dir \cup {up[u].ver}
  /\ UNCHANGED <<asset, row, file, sweep, raced, tidy>>

\* os.Create truncates a file that is there.  It fails without the directory.
Open(u) ==
  LET f == file[Path(u)] IN
  /\ Step(u, "made", "open")
  /\ up[u].ver \in dir
  /\ file' = [file EXCEPT ![Path(u)] =
       IF f = None \/ f.open = {}
         THEN [body |-> Torn, open |-> {u}, mixed |-> FALSE]
         ELSE [body |-> Torn, open |-> f.open \cup {u}, mixed |-> TRUE]]
  /\ UNCHANGED <<asset, row, dir, sweep, raced, tidy>>

\* io.Copy and Close: the bytes are the upload's alone unless another wrote too.
Copy(u) ==
  LET f == file[Path(u)] IN
  /\ Step(u, "open", "copied")
  /\ IF f # None /\ u \in f.open
       THEN \E b \in IF f.mixed THEN {u, f.body, Torn} ELSE {u} :
              file' = [file EXCEPT ![Path(u)] = [f EXCEPT !.body = b, !.open = @ \ {u}]]
       ELSE UNCHANGED file
  /\ UNCHANGED <<asset, row, dir, sweep, raced, tidy>>

\* An error before the archive is whole: nothing is cleaned up.
Fail(u) ==
  /\ up[u].at \in {"found", "made", "open"}
  /\ up' = [up EXCEPT ![u].at = "done"]
  /\ file' = [p \in Paths |->
       IF file[p] # None /\ u \in file[p].open THEN [file[p] EXCEPT !.open = @ \ {u}]
                                              ELSE file[p]]
  /\ UNCHANGED <<asset, row, dir, sweep, raced, tidy>>

\* ScanZip reads the path again, and so meets whatever is there by now.  A torn
\* archive may pass or not.  The file is removed, whosever it is.
Scan(u) ==
  /\ up[u].at = "copied"
  /\ \/ /\ Held(u) \notin Unsafe \cup {None}
        /\ Step(u, "copied", "scanned")
        /\ UNCHANGED file
     \/ /\ Held(u) \in Unsafe \cup {None, Torn}
        /\ Step(u, "copied", "done")
        /\ file' = [file EXCEPT ![Path(u)] = None]
  /\ UNCHANGED <<asset, row, dir, sweep, raced, tidy>>

\* Create alone goes on to check the author and the tags, and leaves the files.
Refuse(u) ==
  /\ up[u].creates
  /\ Step(u, "scanned", "done")
  /\ UNCHANGED <<asset, row, dir, file, sweep, raced, tidy>>

\* extractZipContent: what the review page and the asset page will show.
Extract(u) ==
  /\ up[u].at = "scanned"
  /\ up' = [up EXCEPT ![u].at = "read", ![u].got = Held(u)]
  /\ UNCHANGED <<asset, row, dir, file, sweep, raced, tidy>>

InsertRow(u) ==
  /\ Step(u, "read", "done")
  /\ row[up[u].ver] = None
  /\ row' = [row EXCEPT ![up[u].ver] = [by |-> u, name |-> up[u].name, content |-> up[u].got]]
  /\ UNCHANGED <<dir, file, sweep, raced, tidy>>

\* Create: the rows of the asset and of its version, in one transaction.
CreateWithVersion(u) ==
  /\ up[u].creates
  /\ InsertRow(u)
  /\ asset' = "present"

\* UploadVersion: the row is unique per version number, and needs the asset.
InsertVersion(u) ==
  /\ ~up[u].creates
  /\ asset = "present"
  /\ InsertRow(u)
  /\ UNCHANGED asset

\* The insertion fails, for a row that is there or for any other error.  Create
\* removes the directory of the asset, which nobody else knows.
CreateFail(u) ==
  /\ up[u].creates
  /\ Step(u, "read", "done")
  /\ RemoveAll(Versions)
  /\ UNCHANGED <<asset, row, sweep, raced, tidy>>

\* UploadVersion removes that of the version, with the files of the row that
\* is there.
VersionFail(u) ==
  /\ ~up[u].creates
  /\ Step(u, "read", "done")
  /\ RemoveAll({up[u].ver})
  /\ UNCHANGED <<asset, row, sweep, raced, tidy>>

\* Delete: the rows go, the files stay.
Delete ==
  /\ asset = "present"
  /\ asset' = "deleted"
  /\ row' = [v \in Versions |-> None]
  /\ Disturb
  /\ UNCHANGED <<dir, file, up, raced>>

-----------------------------------------------------------------------------
(* CleanupOrphans: the keys in the database, then the directories, then    *)
(* one RemoveAll after the other, last that of the asset if it looks empty.*)

SweepKeys(s) ==
  /\ sweep[s].at = "rest"
  /\ sweep' = [sweep EXCEPT ![s] = [at |-> "list", valid |-> Rowed, todo |-> {},
                                    alone |-> Serving = {} /\ Sweeping = {}]]
  /\ raced' = raced \cup Serving
  /\ tidy' = FALSE
  /\ UNCHANGED <<asset, row, dir, file, up>>

SweepScan(s) ==
  /\ sweep[s].at = "list"
  /\ sweep' = [sweep EXCEPT ![s].at = "remove", ![s].todo = dir \ sweep[s].valid,
                            ![s].valid = dir \cap @]
  /\ UNCHANGED <<asset, row, dir, file, up, raced, tidy>>

SweepRemove(s, v) ==
  /\ v \in sweep[s].todo
  /\ RemoveAll({v})
  /\ sweep' = [sweep EXCEPT ![s].todo = @ \ {v}]
  /\ UNCHANGED <<asset, row, up, raced, tidy>>

\* assetHasValid, or something left in the directory of the asset.
SweepCheck(s) ==
  /\ sweep[s].at = "remove" /\ sweep[s].todo = {}
  /\ IF sweep[s].valid = {} /\ dir = {}
       THEN sweep' = [sweep EXCEPT ![s].at = "last"] /\ UNCHANGED tidy
       ELSE sweep' = [sweep EXCEPT ![s] = Resting] /\ tidy' = sweep[s].alone
  /\ UNCHANGED <<asset, row, dir, file, up, raced>>

SweepLast(s) ==
  /\ sweep[s].at = "last"
  /\ RemoveAll(Versions)
  /\ sweep' = [sweep EXCEPT ![s] = Resting]
  /\ tidy' = sweep[s].alone
  /\ UNCHANGED <<asset, row, up, raced>>

-----------------------------------------------------------------------------
UploadStep(u) ==
  \/ \E v \in Versions, n \in Names : Create(u, v, n) \/ UploadVersion(u, v, n)
  \/ MkdirAll(u) \/ Open(u) \/ Copy(u) \/ Fail(u) \/ Scan(u) \/ Refuse(u) \/ Extract(u)
  \/ CreateWithVersion(u) \/ CreateFail(u) \/ InsertVersion(u) \/ VersionFail(u)

SweepStep(s) ==
  \/ \E v \in Versions : SweepRemove(s, v)
  \/ SweepKeys(s) \/ SweepScan(s) \/ SweepCheck(s) \/ SweepLast(s)

Next ==
  \/ Delete
  \/ \E u \in Uploads : UploadStep(u)
  \/ \E s \in Sweeps : SweepStep(s)

Spec == Init /\ [][Next]_vars
-----------------------------------------------------------------------------
(* Properties.                                                             *)

\* The types, no file without its directory, and no row without its asset.
TypeOK ==
  /\ asset \in {"absent", "present", "deleted"}
  /\ row \in [Versions -> Rows \cup {None}]
  /\ dir \subseteq Versions
  /\ file \in [Paths -> Files \cup {None}]
  /\ up \in [Uploads -> [at : Stages, creates : BOOLEAN, ver : Versions \cup {None},
                         name : Names \cup {None}, got : Bytes \cup {None}]]
  /\ sweep \in [Sweeps -> [at : {"rest", "list", "remove", "last"}, valid : SUBSET Versions,
                           todo : SUBSET Versions, alone : BOOLEAN]]
  /\ raced \subseteq Uploads /\ tidy \in BOOLEAN
  /\ \A p \in Paths : file[p] # None => p[1] \in dir
  /\ Rowed # {} => asset = "present"

\* A version is served as it was reviewed: the file its row points to and the
\* content shown to the reviewer are its own upload's, unless another upload of
\* the same version number was attempted, or a cleanup ran during the upload.
ServedAsReviewed ==
  \A v \in Rowed : LET u == row[v].by IN
    u \notin raced /\ (\A w \in Uploads : up[w].ver = v => w = u)
      => /\ row[v].content = u
         /\ file[<<v, row[v].name>>] # None /\ file[<<v, row[v].name>>].body = u

\* A cleanup takes the directory of a version that has its row only where an
\* upload of that very version overlapped a cleanup: neither the keys read long
\* before the last RemoveAll, nor the two ReadDirs, cost a version more.
SweptWasRaced ==
  [][\A s \in Sweeps : sweep'[s] # sweep[s]
       => \A v \in (dir \ dir') \cap Rowed : \E u \in raced : up[u].ver = v]_vars

\* A cleanup that overlapped neither an upload nor a deletion leaves behind no
\* directory without a row.
TidyLeavesNoOrphan == tidy => dir \subseteq Rowed

\* admin.go:242, in translation: "clean up orphaned asset directories on disk
\* (those without a row in asset_versions)".
SweptHasNoRow ==
  [][\A s \in Sweeps : sweep'[s] # sweep[s] => (dir \ dir') \cap Rowed = {}]_vars
=============================================================================
