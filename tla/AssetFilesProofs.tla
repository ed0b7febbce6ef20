--------------------------- MODULE AssetFilesProofs ---------------------------
(***************************************************************************)
(* Proofs about AssetFiles, for any versions, names, uploads and cleanups: *)
(* an upload that met no other of its version and no cleanup is served as  *)
(* it was reviewed; a cleanup takes the directory of a version that has    *)
(* its row only from uploads that overlapped one, and one that was alone   *)
(* leaves nothing without a row.                                           *)
(***************************************************************************)
EXTENDS AssetFiles, TLAPS

USE FilesAssumption

UpSet == [at : Stages, creates : BOOLEAN, ver : Versions \cup {None},
          name : Names \cup {None}, got : Bytes \cup {None}]
SweepSet == [at : {"rest", "list", "remove", "last"}, valid : SUBSET Versions,
             todo : SUBSET Versions, alone : BOOLEAN]

UpType(u) ==
  /\ up[u].at = "new" => up[u].ver = None
  /\ up[u].at # "new" => up[u].ver \in Versions /\ up[u].name \in Names

Typed == TypeOK /\ \A u \in Uploads : UpType(u)


LEMMA Constants ==
  /\ NewUpload \in UpSet /\ NewUpload.at = "new" /\ NewUpload.ver = None
  /\ Resting \in SweepSet /\ Resting.at = "rest" /\ Resting.todo = {} /\ ~Resting.alone
  /\ Resting.valid = {}
BY DEF NewUpload, UpSet, Stages, Resting, SweepSet

LEMMA TypedInit == Init => Typed
<1> SUFFICES ASSUME Init PROVE Typed
  OBVIOUS
<1>1. up \in [Uploads -> UpSet] /\ sweep \in [Sweeps -> SweepSet]
  BY Constants DEF Init
<1>2. Rowed = {} /\ \A p \in Paths : file[p] = None
  BY DEF Init, Rowed
<1>3. TypeOK
  BY <1>1, <1>2 DEF Init, TypeOK, UpSet, SweepSet
<1>4. QED
  BY <1>3, Constants DEF Init, Typed, UpType

LEMMA FileFields ==
  ASSUME NEW f \in Files, NEW b \in Bytes, NEW o \in SUBSET Uploads
  PROVE  /\ [f EXCEPT !.open = o] \in Files /\ [f EXCEPT !.open = o].body = f.body
         /\ [f EXCEPT !.open = o].open = o /\ [f EXCEPT !.open = o].mixed = f.mixed
         /\ [f EXCEPT !.body = b, !.open = o] \in Files
         /\ [f EXCEPT !.body = b, !.open = o].body = b
         /\ [f EXCEPT !.body = b, !.open = o].open = o
         /\ [f EXCEPT !.body = b, !.open = o].mixed = f.mixed
BY DEF Files
-----------------------------------------------------------------------------
(* How a step moves the uploads and the files.                             *)

\* An upload begins; one that is served goes on; or none moves.
Goes(u) ==
  /\ u \in Serving
  /\ \A w \in Uploads \ {u} : up'[w] = up[w]
  /\ up' \in [Uploads -> UpSet] /\ up'[u] \in UpSet /\ up'[u].at # "new"
  /\ up'[u].ver = up[u].ver /\ up'[u].name = up[u].name /\ up'[u].creates = up[u].creates

Starts(u, v, n, creates) ==
  /\ up[u].at = "new"
  /\ \A w \in Uploads \ {u} : up'[w] = up[w]
  /\ up' \in [Uploads -> UpSet] /\ up'[u] \in UpSet /\ up'[u].at = "found"
  /\ up'[u].ver = v /\ up'[u].name = n /\ up'[u].creates = creates

LEMMA StepGoes ==
  ASSUME Typed, NEW u \in Uploads, NEW from, NEW to \in Stages \ {"new"}, Step(u, from, to),
         from \notin {"new", "done"}
  PROVE  Goes(u) /\ up'[u].at = to /\ up'[u].got = up[u].got
<1>1. up \in [Uploads -> UpSet] /\ up[u] \in UpSet
  BY DEF Typed, TypeOK, UpSet
<1> DEFINE c == [up[u] EXCEPT !.at = to]
<1>2. up' = [up EXCEPT ![u] = c]
  BY <1>1 DEF Step
<1>3. up[u].at = from
  BY DEF Step
<1>4. /\ c \in UpSet /\ c.at = to /\ c.ver = up[u].ver /\ c.name = up[u].name
      /\ c.creates = up[u].creates /\ c.got = up[u].got
  BY <1>1 DEF UpSet
<1> HIDE DEF c
<1>5. QED
  BY <1>1, <1>2, <1>3, <1>4 DEF Goes, Serving

LEMMA BeginStarts ==
  ASSUME Typed, NEW u \in Uploads, NEW v \in Versions, NEW n \in Names, NEW b \in BOOLEAN,
         Begin(u, v, n, b)
  PROVE  Starts(u, v, n, b)
<1> DEFINE c == [at |-> "found", creates |-> b, ver |-> v, name |-> n, got |-> None]
<1>1. c \in UpSet
  BY DEF UpSet, Stages
<1>2. up[u].at = "new" /\ up' = [up EXCEPT ![u] = c]
  BY DEF Begin
<1>3. up \in [Uploads -> UpSet]
  BY DEF Typed, TypeOK, UpSet
<1>4. c.at = "found" /\ c.ver = v /\ c.name = n /\ c.creates = b
  OBVIOUS
<1> HIDE DEF c
<1>5. QED
  BY <1>1, <1>2, <1>3, <1>4 DEF Starts

\* Every handler of an upload under way.
Handler(u) ==
  \/ MkdirAll(u) \/ Open(u) \/ Copy(u) \/ Fail(u) \/ Scan(u) \/ Refuse(u) \/ Extract(u)
  \/ CreateWithVersion(u) \/ CreateFail(u) \/ InsertVersion(u) \/ VersionFail(u)

LEMMA HandlerGoes ==
  ASSUME Typed, NEW u \in Uploads, Handler(u)
  PROVE  Goes(u)
<1>1. up \in [Uploads -> UpSet] /\ up[u] \in UpSet
  BY DEF Typed, TypeOK, UpSet
<1>2. CASE Fail(u)
  <2> DEFINE c == [up[u] EXCEPT !.at = "done"]
  <2>1. /\ up' = [up EXCEPT ![u] = c]
        /\ up[u].at \in {"found", "made", "open"}
    BY <1>1, <1>2 DEF Fail
  <2>2. /\ c \in UpSet /\ c.at = "done" /\ c.ver = up[u].ver /\ c.name = up[u].name
        /\ c.creates = up[u].creates
    BY <1>1 DEF UpSet, Stages
  <2>3. u \in Serving
    BY <2>1 DEF Serving
  <2> HIDE DEF c
  <2>4. QED
    BY <1>1, <2>1, <2>2, <2>3 DEF Goes
<1>3. CASE Extract(u)
  <2>1. Held(u) \in Bytes \cup {None}
    <3>1. Path(u) \in Paths /\ file \in [Paths -> Files \cup {None}]
      BY <1>3 DEF Extract, Typed, TypeOK, UpType, Path, Paths
    <3>2. QED
      BY <3>1 DEF Held, Files
  <2> DEFINE c == [up[u] EXCEPT !.at = "read", !.got = Held(u)]
  <2>2. up[u].at = "scanned" /\ up' = [up EXCEPT ![u].at = "read", ![u].got = Held(u)]
    BY <1>3 DEF Extract
  <2> HIDE DEF Held
  <2>3. up' = [up EXCEPT ![u] = c]
    BY <1>1, <2>2
  <2>4. /\ c \in UpSet /\ c.at = "read" /\ c.ver = up[u].ver /\ c.name = up[u].name
        /\ c.creates = up[u].creates
    BY <1>1, <2>1 DEF UpSet, Stages
  <2> HIDE DEF c
  <2>5. QED
    BY <1>1, <2>2, <2>3, <2>4 DEF Goes, Serving
<1>4. ASSUME NEW from \in {"found", "made", "open", "copied", "scanned", "read"},
             NEW to \in {"made", "open", "copied", "scanned", "done"}, Step(u, from, to)
      PROVE  Goes(u)
  BY <1>4, StepGoes DEF Stages
<1>5. QED
  BY <1>2, <1>3, <1>4 DEF Handler, MkdirAll, Open, Copy, Scan, Refuse, CreateWithVersion,
     CreateFail, InsertVersion, VersionFail, InsertRow

\* What is written: the file of the upload alone.
Writes(u, g) ==
  /\ g \in Files
  /\ file'[Path(u)] = g
  /\ \A p \in Paths \ {Path(u)} : file'[p] = file[p]

LEMMA OnPath ==
  ASSUME Typed, NEW u \in Serving
  PROVE  /\ u \in Uploads /\ up[u] \in UpSet /\ up[u].ver \in Versions /\ up[u].name \in Names
         /\ Path(u) \in Paths /\ Path(u)[1] = up[u].ver
         /\ file \in [Paths -> Files \cup {None}]
BY DEF Typed, TypeOK, UpType, UpSet, Serving, Path, Paths

LEMMA OpenWrites ==
  ASSUME Typed, NEW u \in Uploads, Open(u)
  PROVE  \E g \in Files : /\ Writes(u, g) /\ u \in g.open
                          /\ \/ file[Path(u)] = None
                             \/ file[Path(u)].open = {}
                             => g.open = {u} /\ ~g.mixed
                          /\ file' = [file EXCEPT ![Path(u)] = g]
<1> DEFINE f == file[Path(u)]
           a == [body |-> Torn, open |-> {u}, mixed |-> FALSE]
           b == [body |-> Torn, open |-> f.open \cup {u}, mixed |-> TRUE]
<1>1. u \in Serving
  BY DEF Open, Step, Serving
<1>2. Path(u) \in Paths /\ file \in [Paths -> Files \cup {None}]
  BY <1>1, OnPath
<1>3. CASE f = None \/ f.open = {}
  <2>1. a \in Files /\ a.open = {u} /\ ~a.mixed
    BY DEF Files, Bytes
  <2>2. file' = [file EXCEPT ![Path(u)] = a]
    BY <1>3 DEF Open
  <2> HIDE DEF a
  <2>3. QED
    BY <1>2, <2>1, <2>2 DEF Writes
<1>4. CASE ~(f = None \/ f.open = {})
  <2>1. f \in Files
    BY <1>2, <1>4
  <2>2. b \in Files /\ u \in b.open
    BY <2>1 DEF Files, Bytes
  <2>3. file' = [file EXCEPT ![Path(u)] = b]
    BY <1>4 DEF Open
  <2> HIDE DEF b
  <2>4. Writes(u, b)
    BY <1>2, <2>2, <2>3 DEF Writes
  <2>5. QED
    BY <1>4, <2>2, <2>3, <2>4
<1>5. QED
  BY <1>3, <1>4

LEMMA CopyWrites ==
  ASSUME Typed, NEW u \in Uploads, Copy(u)
  PROVE  \/ UNCHANGED file /\ (file[Path(u)] = None \/ u \notin file[Path(u)].open)
         \/ \E g \in Files : /\ Writes(u, g) /\ file[Path(u)] # None
                             /\ u \in file[Path(u)].open
                             /\ g.open = file[Path(u)].open \ {u}
                             /\ ~file[Path(u)].mixed => g.body = u
                             /\ file' = [file EXCEPT ![Path(u)] = g]
<1> DEFINE f == file[Path(u)]
<1>1. u \in Serving
  BY DEF Copy, Step, Serving
<1>2. Path(u) \in Paths /\ file \in [Paths -> Files \cup {None}]
  BY <1>1, OnPath
<1>3. CASE f # None /\ u \in f.open
  <2>1. f \in Files /\ f.open \ {u} \in SUBSET Uploads
    BY <1>2, <1>3 DEF Files
  <2>2. PICK b \in IF f.mixed THEN {u, f.body, Torn} ELSE {u} :
          file' = [file EXCEPT ![Path(u)] = [f EXCEPT !.body = b, !.open = @ \ {u}]]
    BY <1>3 DEF Copy
  <2>3. b \in Bytes /\ (~f.mixed => b = u)
    BY <2>1, <2>2 DEF Files, Bytes
  <2> DEFINE g == [f EXCEPT !.body = b, !.open = @ \ {u}]
  <2>4. g \in Files /\ g.body = b /\ g.open = f.open \ {u}
    BY <2>1, <2>3 DEF Files
  <2>5. file' = [file EXCEPT ![Path(u)] = g]
    BY <2>2
  <2> HIDE DEF g
  <2>6. Writes(u, g)
    BY <1>2, <2>4, <2>5 DEF Writes
  <2>7. QED
    BY <1>3, <2>3, <2>4, <2>5, <2>6
<1>4. CASE ~(f # None /\ u \in f.open)
  BY <1>4 DEF Copy
<1>5. QED
  BY <1>3, <1>4

\* A handle is given up: the bytes stay.
LEMMA FailLeaves ==
  ASSUME Typed, NEW u \in Uploads, Fail(u), NEW p \in Paths
  PROVE  \/ file'[p] = file[p] /\ (file[p] # None => u \notin file[p].open)
         \/ /\ file[p] \in Files /\ file'[p] \in Files /\ u \in file[p].open
            /\ file'[p].body = file[p].body /\ file'[p].open \subseteq file[p].open
<1>1. file[p] \in Files \cup {None}
  BY DEF Typed, TypeOK
<1>2. file'[p] = IF file[p] # None /\ u \in file[p].open THEN [file[p] EXCEPT !.open = @ \ {u}]
                                                     ELSE file[p]
  BY DEF Fail
<1>3. CASE file[p] # None /\ u \in file[p].open
  <2>1. file[p] \in Files
    BY <1>1, <1>3
  <2>2. file'[p] = [file[p] EXCEPT !.open = @ \ {u}]
    BY <1>2, <1>3
  <2>3. QED
    BY <1>3, <2>1, <2>2 DEF Files
<1>4. CASE ~(file[p] # None /\ u \in file[p].open)
  BY <1>2, <1>4
<1>5. QED
  BY <1>3, <1>4

LEMMA ScanLeaves ==
  ASSUME Typed, NEW u \in Uploads, Scan(u)
  PROVE  \/ up'[u].at = "scanned" /\ UNCHANGED file
         \/ /\ up'[u].at = "done" /\ Held(u) \in Unsafe \cup {None, Torn}
            /\ file'[Path(u)] = None /\ \A p \in Paths \ {Path(u)} : file'[p] = file[p]
            /\ file' = [file EXCEPT ![Path(u)] = None]
<1>1. Path(u) \in Paths /\ file \in [Paths -> Files \cup {None}]
  BY OnPath DEF Scan, Serving
<1>2. CASE Step(u, "copied", "scanned") /\ UNCHANGED file
  BY <1>2, StepGoes DEF Stages
<1>3. CASE /\ Step(u, "copied", "done") /\ file' = [file EXCEPT ![Path(u)] = None]
           /\ Held(u) \in Unsafe \cup {None, Torn}
  BY <1>1, <1>3, StepGoes DEF Stages
<1>4. QED
  BY <1>2, <1>3 DEF Scan

LEMMA RemoveLeaves ==
  ASSUME NEW D, RemoveAll(D)
  PROVE  /\ dir' = dir \ D
         /\ file' = [p \in Paths |-> IF p[1] \in D THEN None ELSE file[p]]
         /\ \A p \in Paths : file'[p] = IF p[1] \in D THEN None ELSE file[p]
BY DEF RemoveAll

\* How a step of a cleanup moves it.
Swept(s, at, valid, todo, alone) ==
  /\ sweep' \in [Sweeps -> SweepSet]
  /\ \A t \in Sweeps \ {s} : sweep'[t] = sweep[t]
  /\ sweep'[s].at = at /\ sweep'[s].valid = valid
  /\ sweep'[s].todo = todo /\ sweep'[s].alone = alone

LEMMA DisturbSwept ==
  ASSUME Typed, Disturb
  PROVE  /\ sweep' \in [Sweeps -> SweepSet] /\ ~tidy'
         /\ \A s \in Sweeps : /\ sweep'[s].at = sweep[s].at /\ ~sweep'[s].alone
                              /\ sweep'[s].valid = sweep[s].valid
                              /\ sweep'[s].todo = sweep[s].todo
<1>1. sweep \in [Sweeps -> SweepSet]
  BY DEF Typed, TypeOK, SweepSet
<1>2. \A s \in Sweeps : LET c == [sweep[s] EXCEPT !.alone = FALSE] IN
        /\ c \in SweepSet /\ c.at = sweep[s].at /\ ~c.alone
        /\ c.valid = sweep[s].valid /\ c.todo = sweep[s].todo
  BY <1>1 DEF SweepSet
<1>3. QED
  BY <1>2 DEF Disturb

LEMMA KeysSwept ==
  ASSUME Typed, NEW s \in Sweeps, SweepKeys(s)
  PROVE  Swept(s, "list", Rowed, {}, Serving = {} /\ Sweeping = {})
<1> DEFINE c == [at |-> "list", valid |-> Rowed, todo |-> {},
                 alone |-> Serving = {} /\ Sweeping = {}]
<1>1. sweep \in [Sweeps -> SweepSet]
  BY DEF Typed, TypeOK, SweepSet
<1>2. /\ c \in SweepSet /\ c.at = "list" /\ c.valid = Rowed /\ c.todo = {}
      /\ c.alone = (Serving = {} /\ Sweeping = {})
  BY DEF SweepSet, Rowed
<1>3. sweep' = [sweep EXCEPT ![s] = c]
  BY DEF SweepKeys
<1> HIDE DEF c
<1>4. QED
  BY <1>1, <1>2, <1>3 DEF Swept

LEMMA ScanSwept ==
  ASSUME Typed, NEW s \in Sweeps, SweepScan(s)
  PROVE  Swept(s, "remove", dir \cap sweep[s].valid, dir \ sweep[s].valid, sweep[s].alone)
<1> DEFINE c == [sweep[s] EXCEPT !.at = "remove", !.todo = dir \ sweep[s].valid,
                                 !.valid = dir \cap sweep[s].valid]
<1>1. sweep \in [Sweeps -> SweepSet] /\ sweep[s] \in SweepSet /\ dir \subseteq Versions
  BY DEF Typed, TypeOK, SweepSet
<1>2. /\ c \in SweepSet /\ c.at = "remove" /\ c.valid = dir \cap sweep[s].valid
      /\ c.todo = dir \ sweep[s].valid /\ c.alone = sweep[s].alone
  BY <1>1 DEF SweepSet
<1>3. sweep' = [sweep EXCEPT ![s] = c]
  BY <1>1 DEF SweepScan
<1> HIDE DEF c
<1>4. QED
  BY <1>1, <1>2, <1>3 DEF Swept

LEMMA RemoveSwept ==
  ASSUME Typed, NEW s \in Sweeps, NEW v \in Versions, SweepRemove(s, v)
  PROVE  Swept(s, sweep[s].at, sweep[s].valid, sweep[s].todo \ {v}, sweep[s].alone)
<1> DEFINE c == [sweep[s] EXCEPT !.todo = @ \ {v}]
<1>1. sweep \in [Sweeps -> SweepSet] /\ sweep[s] \in SweepSet
  BY DEF Typed, TypeOK, SweepSet
<1>2. /\ c \in SweepSet /\ c.at = sweep[s].at /\ c.valid = sweep[s].valid
      /\ c.todo = sweep[s].todo \ {v} /\ c.alone = sweep[s].alone
  BY <1>1 DEF SweepSet
<1>3. sweep' = [sweep EXCEPT ![s] = c]
  BY <1>1 DEF SweepRemove
<1> HIDE DEF c
<1>4. QED
  BY <1>1, <1>2, <1>3 DEF Swept

LEMMA RestSwept ==
  ASSUME Typed, NEW s \in Sweeps, sweep' = [sweep EXCEPT ![s] = Resting]
  PROVE  Swept(s, "rest", {}, {}, FALSE)
<1>1. sweep \in [Sweeps -> SweepSet]
  BY DEF Typed, TypeOK, SweepSet
<1>2. QED
  BY <1>1, Constants DEF Swept

LEMMA CheckSwept ==
  ASSUME Typed, NEW s \in Sweeps, SweepCheck(s)
  PROVE  \/ /\ sweep[s].valid = {} /\ dir = {} /\ UNCHANGED tidy
            /\ Swept(s, "last", {}, {}, sweep[s].alone)
         \/ Swept(s, "rest", {}, {}, FALSE) /\ tidy' = sweep[s].alone
<1>1. sweep \in [Sweeps -> SweepSet] /\ sweep[s] \in SweepSet
  BY DEF Typed, TypeOK, SweepSet
<1>2. CASE sweep[s].valid = {} /\ dir = {}
  <2> DEFINE c == [sweep[s] EXCEPT !.at = "last"]
  <2>1. /\ c \in SweepSet /\ c.at = "last" /\ c.valid = {} /\ c.todo = {}
        /\ c.alone = sweep[s].alone
    BY <1>1, <1>2 DEF SweepSet, SweepCheck
  <2>2. sweep' = [sweep EXCEPT ![s] = c] /\ UNCHANGED tidy
    BY <1>1, <1>2 DEF SweepCheck
  <2> HIDE DEF c
  <2>3. Swept(s, "last", {}, {}, sweep[s].alone)
    BY <1>1, <2>1, <2>2 DEF Swept
  <2>4. QED
    BY <1>2, <2>2, <2>3
<1>3. CASE ~(sweep[s].valid = {} /\ dir = {})
  BY <1>3, RestSwept DEF SweepCheck
<1>4. QED
  BY <1>2, <1>3

LEMMA InsertRows ==
  ASSUME Typed, NEW u \in Uploads, InsertRow(u)
  PROVE  /\ u \in Serving /\ up[u].at = "read" /\ up'[u].at = "done" /\ row[up[u].ver] = None
         /\ row'[up[u].ver] # None
         /\ row'[up[u].ver] \in Rows /\ row'[up[u].ver].by = u
         /\ row'[up[u].ver].name = up[u].name /\ row'[up[u].ver].content = up[u].got
         /\ \A v \in Versions \ {up[u].ver} : row'[v] = row[v]
         /\ row' \in [Versions -> Rows \cup {None}]
<1>1. u \in Serving /\ up[u].at = "read" /\ up'[u].at = "done"
  <2>1. Step(u, "read", "done") /\ "done" \in Stages \ {"new"}
    BY DEF InsertRow, Stages
  <2>2. up[u].at = "read" /\ u \in Serving
    BY <2>1 DEF Step, Serving
  <2>3. QED
    BY <2>1, <2>2, StepGoes
<1>2. up[u].ver \in Versions /\ up[u].name \in Names /\ up[u].got \in Bytes \cup {None}
  BY <1>1, OnPath DEF UpSet
<1>3. row \in [Versions -> Rows \cup {None}]
  BY DEF Typed, TypeOK
<1> DEFINE c == [by |-> u, name |-> up[u].name, content |-> up[u].got]
<1>4. c \in Rows /\ c.by = u /\ c.name = up[u].name /\ c.content = up[u].got
  BY <1>2 DEF Rows
<1>5. row' = [row EXCEPT ![up[u].ver] = c] /\ row[up[u].ver] = None
  BY DEF InsertRow
<1>6. c # None
  BY <1>4
<1> HIDE DEF c
<1>7. QED
  BY <1>1, <1>2, <1>3, <1>4, <1>5, <1>6
-----------------------------------------------------------------------------
(* Every step keeps the types, files in directories and rows in the asset. *)

\* A call begins, is handled, or the asset is deleted, or a cleanup moves.
LEMMA Cases ==
  ASSUME Next
  PROVE  \/ Delete
         \/ \E u \in Uploads, v \in Versions, n \in Names : Create(u, v, n)
         \/ \E u \in Uploads, v \in Versions, n \in Names : UploadVersion(u, v, n)
         \/ \E u \in Uploads : Handler(u)
         \/ \E s \in Sweeps : SweepStep(s)
BY DEF Next, UploadStep, Handler

FilesIn ==
  /\ dir \subseteq Versions
  /\ file \in [Paths -> Files \cup {None}]
  /\ \A p \in Paths : file[p] # None => p[1] \in dir

LEMMA RemoveFiles ==
  ASSUME Typed, NEW D, RemoveAll(D)
  PROVE  FilesIn'
<1>1. file \in [Paths -> Files \cup {None}] /\ dir \subseteq Versions
  BY DEF Typed, TypeOK
<1>2. \A p \in Paths : file[p] # None => p[1] \in dir
  BY DEF Typed, TypeOK
<1>3. dir' = dir \ D /\ file' = [p \in Paths |-> IF p[1] \in D THEN None ELSE file[p]]
  BY RemoveLeaves
<1>4. QED
  BY <1>1, <1>2, <1>3 DEF FilesIn

LEMMA HandlerFiles ==
  ASSUME Typed, NEW u \in Uploads, Handler(u)
  PROVE  FilesIn'
<1>1. u \in Serving
  BY HandlerGoes DEF Goes
<1>2. /\ file \in [Paths -> Files \cup {None}] /\ dir \subseteq Versions
      /\ \A p \in Paths : file[p] # None => p[1] \in dir
  BY DEF Typed, TypeOK
<1>3. Path(u) \in Paths /\ Path(u)[1] = up[u].ver /\ up[u].ver \in Versions
  BY <1>1, OnPath
<1>4. CASE UNCHANGED <<dir, file>>
  BY <1>2, <1>4 DEF FilesIn
<1>5. CASE MkdirAll(u)
  BY <1>2, <1>3, <1>5 DEF FilesIn, MkdirAll
<1>6. CASE Open(u)
  <2>1. PICK g \in Files : file' = [file EXCEPT ![Path(u)] = g]
    BY <1>6, OpenWrites
  <2>2. UNCHANGED dir /\ up[u].ver \in dir
    BY <1>6 DEF Open
  <2>3. QED
    BY <1>2, <1>3, <2>1, <2>2 DEF FilesIn
<1>7. CASE Copy(u)
  <2>1. UNCHANGED dir
    BY <1>7 DEF Copy
  <2>2. CASE UNCHANGED file
    BY <1>4, <2>1, <2>2
  <2>3. CASE \E g \in Files : file[Path(u)] # None /\ file' = [file EXCEPT ![Path(u)] = g]
    BY <1>2, <1>3, <2>1, <2>3 DEF FilesIn
  <2>4. QED
    BY <1>7, <2>2, <2>3, CopyWrites
<1>8. CASE Fail(u)
  <2>1. UNCHANGED dir /\ \A p \in Paths : file'[p] \in Files \cup {None} /\ (file'[p] # None => file[p] # None)
    BY <1>2, <1>8, FailLeaves DEF Fail
  <2>2. file' \in [Paths -> Files \cup {None}]
    BY <1>8, <2>1 DEF Fail
  <2>3. QED
    BY <1>2, <2>1, <2>2 DEF FilesIn
<1>9. CASE Scan(u)
  <2>1. UNCHANGED dir
    BY <1>9 DEF Scan
  <2>2. CASE UNCHANGED file
    BY <1>4, <2>1, <2>2
  <2>3. CASE file' = [file EXCEPT ![Path(u)] = None]
    BY <1>2, <1>3, <2>1, <2>3 DEF FilesIn
  <2>4. QED
    BY <1>9, <2>2, <2>3, ScanLeaves
<1>10. CASE CreateFail(u)
  BY <1>10, RemoveFiles DEF CreateFail
<1>11. CASE VersionFail(u)
  <2>1. RemoveAll({up[u].ver})
    BY <1>11 DEF VersionFail
  <2>2. QED
    BY <2>1, RemoveFiles
<1>12. QED
  BY <1>4, <1>5, <1>6, <1>7, <1>8, <1>9, <1>10, <1>11
     DEF Handler, Refuse, Extract, CreateWithVersion, InsertVersion, InsertRow

LEMMA FilesStep ==
  ASSUME Typed, Next
  PROVE  FilesIn'
<1>1. FilesIn
  BY DEF Typed, TypeOK, FilesIn
<1>2. CASE UNCHANGED <<dir, file>>
  BY <1>1, <1>2 DEF FilesIn
<1>3. ASSUME NEW s \in Sweeps, SweepStep(s)
      PROVE  FilesIn'
  <2>1. ASSUME NEW v \in Versions, SweepRemove(s, v)
        PROVE  FilesIn'
    <3>1. RemoveAll({v})
      BY <2>1 DEF SweepRemove
    <3>2. QED
      BY <3>1, RemoveFiles
  <2>2. CASE SweepLast(s)
    BY <2>2, RemoveFiles DEF SweepLast
  <2>3. QED
    BY <1>2, <1>3, <2>1, <2>2 DEF SweepStep, SweepKeys, SweepScan, SweepCheck
<1>4. QED
  BY <1>2, <1>3, Cases, HandlerFiles DEF Delete, Create, UploadVersion, Begin

RowsIn ==
  /\ asset \in {"absent", "present", "deleted"}
  /\ row \in [Versions -> Rows \cup {None}]
  /\ Rowed # {} => asset = "present"

LEMMA RowsStep ==
  ASSUME Typed, Next
  PROVE  RowsIn'
<1>1. RowsIn
  BY DEF Typed, TypeOK, RowsIn
<1>2. CASE UNCHANGED <<asset, row>>
  BY <1>1, <1>2 DEF RowsIn, Rowed
<1>3. CASE Delete
  <2>1. asset' = "deleted" /\ row' = [v \in Versions |-> None]
    BY <1>3 DEF Delete
  <2>2. QED
    BY <2>1 DEF RowsIn, Rowed
<1>4. ASSUME NEW u \in Uploads, Handler(u)
      PROVE  RowsIn'
  <2>1. CASE CreateWithVersion(u) \/ InsertVersion(u)
    <3>1. InsertRow(u) /\ asset' = "present"
      BY <2>1 DEF CreateWithVersion, InsertVersion
    <3>2. row' \in [Versions -> Rows \cup {None}]
      BY <3>1, InsertRows
    <3>3. QED
      BY <3>1, <3>2 DEF RowsIn
  <2>2. QED
    BY <1>2, <1>4, <2>1 DEF Handler, MkdirAll, Open, Copy, Fail, Scan, Refuse, Extract,
       CreateFail, VersionFail
<1>5. QED
  BY <1>2, <1>3, <1>4, Cases DEF Create, UploadVersion, Begin, SweepStep, SweepKeys, SweepScan,
     SweepRemove, SweepCheck, SweepLast

\* A step moves no upload, starts one, or carries one on.
LEMMA UpCases ==
  ASSUME Typed, Next
  PROVE  \/ UNCHANGED up
         \/ \E u \in Uploads, v \in Versions, n \in Names, b \in BOOLEAN :
              Starts(u, v, n, b) /\ Begin(u, v, n, b)
         \/ \E u \in Uploads : Goes(u) /\ Handler(u)
<1>1. CASE Delete \/ \E s \in Sweeps : SweepStep(s)
  BY <1>1 DEF Delete, SweepStep, SweepKeys, SweepScan, SweepRemove, SweepCheck, SweepLast
<1>2. ASSUME NEW u \in Uploads, NEW v \in Versions, NEW n \in Names,
             Create(u, v, n) \/ UploadVersion(u, v, n)
      PROVE  \E b \in BOOLEAN : Starts(u, v, n, b) /\ Begin(u, v, n, b)
  BY <1>2, BeginStarts DEF Create, UploadVersion
<1>3. CASE \E u \in Uploads : Handler(u)
  BY <1>3, HandlerGoes
<1>4. QED
  BY <1>1, <1>2, <1>3, Cases

UpsIn == up \in [Uploads -> UpSet] /\ \A u \in Uploads : UpType(u)

LEMMA UpsStep ==
  ASSUME Typed, Next
  PROVE  UpsIn'
<1>1. UpsIn
  BY DEF Typed, TypeOK, UpsIn, UpSet
<1>2. CASE UNCHANGED up
  BY <1>1, <1>2 DEF UpsIn, UpType
<1>3. ASSUME NEW u \in Uploads, NEW v \in Versions, NEW n \in Names, NEW b \in BOOLEAN,
             Starts(u, v, n, b)
      PROVE  UpsIn'
  <2>1. up' \in [Uploads -> UpSet]
    BY <1>3 DEF Starts
  <2>2. UpType(u)'
    BY <1>3 DEF Starts, UpType
  <2>3. \A w \in Uploads \ {u} : UpType(w)'
    BY <1>1, <1>3 DEF Starts, UpType, UpsIn
  <2>4. QED
    BY <2>1, <2>2, <2>3 DEF UpsIn
<1>4. ASSUME NEW u \in Uploads, Goes(u)
      PROVE  UpsIn'
  <2>1. up' \in [Uploads -> UpSet] /\ u \in Serving
    BY <1>4 DEF Goes
  <2>2. UpType(u)'
    BY <1>4, <2>1, OnPath DEF Goes, UpType
  <2>3. \A w \in Uploads \ {u} : UpType(w)'
    BY <1>1, <1>4 DEF Goes, UpType, UpsIn
  <2>4. QED
    BY <2>1, <2>2, <2>3 DEF UpsIn
<1>5. QED
  BY <1>2, <1>3, <1>4, UpCases

SweepsIn ==
  /\ sweep \in [Sweeps -> SweepSet]
  /\ raced \subseteq Uploads
  /\ tidy \in BOOLEAN

LEMMA SweepsStep ==
  ASSUME Typed, Next
  PROVE  SweepsIn'
<1>1. SweepsIn
  BY DEF Typed, TypeOK, SweepsIn, SweepSet
<1>2. CASE UNCHANGED <<sweep, raced, tidy>>
  BY <1>1, <1>2 DEF SweepsIn
<1>3. CASE Disturb /\ raced' \subseteq Uploads
  BY <1>3, DisturbSwept DEF SweepsIn, Disturb
<1>4. ASSUME NEW s \in Sweeps, SweepStep(s)
      PROVE  SweepsIn'
  <2>1. sweep[s].alone \in BOOLEAN
    BY <1>1 DEF SweepsIn, SweepSet
  <2>2. CASE SweepKeys(s)
    <3>1. sweep' \in [Sweeps -> SweepSet]
      BY <2>2, KeysSwept DEF Swept
    <3>2. QED
      BY <1>1, <2>2, <3>1 DEF SweepsIn, SweepKeys, Serving
  <2>3. CASE SweepScan(s)
    <3>1. sweep' \in [Sweeps -> SweepSet]
      BY <2>3, ScanSwept DEF Swept
    <3>2. QED
      BY <1>1, <2>3, <3>1 DEF SweepsIn, SweepScan
  <2>4. ASSUME NEW v \in Versions, SweepRemove(s, v)
        PROVE  SweepsIn'
    <3>1. sweep' \in [Sweeps -> SweepSet]
      BY <2>4, RemoveSwept DEF Swept
    <3>2. QED
      BY <1>1, <2>4, <3>1 DEF SweepsIn, SweepRemove
  <2>5. CASE SweepCheck(s)
    <3>1. sweep' \in [Sweeps -> SweepSet] /\ tidy' \in BOOLEAN
      BY <1>1, <2>1, <2>5, CheckSwept DEF Swept, SweepsIn
    <3>2. QED
      BY <1>1, <2>5, <3>1 DEF SweepsIn, SweepCheck
  <2>6. CASE SweepLast(s)
    <3>1. sweep' \in [Sweeps -> SweepSet]
      BY <2>6, RestSwept DEF Swept, SweepLast
    <3>2. QED
      BY <1>1, <2>1, <2>6, <3>1 DEF SweepsIn, SweepLast
  <2>7. QED
    BY <1>4, <2>2, <2>3, <2>4, <2>5, <2>6 DEF SweepStep
<1>5. ASSUME NEW u \in Uploads, Handler(u)
      PROVE  UNCHANGED <<sweep, raced, tidy>>
  BY <1>5 DEF Handler, MkdirAll, Open, Copy, Fail, Scan, Refuse, Extract, CreateWithVersion,
     InsertVersion, InsertRow, CreateFail, VersionFail
<1>6. ASSUME NEW u \in Uploads, NEW v \in Versions, NEW n \in Names,
             Create(u, v, n) \/ UploadVersion(u, v, n)
      PROVE  Disturb /\ raced' \subseteq Uploads
  BY <1>1, <1>6 DEF Create, UploadVersion, Begin, SweepsIn
<1>7. CASE Delete
  BY <1>1, <1>3, <1>7 DEF Delete, SweepsIn
<1>8. QED
  BY <1>2, <1>3, <1>4, <1>5, <1>6, <1>7, Cases

LEMMA TypedStep ==
  ASSUME Typed, [Next]_vars
  PROVE  Typed'
<1>1. CASE Next
  <2>1. FilesIn' /\ RowsIn' /\ UpsIn' /\ SweepsIn'
    BY <1>1, FilesStep, RowsStep, UpsStep, SweepsStep
  <2>2. TypeOK'
    BY <2>1 DEF TypeOK, FilesIn, RowsIn, UpsIn, SweepsIn, UpSet, SweepSet
  <2>3. QED
    BY <2>1, <2>2 DEF Typed, UpsIn
<1>2. CASE UNCHANGED vars
  BY <1>2 DEF vars, Typed, TypeOK, UpType, Rowed
<1>3. QED
  BY <1>1, <1>2

LEMMA AlwaysTyped == Spec => []Typed
BY TypedInit, TypedStep, PTL DEF Spec

\* In any number of versions, uploads and cleanups, no file is without its
\* directory and no row without its asset.
THEOREM TypeCorrect == Spec => []TypeOK
<1>1. Typed => TypeOK
  BY DEF Typed
<1>2. QED
  BY <1>1, AlwaysTyped, PTL
-----------------------------------------------------------------------------
(* What a cleanup found in the database is on no list of what to remove.   *)

Sparing(s) ==
  /\ sweep[s].todo \cap sweep[s].valid = {}
  /\ sweep[s].todo # {} => sweep[s].at = "remove"
  /\ sweep[s].at = "last" => sweep[s].valid = {}

AllSparing == \A s \in Sweeps : Sparing(s)

\* A handler of an upload leaves the cleanups alone.
LEMMA HandlerLeaves ==
  ASSUME NEW u \in Uploads, Handler(u)
  PROVE  UNCHANGED <<sweep, raced, tidy>>
BY DEF Handler, MkdirAll, Open, Copy, Fail, Scan, Refuse, Extract, CreateWithVersion,
   InsertVersion, InsertRow, CreateFail, VersionFail

LEMMA SparingStep ==
  ASSUME Typed, AllSparing, [Next]_vars
  PROVE  AllSparing'
<1>1. CASE UNCHANGED sweep
  BY <1>1 DEF AllSparing, Sparing
<1>2. CASE Disturb
  BY <1>2, DisturbSwept DEF AllSparing, Sparing
<1>3. ASSUME NEW s \in Sweeps, SweepStep(s)
      PROVE  AllSparing'
  <2>1. CASE SweepKeys(s)
    BY <2>1, KeysSwept DEF Swept, AllSparing, Sparing
  <2>2. CASE SweepScan(s)
    BY <2>2, ScanSwept DEF Swept, AllSparing, Sparing
  <2>3. ASSUME NEW v \in Versions, SweepRemove(s, v)
        PROVE  AllSparing'
    BY <2>3, RemoveSwept DEF Swept, AllSparing, Sparing, SweepRemove
  <2>4. CASE SweepCheck(s)
    BY <2>4, CheckSwept, ZenonT(60) DEF Swept, AllSparing, Sparing
  <2>5. CASE SweepLast(s)
    BY <2>5, RestSwept DEF Swept, AllSparing, Sparing, SweepLast
  <2>6. QED
    BY <1>3, <2>1, <2>2, <2>3, <2>4, <2>5 DEF SweepStep
<1>4. QED
  BY <1>1, <1>2, <1>3, Cases, HandlerLeaves DEF Delete, Create, UploadVersion, Begin, vars

LEMMA AlwaysSparing == Spec => []AllSparing
<1>1. Init => AllSparing
  BY Constants DEF Init, AllSparing, Sparing
<1>2. QED
  BY <1>1, AlwaysTyped, SparingStep, PTL DEF Spec

\* An upload served beside a cleanup is noted, and what a cleanup does not find
\* among the rows is a version that one of those uploads was of.
Noted ==
  /\ \A u \in raced : up[u].at # "new"
  /\ Sweeping # {} => Serving \subseteq raced
  /\ \A s \in Sweeping : \A v \in (dir \cap Rowed) \ sweep[s].valid :
       \E u \in raced : up[u].ver = v

LEMMA NotedStep ==
  ASSUME Typed, Noted, [Next]_vars
  PROVE  Noted'
<1> USE DEF Noted
<1>0. up \in [Uploads -> UpSet] /\ raced \subseteq Uploads /\ dir \subseteq Versions
  BY DEF Typed, TypeOK, UpSet
<1>1. CASE UNCHANGED vars
  BY <1>1 DEF vars, Rowed, Serving, Sweeping
<1>2. CASE Delete
  <2>1. /\ UNCHANGED <<up, raced>> /\ Rowed' = {}
        /\ \A s \in Sweeps : sweep'[s].at = sweep[s].at
    BY <1>2, DisturbSwept DEF Delete, Rowed
  <2>2. QED
    BY <2>1 DEF Serving, Sweeping
<1>3. ASSUME NEW u \in Uploads, NEW v \in Versions, NEW n \in Names, NEW b \in BOOLEAN,
             Begin(u, v, n, b)
      PROVE  Noted'
  <2>1. /\ UNCHANGED <<row, dir>> /\ up[u].at = "new" /\ up'[u].at = "found"
        /\ \A w \in Uploads \ {u} : up'[w] = up[w]
        /\ raced' = IF Sweeping = {} THEN raced ELSE raced \cup {u}
    BY <1>0, <1>3 DEF Begin
  <2>2. \A s \in Sweeps : sweep'[s].at = sweep[s].at /\ sweep'[s].valid = sweep[s].valid
    BY <1>3, DisturbSwept DEF Begin
  <2>3. Sweeping' = Sweeping /\ Rowed' = Rowed
    BY <2>1, <2>2 DEF Sweeping, Rowed
  <2>4. \A w \in raced : up'[w] = up[w]
    BY <1>0, <2>1
  <2>5. \A w \in raced' : up'[w].at # "new"
    BY <2>1, <2>4
  <2>6. Sweeping # {} => Serving' \subseteq raced'
    BY <2>1 DEF Serving
  <2>7. \A s \in Sweeping : \A x \in (dir \cap Rowed) \ sweep'[s].valid :
          \E w \in raced' : up'[w].ver = x
    <3>1. raced \subseteq raced'
      BY <2>1
    <3>2. QED
      BY <2>2, <2>4, <3>1 DEF Sweeping
  <2>8. QED
    BY <2>1, <2>3, <2>5, <2>6, <2>7
<1>4. ASSUME NEW u \in Uploads, Handler(u)
      PROVE  Noted'
  <2>1. /\ u \in Serving /\ UNCHANGED <<sweep, raced>> /\ up'[u].at # "new"
        /\ \A w \in Uploads \ {u} : up'[w] = up[w]
        /\ up'[u].ver = up[u].ver
    BY <1>4, HandlerLeaves, HandlerGoes DEF Goes
  <2>2. /\ Sweeping' = Sweeping /\ Serving' \subseteq Serving
        /\ \A w \in raced : up'[w].at # "new" /\ up'[w].ver = up[w].ver
    BY <1>0, <2>1 DEF Sweeping, Serving
  <2>3. dir' \cap Rowed' \subseteq (dir \cap Rowed) \cup {up[u].ver}
    <3>1. CASE \/ MkdirAll(u) \/ Open(u) \/ Copy(u) \/ Fail(u) \/ Scan(u)
               \/ Refuse(u) \/ Extract(u)
      BY <3>1 DEF MkdirAll, Open, Copy, Fail, Scan, Refuse, Extract, Rowed
    <3>2. CASE CreateFail(u) \/ VersionFail(u)
      BY <3>2 DEF CreateFail, VersionFail, RemoveAll, Rowed
    <3>3. CASE CreateWithVersion(u) \/ InsertVersion(u)
      <4>1. InsertRow(u) /\ UNCHANGED dir
        BY <3>3 DEF CreateWithVersion, InsertVersion, InsertRow
      <4>2. \A v \in Versions \ {up[u].ver} : row'[v] = row[v]
        BY <4>1, InsertRows
      <4>3. QED
        BY <4>1, <4>2 DEF Rowed
    <3>4. QED
      BY <1>4, <3>1, <3>2, <3>3 DEF Handler
  <2>4. Sweeping # {} => u \in raced
    BY <2>1
  <2>5. QED
    BY <2>1, <2>2, <2>3, <2>4
<1>5. ASSUME NEW s \in Sweeps, SweepStep(s)
      PROVE  Noted'
  <2>1. CASE SweepKeys(s)
    <3>1. /\ UNCHANGED <<row, dir, up>> /\ raced' = raced \cup Serving
          /\ sweep'[s].valid = Rowed
          /\ \A t \in Sweeps \ {s} : sweep'[t] = sweep[t]
      BY <2>1, KeysSwept DEF SweepKeys, Swept
    <3>2. Rowed' = Rowed /\ Serving' = Serving /\ Sweeping' \subseteq Sweeping \cup {s}
      BY <3>1 DEF Rowed, Serving, Sweeping
    <3>3. QED
      BY <3>1, <3>2 DEF Serving, Sweeping
  <2>2. ASSUME UNCHANGED <<row, up, raced>>, dir' \subseteq dir, s \in Sweeping,
               \A t \in Sweeps \ {s} : sweep'[t] = sweep[t],
               s \in Sweeping' => dir' \cap sweep[s].valid \subseteq sweep'[s].valid
        PROVE  Noted'
    <3>1. Rowed' = Rowed /\ Serving' = Serving /\ Sweeping' \subseteq Sweeping
      BY <2>2 DEF Rowed, Serving, Sweeping
    <3>2. \A t \in Sweeping' : dir' \cap sweep[t].valid \subseteq sweep'[t].valid
      BY <2>2 DEF Sweeping
    <3>3. QED
      BY <2>2, <3>1, <3>2
  <2>3. CASE SweepScan(s)
    BY <2>2, <2>3, ScanSwept DEF Swept, SweepScan, Sweeping
  <2>4. ASSUME NEW v \in Versions, SweepRemove(s, v), s \in Sweeping
        PROVE  Noted'
    BY <2>2, <2>4, RemoveSwept DEF Swept, SweepRemove, RemoveAll
  <2>5. CASE SweepCheck(s)
    <3>1. s \in Sweeping /\ UNCHANGED <<row, up, raced, dir>>
      BY <2>5 DEF SweepCheck, Sweeping
    <3>2. CASE sweep[s].valid = {} /\ Swept(s, "last", {}, {}, sweep[s].alone)
      BY <2>2, <3>1, <3>2 DEF Swept
    <3>3. CASE Swept(s, "rest", {}, {}, FALSE)
      BY <2>2, <3>1, <3>3 DEF Swept, Sweeping
    <3>4. QED
      BY <2>5, <3>2, <3>3, CheckSwept
  <2>6. CASE SweepLast(s)
    BY <2>2, <2>6, RestSwept DEF Swept, SweepLast, RemoveAll, Sweeping
  <2>7. ASSUME NEW v \in Versions, SweepRemove(s, v), s \notin Sweeping
        PROVE  Noted'
    <3>1. /\ UNCHANGED <<row, up, raced>> /\ dir' \subseteq dir
          /\ Sweeping' = Sweeping /\ \A t \in Sweeping : sweep'[t] = sweep[t]
      BY <2>7, RemoveSwept DEF Swept, SweepRemove, RemoveAll, Sweeping
    <3>2. QED
      BY <3>1 DEF Rowed, Serving
  <2>8. QED
    BY <1>5, <2>1, <2>3, <2>4, <2>5, <2>6, <2>7 DEF SweepStep
<1>6. QED
  BY <1>1, <1>2, <1>3, <1>4, <1>5, Cases DEF Create, UploadVersion

\* A cleanup costs a version that has its row its directory only where an
\* upload of that version overlapped a cleanup, whatever uploads, failures,
\* deletions and other cleanups do meanwhile.
THEOREM RacedCorrect == Spec => SweptWasRaced
<1>1. ASSUME Typed, AllSparing, Noted, Next, NEW s \in Sweeps, sweep'[s] # sweep[s]
      PROVE  \A v \in (dir \ dir') \cap Rowed : \E u \in raced : up[u].ver = v
  <2>1. CASE UNCHANGED dir
    BY <2>1
  <2>2. ASSUME NEW t \in Sweeps, SweepStep(t)
        PROVE  \A v \in (dir \ dir') \cap Rowed : \E u \in raced : up[u].ver = v
    <3>1. ASSUME NEW v \in Versions, SweepRemove(t, v)
          PROVE  \A x \in (dir \ dir') \cap Rowed : \E u \in raced : up[u].ver = x
      <4>1. dir \ dir' \subseteq {v} /\ v \in sweep[t].todo
        BY <3>1 DEF SweepRemove, RemoveAll
      <4>2. v \notin sweep[t].valid /\ t \in Sweeping
        BY <4>1 , <1>1 DEF AllSparing, Sparing, Sweeping
      <4>3. QED
        BY <1>1, <4>1, <4>2 DEF Noted
    <3>2. CASE SweepLast(t)
      <4>1. sweep[t].valid = {} /\ t \in Sweeping
        BY <1>1, <3>2 DEF SweepLast, AllSparing, Sparing, Sweeping
      <4>2. QED
        BY <1>1, <4>1 DEF Noted
    <3>3. QED
      BY <2>1, <2>2, <3>1, <3>2 DEF SweepStep, SweepKeys, SweepScan, SweepCheck
  <2>3. ASSUME NEW u \in Uploads, Handler(u)
        PROVE  FALSE
    BY <1>1, <2>3, HandlerLeaves
  <2>4. QED
    BY <1>1, <2>1, <2>2, <2>3, Cases DEF Delete, Create, UploadVersion, Begin
<1>2. ASSUME Typed, AllSparing, Noted, [Next]_vars
      PROVE  [\A s \in Sweeps : sweep'[s] # sweep[s]
                => \A v \in (dir \ dir') \cap Rowed : \E u \in raced : up[u].ver = v]_vars
  BY <1>1, <1>2
<1>3. Init => Noted
  BY Constants DEF Init, Noted, Rowed, Sweeping
<1>4. QED
  BY <1>2, <1>3, NotedStep, AlwaysTyped, AlwaysSparing, PTL DEF Spec, SweptWasRaced
-----------------------------------------------------------------------------
(* A cleanup alone knows all the rows, and all the directories left.       *)

Alone(s) == sweep[s].alone =>
  /\ Serving = {}
  /\ sweep[s].valid \subseteq Rowed
  /\ sweep[s].at = "list" => sweep[s].valid = Rowed
  /\ sweep[s].at = "remove" => dir \subseteq sweep[s].todo \cup sweep[s].valid

Knowing ==
  /\ \A s \in Sweeps : Alone(s)
  /\ tidy => Serving = {} /\ dir \subseteq Rowed

LEMMA KnowingStep ==
  ASSUME Typed, Knowing, [Next]_vars
  PROVE  Knowing'
<1>1. CASE UNCHANGED vars
  BY <1>1 DEF vars, Knowing, Alone, Rowed, Serving
<1>2. CASE Disturb
  BY <1>2, DisturbSwept DEF Knowing, Alone
<1>3. ASSUME NEW u \in Uploads, Handler(u)
      PROVE  Knowing'
  <2>1. u \in Serving
    BY <1>3, HandlerGoes DEF Goes
  <2>2. UNCHANGED <<sweep, tidy>>
    BY <1>3, HandlerLeaves
  <2>3. QED
    BY <2>1, <2>2 DEF Knowing, Alone
<1>4. ASSUME NEW s \in Sweeps, SweepStep(s)
      PROVE  Knowing'
  <2>1. UNCHANGED <<Rowed, Serving>> /\ dir' \subseteq dir
    BY <1>4 DEF SweepStep, SweepKeys, SweepScan, SweepRemove, SweepCheck, SweepLast, Rowed,
       Serving, RemoveAll
  <2>2. ASSUME NEW t \in Sweeps \ {s}, sweep'[t] = sweep[t]
        PROVE  Alone(t)'
    BY <2>1, <2>2 DEF Knowing, Alone
  <2>3. CASE SweepKeys(s)
    <3>1. Swept(s, "list", Rowed, {}, Serving = {} /\ Sweeping = {})
      BY <2>3, KeysSwept
    <3>2. Alone(s)'
      BY <2>1, <3>1 DEF Swept, Alone
    <3>3. QED
      BY <2>2, <2>3, <3>1, <3>2 DEF Swept, SweepKeys, Knowing
  <2>4. CASE SweepScan(s)
    <3>1. Swept(s, "remove", dir \cap sweep[s].valid, dir \ sweep[s].valid, sweep[s].alone)
      BY <2>4, ScanSwept
    <3>2. Alone(s)'
      BY <2>1, <3>1 DEF Swept, Alone, Knowing
    <3>3. QED
      BY <2>1, <2>2, <2>4, <3>1, <3>2 DEF Swept, SweepScan, Knowing
  <2>5. ASSUME NEW v \in Versions, SweepRemove(s, v)
        PROVE  Knowing'
    <3>1. Swept(s, sweep[s].at, sweep[s].valid, sweep[s].todo \ {v}, sweep[s].alone)
      BY <2>5, RemoveSwept
    <3>2. dir' = dir \ {v} /\ UNCHANGED tidy
      BY <2>5 DEF SweepRemove, RemoveAll
    <3>3. Alone(s)'
      BY <2>1, <3>1, <3>2 DEF Swept, Alone, Knowing
    <3>4. QED
      BY <2>1, <2>2, <3>1, <3>2, <3>3 DEF Swept, Knowing
  <2>6. CASE SweepCheck(s)
    <3>1. CASE UNCHANGED tidy /\ Swept(s, "last", {}, {}, sweep[s].alone)
      <4>1. Alone(s)'
        BY <2>1, <3>1 DEF Swept, Alone, Knowing
      <4>2. QED
        BY <2>1, <2>2, <3>1, <4>1 DEF Swept, Knowing
    <3>2. CASE Swept(s, "rest", {}, {}, FALSE) /\ tidy' = sweep[s].alone
      <4>1. Alone(s)'
        BY <3>2 DEF Swept, Alone
      <4>2. tidy' => Serving = {} /\ dir \subseteq Rowed
        BY <2>6, <3>2 DEF SweepCheck, Knowing, Alone
      <4>3. QED
        BY <2>1, <2>2, <3>2, <4>1, <4>2 DEF Swept, Knowing
    <3>3. QED
      BY <2>6, <3>1, <3>2, CheckSwept
  <2>7. CASE SweepLast(s)
    <3>1. Swept(s, "rest", {}, {}, FALSE)
      BY <2>7, RestSwept DEF SweepLast
    <3>2. Alone(s)'
      BY <3>1 DEF Swept, Alone
    <3>3. dir' = {} /\ (tidy' => Serving = {})
      BY <2>7 DEF SweepLast, RemoveAll, Knowing, Alone, Typed, TypeOK
    <3>4. QED
      BY <2>1, <2>2, <3>1, <3>2, <3>3 DEF Swept, Knowing
  <2>8. QED
    BY <1>4, <2>3, <2>4, <2>5, <2>6, <2>7 DEF SweepStep
<1>5. QED
  BY <1>1, <1>2, <1>3, <1>4, Cases DEF Delete, Create, UploadVersion, Begin

LEMMA AlwaysKnowing == Spec => []Knowing
<1>1. Init => Knowing
  BY Constants DEF Init, Knowing, Alone
<1>2. QED
  BY <1>1, AlwaysTyped, KnowingStep, PTL DEF Spec

\* Once a cleanup that overlapped nothing has ended, every directory left has
\* its row, until the next upload or deletion.
THEOREM TidyCorrect == Spec => []TidyLeavesNoOrphan
<1>1. Knowing => TidyLeavesNoOrphan
  BY DEF Knowing, TidyLeavesNoOrphan
<1>2. QED
  BY <1>1, AlwaysKnowing, PTL
-----------------------------------------------------------------------------
(* What CleanupOrphans says of itself, and breaks when an upload runs       *)
(* beside it, is kept by a cleanup that nothing overlaps.                   *)

LoneSweepSparesRows ==
  [][\A s \in Sweeps : sweep[s].alone /\ sweep'[s] # sweep[s]
       => (dir \ dir') \cap Rowed = {}]_vars

\* A cleanup alone has nothing on its list that has a row, and comes to the
\* directory of the asset only when there is none left in it.
Avoids(s) == sweep[s].alone =>
  /\ sweep[s].todo \cap Rowed = {}
  /\ sweep[s].at = "last" => dir = {}

AllAvoid == \A s \in Sweeps : Avoids(s)

LEMMA AvoidsStep ==
  ASSUME Typed, Knowing, AllAvoid, [Next]_vars
  PROVE  AllAvoid'
<1>1. CASE UNCHANGED vars
  BY <1>1 DEF vars, AllAvoid, Avoids, Rowed
<1>2. CASE Disturb
  BY <1>2, DisturbSwept DEF AllAvoid, Avoids
<1>3. ASSUME NEW u \in Uploads, Handler(u)
      PROVE  AllAvoid'
  <2>1. u \in Serving /\ UNCHANGED sweep
    BY <1>3, HandlerGoes, HandlerLeaves DEF Goes
  <2>2. QED
    BY <2>1 DEF Knowing, Alone, AllAvoid, Avoids
<1>4. ASSUME NEW s \in Sweeps, SweepStep(s)
      PROVE  AllAvoid'
  <2>1. UNCHANGED Rowed /\ dir' \subseteq dir
    BY <1>4 DEF SweepStep, SweepKeys, SweepScan, SweepRemove, SweepCheck, SweepLast, Rowed,
       RemoveAll
  <2>2. ASSUME NEW t \in Sweeps \ {s}, sweep'[t] = sweep[t]
        PROVE  Avoids(t)'
    BY <2>1, <2>2 DEF AllAvoid, Avoids
  <2>3. CASE SweepKeys(s)
    BY <2>2, <2>3, KeysSwept DEF Swept, AllAvoid, Avoids
  <2>4. CASE SweepScan(s)
    <3>1. Swept(s, "remove", dir \cap sweep[s].valid, dir \ sweep[s].valid, sweep[s].alone)
      BY <2>4, ScanSwept
    <3>2. sweep[s].alone => sweep[s].valid = Rowed
      BY <2>4 DEF SweepScan, Knowing, Alone
    <3>3. Avoids(s)'
      BY <2>1, <3>1, <3>2 DEF Swept, Avoids
    <3>4. QED
      BY <2>2, <3>1, <3>3 DEF Swept, AllAvoid
  <2>5. ASSUME NEW v \in Versions, SweepRemove(s, v)
        PROVE  AllAvoid'
    <3>1. Swept(s, sweep[s].at, sweep[s].valid, sweep[s].todo \ {v}, sweep[s].alone)
      BY <2>5, RemoveSwept
    <3>2. Avoids(s)'
      BY <2>1, <3>1 DEF Swept, AllAvoid, Avoids
    <3>3. QED
      BY <2>2, <3>1, <3>2 DEF Swept, AllAvoid
  <2>6. CASE SweepCheck(s)
    <3>1. CASE Swept(s, "last", {}, {}, sweep[s].alone) /\ dir = {}
      <4>1. Avoids(s)'
        BY <2>1, <3>1 DEF Swept, Avoids
      <4>2. QED
        BY <2>2, <3>1, <4>1 DEF Swept, AllAvoid
    <3>2. CASE Swept(s, "rest", {}, {}, FALSE)
      <4>1. Avoids(s)'
        BY <3>2 DEF Swept, Avoids
      <4>2. QED
        BY <2>2, <3>2, <4>1 DEF Swept, AllAvoid
    <3>3. QED
      BY <2>6, <3>1, <3>2, CheckSwept
  <2>7. CASE SweepLast(s)
    BY <2>2, <2>7, RestSwept DEF SweepLast, Swept, AllAvoid, Avoids
  <2>8. QED
    BY <1>4, <2>3, <2>4, <2>5, <2>6, <2>7 DEF SweepStep
<1>5. QED
  BY <1>1, <1>2, <1>3, <1>4, Cases DEF Delete, Create, UploadVersion, Begin

\* admin.go:242: a cleanup that overlaps no upload, deletion or earlier cleanup
\* removes only directories without a row, also if a later cleanup starts
\* beside it.
THEOREM LoneSweepCorrect == Spec => LoneSweepSparesRows
<1>1. Init => AllAvoid
  BY Constants DEF Init, AllAvoid, Avoids
<1>2. ASSUME Typed, AllAvoid, Next, NEW s \in Sweeps, sweep[s].alone, sweep'[s] # sweep[s]
      PROVE  (dir \ dir') \cap Rowed = {}
  <2>1. CASE dir \subseteq dir'
    BY <2>1
  <2>2. ASSUME NEW t \in Sweeps, SweepStep(t)
        PROVE  (dir \ dir') \cap Rowed = {}
    <3>1. ASSUME NEW v \in Versions, SweepRemove(t, v)
          PROVE  (dir \ dir') \cap Rowed = {}
      <4>1. s = t
        BY <1>2, <3>1, RemoveSwept DEF Swept
      <4>2. v \notin Rowed /\ dir' = dir \ {v}
        BY <1>2, <3>1, <4>1 DEF SweepRemove, RemoveAll, AllAvoid, Avoids
      <4>3. QED
        BY <4>2
    <3>2. CASE SweepLast(t)
      <4>1. s = t
        BY <1>2, <3>2, RestSwept DEF Swept, SweepLast
      <4>2. QED
        BY <1>2, <3>2, <4>1 DEF SweepLast, AllAvoid, Avoids
    <3>3. QED
      BY <2>1, <2>2, <3>1, <3>2 DEF SweepStep, SweepKeys, SweepScan, SweepCheck
  <2>3. ASSUME NEW u \in Uploads, Handler(u)
        PROVE  FALSE
    BY <1>2, <2>3, HandlerLeaves
  <2>4. QED
    BY <1>2, <2>1, <2>2, <2>3, Cases DEF Delete, Create, UploadVersion, Begin
<1>3. ASSUME Typed, AllAvoid, [Next]_vars
      PROVE  [\A s \in Sweeps : sweep[s].alone /\ sweep'[s] # sweep[s]
                => (dir \ dir') \cap Rowed = {}]_vars
  BY <1>2, <1>3
<1>4. QED
  BY <1>1, <1>3, AvoidsStep, AlwaysTyped, AlwaysKnowing, PTL DEF Spec, LoneSweepSparesRows
-----------------------------------------------------------------------------
(* Whose the files and the rows are.                                       *)

\* The one upload that creates the asset does so before any other begins.
Created == \A u \in Serving : up[u].creates =>
  asset = "absent" /\ \A w \in Uploads \ {u} : up[w].at = "new"

\* Files and rows are those of uploads that have been there.
Owned ==
  /\ \A p \in Paths : file[p] # None => \E u \in Uploads : up[u].ver = p[1]
  /\ \A v \in Versions : row[v] # None =>
       LET w == up[row[v].by] IN w.at = "done" /\ w.ver = v /\ w.name = row[v].name

LEMMA CreatedStep ==
  ASSUME Typed, Created, [Next]_vars
  PROVE  Created'
<1>1. CASE UNCHANGED <<asset, up>>
  BY <1>1 DEF Created, Serving
<1>2. CASE Delete
  BY <1>2 DEF Delete, Created, Serving
<1>3. ASSUME NEW u \in Uploads, NEW v \in Versions, NEW n \in Names, Create(u, v, n)
      PROVE  Created'
  <2>1. Starts(u, v, n, TRUE) /\ asset' = "absent" /\ \A w \in Uploads : up[w].at = "new"
    BY <1>3, BeginStarts DEF Create, Begin
  <2>2. QED
    BY <2>1 DEF Starts, Created, Serving
<1>4. ASSUME NEW u \in Uploads, NEW v \in Versions, NEW n \in Names, UploadVersion(u, v, n)
      PROVE  Created'
  <2>1. Starts(u, v, n, FALSE) /\ asset = "present"
    BY <1>4, BeginStarts DEF UploadVersion
  <2>2. QED
    BY <2>1 DEF Starts, Created, Serving
<1>5. ASSUME NEW u \in Uploads, Handler(u)
      PROVE  Created'
  <2>1. Goes(u)
    BY <1>5, HandlerGoes
  <2>2. CASE UNCHANGED asset
    BY <2>1, <2>2 DEF Goes, Created, Serving
  <2>3. CASE CreateWithVersion(u)
    <3>1. up[u].creates /\ up'[u].at = "done"
      BY <2>3, InsertRows DEF CreateWithVersion
    <3>2. \A w \in Uploads \ {u} : up'[w].at = "new"
      BY <2>1, <3>1 DEF Goes, Created
    <3>3. QED
      BY <3>1, <3>2 DEF Created, Serving
  <2>4. QED
    BY <1>5, <2>2, <2>3 DEF Handler, MkdirAll, Open, Copy, Fail, Scan, Refuse, Extract,
       InsertVersion, CreateFail, VersionFail
<1>6. CASE \E s \in Sweeps : SweepStep(s)
  BY <1>1, <1>6 DEF SweepStep, SweepKeys, SweepScan, SweepRemove, SweepCheck, SweepLast
<1>7. QED
  BY <1>1, <1>2, <1>3, <1>4, <1>5, <1>6, Cases DEF vars

\* What has a version keeps it, and what is done stays so.
LEMMA UpKept ==
  ASSUME Typed, [Next]_vars, NEW u \in Uploads
  PROVE  /\ up[u].ver \in Versions => up'[u].ver = up[u].ver /\ up'[u].name = up[u].name
         /\ up[u].at = "done" => up'[u] = up[u]
         /\ up[u].at # "new" => up'[u].at # "new" /\ up'[u].ver = up[u].ver
<1>1. up[u].at = "new" => up[u].ver = None
  BY DEF Typed, UpType
<1>2. CASE UNCHANGED up
  BY <1>2
<1>3. ASSUME NEW w \in Uploads, NEW v \in Versions, NEW n \in Names, NEW b \in BOOLEAN,
             Starts(w, v, n, b)
      PROVE  /\ up[u].ver \in Versions => up'[u] = up[u]
             /\ up[u].at # "new" => up'[u] = up[u]
  BY <1>1, <1>3 DEF Starts
<1>4. ASSUME NEW w \in Uploads, Goes(w)
      PROVE  /\ up'[u].ver = up[u].ver /\ up'[u].name = up[u].name
             /\ up[u].at = "done" => up'[u] = up[u]
             /\ up[u].at # "new" => up'[u].at # "new"
  BY <1>4 DEF Goes, Serving
<1>5. CASE Next
  <2>1. CASE \E w \in Uploads, v \in Versions, n \in Names, b \in BOOLEAN : Starts(w, v, n, b)
    <3>1. PICK w \in Uploads, v \in Versions, n \in Names, b \in BOOLEAN : Starts(w, v, n, b)
      BY <2>1
    <3>2. /\ up[u].ver \in Versions => up'[u] = up[u]
          /\ up[u].at # "new" => up'[u] = up[u]
      BY <1>3, <3>1
    <3>3. QED
      BY <3>2
  <2>2. CASE \E w \in Uploads : Goes(w)
    BY <1>4, <2>2
  <2>3. QED
    BY <1>2, <1>5, <2>1, <2>2, UpCases
<1>6. QED
  BY <1>2, <1>5 DEF vars

\* Only Open makes a file that was not there.
LEMMA FileOrigin ==
  ASSUME Typed, [Next]_vars, NEW p \in Paths, file[p] = None, file'[p] # None
  PROVE  \E u \in Uploads : up[u].ver = p[1] /\ Open(u) /\ p = Path(u)
<1>1. Next
  BY DEF vars
<1>2. ASSUME NEW D, RemoveAll(D)
      PROVE  FALSE
  BY <1>2, RemoveLeaves
<1>3. PICK u \in Uploads : Handler(u)
  <2>1. ~Delete
    BY DEF Delete
  <2>2. ~\E u \in Uploads, v \in Versions, n \in Names : Create(u, v, n) \/ UploadVersion(u, v, n)
    BY DEF Create, UploadVersion, Begin
  <2>3. ~\E s \in Sweeps : SweepStep(s)
    BY RemoveLeaves DEF SweepStep, SweepKeys, SweepScan, SweepRemove, SweepCheck, SweepLast
  <2>4. QED
    BY <1>1, <2>1, <2>2, <2>3, Cases
<1>4. Path(u) \in Paths /\ Path(u)[1] = up[u].ver
  BY <1>3, HandlerGoes, OnPath DEF Goes
<1>5. CASE Open(u)
  <2>1. p = Path(u)
    BY <1>5, OpenWrites DEF Writes
  <2>2. QED
    BY <1>4, <1>5, <2>1
<1>6. ~Copy(u)
  BY CopyWrites DEF Writes
<1>7. ~Fail(u)
  BY FailLeaves
<1>8. ~Scan(u)
  BY ScanLeaves
<1>9. ~CreateFail(u) /\ ~VersionFail(u)
  BY RemoveLeaves DEF CreateFail, VersionFail
<1>10. QED
  BY <1>3, <1>5, <1>6, <1>7, <1>8, <1>9 DEF Handler, MkdirAll, Refuse, Extract,
     CreateWithVersion, InsertVersion, InsertRow

LEMMA OwnedStep ==
  ASSUME Typed, Owned, [Next]_vars
  PROVE  Owned'
<1>1. ASSUME NEW p \in Paths, file'[p] # None
      PROVE  \E u \in Uploads : up'[u].ver = p[1]
  <2>1. PICK u \in Uploads : up[u].ver = p[1]
    BY <1>1, FileOrigin DEF Owned
  <2>2. up[u].ver \in Versions
    BY <2>1 DEF Paths
  <2>3. QED
    BY <2>1, <2>2, UpKept
<1>2. ASSUME NEW v \in Versions, row'[v] # None
      PROVE  LET w == up'[row'[v].by] IN w.at = "done" /\ w.ver = v /\ w.name = row'[v].name
  <2>1. CASE row'[v] = row[v]
    <3>1. row[v].by \in Uploads
      BY <1>2, <2>1 DEF Typed, TypeOK, Rows
    <3>2. up[row[v].by].at = "done" /\ up'[row[v].by] = up[row[v].by]
      BY <1>2, <2>1, <3>1, UpKept DEF Owned
    <3>3. QED
      BY <1>2, <2>1, <3>2 DEF Owned
  <2>2. ASSUME NEW u \in Uploads, InsertRow(u), row'[v] # row[v]
        PROVE  LET w == up'[row'[v].by] IN w.at = "done" /\ w.ver = v /\ w.name = row'[v].name
    <3>1. v = up[u].ver /\ row'[v].by = u /\ row'[v].name = up[u].name /\ up'[u].at = "done"
      BY <2>2, InsertRows
    <3>2. up'[u].ver = v /\ up'[u].name = up[u].name
      BY <3>1, UpKept
    <3>3. QED
      BY <3>1, <3>2
  <2>3. CASE Delete
    BY <1>2, <2>3 DEF Delete
  <2>4. CASE UNCHANGED row
    BY <2>1, <2>4, SMTT(60)
  <2>5. CASE \E u \in Uploads : Handler(u)
    BY <2>1, <2>2, <2>5 DEF Handler, MkdirAll, Open, Copy, Fail, Scan, Refuse, Extract,
       CreateWithVersion, InsertVersion, CreateFail, VersionFail
  <2>6. QED
    BY <2>3, <2>4, <2>5, Cases DEF vars, Create, UploadVersion, Begin, SweepStep, SweepKeys,
       SweepScan, SweepRemove, SweepCheck, SweepLast
<1>3. QED
  BY <1>1, <1>2 DEF Owned
-----------------------------------------------------------------------------
(* The only attempt at its version, with no cleanup meanwhile.             *)

Lone(u) ==
  /\ up[u].at # "new" /\ u \notin raced
  /\ \A w \in Uploads \ {u} : up[w].ver # up[u].ver

\* A cleanup under way will leave the version alone.
Spares(s, v) ==
  /\ sweep[s].at = "list" => v \in sweep[s].valid
  /\ sweep[s].at = "remove" => v \in sweep[s].valid
  /\ sweep[s].at # "last"

Whole(u) == file[Path(u)] # None /\ file[Path(u)].body = u

\* No other upload holds a file of the version open.
OwnHandles(u) ==
  \A n \in Names : LET f == file[<<up[u].ver, n>>] IN f # None => f.open \subseteq {u}

\* What is on disk while the upload is served.
OnDisk(u) ==
  /\ up[u].at \in {"found", "made"} => \A n \in Names : file[<<up[u].ver, n>>] = None
  /\ up[u].at = "open" =>
       /\ file[Path(u)] # None
       /\ u \in file[Path(u)].open
       /\ ~file[Path(u)].mixed
  /\ up[u].at \in {"copied", "scanned", "read"} => Whole(u)
  /\ up[u].at = "read" => up[u].got = u

Quiet(u) == up[u].at # "done" => Sweeping = {} /\ row[up[u].ver] = None

Kept(u) == row[up[u].ver] # None =>
  /\ row[up[u].ver].content = u /\ row[up[u].ver].name = up[u].name
  /\ Whole(u)
  /\ \A s \in Sweeps : Spares(s, up[u].ver)

Unharmed(u) == OwnHandles(u) /\ OnDisk(u) /\ Quiet(u) /\ Kept(u)

LoneInv == \A u \in Uploads : Lone(u) => Unharmed(u)

\* What an upload can rely on: its place on disk, and its files' types.
LEMMA Place ==
  ASSUME Typed, NEW u \in Uploads, up[u].at # "new"
  PROVE  /\ up[u] \in UpSet /\ up[u].ver \in Versions /\ up[u].name \in Names
         /\ Path(u) = <<up[u].ver, up[u].name>> /\ Path(u) \in Paths
         /\ \A n \in Names : <<up[u].ver, n>> \in Paths /\ <<up[u].ver, n>>[1] = up[u].ver
         /\ file \in [Paths -> Files \cup {None}]
BY DEF Typed, TypeOK, UpType, UpSet, Path, Paths

\* A step that changes nothing the upload can see.
LEMMA LoneStays ==
  ASSUME Typed, NEW u \in Uploads, up[u].at # "new", Unharmed(u),
         up'[u] = up[u],
         \A n \in Names : file'[<<up[u].ver, n>>] = file[<<up[u].ver, n>>],
         row'[up[u].ver] = row[up[u].ver] \/ row'[up[u].ver] = None,
         \A s \in Sweeps : sweep'[s].at = sweep[s].at /\ sweep'[s].valid = sweep[s].valid
  PROVE  Unharmed(u)'
<1>1. Path(u)' = Path(u) /\ up[u].name \in Names /\ Path(u) = <<up[u].ver, up[u].name>>
  BY Place DEF Path
<1>2. file'[Path(u)] = file[Path(u)]
  BY <1>1
<1>3. Whole(u)' = Whole(u)
  BY <1>1, <1>2 DEF Whole
<1>4. OwnHandles(u)'
  BY DEF Unharmed, OwnHandles
<1>5. OnDisk(u)'
  BY <1>1, <1>2, <1>3 DEF Unharmed, OnDisk
<1>6. Quiet(u)'
  BY DEF Unharmed, Quiet, Sweeping
<1>7. Kept(u)'
  BY <1>3 DEF Unharmed, Kept, Spares
<1>8. QED
  BY <1>4, <1>5, <1>6, <1>7 DEF Unharmed

\* Another upload works on other versions.
LEMMA OthersStay ==
  ASSUME Typed, Created, NEW u \in Uploads, Lone(u), Unharmed(u),
         NEW w \in Uploads \ {u}, Handler(w)
  PROVE  Unharmed(u)'
<1>1. Goes(w) /\ w \in Serving
  BY HandlerGoes DEF Goes
<1>2. up'[u] = up[u] /\ UNCHANGED sweep
  BY <1>1, HandlerLeaves DEF Goes
<1>3. /\ up[w].ver # up[u].ver /\ Path(w) \in Paths /\ Path(w)[1] = up[w].ver
      /\ up[w].ver \in Versions
  BY <1>1, OnPath DEF Lone
<1>4. \A n \in Names : /\ <<up[u].ver, n>> \in Paths /\ <<up[u].ver, n>> # Path(w)
                       /\ <<up[u].ver, n>>[1] # up[w].ver
  BY <1>3, Place DEF Lone
<1>5. row'[up[u].ver] = row[up[u].ver]
  <2>1. CASE InsertRow(w)
    BY <1>3, <2>1, InsertRows, Place DEF Lone
  <2>2. CASE UNCHANGED row
    BY <2>2
  <2>3. QED
    BY <2>1, <2>2 DEF Handler, MkdirAll, Open, Copy, Fail, Scan, Refuse, Extract,
       CreateWithVersion, InsertVersion, CreateFail, VersionFail
<1>6. \A n \in Names : file'[<<up[u].ver, n>>] = file[<<up[u].ver, n>>]
  <2>1. CASE UNCHANGED file
    BY <2>1
  <2>2. CASE Open(w)
    BY <1>4, <2>2, OpenWrites DEF Writes
  <2>3. CASE Copy(w)
    BY <1>4, <2>1, <2>3, CopyWrites DEF Writes
  <2>4. CASE Fail(w)
    BY <1>4, <2>4, FailLeaves DEF Unharmed, OwnHandles
  <2>5. CASE Scan(w)
    BY <1>4, <2>1, <2>5, ScanLeaves
  <2>6. CASE CreateFail(w)
    BY <1>1, <2>6 DEF CreateFail, Created, Lone
  <2>7. CASE VersionFail(w)
    <3>1. RemoveAll({up[w].ver})
      BY <2>7 DEF VersionFail
    <3>2. QED
      BY <1>4, <3>1, RemoveLeaves
  <2>8. QED
    BY <2>1, <2>2, <2>3, <2>4, <2>5, <2>6, <2>7 DEF Handler, MkdirAll, Refuse, Extract,
       CreateWithVersion, InsertVersion, InsertRow
<1>7. QED
  BY <1>2, <1>5, <1>6, LoneStays DEF Lone

\* The upload itself: before its row there is no cleanup, so that the row is
\* its own and nobody is about to remove its directory.
LEMMA OwnStep ==
  ASSUME Typed, NEW u \in Uploads, Lone(u), Unharmed(u), Handler(u)
  PROVE  Unharmed(u)'
<1>1. Goes(u) /\ u \in Serving /\ UNCHANGED sweep
  BY HandlerGoes, HandlerLeaves DEF Goes
<1>2. /\ up[u].ver \in Versions /\ up[u].name \in Names
      /\ Path(u) \in Paths /\ Path(u)[1] = up[u].ver /\ Path(u) = <<up[u].ver, up[u].name>>
      /\ \A n \in Names : <<up[u].ver, n>> \in Paths /\ <<up[u].ver, n>>[1] = up[u].ver
      /\ file \in [Paths -> Files \cup {None}]
  BY Place DEF Lone
<1>3. up'[u].ver = up[u].ver /\ up'[u].name = up[u].name /\ Path(u)' = Path(u)
  BY <1>1 DEF Goes, Path
<1>4. up[u].at \notin {"new", "done"} /\ Sweeping = {} /\ Sweeping' = {} /\ row[up[u].ver] = None
  BY <1>1 DEF Serving, Unharmed, Quiet, Sweeping
<1>5. ASSUME UNCHANGED row
      PROVE  Quiet(u)' /\ Kept(u)'
  BY <1>3, <1>4, <1>5 DEF Quiet, Kept
<1>6. ASSUME \A n \in Names : LET p == <<up[u].ver, n>> IN
                file'[p] = None \/ file'[p] = file[p]
                  \/ (file[p] # None /\ file'[p].open \subseteq file[p].open)
      PROVE  OwnHandles(u)'
  BY <1>3, <1>6 DEF Unharmed, OwnHandles
<1>7. ASSUME up'[u].at = "done"
      PROVE  OnDisk(u)'
  BY <1>7 DEF OnDisk
<1>8. CASE MkdirAll(u)
  <2>1. UNCHANGED <<row, file>> /\ up[u].at = "found" /\ up'[u].at = "made"
    BY <1>8, StepGoes DEF MkdirAll, Step, Stages
  <2>2. OnDisk(u)'
    BY <1>3, <2>1 DEF Unharmed, OnDisk
  <2>3. QED
    BY <1>5, <1>6, <2>1, <2>2 DEF Unharmed
<1>9. CASE Open(u)
  <2>1. UNCHANGED row /\ up[u].at = "made" /\ up'[u].at = "open"
    BY <1>9, StepGoes DEF Open, Step, Stages
  <2>2. file[Path(u)] = None
    BY <1>2, <2>1 DEF Unharmed, OnDisk
  <2>3. PICK g \in Files : Writes(u, g) /\ g.open = {u} /\ ~g.mixed
    BY <1>9, <2>2, OpenWrites
  <2>4. OnDisk(u)'
    BY <1>3, <2>1, <2>3 DEF OnDisk, Writes
  <2>5. OwnHandles(u)'
    <3>1. SUFFICES ASSUME NEW n \in Names, file'[<<up[u].ver, n>>] # None
                   PROVE  file'[<<up[u].ver, n>>].open \subseteq {u}
      BY <1>3 DEF OwnHandles
    <3>2. CASE <<up[u].ver, n>> = Path(u)
      BY <2>3, <3>2 DEF Writes
    <3>3. CASE <<up[u].ver, n>> # Path(u)
      BY <1>2, <2>3, <3>1, <3>3 DEF Writes, Unharmed, OwnHandles
    <3>4. QED
      BY <3>2, <3>3
  <2>6. QED
    BY <1>5, <2>1, <2>4, <2>5 DEF Unharmed
<1>10. CASE Copy(u)
  <2>1. UNCHANGED row /\ up[u].at = "open" /\ up'[u].at = "copied"
    BY <1>10, StepGoes DEF Copy, Step, Stages
  <2>2. file[Path(u)] # None /\ u \in file[Path(u)].open /\ ~file[Path(u)].mixed
    BY <2>1 DEF Unharmed, OnDisk
  <2>3. PICK g \in Files : Writes(u, g) /\ g.open = file[Path(u)].open \ {u} /\ g.body = u
    BY <1>10, <2>2, CopyWrites
  <2>4. OnDisk(u)'
    BY <1>3, <2>1, <2>3 DEF OnDisk, Whole, Writes
  <2>5. OwnHandles(u)'
    <3>1. \A n \in Names : LET p == <<up[u].ver, n>> IN
            file'[p] = file[p] \/ (file[p] # None /\ file'[p].open \subseteq file[p].open)
      BY <1>2, <2>2, <2>3 DEF Writes
    <3>2. QED
      BY <1>6, <3>1
  <2>6. QED
    BY <1>5, <2>1, <2>4, <2>5 DEF Unharmed
<1>11. CASE Fail(u)
  <2>1. UNCHANGED row /\ up'[u].at = "done"
    <3>1. up \in [Uploads -> UpSet]
      BY DEF Typed, TypeOK, UpSet
    <3>2. QED
      BY <1>11, <3>1 DEF Fail, UpSet
  <2>2. \A n \in Names : LET p == <<up[u].ver, n>> IN
          file'[p] = file[p] \/ (file[p] # None /\ file'[p].open \subseteq file[p].open)
    BY <1>2, <1>11, FailLeaves
  <2>3. QED
    BY <1>5, <1>6, <1>7, <2>1, <2>2 DEF Unharmed
<1>12. CASE Scan(u)
  <2>1. UNCHANGED row /\ up[u].at = "copied"
    BY <1>12 DEF Scan
  <2>2. CASE up'[u].at = "scanned" /\ UNCHANGED file
    <3>1. OnDisk(u)'
      BY <1>3, <2>1, <2>2 DEF Unharmed, OnDisk, Whole
    <3>2. QED
      BY <1>5, <1>6, <2>1, <2>2, <3>1 DEF Unharmed
  <2>3. CASE /\ up'[u].at = "done" /\ file'[Path(u)] = None
             /\ \A p \in Paths \ {Path(u)} : file'[p] = file[p]
    <3>1. \A n \in Names : LET p == <<up[u].ver, n>> IN file'[p] = None \/ file'[p] = file[p]
      BY <1>2, <2>3
    <3>2. QED
      BY <1>5, <1>6, <1>7, <2>1, <2>3, <3>1 DEF Unharmed
  <2>4. QED
    BY <1>12, <2>2, <2>3, ScanLeaves
<1>13. CASE Refuse(u)
  <2>1. UNCHANGED <<row, file>> /\ Step(u, "scanned", "done")
    BY <1>13 DEF Refuse
  <2>2. up'[u].at = "done"
    BY <2>1, StepGoes DEF Stages
  <2>3. QED
    BY <1>5, <1>6, <1>7, <2>1, <2>2 DEF Unharmed
<1>14. CASE Extract(u)
  <2>1. UNCHANGED <<row, file>> /\ up[u].at = "scanned"
    BY <1>14 DEF Extract
  <2>2. Whole(u) /\ Held(u) = u
    BY <2>1 DEF Unharmed, OnDisk, Whole, Held
  <2>3. up'[u].at = "read" /\ up'[u].got = u
    <3>1. up \in [Uploads -> UpSet]
      BY DEF Typed, TypeOK, UpSet
    <3>2. up' = [up EXCEPT ![u].at = "read", ![u].got = u]
      BY <1>14, <2>2 DEF Extract
    <3>3. QED
      BY <3>1, <3>2 DEF UpSet
  <2>4. OnDisk(u)'
    BY <1>3, <2>1, <2>2, <2>3 DEF OnDisk, Whole
  <2>5. QED
    BY <1>5, <1>6, <2>1, <2>4 DEF Unharmed
<1>15. CASE CreateWithVersion(u) \/ InsertVersion(u)
  <2>1. InsertRow(u) /\ UNCHANGED file
    BY <1>15 DEF CreateWithVersion, InsertVersion, InsertRow
  <2>2. /\ up[u].at = "read" /\ up'[u].at = "done"
        /\ row'[up[u].ver].name = up[u].name /\ row'[up[u].ver].content = up[u].got
    BY <2>1, InsertRows
  <2>3. Whole(u) /\ up[u].got = u
    BY <2>2 DEF Unharmed, OnDisk
  <2>4. \A s \in Sweeps : sweep'[s].at = "rest"
    BY <1>4 DEF Sweeping
  <2>5. Kept(u)'
    BY <1>3, <2>1, <2>2, <2>3, <2>4 DEF Kept, Whole, Spares
  <2>6. Quiet(u)'
    BY <2>2 DEF Quiet
  <2>7. QED
    BY <1>6, <1>7, <2>1, <2>2, <2>5, <2>6 DEF Unharmed
<1>16. CASE CreateFail(u) \/ VersionFail(u)
  <2>1. UNCHANGED row /\ Step(u, "read", "done")
    BY <1>16 DEF CreateFail, VersionFail
  <2>2. up'[u].at = "done"
    BY <2>1, StepGoes DEF Stages
  <2>3. \A p \in Paths : file'[p] = None \/ file'[p] = file[p]
    <3>1. CASE RemoveAll(Versions)
      BY <3>1, RemoveLeaves
    <3>2. CASE RemoveAll({up[u].ver})
      BY <3>2, RemoveLeaves
    <3>3. QED
      BY <1>16, <3>1, <3>2 DEF CreateFail, VersionFail
  <2>4. QED
    BY <1>2, <1>5, <1>6, <1>7, <2>1, <2>2, <2>3 DEF Unharmed
<1>17. QED
  BY <1>8, <1>9, <1>10, <1>11, <1>12, <1>13, <1>14, <1>15, <1>16 DEF Handler

\* No cleanup runs before the row is there, and a later one finds it.
LEMMA SweepHarmless ==
  ASSUME Typed, AllSparing, NEW u \in Uploads, Lone(u), Lone(u)', Unharmed(u),
         NEW s \in Sweeps, SweepStep(s)
  PROVE  Unharmed(u)'
<1>1. UNCHANGED <<up, row>>
  BY DEF SweepStep, SweepKeys, SweepScan, SweepRemove, SweepCheck, SweepLast
<1>2. /\ Path(u) \in Paths /\ Path(u)[1] = up[u].ver /\ Path(u)' = Path(u)
      /\ \A n \in Names : <<up[u].ver, n>> \in Paths /\ <<up[u].ver, n>>[1] = up[u].ver
      /\ up[u].ver \in Versions
  BY <1>1, Place DEF Lone, Path
<1>3. up[u].at = "done"
  <2>1. SUFFICES ASSUME up[u].at # "done" PROVE FALSE
    OBVIOUS
  <2>2. u \in Serving /\ sweep[s].at = "rest"
    BY <2>1 DEF Lone, Serving, Unharmed, Quiet, Sweeping
  <2>3. ~SweepKeys(s)
    BY <2>2 DEF SweepKeys, Lone
  <2>4. QED
    BY <2>2, <2>3 DEF SweepStep, SweepScan, SweepRemove, SweepCheck, SweepLast, AllSparing, Sparing
<1>4. OnDisk(u)' /\ Quiet(u)'
  BY <1>1, <1>3 DEF OnDisk, Quiet
<1>5. OwnHandles(u)'
  <2>1. \A n \in Names : LET p == <<up[u].ver, n>> IN file'[p] = None \/ file'[p] = file[p]
    BY <1>2, RemoveLeaves DEF SweepStep, SweepKeys, SweepScan, SweepRemove, SweepCheck, SweepLast
  <2>2. QED
    BY <1>1, <2>1 DEF Unharmed, OwnHandles
<1>6. ASSUME row[up[u].ver] # None
      PROVE  Whole(u)' /\ \A t \in Sweeps : Spares(t, up[u].ver)'
  <2>1. Whole(u) /\ \A t \in Sweeps : Spares(t, up[u].ver)
    BY <1>6 DEF Unharmed, Kept
  <2>2. up[u].ver \in Rowed /\ up[u].ver \in dir
    BY <1>2, <1>6, <2>1 DEF Rowed, Whole, Typed, TypeOK
  <2>3. ASSUME UNCHANGED file
        PROVE  Whole(u)'
    BY <1>2, <2>1, <2>3 DEF Whole
  <2>4. ASSUME Spares(s, up[u].ver)', \A t \in Sweeps \ {s} : sweep'[t] = sweep[t]
        PROVE  \A t \in Sweeps : Spares(t, up[u].ver)'
    BY <1>1, <2>1, <2>4 DEF Spares
  <2>5. CASE SweepKeys(s)
    <3>1. Swept(s, "list", Rowed, {}, Serving = {} /\ Sweeping = {}) /\ UNCHANGED file
      BY <2>5, KeysSwept DEF SweepKeys
    <3>2. Spares(s, up[u].ver)'
      BY <1>1, <2>2, <3>1 DEF Swept, Spares
    <3>3. QED
      BY <2>3, <2>4, <3>1, <3>2 DEF Swept
  <2>6. CASE SweepScan(s)
    <3>1. /\ Swept(s, "remove", dir \cap sweep[s].valid, dir \ sweep[s].valid, sweep[s].alone)
          /\ UNCHANGED file /\ sweep[s].at = "list"
      BY <2>6, ScanSwept DEF SweepScan
    <3>2. Spares(s, up[u].ver)'
      BY <1>1, <2>1, <2>2, <3>1 DEF Swept, Spares
    <3>3. QED
      BY <2>3, <2>4, <3>1, <3>2 DEF Swept
  <2>7. ASSUME NEW v \in Versions, SweepRemove(s, v)
        PROVE  Whole(u)' /\ \A t \in Sweeps : Spares(t, up[u].ver)'
    <3>1. Swept(s, sweep[s].at, sweep[s].valid, sweep[s].todo \ {v}, sweep[s].alone)
      BY <2>7, RemoveSwept
    <3>2. RemoveAll({v}) /\ v # up[u].ver
      BY <2>1, <2>7 DEF SweepRemove, AllSparing, Sparing, Spares
    <3>3. Whole(u)'
      BY <1>2, <2>1, <3>2, RemoveLeaves DEF Whole
    <3>4. Spares(s, up[u].ver)'
      BY <1>1, <2>1, <3>1 DEF Swept, Spares
    <3>5. QED
      BY <2>4, <3>1, <3>3, <3>4 DEF Swept
  <2>8. CASE SweepCheck(s)
    <3>1. sweep[s].at = "remove" /\ sweep[s].valid # {} /\ UNCHANGED file
      BY <2>1, <2>8 DEF SweepCheck, Spares
    <3>2. Swept(s, "rest", {}, {}, FALSE)
      BY <2>8, <3>1, CheckSwept
    <3>3. Spares(s, up[u].ver)'
      BY <3>2 DEF Swept, Spares
    <3>4. QED
      BY <2>3, <2>4, <3>1, <3>2, <3>3 DEF Swept
  <2>9. CASE SweepLast(s)
    BY <2>1, <2>9 DEF SweepLast, Spares
  <2>10. QED
    BY <2>5, <2>6, <2>7, <2>8, <2>9 DEF SweepStep
<1>7. Kept(u)'
  BY <1>1, <1>6 DEF Unharmed, Kept
<1>8. QED
  BY <1>4, <1>5, <1>7 DEF Unharmed

\* An upload that begins as the only one of its version finds nothing there.
LEMMA BeginAlone ==
  ASSUME Typed, Owned, NEW u \in Uploads, NEW v \in Versions, NEW n \in Names, NEW b \in BOOLEAN,
         Starts(u, v, n, b), Begin(u, v, n, b), Lone(u)'
  PROVE  Unharmed(u)'
<1>1. up[u].ver = None /\ up'[u].ver = v /\ up'[u].at = "found"
  BY DEF Starts, Typed, UpType
<1>2. \A w \in Uploads : up[w].ver # v
  BY <1>1 DEF Starts, Lone
<1>3. \A m \in Names : file[<<v, m>>] = None
  BY <1>2 DEF Owned, Paths
<1>4. row[v] = None
  <2>1. row[v] # None => row[v].by \in Uploads
    BY DEF Typed, TypeOK, Rows
  <2>2. QED
    BY <1>2, <2>1 DEF Owned
<1>5. UNCHANGED <<row, file>>
  BY DEF Begin
<1>6. Sweeping' = {}
  <2>1. Sweeping = {}
    BY DEF Begin, Lone
  <2>2. QED
    BY <2>1, DisturbSwept DEF Begin, Sweeping
<1>7. OwnHandles(u)' /\ OnDisk(u)'
  BY <1>1, <1>3, <1>5 DEF OwnHandles, OnDisk
<1>8. Quiet(u)' /\ Kept(u)'
  BY <1>1, <1>4, <1>5, <1>6 DEF Quiet, Kept
<1>9. QED
  BY <1>7, <1>8 DEF Unharmed

LEMMA LoneStep ==
  ASSUME Typed, Created, Owned, AllSparing, LoneInv, [Next]_vars
  PROVE  LoneInv'
<1>1. SUFFICES ASSUME NEW u \in Uploads, Lone(u)'
               PROVE  Unharmed(u)'
  BY DEF LoneInv
<1>2. raced \subseteq raced'
  BY HandlerLeaves, Cases DEF vars, Delete, Create, UploadVersion, Begin, SweepStep, SweepKeys,
     SweepScan, SweepRemove, SweepCheck, SweepLast
<1>3. CASE up[u].at = "new"
  <2>1. Next
    BY <1>1, <1>3 DEF vars, Lone
  <2>2. ~\E w \in Uploads : Goes(w)
    BY <1>1, <1>3 DEF Goes, Lone, Serving
  <2>3. PICK w \in Uploads, v \in Versions, n \in Names, b \in BOOLEAN :
          Starts(w, v, n, b) /\ Begin(w, v, n, b)
    BY <1>1, <1>3, <2>1, <2>2, UpCases DEF Lone
  <2>4. w = u
    BY <1>1, <1>3, <2>3 DEF Starts, Lone
  <2>5. QED
    BY <1>1, <2>3, <2>4, BeginAlone
<1>4. CASE up[u].at # "new"
  <2>1. up'[u].ver = up[u].ver /\ up[u].ver \in Versions
    BY <1>4, UpKept DEF Typed, UpType
  <2>2. Lone(u)
    <3>1. ASSUME NEW w \in Uploads \ {u}, up[w].ver = up[u].ver
          PROVE  FALSE
      <4>1. up'[w].ver = up[w].ver
        BY <2>1, <3>1, UpKept
      <4>2. QED
        BY <1>1, <2>1, <3>1, <4>1 DEF Lone
    <3>2. QED
      BY <1>1, <1>2, <1>4, <3>1 DEF Lone
  <2>3. Unharmed(u)
    BY <2>2 DEF LoneInv
  <2>4. CASE UNCHANGED vars
    BY <1>4, <2>3, <2>4, LoneStays DEF vars
  <2>5. CASE Delete
    <3>1. UNCHANGED <<up, file>> /\ row' = [v \in Versions |-> None] /\ Disturb
      BY <2>5 DEF Delete
    <3>2. row'[up[u].ver] = None
      BY <2>1, <3>1
    <3>3. \A s \in Sweeps : sweep'[s].at = sweep[s].at /\ sweep'[s].valid = sweep[s].valid
      BY <3>1, DisturbSwept
    <3>4. QED
      BY <1>4, <2>3, <3>1, <3>2, <3>3, LoneStays
  <2>6. ASSUME NEW w \in Uploads, NEW v \in Versions, NEW n \in Names,
               Create(w, v, n) \/ UploadVersion(w, v, n)
        PROVE  Unharmed(u)'
    <3>1. PICK b \in BOOLEAN : Starts(w, v, n, b) /\ Begin(w, v, n, b)
      BY <2>6, BeginStarts DEF Create, UploadVersion
    <3>2. up'[u] = up[u]
      BY <1>4, <3>1 DEF Starts
    <3>3. \A s \in Sweeps : sweep'[s].at = sweep[s].at /\ sweep'[s].valid = sweep[s].valid
      BY <3>1, DisturbSwept DEF Begin
    <3>4. UNCHANGED <<row, file>>
      BY <3>1 DEF Begin
    <3>5. QED
      BY <1>4, <2>3, <3>2, <3>3, <3>4, LoneStays
  <2>7. ASSUME NEW w \in Uploads, Handler(w)
        PROVE  Unharmed(u)'
    <3>1. CASE w = u
      BY <2>2, <2>3, <2>7, <3>1, OwnStep
    <3>2. CASE w # u
      BY <2>2, <2>3, <2>7, <3>2, OthersStay
    <3>3. QED
      BY <3>1, <3>2
  <2>8. ASSUME NEW s \in Sweeps, SweepStep(s)
        PROVE  Unharmed(u)'
    BY <1>1, <2>2, <2>3, <2>8, SweepHarmless
  <2>9. QED
    BY <2>4, <2>5, <2>6, <2>7, <2>8, Cases
<1>5. QED
  BY <1>3, <1>4

LEMMA AlwaysUnharmed == Spec => [](Created /\ Owned /\ LoneInv)
<1>1. Init => Created /\ Owned /\ LoneInv
  BY Constants DEF Init, Created, Serving, Owned, LoneInv, Lone
<1>2. QED
  BY <1>1, AlwaysTyped, AlwaysSparing, CreatedStep, OwnedStep, LoneStep, PTL DEF Spec

\* Of any number of uploads, the one that alone attempted its version and met
\* no cleanup is what the reviewer was shown and what a download returns.
THEOREM ServedCorrect == Spec => []ServedAsReviewed
<1>1. ASSUME Typed, Owned, LoneInv
      PROVE  ServedAsReviewed
  <2>1. SUFFICES ASSUME NEW v \in Rowed, row[v].by \notin raced,
                        \A w \in Uploads : up[w].ver = v => w = row[v].by
                 PROVE  /\ row[v].content = row[v].by
                        /\ file[<<v, row[v].name>>] # None
                        /\ file[<<v, row[v].name>>].body = row[v].by
    BY DEF ServedAsReviewed
  <2>2. v \in Versions /\ row[v] # None /\ row[v].by \in Uploads
    BY <1>1 DEF Rowed, Typed, TypeOK, Rows
  <2>3. up[row[v].by].at = "done" /\ up[row[v].by].ver = v /\ up[row[v].by].name = row[v].name
    BY <1>1, <2>2 DEF Owned
  <2>4. Lone(row[v].by)
    BY <2>1, <2>2, <2>3 DEF Lone
  <2>5. Unharmed(row[v].by)
    BY <1>1, <2>2, <2>4 DEF LoneInv
  <2>6. QED
    BY <2>2, <2>3, <2>5 DEF Unharmed, Kept, Whole, Path
<1>2. QED
  BY <1>1, AlwaysTyped, AlwaysUnharmed, PTL
=============================================================================
