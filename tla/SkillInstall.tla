---------------------------- MODULE SkillInstall ----------------------------
(***************************************************************************)
(* kc-community install, update and uninstall (cmd/cli/cmd_install.go)     *)
(* against the public routes of the server (internal/handler/public.go).   *)
(* A command is a process of the user's: two may run at once, and one may  *)
(* be killed anywhere.  It shares two things with the others: the files    *)
(* skills/<name>/SKILL.md and the list installed.json, which it reads as a *)
(* whole, changes and writes back.  os.WriteFile empties the list first.   *)
(*                                                                         *)
(* What is served of a skill is approved or not at all.  A release writes  *)
(* the current version and then the content (ApproveVersion and            *)
(* SetCurrentVersion, see AssetReview): between the two they differ, and   *)
(* for good when the second fails or the version has no SKILL.md.  Nothing *)
(* keeps two assets from having one name: what GetByName finds of it may   *)
(* then change from call to call, as if it were released in between.       *)
(***************************************************************************)
EXTENDS Naturals

CONSTANTS
  Skills,      \* names
  Changing,    \* bound: the skills that are released and that calls fail for
  Commands,    \* processes
  MaxVersion,  \* bound on the releases of a skill
  Absent,      \* no SKILL.md, no record
  Unknown,     \* a record whose version could not be asked for
  ErrorPage,   \* the body of a refusal
  Partial      \* a SKILL.md whose writing failed

Versions == 1..MaxVersion

ASSUME SkillAssumption ==
  /\ MaxVersion \in Nat \ {0}
  /\ Changing \subseteq Skills
  /\ {Absent, Unknown, ErrorPage, Partial} \cap Versions = {}
  /\ Absent \notin {Unknown, ErrorPage, Partial}

VARIABLES
  approved,  \* skills the server serves
  version,   \* current_version of each
  content,   \* the version whose SKILL.md is served, or Absent
  disk,      \* SKILL.md of each skill: of a version, or what is in its place
  records,   \* what installed.json held when last whole: the version of each
  file,      \* installed.json: "absent", "empty" or "whole"
  cmd,       \* the commands
  unsure,    \* history: skills something has disturbed since they were installed
  spoilt     \* history: skills whose last SKILL.md was refused, or writing it failed

serverVars == <<approved, version, content>>
localVars == <<disk, records, file>>
vars == <<serverVars, localVars, cmd, unsure, spoilt>>

NoRecords == [n \in Skills |-> Absent]

\* works: the skills it was called for and has not skipped; todo: those left; skill: the one in
\* hand; version, records: what it read or will write.
Idle == [at |-> "idle", kind |-> "install", works |-> {}, todo |-> {},
         skill |-> Absent, version |-> Unknown, records |-> NoRecords,
         updated |-> FALSE, loose |-> FALSE]

Init ==
  /\ approved = Skills
  /\ version = [n \in Skills |-> 1]
  /\ content = [n \in Skills |-> 1]
  /\ disk = NoRecords
  /\ records = NoRecords
  /\ file = "absent"
  /\ cmd = [c \in Commands |-> Idle]
  /\ unsure = {}
  /\ spoilt = {}

Busy(c) == cmd[c].at # "idle"
At(c, place) == cmd[c].at = place
Listed == {n \in Skills : records[n] # Absent}
Torn == {n \in Skills : version[n] # content[n]}
Doubt(names) == unsure' = unsure \cup names
Served(n) == n \in approved /\ content[n] # Absent
Put(n, what) == disk' = [disk EXCEPT ![n] = what]

\* A command starts: it and those that run may lose records of each other's.
\* One that is alone and sets the skill up anew, or removes it, leaves no doubt
\* of what was.
Start(c, call) ==
  LET others == {d \in Commands : Busy(d)} IN
  /\ ~Busy(c)
  /\ cmd' = [d \in Commands |->
               IF d = c THEN [call EXCEPT !.loose = others # {}]
                        ELSE [cmd[d] EXCEPT !.loose = @ \/ d \in others]]
  /\ unsure' = IF others # {} THEN Skills
               ELSE IF call.kind = "update" \/ file = "empty" THEN unsure
               ELSE (unsure \ call.works) \cup (call.works \cap Torn)

Go(c, call) == cmd' = [cmd EXCEPT ![c] = call]
End(c) == cmd' = [cmd EXCEPT ![c] = Idle]

\* The version of a skill the server may answer, or what stands for none.
Answers(names, none) ==
  {version[n] : n \in names \cap approved} \cup {none : n \in names \cap Changing}

\* The list with one entry set, taken away when what is Absent.
Entry(recs, names, what) == [n \in Skills |-> IF n \in names THEN what ELSE recs[n]]

-----------------------------------------------------------------------------
(* Wrong forms of actions below, each a plausible slip in the code.        *)

\* Only the skills asked for are kept of the list.
UpdateReadNamed(c, names) ==
  /\ file = "whole"
  /\ names \subseteq Listed
  /\ Start(c, [Idle EXCEPT !.at = "info", !.kind = "update", !.works = names,
                 !.todo = names, !.records = Entry(records, Skills \ names, Absent)])
  /\ UNCHANGED <<serverVars, localVars, spoilt>>

\* A record without a version is not updated.
UpdateInfoKnown(c, n) ==
  /\ At(c, "info")
  /\ n \in cmd[c].todo
  /\ IF n \in approved /\ cmd[c].records[n] \notin {Unknown, version[n]}
       THEN Go(c, [cmd[c] EXCEPT !.at = "content", !.skill = n, !.version = version[n]])
       ELSE Go(c, [cmd[c] EXCEPT !.todo = @ \ {n}])
  /\ UNCHANGED <<serverVars, localVars, unsure, spoilt>>

\* The new version is noted although the file could not be written.
UpdateContentUnwritten(c) ==
  /\ At(c, "content")
  /\ Go(c, [cmd[c] EXCEPT !.at = "info", !.todo = @ \ {cmd[c].skill}, !.skill = Absent,
                          !.version = Unknown, !.updated = TRUE,
                          !.records[cmd[c].skill] = cmd[c].version])
  /\ UNCHANGED <<serverVars, localVars, unsure, spoilt>>

-----------------------------------------------------------------------------
(* install: SKILL.md is fetched and written, the version asked for, the    *)
(* list read, changed and written.                                         *)

InstallFetch(c, n) ==
  /\ Served(n)
  /\ Start(c, [Idle EXCEPT !.at = "version", !.works = {n}])
  /\ Put(n, content[n])
  /\ spoilt' = spoilt \ {n}
  /\ UNCHANGED <<serverVars, records, file>>

\* SKILL.md cannot be written whole, and nothing more is done.
InstallSpoil(c, n) ==
  /\ n \in Changing
  /\ Served(n)
  /\ ~Busy(c)
  /\ Put(n, Partial)
  /\ Doubt({n})
  /\ spoilt' = spoilt \cup {n}
  /\ UNCHANGED <<serverVars, records, file, cmd>>

\* The version is asked for, Unknown when that fails or the skill is not served
\* any more; then the list is read, which when it is not there, or empty, counts
\* as a list of nothing.
InstallRead(c) ==
  LET recs == IF file = "whole" THEN records ELSE NoRecords IN
  /\ At(c, "version")
  /\ \E v \in Answers(cmd[c].works, Unknown) :
       Go(c, [cmd[c] EXCEPT !.at = "list", !.loose = @ \/ file = "empty",
                            !.records = Entry(recs, cmd[c].works, v)])
  /\ UNCHANGED <<serverVars, localVars, unsure, spoilt>>

-----------------------------------------------------------------------------
(* update: the list is read once; of each skill asked for the version is   *)
(* compared, SKILL.md fetched and written and the version noted; the list  *)
(* is written if any was.                                                  *)

UpdateRead(c, names) ==
  /\ file = "whole"
  /\ names \subseteq Listed
  /\ Start(c, [Idle EXCEPT !.at = "info", !.kind = "update", !.works = names,
                           !.todo = names, !.records = records])
  /\ UNCHANGED <<serverVars, localVars, spoilt>>

UpdateInfo(c, n) ==
  /\ At(c, "info")
  /\ n \in cmd[c].todo
  /\ IF n \in approved /\ cmd[c].records[n] # version[n]
       THEN Go(c, [cmd[c] EXCEPT !.at = "content", !.skill = n, !.version = version[n]])
       ELSE Go(c, [cmd[c] EXCEPT !.todo = @ \ {n}])
  /\ UNCHANGED <<serverVars, localVars, unsure, spoilt>>

\* The new version is noted once SKILL.md is written.
NoteUpdate(c) ==
  Go(c, [cmd[c] EXCEPT !.at = "info", !.todo = @ \ {cmd[c].skill}, !.skill = Absent,
                       !.version = Unknown, !.updated = TRUE,
                       !.records[cmd[c].skill] = cmd[c].version])

UpdateContent(c) ==
  LET n == cmd[c].skill IN
  /\ At(c, "content")
  /\ Served(n)
  /\ Put(n, content[n])
  /\ NoteUpdate(c)
  /\ Doubt({n} \cap Torn)
  /\ spoilt' = spoilt \ {n}
  /\ UNCHANGED <<serverVars, records, file>>

\* The status of the answer is not looked at: the body of a refusal is written
\* as SKILL.md, that of a 404, or of a 429 or a 500, and the version noted.
UpdateRefused(c) ==
  LET n == cmd[c].skill IN
  /\ At(c, "content")
  /\ n \in Changing \/ ~Served(n)
  /\ Put(n, ErrorPage)
  /\ NoteUpdate(c)
  /\ spoilt' = spoilt \cup {n}
  /\ UNCHANGED <<serverVars, records, file, unsure>>

\* A call fails: the skill is left as it is.
Skip(c, n) ==
  Go(c, [cmd[c] EXCEPT !.at = "info", !.todo = @ \ {n}, !.works = @ \ {n},
                       !.skill = Absent, !.version = Unknown])

UpdateSkip(c, n) ==
  /\ n \in Changing
  /\ \/ At(c, "info") /\ n \in cmd[c].todo
     \/ At(c, "content") /\ n = cmd[c].skill
  /\ Skip(c, n)
  /\ UNCHANGED <<serverVars, localVars, unsure, spoilt>>

\* SKILL.md cannot be written whole: the same, with what was written of it.
UpdateSpoil(c, n) ==
  /\ n \in Changing
  /\ At(c, "content") /\ n = cmd[c].skill
  /\ Put(n, Partial)
  /\ Skip(c, n)
  /\ spoilt' = spoilt \cup {n}
  /\ UNCHANGED <<serverVars, records, file, unsure>>

UpdateNothing(c) ==
  /\ At(c, "info")
  /\ cmd[c].todo = {}
  /\ ~cmd[c].updated
  /\ End(c)
  /\ UNCHANGED <<serverVars, localVars, unsure, spoilt>>

-----------------------------------------------------------------------------
(* uninstall: the directory is removed, then the list read and written.    *)

UninstallRemove(c, n) ==
  /\ Start(c, [Idle EXCEPT !.at = "filter", !.kind = "uninstall", !.works = {n}])
  /\ Put(n, Absent)
  /\ spoilt' = spoilt \ {n}
  /\ UNCHANGED <<serverVars, records, file>>

\* A list that cannot be read is left alone.
UninstallFilter(c) ==
  /\ At(c, "filter")
  /\ IF file = "whole"
       THEN Go(c, [cmd[c] EXCEPT !.at = "list",
                                 !.records = Entry(records, cmd[c].works, Absent)])
       ELSE End(c)
  /\ UNCHANGED <<serverVars, localVars, unsure, spoilt>>

-----------------------------------------------------------------------------
(* os.WriteFile of the list, by each of the three.                         *)

Truncate(c) ==
  /\ \/ At(c, "list")
     \/ At(c, "info") /\ cmd[c].todo = {} /\ cmd[c].updated
  /\ file' = "empty"
  /\ Go(c, [cmd[c] EXCEPT !.at = "write"])
  /\ UNCHANGED <<serverVars, disk, records, unsure, spoilt>>

Write(c) ==
  /\ At(c, "write")
  /\ file' = "whole"
  /\ records' = cmd[c].records
  /\ End(c)
  /\ UNCHANGED <<serverVars, disk, unsure, spoilt>>

\* The process is killed, or cannot write the list and says nothing of it.
Kill(c) ==
  /\ Busy(c)
  /\ End(c)
  /\ Doubt(IF At(c, "write") THEN Skills ELSE cmd[c].works)
  /\ UNCHANGED <<serverVars, localVars, spoilt>>

-----------------------------------------------------------------------------
(* The server: releases, whose two writes come in either order and of      *)
(* which one may fail, and decisions on the asset.                         *)

Disturb(n) == Doubt({n} \cap UNION {cmd[c].works : c \in Commands})

Point(n) ==
  /\ version' \in {[version EXCEPT ![n] = v] : v \in Versions \ {version[n]}}
  /\ Disturb(n)
  /\ UNCHANGED <<approved, content, localVars, cmd, spoilt>>

Sync(n) ==
  /\ content' \in {[content EXCEPT ![n] = v] : v \in (Versions \cup {Absent}) \ {content[n]}}
  /\ Disturb(n)
  /\ UNCHANGED <<approved, version, localVars, cmd, spoilt>>

Decide(n) ==
  /\ approved' = (approved \ {n}) \cup ({n} \ approved)
  /\ Disturb(n)
  /\ UNCHANGED <<version, content, localVars, cmd, spoilt>>

CommandStep(c) ==
  \/ \E n \in Skills : \/ InstallFetch(c, n) \/ InstallSpoil(c, n) \/ UninstallRemove(c, n)
                       \/ UpdateInfo(c, n) \/ UpdateSkip(c, n) \/ UpdateSpoil(c, n)
  \/ \E names \in {{n} : n \in Skills} \cup {Listed} : UpdateRead(c, names)
  \/ InstallRead(c)
  \/ UpdateContent(c) \/ UpdateRefused(c) \/ UpdateNothing(c)
  \/ UninstallFilter(c)
  \/ Truncate(c) \/ Write(c) \/ Kill(c)

Next ==
  \/ \E c \in Commands : CommandStep(c)
  \/ \E n \in Changing : Point(n) \/ Sync(n) \/ Decide(n)

Spec == Init /\ [][Next]_vars

-----------------------------------------------------------------------------
Noted == Versions \cup {Unknown, Absent}
Places == {"idle", "version", "info", "content", "filter", "list", "write"}

TypeOK ==
  /\ approved \in SUBSET Skills
  /\ version \in [Skills -> Versions]
  /\ content \in [Skills -> Versions \cup {Absent}]
  /\ disk \in [Skills -> Versions \cup {Absent, ErrorPage, Partial}]
  /\ records \in [Skills -> Noted]
  /\ file \in {"absent", "empty", "whole"}
  /\ cmd \in [Commands -> [at : Places, kind : {"install", "update", "uninstall"},
       works : SUBSET Skills, todo : SUBSET Skills,
       skill : Skills \cup {Absent}, version : Versions \cup {Unknown},
       records : [Skills -> Noted], updated : BOOLEAN, loose : BOOLEAN]]
  /\ unsure \in SUBSET Skills
  /\ spoilt \in SUBSET Skills

\* Between commands the list tells what is in the files: a skill is listed if
\* its file is there, and under the version the file is of, unless the last time
\* it was to be written the server refused it or the writing failed.  A release
\* or a decision during a command, a release half done, two commands at once and
\* one that is killed or fails spoil that, and an install or uninstall by itself
\* restores it.
ListTellsFiles ==
  \A n \in Skills \ unsure :
    (\A c \in Commands : n \notin cmd[c].works) =>
      /\ records[n] = Absent <=> disk[n] = Absent
      /\ records[n] \in Versions /\ n \notin spoilt => records[n] = disk[n]

\* A command changes the list of other skills only when another ran at the same
\* time, or when one killed at the wrong moment had left the list empty.
BystandersKept ==
  [][\A n \in Skills :
       records'[n] # records[n] =>
         \E c \in Commands : /\ At(c, "write")
                             /\ n \in cmd[c].works \/ cmd[c].loose]_vars

\* An update that ends leaves every skill it was asked for listed at the version
\* the server has, and with its file, but for those it skipped, could not see, or
\* was disturbed at.  A file the server refused, now or before, or that could not
\* be written stays what it is, under that version.
UpdateCatchesUp ==
  [][\A c \in Commands :
       cmd[c].kind = "update" /\ Busy(c) /\ cmd'[c] = Idle =>
         \A n \in (cmd[c].works \cap approved) \ unsure' :
           records'[n] = version[n] /\ (n \notin spoilt' => disk'[n] = version[n])]_vars
=============================================================================
