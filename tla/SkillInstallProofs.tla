------------------------- MODULE SkillInstallProofs -------------------------
(***************************************************************************)
(* Proofs about SkillInstall: the list tells of the files, commands leave  *)
(* other skills' records alone, and an update catches up.                  *)
(***************************************************************************)
EXTENDS SkillInstall, TLAPS

USE SkillAssumption

CmdSet == [at : Places, kind : {"install", "update", "uninstall"},
           works : SUBSET Skills, todo : SUBSET Skills,
           skill : Skills \cup {Absent}, version : Versions \cup {Unknown},
           records : [Skills -> Noted], updated : BOOLEAN, loose : BOOLEAN]

\* What each place of a command says of it.
Shape(c) ==
  /\ At(c, "idle") => cmd[c] = Idle
  /\ cmd[c].todo \subseteq cmd[c].works
  /\ cmd[c].at \in {"version", "filter", "list", "write"} => cmd[c].todo = {}
  /\ At(c, "version") => cmd[c].kind = "install" /\ \E n \in Skills : cmd[c].works = {n}
  /\ cmd[c].at \in {"info", "content"} => cmd[c].kind = "update"
  /\ cmd[c].at \in {"filter", "list"} => cmd[c].kind # "update"
  /\ At(c, "content") => cmd[c].skill \in cmd[c].todo /\ cmd[c].version \in Versions
  /\ cmd[c].kind = "update" => \A n \in cmd[c].works : cmd[c].records[n] # Absent

\* Commands that overlap know it, and then nothing is sure.
Overlap ==
  /\ \A c, d \in Commands : c # d /\ Busy(c) /\ Busy(d) => cmd[c].loose
  /\ \A c \in Commands : cmd[c].loose => unsure = Skills
  /\ file = "empty" => unsure = Skills \/ \E c \in Commands : At(c, "write")
  /\ file = "absent" => records = NoRecords

\* The command holds a list.
Holds(c) == cmd[c].at \in {"info", "content", "list", "write"}

\* The list a command holds differs from the one in the file only where the
\* command has done its work.
Kept(c) ==
  Holds(c) /\ ~cmd[c].loose =>
    \A n \in Skills : n \notin cmd[c].works \/ n \in cmd[c].todo => cmd[c].records[n] = records[n]

\* A record tells of a file, unless that is spoilt.
Tells(r, f, bad) == (r = Absent <=> f = Absent) /\ (r \in Versions /\ ~bad => r = f)

\* What a command knows of a skill it works on and nothing disturbed.
Work(c, n) ==
  /\ At(c, "version") => disk[n] = version[n]
  /\ At(c, "filter") => disk[n] = Absent
  /\ Holds(c) => Tells(cmd[c].records[n], disk[n], n \in spoilt)
  /\ cmd[c].kind = "update" =>
       /\ ~cmd[c].updated => cmd[c].records[n] = records[n]
       /\ n \notin cmd[c].todo /\ n \in approved =>
            cmd[c].records[n] = version[n] /\ (n \notin spoilt => disk[n] = version[n])
       /\ At(c, "content") /\ cmd[c].skill = n => n \in approved /\ cmd[c].version = version[n]

Sure ==
  \A n \in Skills \ unsure :
    /\ \A c \in Commands : n \in cmd[c].works => Work(c, n)
    /\ (\A c \in Commands : n \notin cmd[c].works) => Tells(records[n], disk[n], n \in spoilt)
-----------------------------------------------------------------------------
Typed == TypeOK /\ \A c \in Commands : Shape(c)

\* One command is changed, by itself.
Changes(c, call) ==
  /\ cmd' \in [Commands -> CmdSet]
  /\ cmd'[c] = call
  /\ \A d \in Commands \ {c} : cmd'[d] = cmd[d]

\* What stays unsure when a command starts.
Settles(call, others) ==
  /\ others # {} => unsure' = Skills
  /\ others = {} /\ (call.kind = "update" \/ file = "empty") => unsure' = unsure
  /\ others = {} /\ call.kind # "update" /\ file # "empty" =>
       unsure' = (unsure \ call.works) \cup (call.works \cap Torn)

\* A command starts, and it and those that run know of each other.
Starts(c, call) ==
  LET others == {d \in Commands : Busy(d)} IN
  /\ c \notin others
  /\ cmd' \in [Commands -> CmdSet]
  /\ \A d \in Commands :
       LET new == cmd'[d]
           old == IF d = c THEN call ELSE cmd[d] IN
       /\ new.at = old.at /\ new.kind = old.kind /\ new.works = old.works
       /\ new.todo = old.todo /\ new.skill = old.skill /\ new.version = old.version
       /\ new.records = old.records /\ new.updated = old.updated
       /\ d = c => new.loose = (others # {})
       /\ d # c => new.loose = (cmd[d].loose \/ d \in others)
  /\ Settles(call, others)

LEMMA GoChanges ==
  ASSUME Typed, NEW c \in Commands, NEW call \in CmdSet, Go(c, call)
  PROVE  Changes(c, call)
BY DEF Typed, TypeOK, CmdSet, Go, Changes

LEMMA IdleCall ==
  /\ Idle \in CmdSet /\ Idle.at = "idle" /\ Idle.works = {} /\ Idle.todo = {}
  /\ ~Idle.loose /\ ~Idle.updated /\ Idle.kind = "install"
BY DEF Idle, CmdSet, Places, NoRecords, Noted

LEMMA EndChanges ==
  ASSUME Typed, NEW c \in Commands, End(c)
  PROVE  Changes(c, Idle)
BY IdleCall, GoChanges DEF End, Go

LEMMA LooseCall ==
  ASSUME NEW b \in CmdSet, NEW l \in BOOLEAN, NEW d, d = [b EXCEPT !.loose = l]
  PROVE  /\ d \in CmdSet /\ d.at = b.at /\ d.kind = b.kind /\ d.works = b.works
         /\ d.todo = b.todo /\ d.skill = b.skill /\ d.version = b.version
         /\ d.records = b.records /\ d.updated = b.updated /\ d.loose = l
BY DEF CmdSet

LEMMA StartStarts ==
  ASSUME Typed, NEW c \in Commands, NEW call \in CmdSet, Start(c, call)
  PROVE  Starts(c, call)
<1> DEFINE others == {d \in Commands : Busy(d)}
           old(d) == IF d = c THEN call ELSE cmd[d]
           l(d) == IF d = c THEN others # {} ELSE cmd[d].loose \/ d \in others
<1>1. cmd \in [Commands -> CmdSet] /\ \A d \in Commands : cmd[d].loose \in BOOLEAN
  BY DEF Typed, TypeOK, CmdSet
<1>2. \A d \in Commands : old(d) \in CmdSet /\ l(d) \in BOOLEAN
  BY <1>1
<1>3. c \notin others /\ cmd' = [d \in Commands |-> [old(d) EXCEPT !.loose = l(d)]]
  BY DEF Start, Busy
<1> HIDE DEF l
<1>4. ASSUME NEW d \in Commands
      PROVE  /\ cmd'[d] \in CmdSet
             /\ LET new == cmd'[d] IN
                /\ new.at = old(d).at /\ new.kind = old(d).kind /\ new.works = old(d).works
                /\ new.todo = old(d).todo /\ new.skill = old(d).skill
                /\ new.version = old(d).version
                /\ new.records = old(d).records /\ new.updated = old(d).updated
                /\ new.loose = l(d)
  <2>1. PICK b \in CmdSet : b = old(d)
    BY <1>2
  <2>2. PICK k \in BOOLEAN : k = l(d)
    BY <1>2
  <2>3. cmd'[d] = [b EXCEPT !.loose = k]
    BY <1>3, <2>1, <2>2
  <2> HIDE DEF old
  <2>4. QED
    BY <2>1, <2>2, <2>3, LooseCall
<1>5. cmd' \in [Commands -> CmdSet]
  BY <1>3, <1>4
<1>6. Settles(call, others)
  BY DEF Start, Settles
<1>7. QED
  BY <1>3, <1>4, <1>5, <1>6, ZenonT(60) DEF Starts, l
-----------------------------------------------------------------------------
(* What each action makes of its command.                                  *)

Call(d, at, kind, works, todo, recs, updated, loose) ==
  /\ d.at = at /\ d.kind = kind /\ d.works = works /\ d.todo = todo
  /\ d.records = recs /\ d.updated = updated /\ d.loose = loose

LEMMA EntryType ==
  ASSUME NEW recs \in [Skills -> Noted], NEW names, NEW what \in Noted
  PROVE  Entry(recs, names, what) \in [Skills -> Noted]
BY DEF Entry

LEMMA CmdType ==
  ASSUME Typed, NEW c \in Commands
  PROVE  /\ cmd[c] \in CmdSet /\ cmd \in [Commands -> CmdSet]
         /\ version \in [Skills -> Versions] /\ records \in [Skills -> Noted]
         /\ NoRecords \in [Skills -> Noted] /\ Versions \subseteq Noted
         /\ Unknown \in Noted /\ Absent \in Noted
BY DEF Typed, TypeOK, CmdSet, NoRecords, Noted

LEMMA FetchCall ==
  ASSUME Typed, NEW c \in Commands, NEW n \in Skills, InstallFetch(c, n)
  PROVE  \E call \in CmdSet :
           Starts(c, call) /\ Call(call, "version", "install", {n}, {}, NoRecords, FALSE, FALSE)
<1> DEFINE call == [Idle EXCEPT !.at = "version", !.works = {n}]
<1>1. call \in CmdSet /\ Call(call, "version", "install", {n}, {}, NoRecords, FALSE, FALSE)
  BY DEF Idle, CmdSet, Places, Call, NoRecords, Noted
<1> HIDE DEF call
<1>2. Start(c, call)
  BY DEF InstallFetch, call
<1>3. QED
  BY <1>1, <1>2, StartStarts

LEMMA UninstallCall ==
  ASSUME Typed, NEW c \in Commands, NEW n \in Skills, UninstallRemove(c, n)
  PROVE  \E call \in CmdSet :
           Starts(c, call) /\ Call(call, "filter", "uninstall", {n}, {}, NoRecords, FALSE, FALSE)
<1> DEFINE call == [Idle EXCEPT !.at = "filter", !.kind = "uninstall", !.works = {n}]
<1>1. call \in CmdSet /\ Call(call, "filter", "uninstall", {n}, {}, NoRecords, FALSE, FALSE)
  BY DEF Idle, CmdSet, Places, Call, NoRecords, Noted
<1> HIDE DEF call
<1>2. Start(c, call)
  BY DEF UninstallRemove, call
<1>3. QED
  BY <1>1, <1>2, StartStarts

LEMMA UpdateCall ==
  ASSUME Typed, NEW c \in Commands, NEW names, UpdateRead(c, names)
  PROVE  /\ names \subseteq Skills
         /\ \E call \in CmdSet :
              Starts(c, call) /\ Call(call, "info", "update", names, names, records, FALSE, FALSE)
<1> DEFINE call == [Idle EXCEPT !.at = "info", !.kind = "update", !.works = names,
                                !.todo = names, !.records = records]
<1>0. names \subseteq Skills
  BY DEF UpdateRead, Listed
<1>1. call \in CmdSet /\ Call(call, "info", "update", names, names, records, FALSE, FALSE)
  <2>1. PICK recs \in [Skills -> Noted] : recs = records
    BY CmdType
  <2>2. call = [Idle EXCEPT !.at = "info", !.kind = "update", !.works = names,
                            !.todo = names, !.records = recs]
    BY <2>1
  <2>3. QED
    BY <1>0, <2>1, <2>2 DEF Idle, CmdSet, Places, Call, NoRecords, Noted
<1> HIDE DEF call
<1>2. Start(c, call)
  BY DEF UpdateRead, call
<1>3. QED
  BY <1>0, <1>1, <1>2, StartStarts

LEMMA ReadCall ==
  ASSUME Typed, NEW c \in Commands, InstallRead(c)
  PROVE  LET recs == IF file = "whole" THEN records ELSE NoRecords
             b == cmd[c] IN
         \E v \in Answers(b.works, Unknown), call \in CmdSet :
           /\ Changes(c, call) /\ v \in Versions \cup {Unknown}
           /\ Call(call, "list", b.kind, b.works, b.todo, Entry(recs, b.works, v), b.updated,
                   b.loose \/ file = "empty")
<1> DEFINE recs == IF file = "whole" THEN records ELSE NoRecords
<1>1. PICK b \in CmdSet : b = cmd[c]
  BY CmdType
<1>2. PICK v \in Answers(b.works, Unknown) :
        Go(c, [b EXCEPT !.at = "list", !.loose = @ \/ file = "empty",
                        !.records = Entry(recs, b.works, v)])
  BY <1>1 DEF InstallRead
<1>3. v \in Versions \cup {Unknown} /\ b.works \subseteq Skills
  BY CmdType DEF Answers, CmdSet
<1>4. PICK new \in [Skills -> Noted] : new = Entry(recs, b.works, v)
  BY <1>3, CmdType, EntryType
<1>5. PICK l \in BOOLEAN : l = (b.loose \/ file = "empty")
  BY DEF CmdSet
<1> DEFINE call == [b EXCEPT !.at = "list", !.loose = l, !.records = new]
<1>6. call \in CmdSet /\ Call(call, "list", b.kind, b.works, b.todo, new, b.updated, l)
  BY DEF CmdSet, Places, Call
<1>7. Go(c, call)
  BY <1>2, <1>4, <1>5
<1> HIDE DEF call
<1>8. QED
  BY <1>1, <1>3, <1>4, <1>5, <1>6, <1>7, GoChanges

\* The version is not what is on record.
LEMMA InfoCall ==
  ASSUME Typed, NEW c \in Commands, NEW n \in Skills, UpdateInfo(c, n)
  PROVE  LET b == cmd[c] IN
         \E call \in CmdSet :
           /\ Changes(c, call)
           /\ \/ /\ n \in approved /\ b.records[n] # version[n]
                 /\ Call(call, "content", b.kind, b.works, b.todo, b.records, b.updated, b.loose)
                 /\ call.skill = n /\ call.version = version[n]
              \/ /\ n \notin approved \/ b.records[n] = version[n]
                 /\ Call(call, "info", b.kind, b.works, b.todo \ {n}, b.records, b.updated,
                         b.loose)
<1>1. PICK b \in CmdSet : b = cmd[c]
  BY CmdType
<1>2. PICK v \in Versions : v = version[n]
  BY CmdType
<1> DEFINE yes == [b EXCEPT !.at = "content", !.skill = n, !.version = v]
           no == [b EXCEPT !.todo = @ \ {n}]
<1>3. /\ yes \in CmdSet /\ yes.skill = n /\ yes.version = v
      /\ Call(yes, "content", b.kind, b.works, b.todo, b.records, b.updated, b.loose)
  BY DEF CmdSet, Places, Call
<1>4. /\ no \in CmdSet
      /\ Call(no, b.at, b.kind, b.works, b.todo \ {n}, b.records, b.updated, b.loose)
  BY DEF CmdSet, Places, Call
<1>5. /\ b.at = "info"
      /\ \/ n \in approved /\ b.records[n] # v /\ Go(c, yes)
         \/ (n \notin approved \/ b.records[n] = v) /\ Go(c, no)
  BY <1>1, <1>2 DEF UpdateInfo, At
<1> HIDE DEF yes, no
<1>6. QED
  BY <1>1, <1>2, <1>3, <1>4, <1>5, GoChanges

LEMMA ContentCall ==
  ASSUME Typed, NEW c \in Commands, UpdateContent(c) \/ UpdateRefused(c)
  PROVE  LET b == cmd[c] IN
         /\ b.skill \in b.todo /\ b.skill \in Skills /\ b.version \in Versions
         /\ \E call \in CmdSet :
              /\ Changes(c, call)
              /\ Call(call, "info", b.kind, b.works, b.todo \ {b.skill},
                      [b.records EXCEPT ![b.skill] = b.version], TRUE, b.loose)
<1>1. PICK b \in CmdSet : b = cmd[c]
  BY CmdType
<1>2. b.skill \in b.todo /\ b.skill \in Skills /\ b.version \in Versions
  BY <1>1 DEF UpdateContent, UpdateRefused, Typed, Shape, At, CmdSet
<1>3. PICK n \in Skills : n = b.skill
  BY <1>2
<1>4. PICK new \in [Skills -> Noted] : new = [b.records EXCEPT ![n] = b.version]
  BY <1>2 DEF CmdSet, Noted
<1> DEFINE call == [b EXCEPT !.at = "info", !.todo = @ \ {n}, !.skill = Absent,
                             !.version = Unknown, !.updated = TRUE, !.records = new]
<1>5. /\ call \in CmdSet
      /\ Call(call, "info", b.kind, b.works, b.todo \ {n}, new, TRUE, b.loose)
  BY DEF CmdSet, Places, Call
<1>6. Go(c, call)
  <2>1. call = [b EXCEPT !.at = "info", !.todo = @ \ {n}, !.skill = Absent,
                         !.version = Unknown, !.updated = TRUE, !.records[n] = b.version]
    BY <1>4 DEF CmdSet
  <2>2. QED
    BY <1>1, <1>3, <2>1 DEF UpdateContent, UpdateRefused, NoteUpdate
<1> HIDE DEF call
<1>7. QED
  BY <1>1, <1>2, <1>3, <1>4, <1>5, <1>6, GoChanges

LEMMA SkipCall ==
  ASSUME Typed, NEW c \in Commands, NEW n \in Skills, UpdateSkip(c, n) \/ UpdateSpoil(c, n)
  PROVE  LET b == cmd[c] IN
         /\ n \in b.todo
         /\ \E call \in CmdSet :
              /\ Changes(c, call)
              /\ Call(call, "info", b.kind, b.works \ {n}, b.todo \ {n}, b.records, b.updated,
                      b.loose)
<1>1. PICK b \in CmdSet : b = cmd[c]
  BY CmdType
<1> DEFINE call == [b EXCEPT !.at = "info", !.todo = @ \ {n}, !.works = @ \ {n},
                             !.skill = Absent, !.version = Unknown]
<1>2. /\ call \in CmdSet
      /\ Call(call, "info", b.kind, b.works \ {n}, b.todo \ {n}, b.records, b.updated, b.loose)
  BY DEF CmdSet, Places, Call
<1>3. Go(c, call) /\ n \in b.todo
  BY <1>1 DEF UpdateSkip, UpdateSpoil, Skip, Typed, Shape, At
<1> HIDE DEF call
<1>4. QED
  BY <1>1, <1>2, <1>3, GoChanges

LEMMA FilterCall ==
  ASSUME Typed, NEW c \in Commands, UninstallFilter(c), file = "whole"
  PROVE  LET b == cmd[c] IN
         \E call \in CmdSet :
           /\ Changes(c, call)
           /\ Call(call, "list", b.kind, b.works, b.todo, Entry(records, b.works, Absent),
                   b.updated, b.loose)
<1>1. PICK b \in CmdSet : b = cmd[c]
  BY CmdType
<1>2. PICK new \in [Skills -> Noted] : new = Entry(records, b.works, Absent)
  BY CmdType, EntryType
<1> DEFINE call == [b EXCEPT !.at = "list", !.records = new]
<1>3. call \in CmdSet /\ Call(call, "list", b.kind, b.works, b.todo, new, b.updated, b.loose)
  BY DEF CmdSet, Places, Call
<1>4. Go(c, call)
  BY <1>1, <1>2 DEF UninstallFilter
<1> HIDE DEF call
<1>5. QED
  BY <1>1, <1>2, <1>3, <1>4, GoChanges

LEMMA TruncateCall ==
  ASSUME Typed, NEW c \in Commands, Truncate(c)
  PROVE  LET b == cmd[c] IN
         /\ b.todo = {} /\ b.at \in {"list", "info"}
         /\ \E call \in CmdSet :
              /\ Changes(c, call)
              /\ Call(call, "write", b.kind, b.works, {}, b.records, b.updated, b.loose)
<1>1. PICK b \in CmdSet : b = cmd[c]
  BY CmdType
<1> DEFINE call == [b EXCEPT !.at = "write"]
<1>2. call \in CmdSet /\ Call(call, "write", b.kind, b.works, b.todo, b.records, b.updated, b.loose)
  BY DEF CmdSet, Places, Call
<1>3. Go(c, call) /\ b.todo = {} /\ b.at \in {"list", "info"}
  BY <1>1 DEF Truncate, Typed, Shape, At
<1> HIDE DEF call
<1>4. QED
  BY <1>1, <1>2, <1>3, GoChanges
-----------------------------------------------------------------------------
(* Types, and what each place of a command says of it.                     *)

LEMMA Cases ==
  ASSUME [Next]_vars
  PROVE  \/ \E c \in Commands, n \in Skills :
              \/ InstallFetch(c, n) \/ InstallSpoil(c, n) \/ UninstallRemove(c, n)
              \/ UpdateInfo(c, n) \/ UpdateSkip(c, n) \/ UpdateSpoil(c, n)
         \/ \E c \in Commands, names \in SUBSET Skills : UpdateRead(c, names)
         \/ \E c \in Commands : \/ InstallRead(c) \/ UpdateContent(c) \/ UpdateRefused(c)
                                \/ UpdateNothing(c) \/ UninstallFilter(c) \/ Truncate(c)
                                \/ Write(c) \/ Kill(c)
         \/ \E n \in Changing : Point(n) \/ Sync(n) \/ Decide(n)
         \/ UNCHANGED vars
BY DEF Next, CommandStep, Listed

Commanded == cmd' \in [Commands -> CmdSet] /\ \A d \in Commands : Shape(d)'

\* Shape of a call by itself.
Shaped(b) ==
  /\ b.at = "idle" => b = Idle
  /\ b.todo \subseteq b.works
  /\ b.at \in {"version", "filter", "list", "write"} => b.todo = {}
  /\ b.at = "version" => b.kind = "install" /\ \E n \in Skills : b.works = {n}
  /\ b.at \in {"info", "content"} => b.kind = "update"
  /\ b.at \in {"filter", "list"} => b.kind # "update"
  /\ b.at = "content" => b.skill \in b.todo /\ b.version \in Versions
  /\ b.kind = "update" => \A n \in b.works : b.records[n] # Absent

LEMMA ShapeShaped ==
  ASSUME NEW c \in Commands
  PROVE  (Shape(c) <=> Shaped(cmd[c])) /\ (Shape(c)' <=> Shaped(cmd'[c]))
BY DEF Shape, Shaped, At

LEMMA ChangesCommanded ==
  ASSUME Typed, NEW c \in Commands, NEW call, Changes(c, call), Shaped(call)
  PROVE  Commanded
BY ShapeShaped DEF Typed, Changes, Commanded

LEMMA StartsCommanded ==
  ASSUME Typed, NEW c \in Commands, NEW call \in CmdSet, Starts(c, call), Shaped(call),
         call.at # "idle"
  PROVE  Commanded
<1> SUFFICES ASSUME NEW d \in Commands PROVE Shaped(cmd'[d])
  BY ShapeShaped DEF Starts, Commanded
<1>1. Shaped(cmd[d]) /\ (d # c /\ ~Busy(d) => cmd'[d].loose = cmd[d].loose)
  BY ShapeShaped, CmdType DEF Typed, Starts, CmdSet
<1>2. CASE d = c
  BY <1>2 DEF Starts, Shaped
<1>3. CASE d # c /\ cmd[d].at # "idle"
  BY <1>1, <1>3 DEF Starts, Shaped
<1>4. CASE d # c /\ cmd[d].at = "idle"
  <2>1. cmd[d] = Idle /\ Idle \in CmdSet
    BY <1>1, <1>4, IdleCall DEF Shaped
  <2>2. PICK b \in CmdSet : b = cmd'[d]
    BY DEF Starts
  <2>3. /\ b.at = Idle.at /\ b.kind = Idle.kind /\ b.works = Idle.works /\ b.todo = Idle.todo
        /\ b.skill = Idle.skill /\ b.version = Idle.version /\ b.records = Idle.records
        /\ b.updated = Idle.updated /\ b.loose = Idle.loose
    BY <1>1, <1>4, <2>1, <2>2 DEF Starts, Busy
  <2>4. b = Idle
    <3>1. PICK i \in CmdSet : i = Idle
      BY <2>1
    <3>2. b = i
      BY <2>3, <3>1 DEF CmdSet
    <3>3. QED
      BY <3>1, <3>2
  <2>5. QED
    BY <1>4, <2>2, <2>3, <2>4, IdleCall DEF Shaped
<1>5. QED
  BY <1>2, <1>3, <1>4

LEMMA CommandedStep == Typed /\ [Next]_vars => Commanded
<1> SUFFICES ASSUME Typed, [Next]_vars PROVE Commanded
  OBVIOUS
<1>1. \A c \in Commands : Shaped(cmd[c]) /\ cmd[c] \in CmdSet
  BY ShapeShaped, CmdType DEF Typed
<1>2. Shaped(Idle)
  BY IdleCall DEF Shaped
<1>3. ASSUME NEW c \in Commands, NEW n \in Skills, InstallFetch(c, n) PROVE Commanded
  <2>1. PICK call \in CmdSet :
          Starts(c, call) /\ Call(call, "version", "install", {n}, {}, NoRecords, FALSE, FALSE)
    BY <1>3, FetchCall
  <2>2. Shaped(call) /\ call.at # "idle"
    BY <2>1 DEF Shaped, Call
  <2>3. QED
    BY <2>1, <2>2, StartsCommanded
<1>4. ASSUME NEW c \in Commands, NEW n \in Skills, UninstallRemove(c, n) PROVE Commanded
  <2>1. PICK call \in CmdSet :
          Starts(c, call) /\ Call(call, "filter", "uninstall", {n}, {}, NoRecords, FALSE, FALSE)
    BY <1>4, UninstallCall
  <2>2. Shaped(call) /\ call.at # "idle"
    BY <2>1 DEF Shaped, Call
  <2>3. QED
    BY <2>1, <2>2, StartsCommanded
<1>5. ASSUME NEW c \in Commands, NEW names \in SUBSET Skills, UpdateRead(c, names)
      PROVE  Commanded
  <2>1. PICK call \in CmdSet :
          Starts(c, call) /\ Call(call, "info", "update", names, names, records, FALSE, FALSE)
    BY <1>5, UpdateCall
  <2>2. Shaped(call) /\ call.at # "idle"
    BY <1>5, <2>1 DEF Shaped, Call, UpdateRead, Listed
  <2>3. QED
    BY <2>1, <2>2, StartsCommanded
<1>6. ASSUME NEW c \in Commands, InstallRead(c) PROVE Commanded
  <2>1. PICK call \in CmdSet :
          /\ Changes(c, call) /\ call.at = "list" /\ call.kind = cmd[c].kind
          /\ call.works = cmd[c].works /\ call.todo = cmd[c].todo
    BY <1>6, ReadCall DEF Call
  <2>2. Shaped(call)
    BY <1>1, <1>6, <2>1 DEF Shaped, InstallRead, At
  <2>3. QED
    BY <2>1, <2>2, ChangesCommanded
<1>7. ASSUME NEW c \in Commands, NEW n \in Skills, UpdateInfo(c, n) PROVE Commanded
  <2>1. PICK call \in CmdSet :
          /\ Changes(c, call) /\ call.kind = cmd[c].kind /\ call.works = cmd[c].works
          /\ call.records = cmd[c].records
          /\ \/ /\ call.at = "content" /\ call.todo = cmd[c].todo
                /\ call.skill = n /\ call.version \in Versions
             \/ call.at = "info" /\ call.todo = cmd[c].todo \ {n}
    BY <1>7, InfoCall, CmdType DEF Call
  <2>2. cmd[c].at = "info" /\ n \in cmd[c].todo
    BY <1>7 DEF UpdateInfo, At
  <2>3. Shaped(call)
    BY <1>1, <2>1, <2>2 DEF Shaped
  <2>4. QED
    BY <2>1, <2>3, ChangesCommanded
<1>8. ASSUME NEW c \in Commands, NEW n \in Skills, UpdateSkip(c, n) \/ UpdateSpoil(c, n)
      PROVE  Commanded
  <2>1. PICK call \in CmdSet :
          /\ Changes(c, call) /\ call.kind = cmd[c].kind /\ call.works = cmd[c].works \ {n}
          /\ call.at = "info" /\ call.todo = cmd[c].todo \ {n}
          /\ call.records = cmd[c].records
    BY <1>8, SkipCall DEF Call
  <2>2. cmd[c].at \in {"info", "content"}
    BY <1>8 DEF UpdateSkip, UpdateSpoil, At
  <2>3. Shaped(call)
    BY <1>1, <2>1, <2>2 DEF Shaped
  <2>4. QED
    BY <2>1, <2>3, ChangesCommanded
<1>9. ASSUME NEW c \in Commands, UpdateContent(c) \/ UpdateRefused(c) PROVE Commanded
  <2>1. PICK call \in CmdSet :
          /\ Changes(c, call) /\ call.kind = cmd[c].kind /\ call.works = cmd[c].works
          /\ call.at = "info" /\ call.todo = cmd[c].todo \ {cmd[c].skill}
          /\ call.records = [cmd[c].records EXCEPT ![cmd[c].skill] = cmd[c].version]
    BY <1>9, ContentCall DEF Call
  <2>2. cmd[c].at = "content" /\ cmd[c].works \subseteq Skills
    BY <1>1, <1>9 DEF UpdateContent, UpdateRefused, At, CmdSet
  <2>5. \A n \in cmd[c].works : cmd[c].kind = "update" => call.records[n] # Absent
    BY <1>1, <2>1, <2>2 DEF Shaped, CmdSet
  <2>3. Shaped(call)
    BY <1>1, <2>1, <2>2, <2>5 DEF Shaped
  <2>4. QED
    BY <2>1, <2>3, ChangesCommanded
<1>10. ASSUME NEW c \in Commands, End(c) PROVE Commanded
  BY <1>2, <1>10, EndChanges, ChangesCommanded
<1>11. ASSUME NEW c \in Commands, UninstallFilter(c) PROVE Commanded
  <2>1. CASE file # "whole"
    BY <1>10, <1>11, <2>1 DEF UninstallFilter
  <2>2. CASE file = "whole"
    <3>1. PICK call \in CmdSet :
            /\ Changes(c, call) /\ call.kind = cmd[c].kind /\ call.works = cmd[c].works
            /\ call.at = "list" /\ call.todo = cmd[c].todo
      BY <1>11, <2>2, FilterCall DEF Call
    <3>2. cmd[c].at = "filter"
      BY <1>11 DEF UninstallFilter, At
    <3>3. Shaped(call)
      BY <1>1, <3>1, <3>2 DEF Shaped
    <3>4. QED
      BY <3>1, <3>3, ChangesCommanded
  <2>3. QED
    BY <2>1, <2>2
<1>12. ASSUME NEW c \in Commands, Truncate(c) PROVE Commanded
  <2>1. PICK call \in CmdSet :
          /\ Changes(c, call) /\ call.at = "write" /\ call.todo = {} /\ call.kind = cmd[c].kind
          /\ call.works = cmd[c].works /\ call.records = cmd[c].records
    BY <1>12, TruncateCall DEF Call
  <2>2. Shaped(call)
    BY <1>1, <2>1 DEF Shaped
  <2>3. QED
    BY <2>1, <2>2, ChangesCommanded
<1>13. ASSUME UNCHANGED cmd PROVE Commanded
  <2>1. /\ cmd' = cmd /\ cmd \in [Commands -> CmdSet]
        /\ \A c \in Commands : Shaped(cmd[c])
    BY <1>1, <1>13, ShapeShaped DEF Typed, TypeOK, CmdSet
  <2>2. ASSUME NEW c \in Commands PROVE Shape(c)'
    BY <2>1, ShapeShaped
  <2>3. QED
    BY <2>1, <2>2 DEF Commanded
<1>14. QED
  BY <1>3, <1>4, <1>5, <1>6, <1>7, <1>8, <1>9, <1>10, <1>11, <1>12, <1>13, Cases
     DEF InstallSpoil, UpdateNothing, Write, Kill, Point, Sync, Decide, vars

LEMMA PlacesStep ==
  Typed /\ [Next]_vars => /\ (approved \in SUBSET Skills)' /\ (unsure \in SUBSET Skills)'
                          /\ (spoilt \in SUBSET Skills)'
                          /\ (version \in [Skills -> Versions])'
                          /\ (content \in [Skills -> Versions \cup {Absent}])'
<1> SUFFICES ASSUME Typed, [Next]_vars
             PROVE  /\ (approved \in SUBSET Skills)' /\ (unsure \in SUBSET Skills)'
                    /\ (spoilt \in SUBSET Skills)'
                    /\ (version \in [Skills -> Versions])'
                    /\ (content \in [Skills -> Versions \cup {Absent}])'
  OBVIOUS
<1>1. /\ TypeOK /\ Changing \subseteq Skills
      /\ \A c \in Commands : cmd[c].works \subseteq Skills
  BY CmdType DEF Typed, CmdSet
<1>2. ASSUME NEW names \in SUBSET Skills, Doubt(names) PROVE (unsure \in SUBSET Skills)'
  BY <1>1, <1>2 DEF Doubt, TypeOK
<1>3. ASSUME NEW n \in Changing, Point(n) \/ Sync(n) \/ Decide(n) PROVE (unsure \in SUBSET Skills)'
  BY <1>1, <1>2, <1>3 DEF Point, Sync, Decide, Disturb
<1>4. ASSUME NEW c \in Commands, NEW call, Start(c, call) PROVE (unsure \in SUBSET Skills)'
  BY <1>1, <1>4 DEF Start, TypeOK, Torn
<1>5. ASSUME NEW c \in Commands, Kill(c) \/ UpdateContent(c) PROVE (unsure \in SUBSET Skills)'
  <2>1. CASE Kill(c)
    BY <1>1, <1>2, <2>1 DEF Kill
  <2>2. CASE UpdateContent(c)
    <3>1. Doubt({cmd[c].skill} \cap Torn) /\ Torn \subseteq Skills
      BY <2>2 DEF UpdateContent, Torn
    <3>2. QED
      BY <1>2, <3>1
  <2>3. QED
    BY <1>5, <2>1, <2>2
<1>10. ASSUME NEW c \in Commands, NEW n \in Skills, InstallSpoil(c, n)
       PROVE  (unsure \in SUBSET Skills)'
  BY <1>2, <1>10 DEF InstallSpoil
<1>6. (unsure \in SUBSET Skills)'
  BY <1>1, <1>3, <1>4, <1>5, <1>10, Cases, ZenonT(60)
     DEF TypeOK, InstallFetch, UninstallRemove, UpdateRead, UpdateInfo, UpdateSkip, UpdateSpoil,
         InstallRead, UpdateRefused, UpdateNothing, UninstallFilter, Truncate, Write, vars
<1>11. (spoilt \in SUBSET Skills)'
  <2>1. \A c \in Commands : At(c, "content") => cmd[c].skill \in Skills
    BY <1>1 DEF Typed, Shape, At
  <2>2. ASSUME NEW n \in Skills, spoilt' = spoilt \cup {n} \/ spoilt' = spoilt \ {n}
        PROVE  (spoilt \in SUBSET Skills)'
    BY <1>1, <2>2 DEF TypeOK
  <2>3. ASSUME UNCHANGED spoilt PROVE (spoilt \in SUBSET Skills)'
    BY <1>1, <2>3 DEF TypeOK
  <2>4. ASSUME NEW c \in Commands, UpdateContent(c) \/ UpdateRefused(c)
        PROVE  (spoilt \in SUBSET Skills)'
    BY <2>1, <2>2, <2>4 DEF UpdateContent, UpdateRefused
  <2>5. QED
    BY <2>2, <2>3, <2>4, Cases, ZenonT(60)
       DEF InstallFetch, InstallSpoil, UninstallRemove, UpdateRead, UpdateInfo, UpdateSkip,
           UpdateSpoil, InstallRead, UpdateNothing, UninstallFilter, Truncate, Write, Kill, Point,
           Sync, Decide, vars
<1>7. ASSUME NEW n \in Changing, Point(n) \/ Sync(n) \/ Decide(n)
      PROVE  /\ (approved \in SUBSET Skills)'
             /\ (version \in [Skills -> Versions])'
             /\ (content \in [Skills -> Versions \cup {Absent}])'
  BY <1>1, <1>7 DEF Point, Sync, Decide, TypeOK
<1>8. ASSUME UNCHANGED serverVars
      PROVE  /\ (approved \in SUBSET Skills)'
             /\ (version \in [Skills -> Versions])'
             /\ (content \in [Skills -> Versions \cup {Absent}])'
  BY <1>1, <1>8 DEF serverVars, TypeOK
<1>9. QED
  BY <1>6, <1>7, <1>8, <1>11, Cases, ZenonT(60)
     DEF InstallFetch, InstallSpoil, UninstallRemove, UpdateRead, UpdateInfo, UpdateSkip,
        UpdateSpoil,
         InstallRead, UpdateContent, UpdateRefused, UpdateNothing, UninstallFilter, Truncate,
         Write, Kill, serverVars, vars

LEMMA FilesStep ==
  Typed /\ [Next]_vars => /\ (disk \in [Skills -> Versions \cup {Absent, ErrorPage, Partial}])'
                          /\ (records \in [Skills -> Noted])'
                          /\ (file \in {"absent", "empty", "whole"})'
<1> DEFINE Goal == /\ (disk \in [Skills -> Versions \cup {Absent, ErrorPage, Partial}])'
                   /\ (records \in [Skills -> Noted])'
                   /\ (file \in {"absent", "empty", "whole"})'
<1> SUFFICES ASSUME Typed, [Next]_vars PROVE Goal
  OBVIOUS
<1>1. TypeOK /\ \A c \in Commands : cmd[c].records \in [Skills -> Noted]
  BY CmdType DEF Typed, CmdSet
<1>7. ASSUME NEW n, NEW what \in Versions \cup {Absent, ErrorPage, Partial}, Put(n, what),
             UNCHANGED <<records, file>>
      PROVE  Goal
  BY <1>1, <1>7 DEF Put, TypeOK
<1>8. \A n \in Skills : Served(n) => content[n] \in Versions
  BY <1>1 DEF Served, TypeOK
<1>2. ASSUME NEW c \in Commands, NEW n \in Skills,
             InstallFetch(c, n) \/ InstallSpoil(c, n) \/ UninstallRemove(c, n) \/ UpdateSpoil(c, n)
      PROVE  Goal
  BY <1>2, <1>7, <1>8 DEF InstallFetch, InstallSpoil, UninstallRemove, UpdateSpoil
<1>3. ASSUME NEW c \in Commands, UpdateContent(c) \/ UpdateRefused(c) PROVE Goal
  <2>1. cmd[c].skill \in Skills
    BY <1>3, ContentCall
  <2>2. QED
    BY <1>3, <1>7, <1>8, <2>1 DEF UpdateContent, UpdateRefused
<1>4. ASSUME NEW c \in Commands, Truncate(c) \/ Write(c) PROVE Goal
  BY <1>1, <1>4 DEF Truncate, Write, TypeOK
<1>5. ASSUME UNCHANGED localVars PROVE Goal
  BY <1>1, <1>5 DEF localVars, TypeOK
<1> HIDE DEF Goal
<1>6. QED
  BY <1>2, <1>3, <1>4, <1>5, Cases
     DEF UpdateRead, UpdateInfo, UpdateSkip, InstallRead, UpdateNothing, UninstallFilter, Kill,
         Point, Sync, Decide, localVars, vars

LEMMA TypedStep == Typed /\ [Next]_vars => Typed'
BY CommandedStep, PlacesStep, FilesStep DEF Commanded, Typed, TypeOK, CmdSet

LEMMA TypedInit == Init => Typed
<1> SUFFICES ASSUME Init PROVE Typed
  OBVIOUS
<1>1. cmd \in [Commands -> CmdSet] /\ \A c \in Commands : cmd[c] = Idle
  BY IdleCall DEF Init
<1>2. \A c \in Commands : Shape(c)
  BY <1>1, IdleCall DEF Shape, At
<1>3. /\ version \in [Skills -> Versions]
      /\ content \in [Skills -> Versions \cup {Absent}]
  BY DEF Init, Versions
<1>4. NoRecords \in [Skills -> Noted] /\ NoRecords \in [Skills -> Versions \cup {Absent, ErrorPage, Partial}]
  BY DEF NoRecords, Noted
<1>5. QED
  BY <1>1, <1>2, <1>3, <1>4 DEF Init, Typed, TypeOK, CmdSet

-----------------------------------------------------------------------------
(* Commands that overlap know it.                                          *)

LEMMA StartOverlap ==
  ASSUME Typed, Overlap, NEW c \in Commands, NEW call \in CmdSet, Starts(c, call),
         call.at \notin {"idle", "write"}, UNCHANGED <<file, records>>
  PROVE  Overlap'
<1> DEFINE others == {d \in Commands : Busy(d)}
<1>1. c \notin others /\ unsure \in SUBSET Skills
  BY DEF Starts, Typed, TypeOK
<1>2. \A d \in Commands \ {c} : /\ Busy(d)' <=> Busy(d)
                                /\ At(d, "write")' <=> At(d, "write")
                                /\ cmd'[d].loose = (cmd[d].loose \/ d \in others)
  BY DEF Starts, Busy, At
<1>3. cmd'[c].loose = (others # {}) /\ Busy(c)' /\ ~At(c, "write")' /\ ~At(c, "write")
  BY <1>1 DEF Starts, Busy, At
<1>4. others # {} => unsure' = Skills
  BY DEF Starts, Settles
<1>5. others = {} /\ file = "empty" => unsure' = unsure
  BY DEF Starts, Settles
<1>6. ASSUME NEW d \in Commands, NEW e \in Commands, d # e, Busy(d)', Busy(e)'
      PROVE  cmd'[d].loose
  BY <1>1, <1>2, <1>3, <1>6
<1>7. ASSUME NEW d \in Commands, cmd'[d].loose PROVE unsure' = Skills
  <2>1. CASE others # {}
    BY <1>4, <2>1
  <2>2. CASE others = {}
    <3>1. d # c /\ cmd[d].loose /\ ~Busy(d)
      BY <1>2, <1>3, <1>7, <2>2
    <3>2. cmd[d] = Idle
      BY <3>1 DEF Typed, Shape, Busy, At
    <3>3. QED
      BY <3>1, <3>2, IdleCall
  <2>3. QED
    BY <2>1, <2>2
<1>8. file' = "empty" => unsure' = Skills \/ \E d \in Commands : At(d, "write")'
  BY <1>2, <1>3, <1>4, <1>5 DEF Overlap
<1>9. file' = "absent" => records' = NoRecords
  BY DEF Overlap
<1>10. QED
  BY <1>6, <1>7, <1>8, <1>9 DEF Overlap

\* A command goes on, ends, or knows of another now.
LEMMA ChangesOverlap ==
  ASSUME Typed, Overlap, NEW c \in Commands, NEW call, Changes(c, call), Busy(c),
         call.at # "idle" => (cmd[c].loose => call.loose),
         call.loose => unsure' = Skills,
         unsure = Skills => unsure' = Skills,
         file' = "empty" => unsure' = Skills \/ \E d \in Commands : At(d, "write")',
         file' = "absent" => records' = NoRecords
  PROVE  Overlap'
<1>1. \A d \in Commands \ {c} : (Busy(d)' <=> Busy(d)) /\ cmd'[d] = cmd[d]
  BY DEF Changes, Busy, At
<1>2. cmd'[c] = call /\ (Busy(c)' => call.at # "idle")
  BY DEF Changes, Busy, At
<1>3. ASSUME NEW d \in Commands, NEW e \in Commands, d # e, Busy(d)', Busy(e)'
      PROVE  cmd'[d].loose
  <2>1. Busy(d) /\ Busy(e)
    BY <1>1, <1>3
  <2>2. cmd[d].loose
    BY <1>3, <2>1 DEF Overlap
  <2>3. QED
    BY <1>1, <1>2, <1>3, <2>2
<1>4. ASSUME NEW d \in Commands, cmd'[d].loose PROVE unsure' = Skills
  BY <1>1, <1>2, <1>4 DEF Overlap
<1>5. QED
  BY <1>3, <1>4 DEF Overlap

\* What else a step does to the list and what is sure of it, when the list is
\* not written and no command that writes it ends.
LEMMA WritersStay ==
  ASSUME Overlap, NEW c \in Commands, NEW call, Changes(c, call), ~At(c, "write"),
         UNCHANGED file, unsure = Skills => unsure' = Skills
  PROVE  file' = "empty" => unsure' = Skills \/ \E d \in Commands : At(d, "write")'
BY DEF Overlap, Changes, At

LEMMA OverlapStep == Typed /\ Overlap /\ [Next]_vars => Overlap'
<1> SUFFICES ASSUME Typed, Overlap, [Next]_vars PROVE Overlap'
  OBVIOUS
<1>0. unsure \in SUBSET Skills /\ (unsure \in SUBSET Skills)'
  BY TypedStep DEF Typed, TypeOK
<1>1. \A names : Doubt(names) => (unsure = Skills => unsure' = Skills)
  BY <1>0 DEF Doubt
<1>2. /\ \A c \in Commands : cmd[c].loose => unsure = Skills
      /\ file = "absent" => records = NoRecords
  BY DEF Overlap
<1>3. ASSUME NEW c \in Commands, NEW n \in Skills, InstallFetch(c, n) PROVE Overlap'
  <2>1. PICK call \in CmdSet : Starts(c, call) /\ call.at = "version"
    BY <1>3, FetchCall DEF Call
  <2>2. QED
    BY <1>3, <2>1, StartOverlap DEF InstallFetch
<1>4. ASSUME NEW c \in Commands, NEW n \in Skills, UninstallRemove(c, n) PROVE Overlap'
  <2>1. PICK call \in CmdSet : Starts(c, call) /\ call.at = "filter"
    BY <1>4, UninstallCall DEF Call
  <2>2. QED
    BY <1>4, <2>1, StartOverlap DEF UninstallRemove
<1>5. ASSUME NEW c \in Commands, NEW names \in SUBSET Skills, UpdateRead(c, names)
      PROVE  Overlap'
  <2>1. PICK call \in CmdSet : Starts(c, call) /\ call.at = "info"
    <3>1. \E call \in CmdSet :
            Starts(c, call) /\ Call(call, "info", "update", names, names, records, FALSE, FALSE)
      BY <1>5, UpdateCall
    <3>2. QED
      BY <3>1 DEF Call
  <2>2. QED
    BY <1>5, <2>1, StartOverlap DEF UpdateRead, localVars
<1>6. ASSUME NEW c \in Commands, NEW call, Changes(c, call), Busy(c), ~At(c, "write"),
             call.at # "idle" => (cmd[c].loose => call.loose),
             call.loose => unsure' = Skills,
             UNCHANGED <<file, records>>, unsure = Skills => unsure' = Skills
      PROVE  Overlap'
  BY <1>2, <1>6, WritersStay, ChangesOverlap
<1>7. ASSUME NEW c \in Commands, InstallRead(c) PROVE Overlap'
  <2>1. PICK call \in CmdSet : Changes(c, call) /\ call.loose = (cmd[c].loose \/ file = "empty")
    BY <1>7, ReadCall DEF Call
  <2>2. At(c, "version") /\ Busy(c) /\ ~At(c, "write")
    BY <1>7 DEF InstallRead, At, Busy
  <2>3. file = "empty" => unsure = Skills
    BY <1>2, <2>2 DEF Overlap, At, Busy
  <2>4. cmd[c].loose \in BOOLEAN /\ UNCHANGED <<file, records, unsure>>
    BY <1>7, CmdType DEF InstallRead, localVars, CmdSet
  <2>5. QED
    BY <1>2, <1>6, <2>1, <2>2, <2>3, <2>4
<1>8. ASSUME NEW c \in Commands, NEW n \in Skills, UpdateInfo(c, n) PROVE Overlap'
  <2>1. PICK call \in CmdSet : Changes(c, call) /\ call.loose = cmd[c].loose
    BY <1>8, InfoCall DEF Call
  <2>2. /\ Busy(c) /\ ~At(c, "write")
        /\ UNCHANGED <<file, records, unsure>>
    BY <1>8 DEF UpdateInfo, At, Busy, localVars
  <2>3. QED
    BY <1>2, <1>6, <2>1, <2>2
<1>9. ASSUME NEW c \in Commands, NEW n \in Skills, UpdateSkip(c, n) \/ UpdateSpoil(c, n)
      PROVE  Overlap'
  <2>1. PICK call \in CmdSet : Changes(c, call) /\ call.loose = cmd[c].loose
    BY <1>9, SkipCall DEF Call
  <2>2. /\ Busy(c) /\ ~At(c, "write")
        /\ UNCHANGED <<file, records, unsure>>
    BY <1>9 DEF UpdateSkip, UpdateSpoil, At, Busy, localVars
  <2>3. QED
    BY <1>2, <1>6, <2>1, <2>2
<1>10. ASSUME NEW c \in Commands, UpdateContent(c) \/ UpdateRefused(c) PROVE Overlap'
  <2>1. PICK call \in CmdSet : Changes(c, call) /\ call.loose = cmd[c].loose
    BY <1>10, ContentCall DEF Call
  <2>2. /\ Busy(c) /\ ~At(c, "write")
        /\ UNCHANGED <<file, records>>
        /\ UNCHANGED unsure \/ Doubt({cmd[c].skill} \cap Torn)
    BY <1>10 DEF UpdateContent, UpdateRefused, At, Busy
  <2>3. QED
    BY <1>1, <1>2, <1>6, <2>1, <2>2
<1>11. ASSUME NEW c \in Commands, End(c), Busy(c), ~At(c, "write"),
              UNCHANGED <<file, records>>, unsure = Skills => unsure' = Skills
       PROVE  Overlap'
  BY <1>6, <1>11, EndChanges, IdleCall
<1>12. ASSUME NEW c \in Commands, UpdateNothing(c) PROVE Overlap'
  BY <1>11, <1>12 DEF UpdateNothing, localVars, At, Busy
<1>13. ASSUME NEW c \in Commands, UninstallFilter(c) PROVE Overlap'
  <2>1. Busy(c) /\ ~At(c, "write") /\ UNCHANGED <<file, records, unsure>>
    BY <1>13 DEF UninstallFilter, localVars, At, Busy
  <2>2. CASE file # "whole"
    BY <1>11, <1>13, <2>1, <2>2 DEF UninstallFilter
  <2>3. CASE file = "whole"
    <3>1. PICK call \in CmdSet : Changes(c, call) /\ call.loose = cmd[c].loose
      BY <1>13, <2>3, FilterCall DEF Call
    <3>2. QED
      BY <1>2, <1>6, <2>1, <3>1
  <2>4. QED
    BY <2>2, <2>3
<1>14. ASSUME NEW c \in Commands, Truncate(c) PROVE Overlap'
  <2>1. PICK call \in CmdSet :
          Changes(c, call) /\ call.at = "write" /\ call.loose = cmd[c].loose
    BY <1>14, TruncateCall DEF Call
  <2>2. Busy(c) /\ file' = "empty" /\ UNCHANGED <<records, unsure>>
    BY <1>14 DEF Truncate, At, Busy
  <2>3. At(c, "write")'
    BY <2>1 DEF Changes, At
  <2>4. QED
    BY <1>2, <2>1, <2>2, <2>3, ChangesOverlap
<1>15. ASSUME NEW c \in Commands, Write(c) PROVE Overlap'
  <2>1. Changes(c, Idle) /\ Busy(c) /\ file' = "whole" /\ UNCHANGED unsure
    BY <1>15, EndChanges DEF Write, At, Busy
  <2>2. QED
    BY <2>1, IdleCall, ChangesOverlap
<1>16. ASSUME NEW c \in Commands, Kill(c) PROVE Overlap'
  <2>1. CASE ~At(c, "write")
    BY <1>1, <1>11, <1>16, <2>1 DEF Kill, localVars
  <2>2. CASE At(c, "write")
    <3>1. unsure' = Skills
      BY <1>0, <1>16, <2>2 DEF Kill, Doubt
    <3>2. Changes(c, Idle) /\ Busy(c) /\ UNCHANGED <<file, records>>
      BY <1>16, EndChanges DEF Kill, localVars
    <3>3. QED
      BY <1>2, <3>1, <3>2, IdleCall, ChangesOverlap
  <2>3. QED
    BY <2>1, <2>2
<1>17. ASSUME UNCHANGED <<cmd, file, records>>, unsure = Skills => unsure' = Skills
       PROVE  Overlap'
  BY <1>17 DEF Overlap, Busy, At
<1>18. ASSUME NEW n \in Changing, Point(n) \/ Sync(n) \/ Decide(n) PROVE Overlap'
  BY <1>1, <1>17, <1>18 DEF Point, Sync, Decide, Disturb, localVars
<1>19. CASE UNCHANGED vars
  BY <1>17, <1>19 DEF vars, localVars
<1>20. ASSUME NEW c \in Commands, NEW n \in Skills, InstallSpoil(c, n) PROVE Overlap'
  BY <1>1, <1>17, <1>20 DEF InstallSpoil
<1>21. QED
  BY <1>3, <1>4, <1>5, <1>7, <1>8, <1>9, <1>10, <1>12, <1>13, <1>14, <1>15, <1>16, <1>18, <1>19,
     <1>20, Cases
-----------------------------------------------------------------------------
(* The list a command holds.                                               *)

AllKept == \A c \in Commands : Kept(c)

KeptOf(b, recs) ==
  b.at \in {"info", "content", "list", "write"} /\ ~b.loose =>
    \A n \in Skills : n \notin b.works \/ n \in b.todo => b.records[n] = recs[n]

LEMMA KeptIs ==
  ASSUME NEW c \in Commands
  PROVE  (Kept(c) <=> KeptOf(cmd[c], records)) /\ (Kept(c)' <=> KeptOf(cmd'[c], records'))
BY DEF Kept, KeptOf, Holds

LEMMA StartKept ==
  ASSUME Typed, NEW c \in Commands, NEW call \in CmdSet, Starts(c, call), ~call.loose,
         KeptOf(call, records')
  PROVE  AllKept'
<1> SUFFICES ASSUME NEW d \in Commands PROVE KeptOf(cmd'[d], records')
  BY KeptIs DEF AllKept
<1>1. CASE d = c
  BY <1>1 DEF Starts, KeptOf
<1>2. CASE d # c
  <2>1. cmd'[d].at = cmd[d].at /\ (Busy(d) => cmd'[d].loose)
    BY <1>2 DEF Starts
  <2>2. QED
    BY <2>1 DEF KeptOf, Busy
<1>3. QED
  BY <1>1, <1>2

\* The list in the file changes only when a command that writes it is done,
\* and others who hold one then know that there are others.
LEMMA ChangesKept ==
  ASSUME Typed, Overlap, AllKept, NEW c \in Commands, NEW call, Changes(c, call), Busy(c),
         KeptOf(call, records')
  PROVE  UNCHANGED records \/ At(c, "write") => AllKept'
<1> SUFFICES ASSUME UNCHANGED records \/ At(c, "write"), NEW d \in Commands
             PROVE  KeptOf(cmd'[d], records')
  BY KeptIs DEF AllKept
<1>1. CASE d = c
  BY <1>1 DEF Changes
<1>2. CASE d # c
  <2>1. cmd'[d] = cmd[d] /\ (Busy(d) => cmd[d].loose) /\ KeptOf(cmd[d], records)
    BY <1>2, KeptIs DEF Changes, Overlap, AllKept
  <2>2. QED
    BY <2>1 DEF KeptOf, Busy, At
<1>3. QED
  BY <1>1, <1>2

LEMMA KeptStep == Typed /\ Overlap /\ AllKept /\ [Next]_vars => AllKept'
<1> SUFFICES ASSUME Typed, Overlap, AllKept, [Next]_vars PROVE AllKept'
  OBVIOUS
<1>1. \A c \in Commands : KeptOf(cmd[c], records) /\ cmd[c] \in CmdSet
  BY KeptIs, CmdType DEF AllKept
<1>2. \A recs : KeptOf(Idle, recs)
  BY IdleCall DEF KeptOf
<1>3. ASSUME NEW c \in Commands, NEW n \in Skills, InstallFetch(c, n) PROVE AllKept'
  <2>1. PICK call \in CmdSet : Starts(c, call) /\ call.at = "version" /\ ~call.loose
    BY <1>3, FetchCall DEF Call
  <2>2. QED
    BY <2>1, StartKept DEF KeptOf
<1>4. ASSUME NEW c \in Commands, NEW n \in Skills, UninstallRemove(c, n) PROVE AllKept'
  <2>1. PICK call \in CmdSet : Starts(c, call) /\ call.at = "filter" /\ ~call.loose
    BY <1>4, UninstallCall DEF Call
  <2>2. QED
    BY <2>1, StartKept DEF KeptOf
<1>5. ASSUME NEW c \in Commands, NEW names \in SUBSET Skills, UpdateRead(c, names)
      PROVE  AllKept'
  <2>1. \E call \in CmdSet :
          Starts(c, call) /\ Call(call, "info", "update", names, names, records, FALSE, FALSE)
    BY <1>5, UpdateCall
  <2>2. PICK call \in CmdSet : Starts(c, call) /\ call.records = records /\ ~call.loose
    BY <2>1 DEF Call
  <2>3. KeptOf(call, records') 
    BY <1>5, <2>2 DEF KeptOf, UpdateRead, localVars
  <2>4. QED
    BY <2>2, <2>3, StartKept
<1>6. ASSUME NEW c \in Commands, NEW call, Changes(c, call), Busy(c), UNCHANGED records,
             KeptOf(call, records)
      PROVE  AllKept'
  BY <1>6, ChangesKept
<1>7. ASSUME NEW c \in Commands, InstallRead(c) PROVE AllKept'
  <2> DEFINE recs == IF file = "whole" THEN records ELSE NoRecords
  <2>1. PICK v \in Answers(cmd[c].works, Unknown), call \in CmdSet :
          /\ Changes(c, call)
          /\ call.works = cmd[c].works /\ call.todo = cmd[c].todo
          /\ call.records = Entry(recs, cmd[c].works, v)
          /\ call.loose = (cmd[c].loose \/ file = "empty")
    BY <1>7, ReadCall DEF Call
  <2>2. At(c, "version") /\ Busy(c) /\ cmd[c].todo = {} /\ UNCHANGED records
    BY <1>7 DEF InstallRead, At, Busy, localVars, Typed, Shape
  <2>3. ~call.loose => recs = records
    BY <2>1 DEF Overlap, Typed, TypeOK
  <2>4. KeptOf(call, records)
    BY <2>1, <2>2, <2>3 DEF KeptOf, Entry
  <2>5. QED
    BY <1>6, <2>1, <2>2, <2>4
<1>8. ASSUME NEW c \in Commands, NEW n \in Skills, UpdateInfo(c, n) PROVE AllKept'
  <2>1. PICK call \in CmdSet :
          /\ Changes(c, call) /\ call.works = cmd[c].works /\ call.todo \subseteq cmd[c].todo
          /\ call.records = cmd[c].records /\ call.loose = cmd[c].loose
    BY <1>8, InfoCall DEF Call
  <2>2. At(c, "info") /\ Busy(c) /\ UNCHANGED records
    BY <1>8 DEF UpdateInfo, At, Busy, localVars
  <2>3. KeptOf(call, records)
    BY <1>1, <2>1, <2>2 DEF KeptOf, At
  <2>4. QED
    BY <1>6, <2>1, <2>2, <2>3
<1>9. ASSUME NEW c \in Commands, NEW n \in Skills, UpdateSkip(c, n) \/ UpdateSpoil(c, n)
      PROVE  AllKept'
  <2>1. n \in cmd[c].todo
    BY <1>9, SkipCall
  <2>2. PICK call \in CmdSet :
          /\ Changes(c, call)
          /\ call.works = cmd[c].works \ {n} /\ call.todo = cmd[c].todo \ {n}
          /\ call.records = cmd[c].records /\ call.loose = cmd[c].loose
    BY <1>9, SkipCall DEF Call
  <2>3. cmd[c].at \in {"info", "content"} /\ Busy(c) /\ UNCHANGED records
    BY <1>9 DEF UpdateSkip, UpdateSpoil, At, Busy, localVars
  <2>4. KeptOf(call, records)
    BY <1>1, <2>1, <2>2, <2>3 DEF KeptOf
  <2>5. QED
    BY <1>6, <2>2, <2>3, <2>4
<1>10. ASSUME NEW c \in Commands, UpdateContent(c) \/ UpdateRefused(c) PROVE AllKept'
  <2> DEFINE n == cmd[c].skill
  <2>1. n \in cmd[c].todo /\ n \in Skills
    BY <1>10, ContentCall
  <2>2. PICK call \in CmdSet :
          /\ Changes(c, call)
          /\ call.works = cmd[c].works /\ call.todo = cmd[c].todo \ {n}
          /\ call.records = [cmd[c].records EXCEPT ![n] = cmd[c].version]
          /\ call.loose = cmd[c].loose
    BY <1>10, ContentCall DEF Call
  <2>3. /\ At(c, "content") /\ Busy(c) /\ UNCHANGED records
        /\ cmd[c].todo \subseteq cmd[c].works
    BY <1>10 DEF UpdateContent, UpdateRefused, At, Busy, Typed, Shape
  <2>4. \A m \in Skills \ {n} : call.records[m] = cmd[c].records[m]
    BY <1>1, <2>2 DEF CmdSet
  <2> HIDE DEF n
  <2>5. KeptOf(call, records)
    BY <1>1, <2>1, <2>2, <2>3, <2>4 DEF KeptOf, At
  <2>6. QED
    BY <1>6, <2>2, <2>3, <2>5
<1>11. ASSUME NEW c \in Commands, End(c), Busy(c), UNCHANGED records \/ At(c, "write")
       PROVE  AllKept'
  BY <1>2, <1>11, EndChanges, ChangesKept
<1>12. ASSUME NEW c \in Commands, UninstallFilter(c) PROVE AllKept'
  <2>1. At(c, "filter") /\ Busy(c) /\ cmd[c].todo = {} /\ UNCHANGED records
    BY <1>12 DEF UninstallFilter, At, Busy, localVars, Typed, Shape
  <2>2. CASE file # "whole"
    BY <1>11, <1>12, <2>1, <2>2 DEF UninstallFilter
  <2>3. CASE file = "whole"
    <3>1. PICK call \in CmdSet :
            /\ Changes(c, call) /\ call.works = cmd[c].works /\ call.todo = cmd[c].todo
            /\ call.records = Entry(records, cmd[c].works, Absent)
      BY <1>12, <2>3, FilterCall DEF Call
    <3>2. KeptOf(call, records)
      BY <2>1, <3>1 DEF KeptOf, Entry
    <3>3. QED
      BY <1>6, <2>1, <3>1, <3>2
  <2>4. QED
    BY <2>2, <2>3
<1>13. ASSUME NEW c \in Commands, Truncate(c) PROVE AllKept'
  <2>1. PICK call \in CmdSet :
          /\ Changes(c, call) /\ call.works = cmd[c].works /\ call.todo = {}
          /\ call.records = cmd[c].records /\ call.loose = cmd[c].loose
    BY <1>13, TruncateCall DEF Call
  <2>2. cmd[c].at \in {"list", "info"} /\ Busy(c) /\ UNCHANGED records
    BY <1>13 DEF Truncate, At, Busy
  <2>3. KeptOf(call, records)
    BY <1>1, <2>1, <2>2 DEF KeptOf
  <2>4. QED
    BY <1>6, <2>1, <2>2, <2>3
<1>14. ASSUME UNCHANGED <<cmd, records>> PROVE AllKept'
  BY <1>14 DEF AllKept, Kept, Holds
<1>15. ASSUME NEW c \in Commands, UpdateNothing(c) \/ Write(c) \/ Kill(c) PROVE AllKept'
  BY <1>11, <1>15 DEF UpdateNothing, Write, Kill, At, Busy, localVars
<1>16. ASSUME NEW n \in Changing, Point(n) \/ Sync(n) \/ Decide(n) PROVE AllKept'
  BY <1>14, <1>16 DEF Point, Sync, Decide, localVars
<1>17. CASE UNCHANGED vars
  BY <1>14, <1>17 DEF vars, localVars
<1>18. ASSUME NEW c \in Commands, NEW n \in Skills, InstallSpoil(c, n) PROVE AllKept'
  BY <1>14, <1>18 DEF InstallSpoil
<1>19. QED
  BY <1>3, <1>4, <1>5, <1>7, <1>8, <1>9, <1>10, <1>12, <1>13, <1>15, <1>16, <1>17, <1>18, Cases
-----------------------------------------------------------------------------
(* What is sure.                                                           *)

WorkOf(b, n) ==
  /\ b.at = "version" => disk[n] = version[n]
  /\ b.at = "filter" => disk[n] = Absent
  /\ b.at \in {"info", "content", "list", "write"} => Tells(b.records[n], disk[n], n \in spoilt)
  /\ b.kind = "update" =>
       /\ ~b.updated => b.records[n] = records[n]
       /\ n \notin b.todo /\ n \in approved =>
            b.records[n] = version[n] /\ (n \notin spoilt => disk[n] = version[n])
       /\ b.at = "content" /\ b.skill = n => n \in approved /\ b.version = version[n]

LEMMA WorkIs ==
  ASSUME NEW c \in Commands, NEW n
  PROVE  Work(c, n) <=> WorkOf(cmd[c], n)
BY DEF Work, WorkOf, Holds, At

LEMMA WorkBecomes ==
  ASSUME NEW c \in Commands, NEW n, NEW call, WorkOf(call, n)',
         cmd'[c].at = call.at, cmd'[c].kind = call.kind, cmd'[c].todo = call.todo,
         cmd'[c].records = call.records, cmd'[c].updated = call.updated,
         cmd'[c].skill = call.skill, cmd'[c].version = call.version
  PROVE  Work(c, n)'
BY DEF Work, WorkOf, Holds, At

SureOf(n) ==
  /\ \A c \in Commands : n \in cmd[c].works => Work(c, n)
  /\ (\A c \in Commands : n \notin cmd[c].works) => Tells(records[n], disk[n], n \in spoilt)

LEMMA SureIs ==
  /\ Sure <=> \A n \in Skills \ unsure : SureOf(n)
  /\ Sure' <=> \A n \in Skills \ unsure' : SureOf(n)'
BY DEF Sure, SureOf

\* While something is sure a command is by itself.
LEMMA Solo ==
  ASSUME Typed, Overlap, NEW c \in Commands, Busy(c), NEW n \in Skills \ unsure
  PROVE  ~cmd[c].loose /\ \A d \in Commands \ {c} : cmd[d] = Idle
BY DEF Overlap, Typed, Shape, Busy, At

\* One command goes on by itself: what it knew, and what is to be shown.
LEMMA ChangesSure ==
  ASSUME Typed, Overlap, Sure, NEW c \in Commands, NEW call, Changes(c, call), Busy(c),
         NEW n \in Skills \ unsure,
         n \in call.works => WorkOf(call, n)',
         n \notin call.works => Tells(records'[n], disk'[n], n \in spoilt')
  PROVE  SureOf(n)'
<1>1. cmd'[c] = call /\ \A d \in Commands \ {c} : cmd'[d] = Idle
  BY Solo DEF Changes
<1>2. ASSUME NEW d \in Commands, n \in cmd'[d].works PROVE Work(d, n)'
  <2>1. d = c
    BY <1>1, <1>2, IdleCall
  <2>2. n \in call.works /\ WorkOf(call, n)'
    BY <1>1, <1>2, <2>1
  <2>3. QED
    BY <1>1, <2>1, <2>2, WorkBecomes
<1>3. QED
  BY <1>1, <1>2 DEF SureOf

LEMMA Knows ==
  ASSUME Typed, Overlap, Sure, AllKept, NEW c \in Commands, Busy(c), NEW n \in Skills \ unsure
  PROVE  /\ n \in cmd[c].works => WorkOf(cmd[c], n)
         /\ n \notin cmd[c].works => Tells(records[n], disk[n], n \in spoilt)
         /\ KeptOf(cmd[c], records) /\ ~cmd[c].loose
         /\ Shaped(cmd[c]) /\ cmd[c] \in CmdSet
         /\ version[n] \in Versions
<1>1. \A d \in Commands \ {c} : n \notin cmd[d].works
  BY Solo, IdleCall
<1>2. SureOf(n)
  BY SureIs
<1>3. QED
  BY <1>1, <1>2, Solo, WorkIs, KeptIs, ShapeShaped, CmdType
     DEF SureOf, AllKept, Typed, TypeOK

LEMMA NotThese ==
  /\ Absent \notin Versions /\ Unknown \notin Versions /\ Unknown # Absent
OBVIOUS

LEMMA ReadSure ==
  ASSUME Typed, Overlap, Sure, AllKept, NEW c \in Commands, InstallRead(c),
         NEW n \in Skills \ unsure'
  PROVE  SureOf(n)'
<1> DEFINE recs == IF file = "whole" THEN records ELSE NoRecords
           b == cmd[c]
<1>1. b.at = "version" /\ Busy(c) /\ UNCHANGED <<disk, records, unsure, spoilt>>
  BY DEF InstallRead, At, Busy, localVars
<1>2. PICK v \in Answers(b.works, Unknown), call \in CmdSet :
        /\ Changes(c, call) /\ call.at = "list" /\ call.kind = b.kind
        /\ call.works = b.works /\ call.records = Entry(recs, b.works, v)
  BY ReadCall DEF Call
<1>3. /\ n \in b.works => disk[n] = version[n]
      /\ n \notin b.works => Tells(records[n], disk[n], n \in spoilt)
      /\ b.kind = "install" /\ version[n] \in Versions
      /\ \E m \in Skills : b.works = {m}
  BY <1>1, Knows DEF WorkOf, Shaped
<1>4. CASE n \in b.works
  <2>1. v \in {version[n], Unknown}
    BY <1>3, <1>4 DEF Answers
  <2>2. call.records[n] = v
    BY <1>2, <1>4 DEF Entry
  <2>3. Tells(v, disk[n], n \in spoilt)
    BY <1>3, <1>4, <2>1, NotThese DEF Tells
  <2>4. WorkOf(call, n)'
    BY <1>1, <1>2, <1>3, <2>2, <2>3 DEF WorkOf, Tells
  <2>5. QED
    BY <1>1, <1>2, <1>4, <2>4, ChangesSure
<1>5. CASE n \notin b.works
  BY <1>1, <1>2, <1>3, <1>5, ChangesSure
<1>6. QED
  BY <1>4, <1>5

LEMMA InfoSure ==
  ASSUME Typed, Overlap, Sure, AllKept, NEW c \in Commands, NEW k \in Skills, UpdateInfo(c, k),
         NEW n \in Skills \ unsure'
  PROVE  SureOf(n)'
<1> DEFINE b == cmd[c]
<1>1. b.at = "info" /\ Busy(c) /\ UNCHANGED <<disk, records, unsure, version, approved, spoilt>>
  BY DEF UpdateInfo, At, Busy, localVars, serverVars
<1>2. /\ n \in b.works => WorkOf(b, n)
      /\ n \notin b.works => Tells(records[n], disk[n], n \in spoilt)
      /\ version[n] \in Versions
  BY <1>1, Knows
<1>3. PICK call \in CmdSet :
        /\ Changes(c, call) /\ call.kind = b.kind /\ call.works = b.works
        /\ call.records = b.records /\ call.updated = b.updated
        /\ \/ /\ k \in approved /\ call.at = "content" /\ call.todo = b.todo
              /\ call.skill = k /\ call.version = version[k]
           \/ /\ k \notin approved \/ b.records[k] = version[k]
              /\ call.at = "info" /\ call.todo = b.todo \ {k}
  BY InfoCall DEF Call
<1>4. CASE n \in b.works
  <2>1. Tells(b.records[n], disk[n], n \in spoilt) /\ (~b.updated => b.records[n] = records[n])
        /\ (b.kind = "update" /\ n \notin b.todo /\ n \in approved =>
              b.records[n] = version[n] /\ (n \notin spoilt => disk[n] = version[n]))
        /\ b.kind = "update"
    BY <1>1, <1>2, <1>4, Knows DEF WorkOf, Shaped
  <2>2. k \notin approved \/ b.records[k] = version[k] =>
          (n \notin b.todo \ {k} /\ n \in approved =>
             b.records[n] = version[n] /\ (n \notin spoilt => disk[n] = version[n]))
    BY <1>2, <2>1 DEF Tells
  <2>3. WorkOf(call, n)'
    BY <1>1, <1>3, <2>1, <2>2 DEF WorkOf, Tells
  <2>4. QED
    BY <1>1, <1>3, <1>4, <2>3, ChangesSure
<1>5. CASE n \notin b.works
  BY <1>1, <1>2, <1>3, <1>5, ChangesSure
<1>6. QED
  BY <1>4, <1>5

LEMMA SkipSure ==
  ASSUME Typed, Overlap, Sure, AllKept, NEW c \in Commands, NEW k \in Skills,
         UpdateSkip(c, k) \/ UpdateSpoil(c, k), NEW n \in Skills \ unsure'
  PROVE  SureOf(n)'
<1> DEFINE b == cmd[c]
<1>1. /\ b.at \in {"info", "content"} /\ Busy(c)
      /\ UNCHANGED <<records, unsure, version, approved>>
      /\ \/ UNCHANGED <<disk, spoilt>>
         \/ disk' = [disk EXCEPT ![k] = Partial] /\ spoilt' = spoilt \cup {k}
  BY DEF UpdateSkip, UpdateSpoil, Put, At, Busy, localVars, serverVars
<1>2. /\ n \in b.works => WorkOf(b, n)
      /\ n \notin b.works => Tells(records[n], disk[n], n \in spoilt)
      /\ KeptOf(b, records) /\ ~b.loose
      /\ n \in b.works => b.records[n] # Absent
      /\ b.todo \subseteq b.works
  BY <1>1, Knows DEF Shaped
<1>3. k \in b.todo
  BY SkipCall
<1>4. PICK call \in CmdSet :
        /\ Changes(c, call) /\ call.at = "info" /\ call.kind = b.kind
        /\ call.works = b.works \ {k} /\ call.todo = b.todo \ {k}
        /\ call.records = b.records /\ call.updated = b.updated
  BY SkipCall DEF Call
<1>5. n # k => disk'[n] = disk[n] /\ (n \in spoilt' <=> n \in spoilt)
  BY <1>1 DEF Typed, TypeOK
<1>6. CASE n \in b.works /\ n # k
  <2>1. WorkOf(call, n)'
    BY <1>1, <1>2, <1>4, <1>5, <1>6 DEF WorkOf, Tells
  <2>2. QED
    BY <1>1, <1>4, <1>6, <2>1, ChangesSure
<1>7. CASE n = k
  <2>1. Tells(b.records[n], disk[n], n \in spoilt) /\ b.records[n] = records[n] /\ records[n] # Absent
    BY <1>1, <1>2, <1>3, <1>7 DEF WorkOf, KeptOf
  <2>2. \/ disk'[n] = disk[n] /\ (n \in spoilt' <=> n \in spoilt)
        \/ disk'[n] = Partial /\ n \in spoilt'
    BY <1>1, <1>7 DEF Typed, TypeOK
  <2>3. Tells(records'[n], disk'[n], n \in spoilt')
    BY <1>1, <2>1, <2>2 DEF Tells
  <2>4. QED
    BY <1>1, <1>4, <1>7, <2>3, ChangesSure
<1>8. CASE n \notin b.works
  <2>1. Tells(records'[n], disk'[n], n \in spoilt')
    BY <1>1, <1>2, <1>3, <1>5, <1>8
  <2>2. QED
    BY <1>1, <1>4, <1>8, <2>1, ChangesSure
<1>9. QED
  BY <1>6, <1>7, <1>8

\* The skill in hand is written as the server has it, or is spoilt.
LEMMA ContentSure ==
  ASSUME Typed, Overlap, Sure, AllKept, NEW c \in Commands,
         UpdateContent(c) \/ UpdateRefused(c), NEW n \in Skills \ unsure'
  PROVE  SureOf(n)'
<1> DEFINE b == cmd[c]
           k == b.skill
<1>1. /\ b.at = "content" /\ Busy(c) /\ UNCHANGED <<records, version, approved>>
      /\ \/ /\ disk' = [disk EXCEPT ![k] = content[k]] /\ Served(k)
            /\ unsure' = unsure \cup ({k} \cap Torn) /\ spoilt' = spoilt \ {k}
         \/ /\ disk' = [disk EXCEPT ![k] = ErrorPage]
            /\ unsure' = unsure /\ spoilt' = spoilt \cup {k}
  BY DEF UpdateContent, UpdateRefused, Put, At, Busy, serverVars, Doubt
<1>2. /\ n \in Skills \ unsure
      /\ n \in b.works => WorkOf(b, n)
      /\ n \notin b.works => Tells(records[n], disk[n], n \in spoilt)
      /\ version[n] \in Versions /\ b.kind = "update" /\ b.todo \subseteq b.works
  BY <1>1, Knows DEF Shaped
<1>3. k \in b.todo /\ k \in Skills
  BY ContentCall
<1>4. PICK call \in CmdSet :
        /\ Changes(c, call) /\ call.at = "info" /\ call.kind = b.kind
        /\ call.works = b.works /\ call.todo = b.todo \ {k}
        /\ call.records = [b.records EXCEPT ![k] = b.version] /\ call.updated = TRUE
  BY ContentCall DEF Call
<1>5. b.records \in [Skills -> Noted] /\ disk \in [Skills -> Versions \cup {Absent, ErrorPage, Partial}]
  BY CmdType DEF CmdSet, Typed, TypeOK
<1>6. CASE n = k
  <2>1. n \in b.works /\ n \in approved /\ b.version = version[n]
    BY <1>1, <1>2, <1>3, <1>6 DEF WorkOf
  <2>2. call.records[n] = version[n] /\ disk'[n] # Absent
    BY <1>1, <1>2, <1>4, <1>5, <1>6, <2>1 DEF Served
  <2>3. n \notin spoilt' => disk'[n] = version[n]
    BY <1>1, <1>5, <1>6 DEF Torn
  <2>4. WorkOf(call, n)'
    BY <1>1, <1>2, <1>4, <2>2, <2>3, NotThese DEF WorkOf, Tells
  <2>5. QED
    BY <1>1, <1>2, <1>4, <2>1, <2>4, ChangesSure
<1>7. CASE n # k
  <2>1. /\ disk'[n] = disk[n] /\ call.records[n] = b.records[n]
        /\ (n \in spoilt' <=> n \in spoilt)
    BY <1>1, <1>3, <1>4, <1>5, <1>7
  <2>2. CASE n \in b.works
    <3>1. WorkOf(call, n)'
      BY <1>1, <1>2, <1>4, <1>7, <2>1, <2>2 DEF WorkOf, Tells
    <3>2. QED
      BY <1>1, <1>2, <1>4, <2>2, <3>1, ChangesSure
  <2>3. CASE n \notin b.works
    <3>1. Tells(records'[n], disk'[n], n \in spoilt')
      BY <1>1, <1>2, <2>1, <2>3
    <3>2. QED
      BY <1>1, <1>2, <1>4, <2>3, <3>1, ChangesSure
  <2>4. QED
    BY <2>2, <2>3
<1>8. QED
  BY <1>6, <1>7

\* A command ends, and the records of what it worked on tell of the files.
LEMMA EndSure ==
  ASSUME Typed, Overlap, Sure, AllKept, NEW c \in Commands, End(c), Busy(c),
         NEW n \in Skills \ unsure, Tells(records'[n], disk'[n], n \in spoilt')
  PROVE  SureOf(n)'
BY EndChanges, IdleCall, ChangesSure

LEMMA FilterSure ==
  ASSUME Typed, Overlap, Sure, AllKept, NEW c \in Commands, UninstallFilter(c),
         NEW n \in Skills \ unsure'
  PROVE  SureOf(n)'
<1> DEFINE b == cmd[c]
<1>1. /\ b.at = "filter" /\ Busy(c) /\ UNCHANGED <<disk, records, unsure, version, approved, spoilt>>
  BY DEF UninstallFilter, At, Busy, localVars, serverVars
<1>2. /\ n \in b.works => disk[n] = Absent
      /\ n \notin b.works => Tells(records[n], disk[n], n \in spoilt)
      /\ b.kind # "update"
  BY <1>1, Knows DEF WorkOf, Shaped
<1>3. CASE file = "whole"
  <2>1. PICK call \in CmdSet :
          /\ Changes(c, call) /\ call.at = "list" /\ call.kind = b.kind
          /\ call.works = b.works /\ call.records = Entry(records, b.works, Absent)
    BY <1>3, FilterCall DEF Call
  <2>2. n \in b.works => call.records[n] = Absent
    BY <2>1 DEF Entry
  <2>3. n \in b.works => WorkOf(call, n)'
    BY <1>1, <1>2, <2>1, <2>2, NotThese DEF WorkOf, Tells
  <2>4. QED
    BY <1>1, <1>2, <2>1, <2>3, ChangesSure
<1>4. CASE file # "whole"
  <2>1. file # "empty"
    <3>1. ASSUME NEW d \in Commands, At(d, "write") PROVE FALSE
      BY <1>1, <3>1, Solo, IdleCall DEF At
    <3>2. QED
      BY <1>1, <3>1 DEF Overlap
  <2>2. records[n] = Absent
    BY <1>4, <2>1 DEF Overlap, Typed, TypeOK, NoRecords
  <2>3. Tells(records'[n], disk'[n], n \in spoilt')
    BY <1>1, <1>2, <2>2, NotThese DEF Tells
  <2>4. QED
    BY <1>1, <1>4, <2>3, EndSure DEF UninstallFilter
<1>5. QED
  BY <1>3, <1>4

LEMMA TruncateSure ==
  ASSUME Typed, Overlap, Sure, AllKept, NEW c \in Commands, Truncate(c),
         NEW n \in Skills \ unsure'
  PROVE  SureOf(n)'
<1> DEFINE b == cmd[c]
<1>1. /\ Busy(c) /\ UNCHANGED <<disk, records, unsure, version, approved, spoilt>>
  BY DEF Truncate, At, Busy, serverVars
<1>2. /\ n \in b.works => WorkOf(b, n)
      /\ n \notin b.works => Tells(records[n], disk[n], n \in spoilt)
  BY <1>1, Knows
<1>3. b.todo = {} /\ b.at \in {"list", "info"}
  BY TruncateCall
<1>4. PICK call \in CmdSet :
        /\ Changes(c, call) /\ call.at = "write" /\ call.kind = b.kind
        /\ call.works = b.works /\ call.todo = {}
        /\ call.records = b.records /\ call.updated = b.updated
  BY TruncateCall DEF Call
<1>5. n \in b.works => WorkOf(call, n)'
  BY <1>1, <1>2, <1>3, <1>4 DEF WorkOf, Tells
<1>6. QED
  BY <1>1, <1>2, <1>4, <1>5, ChangesSure

LEMMA EndsSure ==
  ASSUME Typed, Overlap, Sure, AllKept, NEW c \in Commands,
         UpdateNothing(c) \/ Write(c) \/ Kill(c), NEW n \in Skills \ unsure'
  PROVE  SureOf(n)'
<1> DEFINE b == cmd[c]
<1>1. Busy(c) /\ End(c) /\ UNCHANGED <<disk, spoilt>>
  BY DEF UpdateNothing, Write, Kill, At, Busy, localVars
<1>2. n \in Skills \ unsure
  BY DEF UpdateNothing, Write, Kill, Doubt
<1>3. /\ n \in b.works => WorkOf(b, n)
      /\ n \notin b.works => Tells(records[n], disk[n], n \in spoilt)
      /\ KeptOf(b, records) /\ ~b.loose /\ Shaped(b)
  BY <1>1, <1>2, Knows
<1>4. CASE UpdateNothing(c)
  <2>1. b.at = "info" /\ ~b.updated /\ UNCHANGED records
    BY <1>4 DEF UpdateNothing, At, localVars
  <2>2. Tells(records[n], disk[n], n \in spoilt)
    BY <1>3, <2>1 DEF WorkOf, Shaped
  <2>3. QED
    BY <1>1, <1>2, <2>1, <2>2, EndSure
<1>5. CASE Write(c)
  <2>1. b.at = "write" /\ records' = b.records
    BY <1>5 DEF Write, At
  <2>2. Tells(b.records[n], disk[n], n \in spoilt)
    BY <1>3, <2>1 DEF WorkOf, KeptOf
  <2>3. QED
    BY <1>1, <1>2, <2>1, <2>2, EndSure
<1>6. CASE Kill(c)
  <2>1. n \notin b.works /\ UNCHANGED records
    BY <1>6 DEF Kill, Doubt, localVars
  <2>2. QED
    BY <1>1, <1>2, <1>3, <2>1, EndSure
<1>7. QED
  BY <1>4, <1>5, <1>6

\* The server moves: what it does to a skill being worked on is in doubt.
LEMMA ServerSure ==
  ASSUME Typed, Sure, NEW k \in Changing, Point(k) \/ Sync(k) \/ Decide(k),
         NEW n \in Skills \ unsure'
  PROVE  SureOf(n)'
<1>1. UNCHANGED <<cmd, disk, records, spoilt>> /\ Disturb(k)
  BY DEF Point, Sync, Decide, localVars
<1>2. n \in Skills \ unsure /\ SureOf(n)
  BY <1>1, SureIs DEF Disturb, Doubt
<1>3. ASSUME NEW c \in Commands, n \in cmd[c].works PROVE Work(c, n)'
  <2>1. n # k
    BY <1>1, <1>3 DEF Disturb, Doubt
  <2>2. version'[n] = version[n] /\ (n \in approved' <=> n \in approved)
    BY <2>1 DEF Point, Sync, Decide, Typed, TypeOK
  <2>3. WorkOf(cmd[c], n)
    BY <1>2, <1>3, WorkIs DEF SureOf
  <2>4. QED
    BY <1>1, <2>2, <2>3 DEF WorkOf, Work, Holds, At
<1>4. QED
  BY <1>1, <1>2, <1>3 DEF SureOf

\* An installation that fails is in doubt, and nothing else is touched.
LEMMA SpoilSure ==
  ASSUME Typed, Sure, NEW c \in Commands, NEW k \in Skills, InstallSpoil(c, k),
         NEW n \in Skills \ unsure'
  PROVE  SureOf(n)'
<1>1. /\ n # k /\ n \in Skills \ unsure /\ SureOf(n)
      /\ UNCHANGED <<cmd, records, version, approved>>
      /\ disk' = [disk EXCEPT ![k] = Partial] /\ spoilt' = spoilt \cup {k}
  BY SureIs DEF InstallSpoil, Put, Doubt, serverVars
<1>2. disk'[n] = disk[n] /\ (n \in spoilt' <=> n \in spoilt)
  BY <1>1 DEF Typed, TypeOK
<1>3. ASSUME NEW d \in Commands, n \in cmd[d].works PROVE Work(d, n)'
  <2>1. WorkOf(cmd[d], n)
    BY <1>1, <1>3, WorkIs DEF SureOf
  <2>2. QED
    BY <1>1, <1>2, <2>1 DEF WorkOf, Work, Holds, At
<1>4. QED
  BY <1>1, <1>2, <1>3 DEF SureOf

\* A command starts by itself: nothing was being worked on.
LEMMA StartSure ==
  ASSUME Typed, Overlap, Sure, NEW c \in Commands, NEW call \in CmdSet, Starts(c, call),
         ~call.loose, NEW n \in Skills \ unsure',
         n \in call.works => WorkOf(call, n)',
         n \notin call.works => /\ records'[n] = records[n] /\ disk'[n] = disk[n]
                                /\ (n \in spoilt' <=> n \in spoilt)
  PROVE  SureOf(n)'
<1>1. \A d \in Commands : ~Busy(d)
  BY DEF Starts, Settles
<1>2. \A d \in Commands : cmd[d] = Idle
  BY <1>1 DEF Typed, Shape, At, Busy
<1>3. n \notin call.works => n \notin unsure
  BY <1>1 DEF Starts, Settles
<1>4. n \notin call.works => Tells(records[n], disk[n], n \in spoilt)
  BY <1>2, <1>3, IdleCall DEF Sure
<1>5. ASSUME NEW d \in Commands, n \in cmd'[d].works PROVE Work(d, n)'
  <2>1. d = c
    BY <1>2, <1>5, IdleCall DEF Starts
  <2>2. n \in call.works /\ WorkOf(call, n)'
    BY <1>5, <2>1 DEF Starts
  <2>3. /\ cmd'[c].at = call.at /\ cmd'[c].kind = call.kind /\ cmd'[c].todo = call.todo
        /\ cmd'[c].records = call.records /\ cmd'[c].updated = call.updated
        /\ cmd'[c].skill = call.skill /\ cmd'[c].version = call.version
    BY DEF Starts
  <2>4. QED
    BY <2>1, <2>2, <2>3, WorkBecomes
<1>6. (\A d \in Commands : n \notin cmd'[d].works) => n \notin call.works
  BY DEF Starts
<1>7. QED
  BY <1>4, <1>5, <1>6 DEF SureOf

\* A list that is empty is no start for being sure.
LEMMA EmptyUnsure ==
  ASSUME Typed, Overlap, NEW c \in Commands, NEW call \in CmdSet, Starts(c, call),
         NEW n \in Skills \ unsure'
  PROVE  /\ file # "empty"
         /\ n \in call.works /\ call.kind # "update" => n \notin Torn
         /\ call.kind = "update" => n \notin unsure
<1>1. {d \in Commands : Busy(d)} = {}
  BY DEF Starts, Settles
<1>2. file = "empty" => unsure = Skills
  BY <1>1 DEF Overlap, At, Busy
<1>3. QED
  BY <1>1, <1>2 DEF Starts, Settles

LEMMA BeginSure ==
  ASSUME Typed, Overlap, Sure, NEW c \in Commands, NEW k \in Skills,
         InstallFetch(c, k) \/ UninstallRemove(c, k), NEW n \in Skills \ unsure'
  PROVE  SureOf(n)'
<1>0. disk \in [Skills -> Versions \cup {Absent, ErrorPage, Partial}]
  BY DEF Typed, TypeOK
<1>1. CASE InstallFetch(c, k)
  <2>1. PICK call \in CmdSet :
          /\ Starts(c, call) /\ call.at = "version" /\ call.kind = "install"
          /\ call.works = {k} /\ ~call.loose
    BY <1>1, FetchCall DEF Call
  <2>2. /\ disk' = [disk EXCEPT ![k] = content[k]] /\ UNCHANGED <<records, version>>
        /\ spoilt' = spoilt \ {k}
    BY <1>1 DEF InstallFetch, Put, serverVars
  <2>3. n = k => content[n] = version[n]
    BY <2>1, EmptyUnsure DEF Torn
  <2>4. n = k => WorkOf(call, n)'
    BY <1>0, <2>1, <2>2, <2>3 DEF WorkOf
  <2>5. QED
    BY <1>0, <2>1, <2>2, <2>4, StartSure
<1>2. CASE UninstallRemove(c, k)
  <2>1. PICK call \in CmdSet :
          /\ Starts(c, call) /\ call.at = "filter" /\ call.kind = "uninstall"
          /\ call.works = {k} /\ ~call.loose
    BY <1>2, UninstallCall DEF Call
  <2>2. disk' = [disk EXCEPT ![k] = Absent] /\ UNCHANGED records /\ spoilt' = spoilt \ {k}
    BY <1>2 DEF UninstallRemove, Put
  <2>3. n = k => WorkOf(call, n)'
    BY <1>0, <2>1, <2>2 DEF WorkOf
  <2>4. QED
    BY <1>0, <2>1, <2>2, <2>3, StartSure
<1>3. QED
  BY <1>1, <1>2

LEMMA UpdateSure ==
  ASSUME Typed, Overlap, Sure, NEW c \in Commands, NEW names \in SUBSET Skills,
         UpdateRead(c, names), NEW n \in Skills \ unsure'
  PROVE  SureOf(n)'
<1>1. \E call \in CmdSet :
        Starts(c, call) /\ Call(call, "info", "update", names, names, records, FALSE, FALSE)
  BY UpdateCall
<1>2. PICK call \in CmdSet :
        /\ Starts(c, call) /\ call.at = "info" /\ call.kind = "update"
        /\ call.works = names /\ call.todo = names /\ call.records = records
        /\ ~call.updated /\ ~call.loose
  BY <1>1 DEF Call
<1>3. UNCHANGED <<disk, records, spoilt>> /\ n \in Skills \ unsure
  BY <1>2, EmptyUnsure DEF UpdateRead, localVars
<1>4. {d \in Commands : Busy(d)} = {}
  BY <1>2 DEF Starts, Settles
<1>5. \A d \in Commands : cmd[d] = Idle
  BY <1>4 DEF Typed, Shape, At, Busy
<1>6. Tells(records[n], disk[n], n \in spoilt)
  BY <1>3, <1>5, IdleCall DEF Sure
<1>7. n \in names => WorkOf(call, n)'
  BY <1>2, <1>3, <1>6 DEF WorkOf, Tells
<1>8. QED
  BY <1>2, <1>3, <1>7, StartSure

LEMMA SureStep == Typed /\ Overlap /\ AllKept /\ Sure /\ [Next]_vars => Sure'
<1> SUFFICES ASSUME Typed, Overlap, AllKept, Sure, [Next]_vars, NEW n \in Skills \ unsure'
             PROVE  SureOf(n)'
  BY SureIs
<1>1. CASE UNCHANGED vars
  <2>1. n \in Skills \ unsure /\ SureOf(n)
    BY <1>1, SureIs DEF vars
  <2>2. QED
    BY <1>1, <2>1 DEF vars, serverVars, localVars, SureOf, Work, Holds, At
<1>2. QED
  BY <1>1, Cases, BeginSure, SpoilSure, UpdateSure, ReadSure, InfoSure, SkipSure, ContentSure,
     FilterSure, TruncateSure, EndsSure, ServerSure
-----------------------------------------------------------------------------
(* The properties.                                                         *)

Inv == Typed /\ Overlap /\ AllKept /\ Sure

LEMMA InvInit == Init => Inv
<1> SUFFICES ASSUME Init PROVE Inv
  OBVIOUS
<1>1. \A c \in Commands : cmd[c] = Idle
  BY DEF Init
<1>2. Overlap /\ AllKept
  BY <1>1, IdleCall DEF Init, Overlap, AllKept, Kept, Holds, Busy
<1>3. Sure
  BY <1>1, IdleCall, NotThese DEF Init, Sure, Tells, NoRecords
<1>4. QED
  BY <1>2, <1>3, TypedInit DEF Inv

LEMMA Inductive == Spec => []Inv
<1>1. Inv /\ [Next]_vars => Inv'
  BY TypedStep, OverlapStep, KeptStep, SureStep DEF Inv
<1>2. QED
  BY <1>1, InvInit, PTL DEF Spec

\* cmd_install.go, public.go: types, for any skills, commands and versions.
THEOREM TypeCorrect == Spec => []TypeOK
<1>1. Inv => TypeOK
  BY DEF Inv, Typed
<1>2. QED
  BY <1>1, Inductive, PTL

\* cmd_install.go: whatever commands, kills and releases come together, the
\* list tells of the files but for the skills they put in doubt.
THEOREM ListCorrect == Spec => []ListTellsFiles
<1>1. Inv => ListTellsFiles
  BY DEF Inv, Sure, Tells, ListTellsFiles
<1>2. QED
  BY <1>1, Inductive, PTL

\* cmd_install.go: a command that no other overlapped, and that found the list
\* whole, writes back the records of other skills as they were.
THEOREM BystandersCorrect == Spec => BystandersKept
<1>1. ASSUME Inv, [Next]_vars, NEW n \in Skills, records'[n] # records[n]
      PROVE  \E c \in Commands : At(c, "write") /\ (n \in cmd[c].works \/ cmd[c].loose)
  <2>1. PICK c \in Commands : Write(c)
    BY <1>1, Cases
       DEF InstallFetch, InstallSpoil, UninstallRemove, UpdateRead, UpdateInfo, UpdateSkip,
           UpdateSpoil, InstallRead, UpdateContent, UpdateRefused, UpdateNothing, UninstallFilter,
           Truncate, Kill, Point, Sync, Decide,
           localVars, vars
  <2>2. At(c, "write") /\ records' = cmd[c].records
    BY <2>1 DEF Write
  <2>3. n \notin cmd[c].works /\ ~cmd[c].loose => cmd[c].records[n] = records[n]
    BY <1>1, <2>2 DEF Inv, AllKept, Kept, Holds, At
  <2>4. QED
    BY <1>1, <2>2, <2>3, SMTT(60)
<1>2. Inv /\ [Next]_vars => [\A n \in Skills : records'[n] # records[n] =>
        \E c \in Commands : /\ At(c, "write")
                            /\ n \in cmd[c].works \/ cmd[c].loose]_vars
  BY <1>1
<1>3. QED
  BY <1>2, Inductive, PTL DEF Spec, BystandersKept

\* A command is over only by one of its last steps.
LEMMA Ends ==
  ASSUME Typed, [Next]_vars, NEW c \in Commands, Busy(c), cmd'[c] = Idle,
         cmd[c].kind = "update"
  PROVE  UpdateNothing(c) \/ Write(c) \/ Kill(c)
<1>1. cmd[c].at # "idle" /\ cmd'[c].at = "idle"
  BY IdleCall DEF Busy, At
<1>2. \A d \in Commands : \A call : Changes(d, call) => d = c /\ call.at = "idle"
  BY <1>1 DEF Changes
<1>3. \A d \in Commands, call \in CmdSet : Starts(d, call) => call.at = "idle"
  BY <1>1 DEF Starts, Busy, At
<1>4. ASSUME NEW d \in Commands, NEW n \in Skills,
             \/ InstallFetch(d, n) \/ UninstallRemove(d, n) \/ UpdateInfo(d, n)
             \/ UpdateSkip(d, n) \/ UpdateSpoil(d, n)
      PROVE  FALSE
  BY <1>2, <1>3, <1>4, FetchCall, UninstallCall, InfoCall, SkipCall, ZenonT(60) DEF Call
<1>5. ASSUME NEW d \in Commands, NEW names \in SUBSET Skills, UpdateRead(d, names) PROVE FALSE
  <2>1. \E call \in CmdSet :
          Starts(d, call) /\ Call(call, "info", "update", names, names, records, FALSE, FALSE)
    BY <1>5, UpdateCall
  <2>2. QED
    BY <1>3, <2>1 DEF Call
<1>6. ASSUME NEW d \in Commands,
             InstallRead(d) \/ UpdateContent(d) \/ UpdateRefused(d) \/ Truncate(d)
      PROVE  FALSE
  BY <1>2, <1>6, ReadCall, ContentCall, TruncateCall DEF Call
<1>7. ASSUME NEW d \in Commands, UninstallFilter(d) PROVE FALSE
  <2>1. CASE file = "whole"
    BY <1>2, <1>7, <2>1, FilterCall DEF Call
  <2>2. CASE file # "whole"
    <3>1. d = c
      BY <1>2, <1>7, <2>2, EndChanges DEF UninstallFilter
    <3>2. QED
      BY <1>7, <3>1 DEF UninstallFilter, Typed, Shape, At
  <2>3. QED
    BY <2>1, <2>2
<1>8. ASSUME NEW d \in Commands, UpdateNothing(d) \/ Write(d) \/ Kill(d) PROVE d = c
  BY <1>2, <1>8, EndChanges DEF UpdateNothing, Write, Kill
<1>9. ~UNCHANGED cmd
  BY <1>1
<1>10. QED
  BY <1>4, <1>5, <1>6, <1>7, <1>8, <1>9, Cases
     DEF InstallSpoil, Point, Sync, Decide, vars

\* cmd_install.go: of any number of skills, an update that ends leaves those it
\* did not skip, and that nothing put in doubt, as the server has them.
THEOREM UpdateCorrect == Spec => UpdateCatchesUp
<1>1. ASSUME Inv, [Next]_vars, NEW c \in Commands, cmd[c].kind = "update", Busy(c),
             cmd'[c] = Idle, NEW n \in (cmd[c].works \cap approved) \ unsure'
      PROVE  records'[n] = version[n] /\ (n \notin spoilt' => disk'[n] = version[n])
  <2>0. Typed /\ Overlap /\ AllKept /\ Sure
    BY <1>1 DEF Inv
  <2>1. UpdateNothing(c) \/ Write(c) \/ Kill(c)
    BY <1>1, <2>0, Ends
  <2>2. ~Kill(c)
    BY <1>1, <2>0, CmdType DEF Kill, Doubt, CmdSet
  <2>3. n \in Skills \ unsure /\ UNCHANGED <<disk, unsure, spoilt>> /\ cmd[c].todo = {}
    BY <1>1, <2>0, <2>1, <2>2, CmdType
       DEF UpdateNothing, Write, localVars, CmdSet, Typed, Shape, At
  <2>4. WorkOf(cmd[c], n)
    BY <1>1, <2>0, <2>3, Knows
  <2>5. cmd[c].records[n] = version[n] /\ (n \notin spoilt => disk[n] = version[n])
    BY <1>1, <2>3, <2>4 DEF WorkOf
  <2>6. records'[n] = cmd[c].records[n]
    BY <1>1, <2>1, <2>2, <2>4 DEF UpdateNothing, Write, localVars, WorkOf
  <2>7. QED
    BY <2>3, <2>5, <2>6
<1>2. Inv /\ [Next]_vars =>
        [\A c \in Commands :
           cmd[c].kind = "update" /\ Busy(c) /\ cmd'[c] = Idle =>
             \A n \in (cmd[c].works \cap approved) \ unsure' :
               records'[n] = version[n] /\ (n \notin spoilt' => disk'[n] = version[n])]_vars
  BY <1>1
<1>3. QED
  BY <1>2, Inductive, PTL DEF Spec, UpdateCatchesUp
=============================================================================
