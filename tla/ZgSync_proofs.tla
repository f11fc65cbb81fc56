----------------------------- MODULE ZgSync_proofs -----------------------------
(***************************************************************************)
(* Proofs about ZgSync, for any number of processes, paths, texts, scopes, *)
(* edits and crashes.                                                      *)
(***************************************************************************)
EXTENDS ZgSync, TLAPS

-----------------------------------------------------------------------------
(* The steps of Next: the user's, or one process's own *)

Starting(z) ==
  \/ \E s \in Scopes : StartSearch(z, s)
  \/ \E c \in Commands : StartRebuild(z, c)
  \/ ReadRows(z) \/ ReadSettings(z) \/ LoadLevel(z) \/ SeedDefaults(z) \/ SetLevel(z)

Looking(z) ==
  \/ Walk(z) \/ WalkAll(z) \/ StatDone(z)
  \/ \E p \in Path : Stat(z, p) \/ LoadMeta(z, p) \/ LoadBody(z, p)

Ending(z) ==
  \/ Decide(z) \/ Lock(z) \/ Query(z) \/ FileGone(z) \/ GiveUp(z)
  \/ RollBack(z) \/ MarkDirty(z) \/ Busy(z) \/ Crash(z)

Own(z) == Starting(z) \/ Looking(z) \/ Commit(z) \/ Ending(z)

-----------------------------------------------------------------------------
(* Types *)

\* The control points of a process and its commands.
Label ==
  {"idle", "rows", "settings", "walk", "stat", "load", "lock", "write", "query",
   "done", "marking", "seed", "set level", "load level"}

Command == {"search", "rebuild", "rebuild fts", "rebuild fts+vector"}

\* A row of the plan: what a process may note of a path.
Noted == [tag : Tags, stamp : Stamp, text : Text \cup {Binary}]

LEMMA FoundIsNoted ==
  /\ \A tag \in Tags : Found(tag) \in Noted
  /\ Nothing \in [Path -> Noted]
<1>1. \A tag \in Tags : Found(tag) \in Noted
  BY ZgSyncBounds DEF Found, Noted, Stamp
<1> QED BY <1>1 DEF Nothing, Tags

\* The texts that documents use are texts.
LEMMA UsedIsText ==
  ASSUME NEW d \in [Path -> Doc \cup {NoDoc}]
  PROVE  Index!Used(d) \subseteq Text
BY DEF Index!Used, KeysOf, Doc

LEMMA InitTypeOK == Init => TypeOK
<1> SUFFICES ASSUME Init PROVE TypeOK
  OBVIOUS
<1>1. /\ disk \in [Path -> File \cup {Absent}]
      /\ docs \in [Path -> Doc \cup {NoDoc}]
      /\ clock \in 0..MaxEdits /\ crashes \in 0..MaxCrashes
  <2>1. /\ [stamp : {0}, text : Text] \subseteq Doc
        /\ [stamp : {0}, text : Text] \subseteq File
    BY ZgSyncBounds DEF Doc, File, Stamp
  <2> QED BY <2>1, ZgSyncBounds DEF Init
<1>2. embedded \subseteq Text
  BY <1>1, UsedIsText DEF Init
<1>3. level \in Level
  BY ZgSyncAssumption DEF Init
<1> QED BY <1>1, <1>2, <1>3, FoundIsNoted DEF Init, TypeOK, Noted, Level

\* What Return and Forget leave of a process's locals has the right type.
LEMMA ReturnTypes ==
  ASSUME TypeOK, NEW z \in Proc, Return(z) \/ Forget(z)
  PROVE  /\ rows' \in [Proc -> [Path -> Doc \cup {NoDoc}]]
         /\ known' \in [Proc -> Level] /\ wasDirty' \in [Proc -> BOOLEAN]
         /\ plan' \in [Proc -> [Path -> Noted]]
         /\ cmd' \in [Proc -> Command]
         /\ scope' \in [Proc -> SUBSET Path] /\ touched' \in [Proc -> SUBSET Path]
<1>1. /\ rows' = [rows EXCEPT ![z] = [p \in Path |-> NoDoc]]
      /\ known' = [known EXCEPT ![z] = "fts"]
      /\ wasDirty' = [wasDirty EXCEPT ![z] = FALSE]
      /\ plan' = [plan EXCEPT ![z] = Nothing]
  BY DEF Return, Forget
<1>2. /\ cmd' = cmd \/ cmd' = [cmd EXCEPT ![z] = "search"]
      /\ scope' = scope \/ scope' = [scope EXCEPT ![z] = {}]
      /\ touched' = touched \/ touched' = [touched EXCEPT ![z] = {}]
  BY DEF Return, Forget
<1>3. rows' \in [Proc -> [Path -> Doc \cup {NoDoc}]]
  BY <1>1 DEF TypeOK
<1>4. known' \in [Proc -> Level] /\ wasDirty' \in [Proc -> BOOLEAN]
  BY <1>1 DEF TypeOK, Level
<1>5. plan' \in [Proc -> [Path -> Noted]]
  BY <1>1, FoundIsNoted DEF TypeOK, Noted
<1>6. cmd' \in [Proc -> Command]
  BY <1>2 DEF TypeOK, Command
<1>7. scope' \in [Proc -> SUBSET Path] /\ touched' \in [Proc -> SUBSET Path]
  BY <1>2 DEF TypeOK
<1> QED BY <1>3, <1>4, <1>5, <1>6, <1>7

\* Every label a step goes to is one.
LEMMA GotoType ==
  ASSUME TypeOK, NEW z \in Proc, NEW label \in Label, Goto(z, label)
  PROVE  pc' \in [Proc -> Label]
BY DEF TypeOK, Goto, Label

\* What the user does is a change, with a stamp of its own.
LEMMA UserChange ==
  ASSUME TypeOK, User
  PROVE  \E p \in Path, now \in File \cup {Absent} :
           Change(p, now) /\ (now = Absent \/ now.stamp = clock + 1)
<1>1. CASE \E p \in Path : Remove(p)
  BY <1>1 DEF Remove
<1>2. CASE \E p \in Path, text \in Text \cup {Binary, Blank} : Edit(p, text)
  <2>1. PICK p \in Path, text \in Text \cup {Binary, Blank} : Edit(p, text)
    BY <1>2
  <2>2. clock \in 0..MaxEdits /\ clock < MaxEdits
    BY <2>1 DEF TypeOK, Edit, Change
  <2>3. clock + 1 \in Stamp
    BY <2>2, ZgSyncBounds DEF Stamp
  <2>4. [stamp |-> clock + 1, text |-> text] \in File
    BY <2>3 DEF File
  <2> QED BY <2>1, <2>4 DEF Edit
<1> QED BY <1>1, <1>2 DEF User

LEMMA UserTypeOK == TypeOK /\ User => TypeOK'
<1> SUFFICES ASSUME TypeOK, User PROVE TypeOK'
  OBVIOUS
<1>1. PICK p \in Path, now \in File \cup {Absent} : Change(p, now)
  BY UserChange
<1>2. clock \in 0..MaxEdits /\ clock < MaxEdits /\ clock' = clock + 1
  BY <1>1 DEF TypeOK, Change
<1>3. clock' \in 0..MaxEdits
  BY <1>2, ZgSyncBounds
<1>4. disk' \in [Path -> File \cup {Absent}]
  BY <1>1 DEF Change, TypeOK
<1>5. touched' \in [Proc -> SUBSET Path]
  BY <1>1 DEF Change, TypeOK
<1> QED BY <1>1, <1>3, <1>4, <1>5 DEF Change, TypeOK, store

\* Starting, and reading rows and settings.
LEMMA ReadTypeOK ==
  ASSUME TypeOK, NEW z \in Proc, Starting(z)
  PROVE  TypeOK'
<1>1. pc' \in [Proc -> Label]
  <2>1. \A l \in {"rows", "settings", "walk", "seed", "set level", "load level"} : l \in Label
    BY DEF Label
  <2> QED BY <2>1, GotoType DEF Starting, StartSearch, StartRebuild, ReadRows, ReadSettings, LoadLevel,
                                SeedDefaults, SetLevel
<1>2. CASE \E s \in Scopes : StartSearch(z, s)
  <2>1. PICK s \in Scopes : StartSearch(z, s)
    BY <1>2
  <2>2. cmd' \in [Proc -> Command] /\ scope' \in [Proc -> SUBSET Path]
    BY <2>1, ZgSyncAssumption DEF StartSearch, TypeOK, Command
  <2> QED BY <1>1, <2>1, <2>2 DEF StartSearch, TypeOK, store, Label, Command
<1>3. CASE \E c \in Commands : StartRebuild(z, c)
  <2>1. PICK c \in Commands : StartRebuild(z, c)
    BY <1>3
  <2>2. c \in Command
    BY ZgSyncCommands DEF Command
  <2>3. cmd' \in [Proc -> Command] /\ scope' \in [Proc -> SUBSET Path]
    BY <2>1, <2>2 DEF StartRebuild, TypeOK, Command
  <2>4. known' \in [Proc -> Level]
    BY <2>1 DEF StartRebuild, TypeOK, Override, Level
  <2> QED BY <1>1, <2>1, <2>3, <2>4 DEF StartRebuild, TypeOK, store, Label, Command
<1>4. CASE ReadRows(z)
  BY <1>1, <1>4 DEF ReadRows, TypeOK, store, Label
<1>5. CASE ReadSettings(z)
  BY <1>1, <1>5 DEF ReadSettings, TypeOK, store, Label
<1>6. CASE LoadLevel(z)
  BY <1>1, <1>6 DEF LoadLevel, TypeOK, store, Label
<1>7. CASE SeedDefaults(z)
  BY <1>1, <1>7 DEF SeedDefaults, TypeOK, local, Level, Label
<1>8. CASE SetLevel(z)
  BY <1>1, <1>8 DEF SetLevel, TypeOK, local, Label
<1> QED BY <1>2, <1>3, <1>4, <1>5, <1>6, <1>7, <1>8 DEF Starting

\* Walking, stat-ing and loading.
LEMMA LookTypeOK ==
  ASSUME TypeOK, NEW z \in Proc, Looking(z)
  PROVE  TypeOK'
<1>1. /\ \A tag \in Tags : Found(tag) \in Noted
      /\ plan \in [Proc -> [Path -> Noted]]
  BY FoundIsNoted DEF TypeOK, Noted
<1>2. {"walked", "out", "load", "fresh", "skipped", "meta", "doc"} \subseteq Tags
  BY DEF Tags
<1>3. \A p \in Path : Exists(p) => disk[p].stamp \in Stamp
  BY DEF TypeOK, Exists, File
<1>4. (pc' = pc \/ Goto(z, "stat") \/ Goto(z, "load")) => pc' \in [Proc -> Label]
  BY DEF Goto, TypeOK, Label
<1>5. plan' \in [Proc -> [Path -> Noted]] /\ (pc' = pc \/ Goto(z, "stat") \/ Goto(z, "load"))
  <2>1. CASE Walk(z) \/ WalkAll(z)
    BY <2>1, <1>1, <1>2 DEF Walk, WalkAll
  <2>2. CASE StatDone(z)
    BY <2>2, <1>1 DEF StatDone, local
  <2>3. CASE \E p \in Path : Stat(z, p)
    BY <2>3, <1>1, <1>2 DEF Stat, Note
  <2>4. CASE \E p \in Path : LoadMeta(z, p)
    <3>1. PICK p \in Path : LoadMeta(z, p)
      BY <2>4
    <3>2. [tag |-> "meta", stamp |-> disk[p].stamp, text |-> Binary] \in Noted
      BY <3>1, <1>2, <1>3 DEF LoadMeta, Noted
    <3> QED BY <3>1, <3>2, <1>1 DEF LoadMeta, Note
  <2>5. CASE \E p \in Path : LoadBody(z, p)
    <3>1. PICK p \in Path : LoadBody(z, p)
      BY <2>5
    <3>2. Loads(p) => [tag |-> "doc", stamp |-> plan[z][p].stamp, text |-> disk[p].text] \in Noted
      BY <1>1, <1>2 DEF Loads, Noted
    <3> QED BY <3>1, <3>2, <1>1, <1>2 DEF LoadBody, Note
  <2> QED BY <2>1, <2>2, <2>3, <2>4, <2>5 DEF Looking
<1> QED BY <1>4, <1>5 DEF Looking, Walk, WalkAll, StatDone, Stat, LoadMeta, LoadBody, TypeOK, Noted,
                         Label, store, local

\* A document a process has loaded has a text: the loader refuses the rest.
Sourced ==
  \A z \in Proc, p \in Path : plan[z][p].tag = "doc" => plan[z][p].text \in Text

\* What a process writes are documents, and the texts it embeds are texts.
LEMMA BatchType ==
  ASSUME TypeOK, Sourced, NEW z \in Proc
  PROVE  /\ \A p \in DOMAIN Batch(z) : Batch(z)[p] \in Doc \cup {NoDoc}
         /\ DOMAIN Batch(z) \subseteq Path
         /\ cmd[z] # "search" => Batch(z) \in [Path -> Doc \cup {NoDoc}]
         /\ Missing(z) \subseteq Text
<1>1. Tagged(z, "doc") \subseteq Path /\ Deletes(z) \subseteq Path
  BY DEF Tagged, Deletes
<1>2. \A p \in Tagged(z, "doc") : plan[z][p].stamp \in Stamp /\ plan[z][p].text \in Text
  BY DEF Tagged, Sourced, TypeOK
<1>3. /\ DOMAIN Loaded(z) = Tagged(z, "doc")
      /\ \A p \in DOMAIN Loaded(z) : Loaded(z)[p] \in Doc /\ Loaded(z)[p].text \in Text
  BY <1>2 DEF Loaded, Doc
<1> QED BY <1>1, <1>3 DEF Batch, Missing

LEMMA CommitTypeOK ==
  ASSUME TypeOK, Sourced, NEW z \in Proc, Commit(z)
  PROVE  TypeOK'
<1>1. docs' \in [Path -> Doc \cup {NoDoc}]
  <2>1. CASE cmd[z] = "search"
    <3>1. docs' = Index!Applied(docs, Batch(z))
      BY <2>1 DEF Commit, Index!Reconcile
    <3> QED BY <3>1, BatchType DEF Index!Applied, TypeOK
  <2>2. CASE cmd[z] # "search"
    BY <2>2, BatchType DEF Commit, Index!Rebuild
  <2> QED BY <2>1, <2>2
<1>2. embedded' \subseteq Text
  <2>1. CASE cmd[z] = "search"
    <3>1. embedded' = Index!EmbeddedAfter(docs, docs', embedded, known[z] = "fts+vector")
      BY <2>1 DEF Commit, Index!Reconcile
    <3>2. Index!Used(docs') \subseteq Text
      BY <1>1, UsedIsText
    <3> QED BY <3>1, <3>2 DEF Index!EmbeddedAfter
  <2>2. CASE cmd[z] # "search"
    <3>1. Index!Used(Batch(z)) \subseteq Text
      BY <2>2, BatchType, UsedIsText
    <3> QED BY <2>2, <3>1 DEF Commit, Index!Rebuild
  <2> QED BY <2>1, <2>2
<1>3. pc' \in [Proc -> Label]
  BY GotoType DEF Commit, Label
<1>4. dirty' \in BOOLEAN /\ lock' \in Proc \cup {NoProc}
  BY DEF Commit, Warns
<1>5. embedding' \in [Proc -> SUBSET Text]
  BY DEF Commit, TypeOK
<1>6. UNCHANGED <<disk, clock, level, crashes>> /\ Return(z)
  BY DEF Commit
<1> QED BY <1>1, <1>2, <1>3, <1>4, <1>5, <1>6, ReturnTypes DEF TypeOK, Label, Command, Noted

\* Deciding, locking, and ending in any way other than a commit.
LEMMA EndTypeOK ==
  ASSUME TypeOK, Sourced, NEW z \in Proc, Ending(z)
  PROVE  TypeOK'
<1>1. pc' \in [Proc -> Label]
  <2>1. \E label \in Label : Goto(z, label)
    <3>1. {"lock", "query", "write", "idle", "marking"} \subseteq Label
      BY DEF Label
    <3> QED BY <3>1 DEF Ending, Decide, Lock, Query, FileGone, GiveUp, RollBack, MarkDirty, Busy,
                        Crash, Fail, Forget
  <2> QED BY <2>1, GotoType
<1>2. embedding' \in [Proc -> SUBSET Text]
  <2>1. Missing(z) \subseteq Text
    BY BatchType
  <2>2. \/ embedding' = embedding
        \/ embedding' = [embedding EXCEPT ![z] = {}]
        \/ embedding' = [embedding EXCEPT ![z] = Missing(z)]
    BY DEF Ending, Decide, Lock, Query, FileGone, GiveUp, RollBack, MarkDirty, Busy, Crash
  <2> QED BY <2>1, <2>2 DEF TypeOK
<1>3. crashes' \in 0..MaxCrashes
  <2>1. crashes \in 0..MaxCrashes
    BY DEF TypeOK
  <2>2. CASE RollBack(z) \/ Crash(z)
    BY <2>1, <2>2, ZgSyncBounds DEF RollBack, Crash
  <2>3. CASE ~(RollBack(z) \/ Crash(z))
    <3>1. UNCHANGED crashes
      BY <2>3 DEF Ending, Decide, Lock, Query, FileGone, GiveUp, MarkDirty, Busy
    <3> QED BY <2>1, <3>1
  <2> QED BY <2>2, <2>3
<1>4. lock' \in Proc \cup {NoProc}
  BY DEF Ending, Decide, Lock, Query, FileGone, GiveUp, RollBack, MarkDirty, Busy, Crash, TypeOK
<1>5. dirty' \in BOOLEAN
  BY DEF Ending, Decide, Lock, Query, FileGone, GiveUp, RollBack, MarkDirty, Busy, Crash, TypeOK,
         store
<1>6. UNCHANGED <<disk, clock, docs, embedded, level>>
  BY DEF Ending, Decide, Lock, Query, FileGone, GiveUp, RollBack, MarkDirty, Busy, Crash, store
<1>7. UNCHANGED local \/ Return(z) \/ Forget(z)
  BY DEF Ending, Decide, Lock, Query, FileGone, GiveUp, RollBack, MarkDirty, Busy, Crash, Fail
<1> QED BY <1>1, <1>2, <1>3, <1>4, <1>5, <1>6, <1>7, ReturnTypes
        DEF TypeOK, Label, Command, Noted, local

LEMMA Steps ==
  ASSUME Next
  PROVE  User \/ \E z \in Proc : Own(z)
BY DEF Next, Search, Prelude, Own, Starting, Looking, Ending

LEMMA NextTypeOK == TypeOK /\ Sourced /\ [Next]_vars => TypeOK'
<1> SUFFICES ASSUME TypeOK, Sourced, [Next]_vars PROVE TypeOK'
  OBVIOUS
<1>1. CASE UNCHANGED vars
  BY <1>1 DEF vars, store, local, TypeOK
<1>2. CASE Next
  BY <1>2, Steps, UserTypeOK, ReadTypeOK, LookTypeOK, CommitTypeOK, EndTypeOK DEF Own
<1> QED BY <1>1, <1>2

-----------------------------------------------------------------------------
(* What a step may do to the disk, the rows and the plans *)

\* A path's note changes in four ways: it stays, it loses its document, its
\* stamp is read, or its body is read.
Renoted(y, p) ==
  \/ plan'[y][p] = plan[y][p]
  \/ \E tag \in {"out", "walked", "fresh", "load", "skipped"} : plan'[y][p] = Found(tag)
  \/ /\ Exists(p) /\ plan[y][p].tag = "load"
     /\ plan'[y][p] = [tag |-> "meta", stamp |-> disk[p].stamp, text |-> Binary]
  \/ /\ Loads(p) /\ plan[y][p].tag = "meta"
     /\ plan'[y][p] = [tag |-> "doc", stamp |-> plan[y][p].stamp, text |-> disk[p].text]

LEMMA ReturnPlan ==
  ASSUME TypeOK, NEW z \in Proc, Return(z) \/ Forget(z), NEW y \in Proc, NEW p \in Path
  PROVE  plan'[y][p] = plan[y][p] \/ plan'[y][p] = Found("out")
<1>1. plan' = [plan EXCEPT ![z] = Nothing]
  BY DEF Return, Forget
<1>2. Nothing[p] = Found("out")
  BY DEF Nothing
<1> QED BY <1>1, <1>2 DEF TypeOK

LEMMA PlanStep ==
  ASSUME TypeOK, Next, NEW y \in Proc, NEW p \in Path
  PROVE  Renoted(y, p)
<1>1. CASE User
  BY <1>1 DEF User, Remove, Edit, Change, Renoted
<1>2. ASSUME NEW z \in Proc, Starting(z)
      PROVE  Renoted(y, p)
  <2>1. UNCHANGED plan
    BY <1>2 DEF Starting, StartSearch, StartRebuild, ReadRows, ReadSettings, LoadLevel, SeedDefaults,
                SetLevel, local
  <2> QED BY <2>1 DEF Renoted
<1>3. ASSUME NEW z \in Proc, Looking(z)
      PROVE  Renoted(y, p)
  <2>1. CASE Walk(z) \/ WalkAll(z)
    <3>1. PICK look \in [Path -> {Found("out"), Found("walked"), Found("load")}] :
            plan' = [plan EXCEPT ![z] = look]
      BY <2>1 DEF Walk, WalkAll
    <3> QED BY <3>1 DEF Renoted, TypeOK
  <2>2. CASE StatDone(z)
    BY <2>2 DEF StatDone, local, Renoted
  <2>3. ASSUME NEW q \in Path, Stat(z, q)
        PROVE  Renoted(y, p)
    BY <2>3 DEF Stat, Note, Renoted, TypeOK
  <2>4. ASSUME NEW q \in Path, LoadMeta(z, q)
        PROVE  Renoted(y, p)
    BY <2>4 DEF LoadMeta, Note, Tagged, Renoted, TypeOK
  <2>5. ASSUME NEW q \in Path, LoadBody(z, q)
        PROVE  Renoted(y, p)
    BY <2>5 DEF LoadBody, Note, Tagged, Renoted, TypeOK
  <2> QED BY <1>3, <2>1, <2>2, <2>3, <2>4, <2>5 DEF Looking
<1>4. ASSUME NEW z \in Proc, Commit(z) \/ Ending(z)
      PROVE  Renoted(y, p)
  <2>1. Return(z) \/ Forget(z) \/ UNCHANGED plan
    BY <1>4 DEF Ending, Commit, Decide, Lock, Query, FileGone, GiveUp, RollBack, MarkDirty, Busy,
                Crash, Fail, local
  <2> QED BY <2>1, ReturnPlan DEF Renoted
<1> QED BY <1>1, <1>2, <1>3, <1>4, Steps DEF Own

\* The user changes the disk and nothing of the processes.
LEMMA UserStep ==
  ASSUME User
  PROVE  UNCHANGED <<docs, embedded, level, lock, embedding, pc, cmd, scope, rows, known, plan>>
<1>1. ASSUME NEW p \in Path, NEW now, Change(p, now)
      PROVE  UNCHANGED <<docs, embedded, level, lock, embedding, pc, cmd, scope, rows, known,
                         plan>>
  BY <1>1 DEF Change, store
<1> QED BY <1>1 DEF User, Edit, Remove

\* Only the user changes the disk, and only a commit the rows.
LEMMA WorldStep ==
  ASSUME Next
  PROVE  /\ User \/ UNCHANGED <<disk, clock>>
         /\ (\E z \in Proc : Commit(z)) \/ UNCHANGED <<docs, embedded>>
<1>1. CASE User
  BY <1>1 DEF User, Remove, Edit, Change, store
<1>2. ASSUME NEW z \in Proc, Starting(z) \/ Looking(z)
      PROVE  UNCHANGED <<disk, clock, docs, embedded>>
  BY <1>2 DEF Starting, StartSearch, StartRebuild, ReadRows, ReadSettings, LoadLevel, SeedDefaults,
              SetLevel, Looking, Walk, WalkAll, StatDone, Stat, LoadMeta,
              LoadBody, store
<1>3. ASSUME NEW z \in Proc, Ending(z)
      PROVE  UNCHANGED <<disk, clock, docs, embedded>>
  BY <1>3 DEF Ending, Decide, Lock, Query, FileGone, GiveUp, RollBack, MarkDirty, Busy, Crash, store
<1>4. ASSUME NEW z \in Proc, Commit(z)
      PROVE  UNCHANGED <<disk, clock>>
  BY <1>4 DEF Commit
<1> QED BY <1>1, <1>2, <1>3, <1>4, Steps DEF Own

LEMMA NextSourced == TypeOK /\ Sourced /\ [Next]_vars => Sourced'
<1> SUFFICES ASSUME TypeOK, Sourced, [Next]_vars, NEW y \in Proc, NEW p \in Path
             PROVE  plan'[y][p].tag = "doc" => plan'[y][p].text \in Text
  BY DEF Sourced
<1>1. CASE UNCHANGED vars
  BY <1>1 DEF vars, local, Sourced
<1>2. CASE Next
  <2>1. Renoted(y, p)
    BY <1>2, PlanStep
  <2> QED BY <2>1 DEF Renoted, Found, Loads, Sourced
<1> QED BY <1>1, <1>2

\* The types of the state, and where documents come from.
TypeInv == TypeOK /\ Sourced

LEMMA InitTypeInv == Init => TypeInv
<1>1. Init => Sourced
  BY DEF Init, Sourced, Nothing, Found
<1> QED BY <1>1, InitTypeOK DEF TypeInv

LEMMA TypesHold == Spec => []TypeInv
<1>1. TypeInv /\ [Next]_vars => TypeInv'
  BY NextTypeOK, NextSourced DEF TypeInv
<1> QED BY <1>1, InitTypeInv, PTL DEF Spec

\* Every variable keeps its type, whatever the processes and the user do.
THEOREM TypesAreKept == Spec => []TypeOK
<1>1. TypeInv => TypeOK
  BY DEF TypeInv
<1> QED BY <1>1, TypesHold, PTL

-----------------------------------------------------------------------------
(* Stamps *)

\* No stamp is of the future, so an edit's is new; and whoever has the file's
\* stamp, a row or a loaded document, has its text.  A document that was
\* stamped before an edit and read after it keeps a stamp of the past.
Dated ==
  /\ \A p \in Path : Exists(p) => disk[p].stamp <= clock
  /\ \A p \in Path : docs[p] # NoDoc => docs[p].stamp <= clock
  /\ \A z \in Proc, p \in Path : plan[z][p].stamp <= clock
  /\ \A z \in Proc, p \in Path :
       plan[z][p].tag = "doc" /\ Exists(p) /\ plan[z][p].stamp = disk[p].stamp =>
         plan[z][p].text = disk[p].text
  /\ StampFaithful

LEMMA Clocks ==
  ASSUME TypeOK
  PROVE  /\ clock \in Int
         /\ \A p \in Path : Exists(p) => disk[p].stamp \in Int
         /\ \A p \in Path : docs[p] # NoDoc => docs[p].stamp \in Int
         /\ \A z \in Proc, p \in Path : plan[z][p].stamp \in Int
<1>1. Stamp \subseteq Int
  BY ZgSyncBounds DEF Stamp
<1>2. clock \in Stamp
  BY DEF TypeOK, Stamp
<1>3. \A p \in Path : Exists(p) => disk[p].stamp \in Stamp
  BY DEF TypeOK, Exists, File
<1>4. \A p \in Path : docs[p] # NoDoc => docs[p].stamp \in Stamp
  BY DEF TypeOK, Doc
<1>5. \A z \in Proc, p \in Path : plan[z][p].stamp \in Stamp
  BY DEF TypeOK
<1> QED BY <1>1, <1>2, <1>3, <1>4, <1>5

LEMMA InitDated == Init => Dated
<1> SUFFICES ASSUME Init PROVE Dated
  OBVIOUS
<1>1. \A p \in Path : disk[p].stamp = 0
  BY DEF Init
<1>2. \A z \in Proc, p \in Path : plan[z][p] = Found("out")
  BY DEF Init, Nothing
<1> QED BY <1>1, <1>2 DEF Init, Dated, StampFaithful, Found

\* An edit gives the file a stamp nobody has.
LEMMA UserDated ==
  ASSUME TypeInv, Dated, User
  PROVE  Dated'
<1>1. PICK p \in Path, now \in File \cup {Absent} :
        Change(p, now) /\ (now = Absent \/ now.stamp = clock + 1)
  BY UserChange DEF TypeInv
<1>2. /\ clock' = clock + 1 /\ disk' = [disk EXCEPT ![p] = now]
      /\ UNCHANGED <<docs, plan>>
  BY <1>1 DEF Change, store
<1>3. \A q \in Path : disk'[q] = IF q = p THEN now ELSE disk[q]
  BY <1>2 DEF TypeInv, TypeOK
<1> QED BY <1>1, <1>2, <1>3, Clocks DEF Dated, StampFaithful, Exists, TypeInv

\* A step of a process on an unchanged disk keeps its plan dated, and so the
\* rows it writes.
LEMMA ProcessDated ==
  ASSUME TypeInv, Dated, Next, ~User
  PROVE  Dated'
<1>1. UNCHANGED <<disk, clock>>
  BY WorldStep
<1>2. ASSUME NEW z \in Proc, NEW p \in Path
      PROVE  /\ plan'[z][p].stamp <= clock
             /\ plan'[z][p].tag = "doc" /\ Exists(p) /\ plan'[z][p].stamp = disk[p].stamp =>
                  plan'[z][p].text = disk[p].text
  <2>1. 0 <= clock
    <3>1. clock \in 0..MaxEdits
      BY DEF TypeInv, TypeOK
    <3> QED BY <3>1, ZgSyncBounds
  <2>2. Renoted(z, p)
    BY PlanStep DEF TypeInv
  <2>3. CASE \E tag \in {"out", "walked", "fresh", "load", "skipped"} : plan'[z][p] = Found(tag)
    BY <2>1, <2>3 DEF Found
  <2> QED BY <2>2, <2>3 DEF Renoted, Dated
<1>3. ASSUME NEW p \in Path
      PROVE  docs'[p] # NoDoc =>
               /\ docs'[p].stamp <= clock
               /\ Exists(p) /\ docs'[p].stamp = disk[p].stamp => docs'[p].text = disk[p].text
  <2>1. CASE UNCHANGED docs
    BY <2>1 DEF Dated, StampFaithful
  <2>2. ASSUME NEW z \in Proc, Commit(z)
        PROVE  \/ docs'[p] = docs[p] \/ docs'[p] = NoDoc
               \/ /\ plan[z][p].tag = "doc"
                  /\ docs'[p].stamp = plan[z][p].stamp /\ docs'[p].text = plan[z][p].text
    <3>1. DOMAIN Batch(z) = Path \/ cmd[z] = "search"
      BY DEF Batch
    <3>2. \/ docs'[p] = docs[p]
          \/ p \in DOMAIN Batch(z) /\ docs'[p] = Batch(z)[p]
      BY <2>2, <3>1 DEF Commit, Index!Reconcile, Index!Rebuild, Index!Applied
    <3>3. p \in DOMAIN Batch(z) =>
            Batch(z)[p] = IF p \in DOMAIN Loaded(z) THEN Loaded(z)[p] ELSE NoDoc
      BY DEF Batch
    <3>4. p \in DOMAIN Loaded(z) =>
            /\ plan[z][p].tag = "doc"
            /\ Loaded(z)[p] = [stamp |-> plan[z][p].stamp, text |-> plan[z][p].text]
      BY DEF Loaded, Tagged
    <3> QED BY <3>2, <3>3, <3>4
  <2>3. CASE \E z \in Proc : Commit(z)
    BY <2>2, <2>3 DEF Dated, StampFaithful
  <2> QED BY <2>1, <2>3, WorldStep
<1> QED BY <1>1, <1>2, <1>3 DEF Dated, StampFaithful, Exists

LEMMA DatedStep == TypeInv /\ Dated /\ [Next]_vars => Dated'
<1>1. UNCHANGED vars /\ Dated => Dated'
  BY DEF vars, store, local, Dated, StampFaithful, Exists
<1> QED BY <1>1, UserDated, ProcessDated

\* A row whose stamp is the file's stamp has the file's text, whatever was
\* edited while some process was reading: the stamp loop may skip the file.
THEOREM StampsAreFaithful == Spec => []StampFaithful
<1>1. TypeInv /\ Dated /\ [Next]_vars => Dated'
  BY DatedStep
<1>2. Dated => StampFaithful
  BY DEF Dated
<1> QED BY <1>1, <1>2, InitDated, TypesHold, PTL DEF Spec

-----------------------------------------------------------------------------
(* The writer lock *)

\* A step of a process leaves the others' variables alone.
LocalsKept(y) ==
  /\ cmd'[y] = cmd[y] /\ scope'[y] = scope[y] /\ rows'[y] = rows[y]
  /\ known'[y] = known[y] /\ plan'[y] = plan[y] /\ touched'[y] = touched[y]

Alone(z) ==
  \A y \in Proc \ {z} : pc'[y] = pc[y] /\ embedding'[y] = embedding[y] /\ LocalsKept(y)

LEMMA ReturnAlone ==
  ASSUME TypeOK, NEW z \in Proc, UNCHANGED local \/ Return(z) \/ Forget(z),
         NEW y \in Proc, y # z
  PROVE  LocalsKept(y)
<1>1. CASE UNCHANGED local
  BY <1>1 DEF local, LocalsKept
<1>2. CASE Return(z)
  BY <1>2 DEF Return, LocalsKept, TypeOK
<1>3. CASE Forget(z)
  BY <1>3 DEF Forget, LocalsKept, TypeOK
<1> QED BY <1>1, <1>2, <1>3

\* Only locking, committing and failing in a transaction have to do with the
\* lock; every other step of a process starts and ends without it, and no
\* step has to do with another process.
Unlocked(z) ==
  pc[z] # "write" /\ pc'[z] # "write" /\ UNCHANGED <<lock, embedding, docs>>

LEMMA LockStep ==
  ASSUME TypeOK, NEW z \in Proc, Own(z)
  PROVE  /\ Alone(z)
         /\ Lock(z) \/ Commit(z) \/ RollBack(z) \/ Crash(z) \/ Unlocked(z)
<1>1. CASE Starting(z)
  <2>1. pc[z] # "write" /\ UNCHANGED <<lock, embedding, docs>>
    BY <1>1 DEF Starting, StartSearch, StartRebuild, ReadRows, ReadSettings, LoadLevel,
                SeedDefaults, SetLevel, store
  <2>2. pc'[z] # "write" /\ \A y \in Proc \ {z} : pc'[y] = pc[y]
    BY <1>1 DEF Starting, StartSearch, StartRebuild, ReadRows, ReadSettings, LoadLevel,
                SeedDefaults, SetLevel, Goto, TypeOK
  <2>3. \A y \in Proc \ {z} : LocalsKept(y)
    BY <1>1 DEF Starting, StartSearch, StartRebuild, ReadRows, ReadSettings, LoadLevel,
                SeedDefaults, SetLevel, local, LocalsKept, TypeOK
  <2> QED BY <2>1, <2>2, <2>3 DEF Alone, Unlocked
<1>2. CASE Looking(z)
  <2>1. pc[z] # "write" /\ UNCHANGED <<lock, embedding, docs>>
    BY <1>2 DEF Looking, Walk, WalkAll, StatDone, Stat, LoadMeta, LoadBody, store
  <2>2. pc'[z] # "write" /\ \A y \in Proc \ {z} : pc'[y] = pc[y]
    BY <1>2 DEF Looking, Walk, WalkAll, StatDone, Stat, LoadMeta, LoadBody, Goto, TypeOK
  <2>3. \A y \in Proc \ {z} : LocalsKept(y)
    BY <1>2 DEF Looking, Walk, WalkAll, StatDone, Stat, LoadMeta, LoadBody, Note, local,
                LocalsKept, TypeOK
  <2> QED BY <2>1, <2>2, <2>3 DEF Alone, Unlocked
<1>3. CASE Commit(z) \/ Ending(z)
  <2>1. UNCHANGED local \/ Return(z) \/ Forget(z)
    BY <1>3 DEF Ending, Decide, Lock, Commit, Query, FileGone, GiveUp, RollBack, MarkDirty,
                Busy, Crash, Fail
  <2>2. \A y \in Proc \ {z} : LocalsKept(y)
    BY <2>1, ReturnAlone
  <2>3. \E label \in Label : Goto(z, label) /\ (label = "write" => Lock(z))
    <3>1. {"lock", "query", "write", "done", "idle", "marking"} \subseteq Label
      BY DEF Label
    <3> QED BY <1>3, <3>1 DEF Ending, Decide, Commit, Query, FileGone, GiveUp, RollBack,
                              MarkDirty, Busy, Crash, Fail, Forget, Lock
  <2>4. /\ pc'[z] = "write" => Lock(z)
        /\ \A y \in Proc \ {z} : pc'[y] = pc[y]
    BY <2>3 DEF Goto, TypeOK
  <2>5. \A y \in Proc \ {z} : embedding'[y] = embedding[y]
    BY <1>3 DEF Ending, Decide, Lock, Commit, Query, FileGone, GiveUp, RollBack, MarkDirty,
                Busy, Crash, TypeOK
  <2>6. Alone(z)
    BY <2>2, <2>4, <2>5 DEF Alone
  <2>7. CASE Decide(z) \/ Query(z) \/ FileGone(z) \/ GiveUp(z) \/ MarkDirty(z) \/ Busy(z)
    <3>1. pc[z] \notin {"write", "lock"} \/ GiveUp(z)
      BY <2>7 DEF Decide, Query, FileGone, Gone, MarkDirty, Busy
    <3>2. pc[z] # "write" /\ UNCHANGED <<lock, embedding, docs>>
      BY <2>7, <3>1 DEF Decide, Query, FileGone, GiveUp, MarkDirty, Busy, store
    <3>3. ~Lock(z)
      BY <3>1 DEF Lock, GiveUp
    <3> QED BY <2>4, <2>6, <3>2, <3>3 DEF Unlocked
  <2> QED BY <1>3, <2>6, <2>7 DEF Ending
<1> QED BY <1>1, <1>2, <1>3 DEF Own

\* The process that writes is the one that has the lock, only that one
\* computes vectors, and a search none for a text that has a row.
Locked ==
  /\ \A z \in Proc : pc[z] = "write" <=> lock = z
  /\ \A z \in Proc : embedding[z] # {} => lock = z
  /\ \A z \in Proc : cmd[z] = "search" => embedding[z] \cap Index!Used(docs) = {}

LEMMA NextLocked ==
  ASSUME TypeInv, Locked, [Next]_vars
  PROVE  Locked'
<1>1. CASE UNCHANGED <<lock, embedding, docs, pc, cmd>>
  BY <1>1 DEF Locked
<1>2. ASSUME NEW z \in Proc, Alone(z), Unlocked(z)
      PROVE  Locked'
  BY <1>2 DEF Locked, Alone, Unlocked, LocalsKept, Index!Used
<1>3. ASSUME NEW z \in Proc, Alone(z), Lock(z)
      PROVE  Locked'
  <2>1. /\ lock = NoProc /\ lock' = z /\ pc'[z] = "write"
        /\ embedding'[z] = Missing(z)
        /\ UNCHANGED <<docs, cmd>>
    BY <1>3 DEF Lock, Goto, local, store, TypeInv, TypeOK
  <2>2. cmd[z] = "search" => Missing(z) \cap Index!Used(docs) = {}
    BY DEF Missing
  <2> QED BY <1>3, <2>1, <2>2, ZgSyncNothing DEF Locked, Alone, LocalsKept, Index!Used
<1>4. ASSUME NEW z \in Proc, Alone(z), Commit(z)
      PROVE  Locked'
  <2>1. /\ pc[z] = "write" /\ pc'[z] # "write"
        /\ lock' = NoProc /\ embedding'[z] = {}
    BY <1>4 DEF Commit, Goto, TypeInv, TypeOK
  <2>2. \A y \in Proc \ {z} : pc[y] # "write" /\ embedding[y] = {}
    BY <2>1 DEF Locked
  <2> QED BY <1>4, <2>1, <2>2, ZgSyncNothing DEF Locked, Alone, LocalsKept
<1>5. ASSUME NEW z \in Proc, Alone(z), RollBack(z) \/ Crash(z)
      PROVE  Locked'
  <2>1. /\ pc'[z] # "write" /\ embedding'[z] = {}
        /\ lock' = IF lock = z THEN NoProc ELSE lock
        /\ UNCHANGED docs
    BY <1>5 DEF RollBack, Crash, Fail, Forget, Goto, Locked, store, TypeInv, TypeOK
  <2> QED BY <1>5, <2>1, ZgSyncNothing DEF Locked, Alone, LocalsKept, Index!Used
<1>6. CASE Next
  BY <1>1, <1>2, <1>3, <1>4, <1>5, <1>6, Steps, UserStep, LockStep DEF TypeInv
<1> QED BY <1>1, <1>6 DEF vars, store, local

\* Embedding happens under the lock: no process computes a vector for a text
\* that the index has, or that another process is computing.
THEOREM NothingIsEmbeddedTwice == Spec => []NoDuplicateEmbedding
<1>1. Init => Locked
  BY ZgSyncNothing DEF Init, Locked
<1>2. TypeInv /\ Locked /\ [Next]_vars => Locked'
  BY NextLocked
<1>3. Locked => NoDuplicateEmbedding
  BY DEF Locked, NoDuplicateEmbedding
<1> QED BY <1>1, <1>2, <1>3, TypesHold, PTL DEF Spec

-----------------------------------------------------------------------------
(* Where a search looks *)

\* A search reads the rows of its scope, with those that LIKE also returns,
\* and looks at no other path.
RoutedAt(z) ==
  /\ pc[z] \in {"rows", "settings", "stat", "query"} => cmd[z] = "search"
  /\ pc[z] \in {"seed", "set level", "load level"} => cmd[z] # "search"
  /\ pc[z] # "idle" /\ cmd[z] = "search" => scope[z] \in Scopes
  /\ cmd[z] = "search" /\ pc[z] \in {"settings", "walk", "stat", "load", "lock", "write"} =>
       \A p \in Path \ RowsOf(scope[z]) : rows[z][p] = NoDoc
  /\ cmd[z] = "search" /\ pc[z] \in {"stat", "load", "lock", "write"} =>
       \A p \in Path \ scope[z] : plan[z][p].tag = "out"

Routed == \A z \in Proc : RoutedAt(z)

LEMMA ForgetRouted ==
  ASSUME TypeOK, NEW z \in Proc, Forget(z)
  PROVE  pc'[z] = "idle"
BY DEF TypeOK, Forget, Goto

LEMMA StartRouted ==
  ASSUME TypeOK, NEW z \in Proc, RoutedAt(z), Starting(z)
  PROVE  RoutedAt(z)'
<1>1. CASE \E s \in Scopes : StartSearch(z, s)
  <2>1. pc'[z] = "rows" /\ cmd'[z] = "search" /\ scope'[z] \in Scopes
    BY <1>1 DEF StartSearch, Goto, TypeOK
  <2> QED BY <2>1 DEF RoutedAt
<1>2. CASE \E c \in Commands : StartRebuild(z, c)
  <2>1. pc'[z] = "seed" /\ cmd'[z] # "search"
    BY <1>2 DEF StartRebuild, Goto, TypeOK
  <2> QED BY <2>1 DEF RoutedAt
<1>3. CASE ReadRows(z)
  <2>1. /\ pc[z] = "rows" /\ pc'[z] = "settings" /\ cmd' = cmd /\ scope' = scope
        /\ rows'[z] = [p \in Path |-> IF p \in RowsOf(scope[z]) THEN docs[p] ELSE NoDoc]
    BY <1>3 DEF ReadRows, Goto, TypeOK
  <2> QED BY <2>1 DEF RoutedAt, RowsOf
<1>4. CASE ReadSettings(z)
  <2>1. /\ pc[z] = "settings" /\ pc'[z] = "walk" /\ cmd' = cmd /\ scope' = scope
        /\ rows' = rows
    BY <1>4 DEF ReadSettings, Goto, TypeOK
  <2> QED BY <2>1 DEF RoutedAt, RowsOf
<1>5. CASE LoadLevel(z) \/ SeedDefaults(z) \/ SetLevel(z)
  <2>1. /\ pc[z] \in {"seed", "set level", "load level"}
        /\ pc'[z] \in {"walk", "set level", "load level"}
        /\ cmd' = cmd
    BY <1>5 DEF LoadLevel, SeedDefaults, SetLevel, local, Goto, TypeOK
  <2> QED BY <2>1 DEF RoutedAt
<1> QED BY <1>1, <1>2, <1>3, <1>4, <1>5 DEF Starting

LEMMA LookRouted ==
  ASSUME TypeOK, NEW z \in Proc, RoutedAt(z), Looking(z)
  PROVE  RoutedAt(z)'
<1>1. CASE Walk(z)
  <2>1. /\ pc[z] = "walk" /\ pc'[z] = "stat" /\ cmd' = cmd /\ scope' = scope /\ rows' = rows
        /\ cmd[z] = "search"
        /\ plan'[z] = [p \in Path |-> IF p \in scope[z] /\ Exists(p)
                                      THEN Found("walked") ELSE Found("out")]
    BY <1>1 DEF Walk, Goto, TypeOK
  <2>2. \A p \in Path \ scope[z] : plan'[z][p].tag = "out"
    BY <2>1 DEF Found
  <2> QED BY <2>1, <2>2 DEF RoutedAt, RowsOf
<1>2. CASE WalkAll(z)
  <2>1. pc'[z] = "load" /\ cmd' = cmd /\ cmd[z] # "search"
    BY <1>2 DEF WalkAll, Goto, TypeOK
  <2> QED BY <2>1 DEF RoutedAt
<1>3. CASE StatDone(z)
  <2>1. pc[z] = "stat" /\ pc'[z] = "load" /\ UNCHANGED local
    BY <1>3 DEF StatDone, Goto, TypeOK
  <2> QED BY <2>1 DEF RoutedAt, RowsOf, local
<1>4. ASSUME NEW p \in Path, Stat(z, p) \/ LoadMeta(z, p) \/ LoadBody(z, p)
      PROVE  RoutedAt(z)'
  <2>1. /\ pc' = pc /\ cmd' = cmd /\ scope' = scope /\ rows' = rows
        /\ pc[z] \in {"stat", "load"} /\ plan[z][p].tag \in {"walked", "load", "meta"}
    BY <1>4 DEF Stat, LoadMeta, LoadBody, Tagged
  <2>2. \A q \in Path : q # p => plan'[z][q] = plan[z][q]
    <3>1. PICK what : Note(z, p, what)
      BY <1>4 DEF Stat, LoadMeta, LoadBody
    <3> QED BY <3>1 DEF Note, TypeOK
  <2> QED BY <2>1, <2>2 DEF RoutedAt, RowsOf
<1> QED BY <1>1, <1>2, <1>3, <1>4 DEF Looking

LEMMA EndRouted ==
  ASSUME TypeOK, NEW z \in Proc, RoutedAt(z),
         Commit(z) \/ Ending(z)
  PROVE  RoutedAt(z)'
<1>1. CASE Lock(z)
  <2>1. pc[z] = "lock" /\ pc'[z] = "write" /\ UNCHANGED local
    BY <1>1 DEF Lock, Goto, TypeOK
  <2> QED BY <2>1 DEF RoutedAt, RowsOf, local
<1>2. CASE Decide(z)
  <2>1. pc[z] = "load"
    BY <1>2 DEF Decide
  <2>2. CASE Goto(z, "lock") /\ UNCHANGED local
    BY <2>1, <2>2 DEF Goto, TypeOK, RoutedAt, RowsOf, local
  <2>3. CASE cmd[z] = "search" /\ Goto(z, "query") /\ Return(z)
    <3>1. pc'[z] = "query" /\ cmd' = cmd /\ scope' = scope
      BY <2>3 DEF Goto, TypeOK, Return
    <3> QED BY <2>1, <2>3, <3>1 DEF RoutedAt
  <2> QED BY <1>2, <2>2, <2>3 DEF Decide
<1>3. CASE Commit(z)
  <2>1. /\ pc[z] = "write" /\ cmd' = cmd /\ scope' = scope
        /\ pc'[z] = IF cmd[z] = "search" THEN "query" ELSE "done"
    BY <1>3 DEF Commit, Goto, TypeOK, Return
  <2> QED BY <2>1 DEF RoutedAt
<1>4. CASE Forget(z)
  BY <1>4, ForgetRouted DEF RoutedAt
<1>5. CASE /\ FileGone(z) \/ GiveUp(z) \/ RollBack(z)
           /\ cmd[z] = "search" /\ Goto(z, "marking") /\ Return(z)
  <2>1. /\ pc[z] \in {"stat", "load", "lock", "write"} /\ pc'[z] = "marking"
        /\ cmd' = cmd /\ scope' = scope
    BY <1>5 DEF FileGone, Gone, GiveUp, RollBack, Goto, TypeOK, Return
  <2> QED BY <2>1 DEF RoutedAt
<1> QED BY <1>1, <1>2, <1>3, <1>4, <1>5
        DEF Ending, Query, FileGone, GiveUp, RollBack, MarkDirty, Busy, Crash, Fail

LEMMA NextRouted ==
  ASSUME TypeInv, Routed, [Next]_vars
  PROVE  Routed'
<1>1. SUFFICES ASSUME NEW y \in Proc PROVE RoutedAt(y)'
  BY DEF Routed
<1>2. /\ RoutedAt(y) /\ TypeOK
  BY DEF Routed, TypeInv
<1>3. CASE UNCHANGED <<pc, cmd, scope, rows, plan>>
  BY <1>2, <1>3 DEF RoutedAt, RowsOf
<1>4. CASE pc'[y] = pc[y] /\ LocalsKept(y)
  BY <1>2, <1>4 DEF RoutedAt, RowsOf, LocalsKept
<1>5. ASSUME NEW z \in Proc, Own(z)
      PROVE  RoutedAt(y)'
  <2>1. CASE y = z
    BY <1>2, <1>5, <2>1, StartRouted, LookRouted, EndRouted DEF Own
  <2>2. CASE y # z
    BY <1>2, <1>4, <1>5, <2>2, LockStep DEF Alone
  <2> QED BY <2>1, <2>2
<1> QED BY <1>3, <1>5, Steps, UserStep DEF vars, local

LEMMA RoutesHold == Spec => [](TypeInv /\ Locked /\ Routed)
<1>1. Init => Locked /\ Routed
  BY ZgSyncNothing DEF Init, Locked, Routed, RoutedAt
<1>2. TypeInv /\ Locked /\ Routed /\ [Next]_vars => Locked' /\ Routed'
  BY NextLocked, NextRouted
<1> QED BY <1>1, <1>2, TypesHold, PTL DEF Spec

\* The one step from "write" to "query" is the process's own commit.
LEMMA QueriesAfterCommit ==
  ASSUME TypeInv, Next, NEW z \in Proc, pc[z] = "write", pc'[z] = "query"
  PROVE  Commit(z) /\ cmd[z] = "search"
<1>1. ~User
  BY UserStep
<1>2. PICK y \in Proc : Own(y)
  BY <1>1, Steps
<1>3. y = z
  BY <1>2, LockStep DEF Alone, TypeInv
<1>4. ~Lock(z) /\ ~Unlocked(z)
  BY DEF Lock, Unlocked
<1>5. ~RollBack(z) /\ ~Crash(z)
  <2>1. \A label \in {"marking", "idle"} : ~Goto(z, label)
    BY DEF Goto, TypeInv, TypeOK
  <2> QED BY <2>1 DEF RollBack, Crash, Fail, Forget
<1>6. Commit(z)
  BY <1>2, <1>3, <1>4, <1>5, LockStep DEF TypeInv
<1>7. cmd[z] = "search"
  BY <1>6 DEF Commit, Goto, TypeInv, TypeOK
<1> QED BY <1>6, <1>7

\* What a search writes are rows of its scope and rows LIKE returned with them.
LEMMA ReconcileKeepsTheRest ==
  ASSUME TypeInv, Routed, NEW z \in Proc, Commit(z), cmd[z] = "search",
         NEW p \in Path \ scope[z], rows[z][p] = NoDoc
  PROVE  docs'[p] = docs[p]
<1>1. plan[z][p].tag = "out"
  BY DEF Routed, RoutedAt, Commit
<1>2. p \notin DOMAIN Batch(z)
  BY <1>1 DEF Batch, Loaded, Deletes, Tagged
<1>3. docs' = Index!Applied(docs, Batch(z))
  BY DEF Commit, Index!Reconcile
<1> QED BY <1>2, <1>3 DEF Index!Applied

\* The transaction of a search leaves the rows of other paths alone, for every
\* scope no name under the root is LIKE: what the scope's pattern returns is
\* all the transaction can reach.
THEOREM ReconcilesAreScoped ==
  ASSUME \A s \in Scopes : Alike[s] = {}
  PROVE  Spec => ScopedReconcile
<1> DEFINE Kept == \A z \in Proc : pc[z] = "write" /\ pc'[z] = "query" =>
                     \A p \in Path \ scope[z] : docs'[p] = docs[p]
<1>1. TypeInv /\ Locked /\ Routed /\ [Next]_vars => [Kept]_vars
  <2> SUFFICES ASSUME TypeInv, Routed, Next,
                      NEW z \in Proc, pc[z] = "write", pc'[z] = "query",
                      NEW p \in Path \ scope[z]
               PROVE  docs'[p] = docs[p]
    OBVIOUS
  <2>1. Commit(z) /\ cmd[z] = "search"
    BY QueriesAfterCommit
  <2>2. RowsOf(scope[z]) = scope[z]
    BY <2>1 DEF Routed, RoutedAt, RowsOf
  <2>3. rows[z][p] = NoDoc
    BY <2>1, <2>2 DEF Routed, RoutedAt
  <2> QED BY <2>1, <2>3, ReconcileKeepsTheRest
<1> QED BY <1>1, RoutesHold, PTL DEF Spec, ScopedReconcile

-----------------------------------------------------------------------------
(* Vectors *)

\* As long as nobody rebuilds, every search works with the root's level, and
\* what is indexed has its vectors if the level asks for them.
Embedded ==
  /\ \A z \in Proc : pc[z] \notin {"seed", "set level", "load level"} /\ cmd[z] = "search"
  /\ \A z \in Proc : pc[z] \in {"walk", "stat", "load", "lock", "write"} => known[z] = level
  /\ level = "fts+vector" => Index!Used(docs) \subseteq embedded

\* Without a rebuild, a process reads the level once per search and no step
\* changes it.
LEMMA LevelStep ==
  ASSUME TypeInv, Embedded, Commands \subseteq {"search"}, NEW z \in Proc, Own(z)
  PROVE  /\ UNCHANGED level
         /\ pc'[z] \notin {"seed", "set level", "load level"} /\ cmd'[z] = "search"
         /\ pc'[z] \in {"walk", "stat", "load", "lock", "write"} => known'[z] = level
<1>1. pc[z] \notin {"seed", "set level", "load level"} /\ cmd[z] = "search"
  BY DEF Embedded
<1>2. CASE Starting(z)
  <2>1. \/ \E s \in Scopes : StartSearch(z, s)
        \/ ReadRows(z) \/ ReadSettings(z)
    BY <1>1, <1>2 DEF Starting, StartRebuild, LoadLevel, SeedDefaults, SetLevel
  <2>2. cmd'[z] = "search" /\ UNCHANGED level
    BY <1>1, <2>1 DEF StartSearch, ReadRows, ReadSettings, store, TypeInv, TypeOK
  <2>3. pc'[z] \in {"rows", "settings"} \/ (pc'[z] = "walk" /\ known'[z] = level)
    <3>1. CASE ReadSettings(z)
      BY <3>1 DEF ReadSettings, Goto, TypeInv, TypeOK
    <3>2. CASE Goto(z, "rows") \/ Goto(z, "settings")
      BY <3>2 DEF Goto, TypeInv, TypeOK
    <3> QED BY <2>1, <3>1, <3>2 DEF StartSearch, ReadRows
  <2> QED BY <2>2, <2>3
<1>3. CASE Looking(z)
  <2>1. UNCHANGED <<level, cmd, known>>
    BY <1>3 DEF Looking, Walk, WalkAll, StatDone, Stat, LoadMeta, LoadBody, store, local
  <2>2. /\ pc[z] \in {"walk", "stat", "load"}
        /\ pc' = pc \/ Goto(z, "stat") \/ Goto(z, "load")
    BY <1>3 DEF Looking, Walk, WalkAll, StatDone, Stat, LoadMeta, LoadBody
  <2>3. pc'[z] \in {"walk", "stat", "load"}
    BY <2>2 DEF Goto, TypeInv, TypeOK
  <2> QED BY <1>1, <2>1, <2>2, <2>3 DEF Embedded
<1>4. CASE Commit(z) \/ Ending(z)
  <2>1. UNCHANGED level
    BY <1>4 DEF Ending, Decide, Lock, Commit, Query, FileGone, GiveUp, RollBack, MarkDirty,
                Busy, Crash, store
  <2>2. UNCHANGED local \/ Return(z) \/ Forget(z)
    BY <1>4 DEF Ending, Decide, Lock, Commit, Query, FileGone, GiveUp, RollBack, MarkDirty,
                Busy, Crash, Fail
  <2>3. cmd'[z] = "search"
    BY <1>1, <2>2 DEF local, Return, Forget, TypeInv, TypeOK
  <2>4. \/ UNCHANGED local /\ pc[z] \in {"load", "lock"} /\ (Goto(z, "lock") \/ Goto(z, "write"))
        \/ \E label \in {"query", "marking", "idle", "done"} : Goto(z, label)
    BY <1>4 DEF Ending, Decide, Lock, Commit, Query, FileGone, GiveUp, RollBack, MarkDirty,
                Busy, Crash, Fail, Forget
  <2>5. \/ known' = known /\ pc[z] \in {"load", "lock"} /\ pc'[z] \in {"lock", "write"}
        \/ pc'[z] \in {"query", "marking", "idle", "done"}
    BY <2>4 DEF Goto, local, TypeInv, TypeOK
  <2> QED BY <2>1, <2>3, <2>5 DEF Embedded
<1> QED BY <1>2, <1>3, <1>4 DEF Own

LEMMA NextEmbedded ==
  ASSUME TypeInv, Embedded, Commands \subseteq {"search"}, [Next]_vars
  PROVE  Embedded'
<1>1. CASE UNCHANGED <<docs, embedded, level, pc, cmd, known>>
  BY <1>1 DEF Embedded
<1>2. ASSUME NEW z \in Proc, Own(z)
      PROVE  Embedded'
  <2>1. \A y \in Proc \ {z} : pc'[y] = pc[y] /\ cmd'[y] = cmd[y] /\ known'[y] = known[y]
    BY <1>2, LockStep DEF Alone, LocalsKept, TypeInv
  <2>2. level = "fts+vector" => Index!Used(docs') \subseteq embedded'
    <3>1. CASE Commit(z)
      <4>1. cmd[z] = "search" /\ known[z] = level
        BY <3>1 DEF Embedded, Commit
      <4>2. embedded' = Index!EmbeddedAfter(docs, docs', embedded, level = "fts+vector")
        BY <3>1, <4>1 DEF Commit, Index!Reconcile
      <4> QED BY <4>2 DEF Index!EmbeddedAfter, Embedded
    <3>2. CASE ~Commit(z)
      <4>1. UNCHANGED <<docs, embedded>>
        BY <1>2, <3>2 DEF Own, Starting, StartSearch, StartRebuild, ReadRows, ReadSettings,
           LoadLevel, SeedDefaults, SetLevel, Looking, Walk, WalkAll, StatDone, Stat,
           LoadMeta, LoadBody, Ending, Decide, Lock, Query, FileGone, GiveUp, RollBack,
           MarkDirty, Busy, Crash, store
      <4> QED BY <4>1 DEF Embedded
    <3> QED BY <3>1, <3>2
  <2> QED BY <1>2, <2>1, <2>2, LevelStep DEF Embedded
<1> QED BY <1>1, <1>2, Steps, UserStep DEF vars, store, local

\* On an fts+vector root that is only searched, every indexed text has a
\* vector when a search queries, whichever process indexed it.
THEOREM VectorsAreComplete ==
  ASSUME Commands \subseteq {"search"}
  PROVE  Spec => []VectorsComplete
<1>1. Init => Embedded
  BY DEF Init, Embedded
<1>2. TypeInv /\ Embedded /\ [Next]_vars => Embedded'
  BY NextEmbedded
<1>3. Embedded => VectorsComplete
  BY DEF Embedded, VectorsComplete, Index!Used
<1> QED BY <1>1, <1>2, <1>3, TypesHold, PTL DEF Spec

-----------------------------------------------------------------------------
(* The sync boundary *)

\* What a search has noted of a path of its scope is true of the file: it
\* cannot be loaded, or it is indexed as it is, or the stamp, then the
\* document, are the file's.
NoteIsTrue(z, p) ==
  /\ plan[z][p].tag \in {"out", "skipped"} => ~Loads(p)
  /\ plan[z][p].tag = "fresh" => docs[p] = Indexable(p)
  /\ plan[z][p].tag \in {"meta", "doc"} => Exists(p) /\ plan[z][p].stamp = disk[p].stamp
  /\ plan[z][p].tag = "doc" => Loads(p) /\ plan[z][p].text = disk[p].text

\* With nobody else writing, a search's rows are the index's, its notes on
\* paths nobody edited are true, and a note is carried through to the end.
BoundAt(z) ==
  /\ pc[z] \in {"settings", "walk", "stat", "load", "lock", "write"} =>
       \A p \in scope[z] : rows[z][p] = docs[p]
  /\ pc[z] \in {"stat", "load", "lock", "write"} =>
       \A p \in scope[z] \ touched[z] : NoteIsTrue(z, p)
  /\ pc[z] \in {"load", "lock", "write"} => Tagged(z, "walked") = {}
  /\ pc[z] \in {"lock", "write"} => Tagged(z, "load") = {} /\ Tagged(z, "meta") = {}
  /\ pc[z] = "query" => \A p \in scope[z] \ touched[z] : docs[p] = Indexable(p)

Bound == \A z \in Proc : cmd[z] = "search" => BoundAt(z)

\* Text is neither binary nor blank, so what loads was a candidate.
LEMMA LoadsIsText ==
  ASSUME TypeOK, NEW p \in Path
  PROVE  /\ Loads(p) => IsText(p)
         /\ Loads(p) => disk[p] = [stamp |-> disk[p].stamp, text |-> disk[p].text]
<1>1. Loads(p) => IsText(p)
  BY ZgSyncAssumption DEF Loads, IsText
<1>2. Exists(p) => disk[p] \in File
  BY DEF TypeOK, Exists
<1> QED BY <1>1, <1>2 DEF Loads, File

\* A row with the file's stamp is what the file would be indexed as.
LEMMA SameStampIsCurrent ==
  ASSUME TypeInv, Dated, NEW p \in Path, Exists(p), docs[p] # NoDoc,
         docs[p].stamp = disk[p].stamp
  PROVE  docs[p] = Indexable(p)
<1>1. docs[p] \in Doc /\ disk[p] \in File
  BY DEF TypeInv, TypeOK, Exists
<1>2. docs[p].text = disk[p].text
  BY DEF Dated, StampFaithful
<1>3. Loads(p)
  BY <1>1, <1>2 DEF Loads, Doc
<1>4. docs[p] = disk[p]
  BY <1>1, <1>2 DEF Doc, File
<1> QED BY <1>3, <1>4 DEF Indexable

\* The notes decide what the transaction makes of a path: what it can be
\* indexed as.
LEMMA TrueNotesSync ==
  ASSUME TypeInv, NEW z \in Proc, NEW p \in Path, NoteIsTrue(z, p), rows[z][p] = docs[p],
         plan[z][p].tag \notin {"walked", "load", "meta"}, cmd[z] = "search"
  PROVE  IF p \in DOMAIN Batch(z) THEN Batch(z)[p] = Indexable(p) ELSE docs[p] = Indexable(p)
<1>1. plan[z][p].tag \in {"out", "fresh", "doc", "skipped"}
  <2>1. plan[z][p].tag \in Tags
    BY DEF TypeInv, TypeOK
  <2> QED BY <2>1 DEF Tags
<1>2. CASE plan[z][p].tag = "doc"
  <2>1. /\ p \in DOMAIN Batch(z)
        /\ Batch(z)[p] = [stamp |-> plan[z][p].stamp, text |-> plan[z][p].text]
    BY <1>2 DEF Batch, Loaded, Tagged
  <2> QED BY <1>2, <2>1, LoadsIsText DEF NoteIsTrue, Indexable, TypeInv
<1>3. CASE plan[z][p].tag = "skipped"
  <2>1. p \in DOMAIN Batch(z) /\ Batch(z)[p] = NoDoc
    BY <1>3 DEF Batch, Loaded, Deletes, Tagged
  <2> QED BY <1>3, <2>1 DEF NoteIsTrue, Indexable
<1>4. CASE plan[z][p].tag = "out"
  <2>1. /\ p \in DOMAIN Batch(z) <=> rows[z][p] # NoDoc
        /\ p \in DOMAIN Batch(z) => Batch(z)[p] = NoDoc
    BY <1>4 DEF Batch, Loaded, Deletes, Tagged
  <2> QED BY <1>4, <2>1 DEF NoteIsTrue, Indexable
<1>5. CASE plan[z][p].tag = "fresh"
  <2>1. p \notin DOMAIN Batch(z)
    BY <1>5 DEF Batch, Loaded, Deletes, Tagged
  <2> QED BY <1>5, <2>1 DEF NoteIsTrue
<1> QED BY <1>1, <1>2, <1>3, <1>4, <1>5

\* The user may edit at any moment: what was noted of the other paths stays
\* true.
LEMMA UserBound ==
  ASSUME TypeInv, Bound, User
  PROVE  Bound'
<1>1. PICK p \in Path, now \in File \cup {Absent} : Change(p, now)
  BY UserChange DEF TypeInv
<1>2. \A q \in Path : q # p => disk'[q] = disk[q]
  BY <1>1 DEF Change, TypeInv, TypeOK
<1>3. UNCHANGED <<docs, pc, cmd, scope, rows, plan>>
  BY UserStep
<1>4. ASSUME NEW z \in Proc, pc[z] # "idle"
      PROVE  touched'[z] = touched[z] \cup {p}
  BY <1>1, <1>4 DEF Change, TypeInv, TypeOK
<1>5. ASSUME NEW z \in Proc, NEW q \in Path, q # p, NoteIsTrue(z, q)
      PROVE  NoteIsTrue(z, q)'
  BY <1>2, <1>3, <1>5 DEF NoteIsTrue, Loads, Exists, Indexable
<1>6. \A q \in Path : q # p => Indexable(q)' = Indexable(q)
  BY <1>2 DEF Indexable, Loads, Exists
<1>7. \A z \in Proc : scope[z] \subseteq Path
  BY DEF TypeInv, TypeOK
<1> QED BY <1>3, <1>4, <1>5, <1>6, <1>7 DEF Bound, BoundAt, Tagged

LEMMA StartBound ==
  ASSUME TypeInv, Routed, Bound, NEW z \in Proc, Starting(z), UNCHANGED <<disk, docs>>
  PROVE  cmd'[z] = "search" => BoundAt(z)'
<1>1. CASE \E s \in Scopes : StartSearch(z, s)
  <2>1. pc'[z] = "rows"
    BY <1>1 DEF StartSearch, Goto, TypeInv, TypeOK
  <2> QED BY <2>1 DEF BoundAt
<1>2. CASE ReadRows(z)
  <2>1. /\ pc'[z] = "settings" /\ scope' = scope
        /\ rows'[z] = [p \in Path |-> IF p \in RowsOf(scope[z]) THEN docs[p] ELSE NoDoc]
    BY <1>2 DEF ReadRows, Goto, TypeInv, TypeOK
  <2>2. scope[z] \subseteq Path
    BY DEF TypeInv, TypeOK
  <2> QED BY <2>1, <2>2 DEF BoundAt, RowsOf
<1>3. CASE ReadSettings(z)
  <2>1. pc[z] = "settings" /\ pc'[z] = "walk" /\ UNCHANGED <<cmd, scope, rows>>
    BY <1>3 DEF ReadSettings, Goto, TypeInv, TypeOK
  <2> QED BY <2>1 DEF Bound, BoundAt
<1>4. CASE \E c \in Commands : StartRebuild(z, c)
  <2>1. cmd'[z] # "search"
    BY <1>4 DEF StartRebuild, TypeInv, TypeOK
  <2> QED BY <2>1
<1>5. CASE LoadLevel(z) \/ SeedDefaults(z) \/ SetLevel(z)
  <2>1. pc[z] \in {"seed", "set level", "load level"} /\ cmd' = cmd
    BY <1>5 DEF LoadLevel, SeedDefaults, SetLevel, local
  <2> QED BY <2>1 DEF Routed, RoutedAt
<1> QED BY <1>1, <1>2, <1>3, <1>4, <1>5 DEF Starting

\* One round of the stamp loop or of the loader keeps the notes true.
LEMMA NoteBound ==
  ASSUME TypeInv, Dated, Routed, Bound, NEW z \in Proc, NEW p \in Path,
         Stat(z, p) \/ LoadMeta(z, p) \/ LoadBody(z, p), UNCHANGED <<disk, docs>>
  PROVE  cmd'[z] = "search" => BoundAt(z)'
<1> SUFFICES ASSUME cmd'[z] = "search" PROVE BoundAt(z)'
  OBVIOUS
<1>1. /\ UNCHANGED <<pc, cmd, scope, rows, touched>>
      /\ pc[z] \in {"stat", "load"}
  BY DEF Stat, LoadMeta, LoadBody
<1>2. PICK what : Note(z, p, what)
  BY DEF Stat, LoadMeta, LoadBody
<1>3. \A q \in Path : plan'[z][q] = IF q = p THEN what ELSE plan[z][q]
  BY <1>2 DEF Note, TypeInv, TypeOK
<1>4. BoundAt(z)
  BY <1>1 DEF Bound
<1>5. ASSUME NEW q \in Path, q # p, NoteIsTrue(z, q)
      PROVE  NoteIsTrue(z, q)'
  BY <1>3, <1>5 DEF NoteIsTrue, Indexable, Loads, Exists
<1>6. CASE Stat(z, p)
  <2>1. /\ pc[z] = "stat" /\ Exists(p)
        /\ plan'[z][p] = Found(IF rows[z][p] # NoDoc /\ rows[z][p].stamp = disk[p].stamp
                               THEN "fresh"
                               ELSE IF IsText(p) THEN "load" ELSE "out")
    BY <1>6 DEF Stat, Note, TypeInv, TypeOK
  <2>2. p \in scope[z] => NoteIsTrue(z, p)'
    <3>1. CASE rows[z][p] # NoDoc /\ rows[z][p].stamp = disk[p].stamp
      <4>1. p \in scope[z] => docs[p] = Indexable(p)
        BY <1>1, <1>4, <2>1, <3>1, SameStampIsCurrent DEF BoundAt
      <4> QED BY <2>1, <3>1, <4>1 DEF NoteIsTrue, Found, Indexable, Loads, Exists
    <3>2. CASE ~(rows[z][p] # NoDoc /\ rows[z][p].stamp = disk[p].stamp)
      <4>1. plan'[z][p].tag = IF IsText(p) THEN "load" ELSE "out"
        BY <2>1, <3>2 DEF Found
      <4>2. ~IsText(p) => ~Loads(p)
        BY LoadsIsText DEF TypeInv
      <4> QED BY <4>1, <4>2 DEF NoteIsTrue, Loads, Exists
    <3> QED BY <3>1, <3>2
  <2>3. scope[z] \subseteq Path
    BY DEF TypeInv, TypeOK
  <2> QED BY <1>1, <1>4, <1>5, <2>1, <2>2, <2>3 DEF BoundAt
<1>7. CASE LoadMeta(z, p) \/ LoadBody(z, p)
  <2>1. pc[z] = "load" /\ Exists(p) /\ plan[z][p].tag \in {"load", "meta"}
    BY <1>7 DEF LoadMeta, LoadBody, Tagged
  <2>2. ASSUME LoadMeta(z, p)
        PROVE  plan'[z][p].tag # "walked" /\ NoteIsTrue(z, p)'
    <3>1. plan'[z][p] = [tag |-> "meta", stamp |-> disk[p].stamp, text |-> Binary]
      BY <2>2 DEF LoadMeta, Note, TypeInv, TypeOK
    <3> QED BY <2>1, <3>1 DEF NoteIsTrue, Exists
  <2>3. ASSUME LoadBody(z, p)
        PROVE  plan'[z][p].tag # "walked" /\ (NoteIsTrue(z, p) => NoteIsTrue(z, p)')
    <3>1. plan[z][p].tag = "meta"
      BY <2>3 DEF LoadBody, Tagged
    <3>2. plan'[z][p] = IF Loads(p)
                        THEN [tag |-> "doc", stamp |-> plan[z][p].stamp, text |-> disk[p].text]
                        ELSE Found("skipped")
      BY <2>3 DEF LoadBody, Note, TypeInv, TypeOK
    <3>3. CASE Loads(p)
      BY <3>1, <3>2, <3>3 DEF NoteIsTrue, Loads, Exists
    <3>4. CASE ~Loads(p)
      <4>1. plan'[z][p].tag = "skipped"
        BY <3>2, <3>4 DEF Found
      <4> QED BY <3>4, <4>1 DEF NoteIsTrue, Loads, Exists
    <3> QED BY <3>3, <3>4
  <2>4. plan'[z][p].tag # "walked" /\ (NoteIsTrue(z, p) => NoteIsTrue(z, p)')
    BY <1>7, <2>2, <2>3
  <2>5. scope[z] \subseteq Path
    BY DEF TypeInv, TypeOK
  <2>6. Tagged(z, "walked")' = {}
    BY <1>3, <1>4, <2>1, <2>4 DEF BoundAt, Tagged
  <2> QED BY <1>1, <1>4, <1>5, <2>1, <2>4, <2>5, <2>6 DEF BoundAt
<1> QED BY <1>6, <1>7

LEMMA LookBound ==
  ASSUME TypeInv, Dated, Routed, Bound, NEW z \in Proc, Looking(z), UNCHANGED <<disk, docs>>
  PROVE  cmd'[z] = "search" => BoundAt(z)'
<1>1. CASE Walk(z)
  <2>1. /\ pc[z] = "walk" /\ pc'[z] = "stat" /\ UNCHANGED <<cmd, scope, rows, touched>>
        /\ plan'[z] = [p \in Path |-> IF p \in scope[z] /\ Exists(p)
                                      THEN Found("walked") ELSE Found("out")]
    BY <1>1 DEF Walk, Goto, TypeInv, TypeOK
  <2>2. scope[z] \subseteq Path
    BY DEF TypeInv, TypeOK
  <2>3. \A p \in scope[z] : NoteIsTrue(z, p)'
    BY <2>1, <2>2 DEF NoteIsTrue, Found, Loads, Exists
  <2> QED BY <2>1, <2>3 DEF Bound, BoundAt
<1>2. CASE WalkAll(z)
  BY <1>2 DEF WalkAll
<1>3. CASE StatDone(z)
  <2>1. /\ pc[z] = "stat" /\ pc'[z] = "load" /\ UNCHANGED local
        /\ Tagged(z, "walked") = {}
    BY <1>3 DEF StatDone, Goto, TypeInv, TypeOK
  <2> QED BY <2>1 DEF Bound, BoundAt, NoteIsTrue, Tagged, Indexable, Loads, Exists, local
<1>4. CASE \E p \in Path : Stat(z, p) \/ LoadMeta(z, p) \/ LoadBody(z, p)
  BY <1>4, NoteBound
<1> QED BY <1>1, <1>2, <1>3, <1>4 DEF Looking

LEMMA EndBound ==
  ASSUME TypeInv, Routed, Bound, NEW z \in Proc, Commit(z) \/ Ending(z), UNCHANGED disk
  PROVE  cmd'[z] = "search" => BoundAt(z)'
<1> SUFFICES ASSUME cmd'[z] = "search" PROVE BoundAt(z)'
  OBVIOUS
<1>1. scope[z] \subseteq Path
  BY DEF TypeInv, TypeOK
<1>2. CASE Lock(z)
  <2>1. pc[z] = "lock" /\ pc'[z] = "write" /\ UNCHANGED <<docs, cmd, scope, rows, plan, touched>>
    BY <1>2 DEF Lock, Goto, local, store, TypeInv, TypeOK
  <2> QED BY <2>1 DEF Bound, BoundAt, NoteIsTrue, Tagged, Indexable, Loads, Exists
<1>3. CASE Decide(z)
  <2>1. /\ pc[z] = "load" /\ Tagged(z, "load") = {} /\ Tagged(z, "meta") = {}
        /\ UNCHANGED docs
    BY <1>3 DEF Decide, store
  <2>2. CASE Goto(z, "lock") /\ UNCHANGED local
    <3>1. pc'[z] = "lock" /\ UNCHANGED <<cmd, scope, rows, plan, touched>>
      BY <2>2 DEF Goto, local, TypeInv, TypeOK
    <3> QED BY <2>1, <3>1 DEF Bound, BoundAt, NoteIsTrue, Tagged, Indexable, Loads, Exists
  <2>3. CASE cmd[z] = "search" /\ DOMAIN Batch(z) = {} /\ Goto(z, "query") /\ Return(z)
    <3>1. pc'[z] = "query" /\ UNCHANGED <<scope, touched>>
      BY <2>3 DEF Goto, Return, TypeInv, TypeOK
    <3>2. BoundAt(z)
      BY <2>3 DEF Bound
    <3>3. ASSUME NEW p \in scope[z] \ touched[z]
          PROVE  docs[p] = Indexable(p)
      <4>1. plan[z][p].tag \notin {"walked", "load", "meta"}
        BY <1>1, <2>1, <3>2 DEF BoundAt, Tagged
      <4> QED BY <1>1, <2>1, <2>3, <3>2, <4>1, TrueNotesSync DEF BoundAt
    <3> QED BY <2>1, <3>1, <3>3 DEF BoundAt, Indexable, Loads, Exists
  <2> QED BY <1>3, <2>2, <2>3 DEF Decide
<1>4. CASE Commit(z)
  <2>1. /\ pc[z] = "write" /\ UNCHANGED <<cmd, scope, touched>>
    BY <1>4 DEF Commit, Return
  <2>2. pc'[z] = "query" /\ docs' = Index!Applied(docs, Batch(z))
    BY <1>4, <2>1 DEF Commit, Goto, Index!Reconcile, TypeInv, TypeOK
  <2>3. BoundAt(z)
    BY <2>1 DEF Bound
  <2>4. ASSUME NEW p \in scope[z] \ touched[z]
        PROVE  docs'[p] = Indexable(p)
    <3>1. plan[z][p].tag \notin {"walked", "load", "meta"}
      BY <1>1, <2>1, <2>3 DEF BoundAt, Tagged
    <3>2. IF p \in DOMAIN Batch(z) THEN Batch(z)[p] = Indexable(p) ELSE docs[p] = Indexable(p)
      BY <1>1, <2>1, <2>3, <3>1, TrueNotesSync DEF BoundAt
    <3> QED BY <1>1, <2>2, <3>2 DEF Index!Applied
  <2> QED BY <2>1, <2>2, <2>4 DEF BoundAt, Indexable, Loads, Exists
<1>5. CASE Forget(z)
  BY <1>5, ForgetRouted DEF BoundAt, TypeInv
<1>6. CASE Goto(z, "marking")
  <2>1. pc'[z] = "marking"
    BY <1>6 DEF Goto, TypeInv, TypeOK
  <2> QED BY <2>1 DEF BoundAt
<1> QED BY <1>2, <1>3, <1>4, <1>5, <1>6
        DEF Ending, Query, FileGone, GiveUp, RollBack, MarkDirty, Busy, Crash, Fail

\* A root with one zg process at a time: when a search queries, every path of
\* its scope that nobody edited since the search began is indexed as it is,
\* after any rebuilds, failures and crashes before it.
THEOREM SearchIsTheSyncBoundary ==
  ASSUME \A y, z \in Proc : y = z
  PROVE  Spec => []SyncBoundary
<1>1. Init => Dated /\ Bound
  <2>1. Init => Bound
    BY DEF Init, Bound, BoundAt
  <2> QED BY <2>1, InitDated
<1>2. TypeInv /\ Dated /\ Routed /\ Bound /\ [Next]_vars => Bound'
  <2> SUFFICES ASSUME TypeInv, Dated, Routed, Bound, [Next]_vars PROVE Bound'
    OBVIOUS
  <2>1. CASE UNCHANGED vars
    BY <2>1 DEF vars, store, local, Bound, BoundAt, NoteIsTrue, Tagged, Indexable, Loads,
                Exists
  <2>2. CASE User
    BY <2>2, UserBound
  <2>3. ASSUME NEW z \in Proc, Own(z)
        PROVE  Bound'
    <3>1. UNCHANGED disk /\ (Commit(z) \/ UNCHANGED docs)
      BY <2>3 DEF Own, Commit, Starting, StartSearch, StartRebuild, ReadRows, ReadSettings,
         LoadLevel, SeedDefaults, SetLevel, Looking, Walk, WalkAll, StatDone, Stat,
         LoadMeta, LoadBody, Ending, Decide, Lock, Query, FileGone, GiveUp, RollBack,
         MarkDirty, Busy, Crash, store
    <3>2. cmd'[z] = "search" => BoundAt(z)'
      <4>1. CASE Starting(z) \/ Looking(z)
        <5>1. ~Commit(z) \/ UNCHANGED docs
          BY <4>1 DEF Commit, Starting, StartSearch, StartRebuild, ReadRows, ReadSettings,
             LoadLevel, SeedDefaults, SetLevel, Looking, Walk, WalkAll, StatDone, Stat,
             LoadMeta, LoadBody, store
        <5> QED BY <3>1, <4>1, <5>1, StartBound, LookBound
      <4>2. CASE Commit(z) \/ Ending(z)
        BY <3>1, <4>2, EndBound
      <4> QED BY <2>3, <4>1, <4>2 DEF Own
    <3> QED BY <3>2 DEF Bound
  <2> QED BY <2>1, <2>2, <2>3, Steps
<1>3. TypeInv /\ Dated /\ [Next]_vars => Dated'
  BY DatedStep
<1>4. Routed /\ Bound => SyncBoundary
  BY DEF Routed, RoutedAt, Bound, BoundAt, SyncBoundary
<1> QED BY <1>1, <1>2, <1>3, <1>4, RoutesHold, PTL DEF Spec

=============================================================================
