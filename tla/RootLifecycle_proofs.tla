------------------------ MODULE RootLifecycle_proofs ------------------------
(***************************************************************************)
(* Proofs about RootLifecycle, for any number of processes and crashes and *)
(* any choice of commands, levels and starting points.                     *)
(***************************************************************************)
EXTENDS RootLifecycle, TLAPS

-----------------------------------------------------------------------------
(* The inductive invariant *)

Label ==
  {"create settings", "create state", "create rows", "retain", "drop rows", "drop state",
   "drop settings", "seed version", "seed level", "seed state", "set level", "replace",
   "validate", "reconcile", "mark settings", "mark state", "mark rows", "set dirty",
   "idle", "answer", "no answer", "failed", "mkdir", "ensure", "open", "reopen",
   "init status", "rebuilt", "snapshot", "query", "status", "mark open", "unlink", "rmdir"}

Job == {"none", "init", "build", "rebuild", "prepare", "delete", "status", "search"}

\* What a process has before its schema is complete, in the order in which it
\* gets it, and the same for mark_dirty.
Creating == {"create settings", "create state", "create rows"}
Seeding  == {"seed version", "seed level", "seed state", "set level"}
Dropping == {"drop rows", "drop state", "drop settings"}
Marking  == {"mark settings", "mark state", "mark rows", "set dirty"}

\* Which command brings a process to which point.
JobAt(z) ==
  /\ pc[z] \in {"mkdir", "init status"} => job[z] = "init"
  /\ pc[z] = "open" => job[z] \in {"init", "search"}
  /\ pc[z] \in {"ensure", "reopen", "retain", "replace", "rebuilt"} \cup Dropping =>
       job[z] \in {"build", "rebuild"}
  /\ pc[z] \in Creating \cup Seeding => job[z] \in {"init", "build", "rebuild"}
  /\ pc[z] \in {"validate", "reconcile", "snapshot", "query", "answer", "no answer"} =>
       job[z] = "search"
  /\ pc[z] \in {"unlink", "rmdir"} => job[z] = "delete"
  /\ pc[z] = "idle" => job[z] = "none"
  /\ pc[z] \in {"status", "mark open"} \cup Marking =>
       job[z] \in {"prepare", "rebuild", "status", "search"}

\* A connection is one to the file that is there, and that is in the directory.
Connected ==
  /\ file => dir
  /\ \A z \in Proc : conn[z] => file

\* An older zg's documents keep their version from being taken for the new
\* one: until an init stamps them, no process answers from them, and none but
\* an init gets past the point where it decides what to do with them.
Unstamped ==
  ~stamped /\ rows = "old" =>
    /\ version # "new"
    /\ \A z \in Proc :
         /\ pc[z] # "answer"
         /\ job[z] # "init" /\ conn[z] =>
              pc[z] \notin {"drop state", "drop settings", "replace"} \cup Creating \cup Seeding

\* A search or a status that runs alone keeps the file it has found, so that it
\* can leave a mark there, and a search fails nowhere but where it does so: it
\* comes to its query over tables that validate.
Answerable(z) ==
  /\ job[z] \in {"search", "status"} => file /\ pc[z] # "failed"
  /\ pc[z] \in {"query", "answer", "no answer"} => Valid

\* A process that runs alone keeps its connection, and finds what it has just
\* created or written.
Settled(z) ==
  /\ pc[z] \in Working => conn[z]
  /\ pc[z] = "reopen" => file
  /\ pc[z] \in {"create state", "create rows"} => "settings" \in tables
  /\ pc[z] \in {"create rows", "mark rows", "set dirty"} => "state" \in tables
  /\ pc[z] \in Seeding \cup {"replace"} => tables = Tables
  /\ pc[z] \in {"seed level", "seed state", "set level", "replace"} => version = "new"
  /\ pc[z] \in {"seed state", "set level"} => level = "fts"
  /\ pc[z] = "replace" => level = goal[z]
  /\ pc[z] = "rebuilt" => Valid /\ rows = "new" /\ level = goal[z]
  /\ pc[z] = "failed" /\ job[z] \in {"build", "rebuild"} => stamped /\ rows = "old"

\* The level a rebuild works for is the one it should leave: the one it was
\* given, or the one it reads before it resets anything; if it knows none then
\* there was none, and the default is right.
Aimed(z) ==
  job[z] \in {"init", "build", "rebuild", "prepare"} =>
    /\ goal[z] # "none"
    /\ \/ want[z] = goal[z]
       \/ /\ want[z] = "none" /\ job[z] # "init"
          /\ goal[z] = IF pc[z] \in {"status", "mark open", "ensure", "reopen", "retain"}
                                     \cup Marking
                       THEN IF level = "none" THEN "fts" ELSE level
                       ELSE "fts"

Undisturbed(z) ==
  /\ \A y \in Proc \ {z} : pc[y] = "idle"
  /\ Settled(z) /\ Aimed(z) /\ Answerable(z)

LInv ==
  /\ TypeOK /\ Connected /\ Unstamped
  /\ \A z \in Proc : JobAt(z)
  /\ \A z \in Proc : alone[z] => Undisturbed(z)

-----------------------------------------------------------------------------
(* Types *)

\* A step of process z.
Step(z) ==
  \/ StartCommand(z) \/ Finish(z)
  \/ MakeDir(z) \/ Ensure(z) \/ Open(z)
  \/ CreateSchema(z) \/ Retain(z) \/ ResetSchema(z)
  \/ Seed(z) \/ SetLevel(z) \/ NoSuchTable(z) \/ InitStatus(z)
  \/ Replace(z) \/ Validate(z) \/ Reconcile(z) \/ Snapshot(z) \/ Query(z)
  \/ Status(z) \/ Rebuilt(z) \/ MarkOpen(z) \/ SetDirty(z)
  \/ Unlink(z) \/ RemoveDir(z) \/ Orphaned(z) \/ Crash(z)

LEMMA Steps == Next <=> \E z \in Proc : Step(z)
  BY DEF Next, Step

\* TypeOK in two parts: what is stored, and what the processes hold.
StoredOK ==
  /\ dir \in BOOLEAN /\ file \in BOOLEAN /\ tables \subseteq Tables
  /\ version \in {"none", "old", "new"} /\ level \in Level \cup {"none"}
  /\ dirty \in {"none", "clean", "dirty"} /\ rows \in {"empty", "old", "new"}
  /\ "rows" \notin tables => rows = "empty"
  /\ "state" \notin tables => dirty = "none"
  /\ "settings" \notin tables => version = "none" /\ level = "none"
  /\ crashes \in 0..MaxCrashes /\ stamped \in BOOLEAN

HeldOK ==
  /\ pc \in [Proc -> Label] /\ job \in [Proc -> Job]
  /\ want \in [Proc -> Level \cup {"none"}] /\ goal \in [Proc -> Level \cup {"none"}]
  /\ conn \in [Proc -> BOOLEAN] /\ alone \in [Proc -> BOOLEAN]

LEMMA TypeParts == TypeOK <=> StoredOK /\ HeldOK
<1>1. Label = Working \cup {"idle", "answer", "no answer", "failed", "mkdir",
                      "ensure", "open", "reopen", "init status", "rebuilt", "snapshot",
                      "query", "status", "mark open", "unlink", "rmdir"}
  BY DEF Label, Working
<1> QED BY <1>1 DEF TypeOK, StoredOK, HeldOK, Job

LEMMA StoredStep ==
  ASSUME StoredOK, HeldOK, NEW z \in Proc, Step(z)
  PROVE  StoredOK'
<1> USE RootLifecycleAssumption DEF store, local, history, vars, Goto, Level, Tables
<1>1. CASE StartCommand(z)
  BY <1>1 DEF StoredOK, StartCommand, Start
<1>2. CASE Finish(z)
  BY <1>2 DEF StoredOK, Finish, Exit
<1>3. CASE MakeDir(z)
  BY <1>3 DEF StoredOK, MakeDir
<1>4. CASE Ensure(z)
  BY <1>4 DEF StoredOK, Ensure, Exit
<1>5. CASE Open(z)
  BY <1>5 DEF StoredOK, Open, Connect, Fail
<1>6. CASE CreateSchema(z)
  BY <1>6 DEF StoredOK, CreateSchema, Create
<1>7. CASE Retain(z)
  BY <1>7 DEF StoredOK, Retain
<1>8. CASE ResetSchema(z)
  BY <1>8 DEF StoredOK, ResetSchema, Drop, Keep
<1>9. CASE Seed(z)
  BY <1>9 DEF StoredOK, Seed
<1>10. CASE SetLevel(z)
  <2>1. want[z] \in Level \cup {"none"}
    BY DEF HeldOK
  <2> QED BY <1>10, <2>1 DEF StoredOK, SetLevel
<1>11. CASE NoSuchTable(z)
  BY <1>11 DEF StoredOK, NoSuchTable, Fail
<1>12. CASE InitStatus(z)
  BY <1>12 DEF StoredOK, InitStatus, Fail
<1>13. CASE Replace(z)
  BY <1>13 DEF StoredOK, Replace, Fail
<1>14. CASE Validate(z)
  BY <1>14 DEF StoredOK, Validate, Fail
<1>15. CASE Reconcile(z)
  BY <1>15 DEF StoredOK, Reconcile, Fail
<1>16. CASE Snapshot(z)
  BY <1>16 DEF StoredOK, Snapshot, Fail
<1>17. CASE Query(z)
  BY <1>17 DEF StoredOK, Query
<1>18. CASE Status(z)
  BY <1>18 DEF StoredOK, Status, Continue, Exit
<1>19. CASE Rebuilt(z)
  BY <1>19 DEF StoredOK, Rebuilt, Exit
<1>20. CASE MarkOpen(z)
  BY <1>20 DEF StoredOK, MarkOpen, Connect, Exit
<1>21. CASE SetDirty(z)
  BY <1>21 DEF StoredOK, SetDirty, Continue, Exit
<1>22. CASE Unlink(z)
  BY <1>22 DEF StoredOK, Unlink, Keep
<1>23. CASE RemoveDir(z)
  BY <1>23 DEF StoredOK, RemoveDir, Exit
<1>24. CASE Orphaned(z)
  BY <1>24 DEF StoredOK, Orphaned, Continue, Exit
<1>25. CASE Crash(z)
  BY <1>25 DEF StoredOK, Crash, Exit
<1> QED BY <1>1, <1>2, <1>3, <1>4, <1>5, <1>6, <1>7, <1>8, <1>9, <1>10, <1>11, <1>12, <1>13,
       <1>14, <1>15, <1>16, <1>17, <1>18, <1>19, <1>20, <1>21, <1>22, <1>23, <1>24, <1>25
       DEF Step

LEMMA ExitHeld ==
  ASSUME HeldOK, NEW z \in Proc, Exit(z)
  PROVE  HeldOK'
  BY DEF HeldOK, Label, Job, Exit, Goto

LEMMA ContinueHeld ==
  ASSUME HeldOK, NEW z \in Proc, Continue(z)
  PROVE  HeldOK'
  BY ExitHeld DEF HeldOK, Label, Job, Continue, Goto, history

LEMMA HeldStep ==
  ASSUME StoredOK, HeldOK, NEW z \in Proc, JobAt(z), Step(z)
  PROVE  HeldOK'
<1> USE RootLifecycleAssumption DEF store, local, history, vars, Goto, Level, Tables
<1>1. CASE StartCommand(z)
  <2>1. PICK name \in Job, lvl \in Level \cup {"none"}, label \in Label :
          Start(z, name, lvl, label)
    BY <1>1 DEF StartCommand, Job, Label
  <2>2. level \in Level \cup {"none"}
    BY DEF StoredOK
  <2> QED BY <2>1, <2>2 DEF HeldOK, Start
<1>2. CASE Finish(z)
  BY <1>2, ExitHeld DEF Finish
<1>3. CASE MakeDir(z)
  BY <1>3 DEF HeldOK, Label, Job, MakeDir
<1>4. CASE Ensure(z)
  BY <1>4, ExitHeld DEF HeldOK, Label, Ensure
<1>5. CASE Open(z)
  <2>1. CASE Fail(z)
    BY <2>1 DEF HeldOK, Label, Fail
  <2>2. CASE ~Fail(z)
    <3>1. /\ conn' = [conn EXCEPT ![z] = TRUE]
          /\ UNCHANGED <<job, want, alone, goal>>
      BY <1>5, <2>2 DEF Open, Connect
    <3>2. \E label \in Label : pc' = [pc EXCEPT ![z] = label]
      <4>1. pc[z] \in {"open", "reopen"}
        BY <1>5 DEF Open
      <4>2. CASE pc[z] = "reopen"
        BY <1>5, <2>2, <4>2 DEF Open, Label
      <4>3. CASE pc[z] = "open"
        BY <1>5, <2>2, <4>3 DEF Open, Label, JobAt
      <4> QED BY <4>1, <4>2, <4>3
    <3> QED BY <3>1, <3>2 DEF HeldOK
  <2> QED BY <2>1, <2>2
<1>6. CASE CreateSchema(z)
  BY <1>6 DEF HeldOK, Label, Job, CreateSchema, Create
<1>7. CASE Retain(z)
  <2>1. level \in Level \cup {"none"}
    BY DEF StoredOK
  <2> QED BY <1>7, <2>1 DEF HeldOK, Label, Retain
<1>8. CASE ResetSchema(z)
  BY <1>8 DEF HeldOK, Label, Job, ResetSchema, Drop, Keep
<1>9. CASE Seed(z)
  BY <1>9 DEF HeldOK, Label, Job, Seed
<1>10. CASE SetLevel(z)
  BY <1>10 DEF HeldOK, Label, Job, SetLevel
<1>11. CASE NoSuchTable(z)
  BY <1>11 DEF HeldOK, Label, Job, NoSuchTable, Fail
<1>12. CASE InitStatus(z)
  BY <1>12 DEF HeldOK, Label, Job, InitStatus, Fail
<1>13. CASE Replace(z)
  BY <1>13 DEF HeldOK, Label, Job, Replace, Fail
<1>14. CASE Validate(z)
  BY <1>14 DEF HeldOK, Label, Job, Validate, Fail
<1>15. CASE Reconcile(z)
  BY <1>15 DEF HeldOK, Label, Job, Reconcile, Fail
<1>16. CASE Snapshot(z)
  BY <1>16 DEF HeldOK, Label, Job, Snapshot, Fail
<1>17. CASE Query(z)
  <2>1. PICK label \in {"answer", "no answer", "failed"} : pc' = [pc EXCEPT ![z] = label]
    BY <1>17 DEF Query
  <2>2. label \in Label
    BY DEF Label
  <2> QED BY <1>17, <2>1, <2>2 DEF HeldOK, Query
<1>18. CASE Status(z)
  BY <1>18, ExitHeld, ContinueHeld DEF HeldOK, Label, Status
<1>19. CASE Rebuilt(z)
  BY <1>19, ExitHeld DEF HeldOK, Label, Rebuilt
<1>20. CASE MarkOpen(z)
  BY <1>20, ExitHeld DEF HeldOK, Label, MarkOpen, Connect
<1>21. CASE SetDirty(z)
  BY <1>21, ContinueHeld DEF SetDirty
<1>22. CASE Unlink(z)
  BY <1>22 DEF HeldOK, Label, Job, Unlink, Keep
<1>23. CASE RemoveDir(z)
  BY <1>23, ExitHeld DEF RemoveDir
<1>24. CASE Orphaned(z)
  BY <1>24, ContinueHeld DEF HeldOK, Label, Orphaned
<1>25. CASE Crash(z)
  BY <1>25, ExitHeld DEF Crash
<1> QED BY <1>1, <1>2, <1>3, <1>4, <1>5, <1>6, <1>7, <1>8, <1>9, <1>10, <1>11, <1>12, <1>13,
       <1>14, <1>15, <1>16, <1>17, <1>18, <1>19, <1>20, <1>21, <1>22, <1>23, <1>24, <1>25
       DEF Step

-----------------------------------------------------------------------------
(* What a step leaves alone *)

\* The steps that leave what is stored alone.
Reading(z) ==
  \/ StartCommand(z) \/ Finish(z) \/ Ensure(z) \/ Retain(z) \/ NoSuchTable(z)
  \/ InitStatus(z) \/ Validate(z) \/ Snapshot(z) \/ Query(z) \/ Status(z)
  \/ Rebuilt(z) \/ Orphaned(z) \/ Crash(z)

LEMMA ReadingStep ==
  ASSUME NEW z \in Proc, Reading(z)
  PROVE  UNCHANGED <<store, stamped>>
<1> USE DEF history
<1>1. CASE StartCommand(z)
  BY <1>1 DEF StartCommand, Start
<1>2. CASE Finish(z)
  BY <1>2 DEF Finish, Exit
<1>3. CASE Ensure(z)
  BY <1>3 DEF Ensure, Exit
<1>4. CASE Retain(z)
  BY <1>4 DEF Retain
<1>5. CASE NoSuchTable(z)
  BY <1>5 DEF NoSuchTable, Fail
<1>6. CASE InitStatus(z)
  BY <1>6 DEF InitStatus, Fail
<1>7. CASE Validate(z)
  BY <1>7 DEF Validate, Fail
<1>8. CASE Snapshot(z)
  BY <1>8 DEF Snapshot, Fail
<1>9. CASE Query(z)
  BY <1>9 DEF Query
<1>10. CASE Status(z)
  BY <1>10 DEF Status, Continue, Exit
<1>11. CASE Rebuilt(z)
  BY <1>11 DEF Rebuilt, Exit
<1>12. CASE Orphaned(z)
  BY <1>12 DEF Orphaned, Continue, Exit
<1>13. CASE Crash(z)
  BY <1>13 DEF Crash, Exit
<1> QED BY <1>1, <1>2, <1>3, <1>4, <1>5, <1>6, <1>7, <1>8, <1>9, <1>10, <1>11, <1>12, <1>13
       DEF Reading

\* A step of z moves no other process: it can only cut its connection, and end
\* its being alone.
LEMMA OthersStay ==
  ASSUME HeldOK, NEW z \in Proc, Step(z), NEW y \in Proc \ {z}
  PROVE  /\ pc'[y] = pc[y] /\ job'[y] = job[y]
         /\ want'[y] = want[y] /\ goal'[y] = goal[y]
         /\ conn'[y] => conn[y]
         /\ alone'[y] => alone[y]
<1> USE DEF store, local, history, vars, Goto
<1>1. CASE StartCommand(z)
  BY <1>1 DEF HeldOK, StartCommand, Start
<1>2. CASE Finish(z)
  BY <1>2 DEF HeldOK, Finish, Exit
<1>3. CASE MakeDir(z)
  BY <1>3 DEF HeldOK, MakeDir
<1>4. CASE Ensure(z)
  BY <1>4 DEF HeldOK, Ensure, Exit
<1>5. CASE Open(z)
  BY <1>5 DEF HeldOK, Open, Connect, Fail
<1>6. CASE CreateSchema(z)
  BY <1>6 DEF HeldOK, CreateSchema, Create
<1>7. CASE Retain(z)
  BY <1>7 DEF HeldOK, Retain
<1>8. CASE ResetSchema(z)
  BY <1>8 DEF HeldOK, ResetSchema, Drop, Keep
<1>9. CASE Seed(z)
  BY <1>9 DEF HeldOK, Seed
<1>10. CASE SetLevel(z)
  BY <1>10 DEF HeldOK, SetLevel
<1>11. CASE NoSuchTable(z)
  BY <1>11 DEF HeldOK, NoSuchTable, Fail
<1>12. CASE InitStatus(z)
  BY <1>12 DEF HeldOK, InitStatus, Fail
<1>13. CASE Replace(z)
  BY <1>13 DEF HeldOK, Replace, Fail
<1>14. CASE Validate(z)
  BY <1>14 DEF HeldOK, Validate, Fail
<1>15. CASE Reconcile(z)
  BY <1>15 DEF HeldOK, Reconcile, Fail
<1>16. CASE Snapshot(z)
  BY <1>16 DEF HeldOK, Snapshot, Fail
<1>17. CASE Query(z)
  BY <1>17 DEF HeldOK, Query
<1>18. CASE Status(z)
  BY <1>18 DEF HeldOK, Status, Continue, Exit
<1>19. CASE Rebuilt(z)
  BY <1>19 DEF HeldOK, Rebuilt, Exit
<1>20. CASE MarkOpen(z)
  BY <1>20 DEF HeldOK, MarkOpen, Connect, Exit
<1>21. CASE SetDirty(z)
  BY <1>21 DEF HeldOK, SetDirty, Continue, Exit
<1>22. CASE Unlink(z)
  BY <1>22 DEF HeldOK, Unlink, Keep
<1>23. CASE RemoveDir(z)
  BY <1>23 DEF HeldOK, RemoveDir, Exit
<1>24. CASE Orphaned(z)
  BY <1>24 DEF HeldOK, Orphaned, Continue, Exit
<1>25. CASE Crash(z)
  BY <1>25 DEF HeldOK, Crash, Exit
<1> QED BY <1>1, <1>2, <1>3, <1>4, <1>5, <1>6, <1>7, <1>8, <1>9, <1>10, <1>11, <1>12, <1>13,
       <1>14, <1>15, <1>16, <1>17, <1>18, <1>19, <1>20, <1>21, <1>22, <1>23, <1>24, <1>25
       DEF Step

\* Only a command that starts moves an idle process, and only that makes one
\* alone; nobody else is alone then.
LEMMA IdleStarts ==
  ASSUME NEW z \in Proc, Step(z), pc[z] = "idle"
  PROVE  StartCommand(z)
  BY DEF Step, Finish, MakeDir, Ensure, Open, CreateSchema, Create, Retain, ResetSchema, Drop,
     Seed, SetLevel, NoSuchTable, InitStatus, Replace, Validate, Reconcile, Snapshot, Query,
     Status, Rebuilt, MarkOpen, SetDirty, Unlink, RemoveDir, Orphaned, Working, Crash

LEMMA StartEndsAlone ==
  ASSUME NEW z \in Proc, StartCommand(z)
  PROVE  /\ pc[z] = "idle"
         /\ \A y \in Proc \ {z} : ~alone'[y]
         /\ alone'[z] => \A y \in Proc \ {z} : pc[y] = "idle"
  BY DEF StartCommand, Start

-----------------------------------------------------------------------------
(* The invariant is kept *)

LEMMA ExitJob ==
  ASSUME HeldOK, NEW z \in Proc, Exit(z)
  PROVE  JobAt(z)'
  BY DEF HeldOK, JobAt, Exit, Goto, Creating, Seeding, Dropping, Marking

LEMMA ContinueJob ==
  ASSUME HeldOK, NEW z \in Proc, Continue(z)
  PROVE  JobAt(z)'
<1>1. CASE job[z] = "prepare"
  BY <1>1 DEF HeldOK, JobAt, Continue, Goto, Creating, Seeding, Dropping, Marking
<1> QED BY <1>1, ExitJob DEF Continue

LEMMA JobStep ==
  ASSUME HeldOK, NEW z \in Proc, JobAt(z), Step(z)
  PROVE  JobAt(z)'
<1> USE DEF store, local, history, vars, Goto, Creating, Seeding, Dropping, Marking
<1>1. CASE StartCommand(z)
  BY <1>1 DEF HeldOK, JobAt, StartCommand, Start
<1>2. CASE Finish(z)
  BY <1>2 DEF HeldOK, JobAt, Finish, Exit
<1>3. CASE MakeDir(z)
  BY <1>3 DEF HeldOK, JobAt, MakeDir
<1>4. CASE Ensure(z)
  BY <1>4 DEF HeldOK, JobAt, Ensure, Exit
<1>5. CASE Open(z)
  BY <1>5 DEF HeldOK, JobAt, Open, Connect, Fail
<1>6. CASE CreateSchema(z)
  BY <1>6 DEF HeldOK, JobAt, CreateSchema, Create
<1>7. CASE Retain(z)
  BY <1>7 DEF HeldOK, JobAt, Retain
<1>8. CASE ResetSchema(z)
  BY <1>8 DEF HeldOK, JobAt, ResetSchema, Drop, Keep
<1>9. CASE Seed(z)
  BY <1>9 DEF HeldOK, JobAt, Seed
<1>10. CASE SetLevel(z)
  BY <1>10 DEF HeldOK, JobAt, SetLevel
<1>11. CASE NoSuchTable(z)
  BY <1>11 DEF HeldOK, JobAt, NoSuchTable, Fail
<1>12. CASE InitStatus(z)
  BY <1>12 DEF HeldOK, JobAt, InitStatus, Fail
<1>13. CASE Replace(z)
  BY <1>13 DEF HeldOK, JobAt, Replace, Fail
<1>14. CASE Validate(z)
  BY <1>14 DEF HeldOK, JobAt, Validate, Fail
<1>15. CASE Reconcile(z)
  BY <1>15 DEF HeldOK, JobAt, Reconcile, Fail
<1>16. CASE Snapshot(z)
  BY <1>16 DEF HeldOK, JobAt, Snapshot, Fail
<1>17. CASE Query(z)
  BY <1>17 DEF HeldOK, JobAt, Query
<1>18. CASE Status(z)
  <2>1. CASE Continue(z)
    BY <2>1, ContinueJob
  <2>2. CASE ~Continue(z)
    BY <1>18, <2>2 DEF HeldOK, JobAt, Status
  <2> QED BY <2>1, <2>2
<1>19. CASE Rebuilt(z)
  BY <1>19 DEF HeldOK, JobAt, Rebuilt, Exit
<1>20. CASE MarkOpen(z)
  BY <1>20 DEF HeldOK, JobAt, MarkOpen, Connect, Exit
<1>21. CASE SetDirty(z)
  BY <1>21, ContinueJob DEF SetDirty
<1>22. CASE Unlink(z)
  BY <1>22 DEF HeldOK, JobAt, Unlink, Keep
<1>23. CASE RemoveDir(z)
  BY <1>23 DEF HeldOK, JobAt, RemoveDir, Exit
<1>24. CASE Orphaned(z)
  <2>1. CASE Continue(z)
    BY <2>1, ContinueJob
  <2>2. CASE ~Continue(z)
    BY <1>24, <2>2 DEF HeldOK, JobAt, Orphaned, Working
  <2> QED BY <2>1, <2>2
<1>25. CASE Crash(z)
  BY <1>25 DEF HeldOK, JobAt, Crash, Exit
<1> QED BY <1>1, <1>2, <1>3, <1>4, <1>5, <1>6, <1>7, <1>8, <1>9, <1>10, <1>11, <1>12, <1>13,
       <1>14, <1>15, <1>16, <1>17, <1>18, <1>19, <1>20, <1>21, <1>22, <1>23, <1>24, <1>25
       DEF Step

LEMMA ConnectedStep ==
  ASSUME StoredOK, HeldOK, Connected, NEW z \in Proc, Step(z)
  PROVE  Connected'
<1> USE DEF store, local, history
<1>1. CASE Reading(z)
  <2>1. dir' = dir /\ file' = file
    BY <1>1, ReadingStep
  <2>2. conn'[z] => conn[z]
    BY <1>1 DEF HeldOK, Reading, StartCommand, Start, Finish, Ensure, Retain, NoSuchTable, Fail,
       InitStatus, Validate, Snapshot, Query, Status, Rebuilt, Orphaned, Crash, Continue, Exit
  <2> QED BY <2>1, <2>2, OthersStay DEF Connected
<1>2. CASE Unlink(z)
  BY <1>2 DEF Connected, Unlink
<1>3. CASE RemoveDir(z)
  BY <1>3, OthersStay DEF HeldOK, Connected, RemoveDir, Exit
<1>4. CASE Open(z) \/ MarkOpen(z)
  <2>1. CASE Connect(z)
    BY <2>1 DEF HeldOK, Connected, Connect
  <2>2. CASE ~Connect(z)
    <3>1. dir' = dir /\ file' = file /\ (conn'[z] => conn[z])
      BY <1>4, <2>2 DEF HeldOK, Open, MarkOpen, Fail, Exit
    <3> QED BY <3>1, OthersStay DEF Connected
  <2> QED BY <2>1, <2>2
<1>5. CASE MakeDir(z)
  BY <1>5, OthersStay DEF Connected, MakeDir
<1>6. CASE CreateSchema(z) \/ ResetSchema(z) \/ Seed(z) \/ SetLevel(z)
             \/ Replace(z) \/ Reconcile(z) \/ SetDirty(z)
  <2>1. dir' = dir /\ file' = file /\ (conn'[z] => conn[z])
    BY <1>6 DEF HeldOK, CreateSchema, Create, ResetSchema, Drop, Seed, SetLevel, Replace, Fail,
       Reconcile, SetDirty, Continue, Exit
  <2> QED BY <2>1, OthersStay DEF Connected
<1> QED BY <1>1, <1>2, <1>3, <1>4, <1>5, <1>6 DEF Step, Reading

\* Documents are never turned into an older zg's ...
LEMMA OldRows ==
  ASSUME NEW z \in Proc, Step(z)
  PROVE  rows' = "old" => rows = "old"
<1> USE DEF store, local, history
<1>1. CASE Reading(z)
  BY <1>1, ReadingStep
<1>2. CASE ResetSchema(z) \/ Unlink(z)
  BY <1>2 DEF ResetSchema, Drop, Keep, Unlink
<1>3. CASE MakeDir(z) \/ Open(z) \/ CreateSchema(z) \/ Seed(z) \/ SetLevel(z)
  BY <1>3 DEF MakeDir, Open, Connect, Fail, CreateSchema, Create, Seed, SetLevel
<1>4. CASE Replace(z) \/ Reconcile(z) \/ MarkOpen(z) \/ SetDirty(z) \/ RemoveDir(z)
  BY <1>4 DEF Replace, Fail, Reconcile, MarkOpen, Connect, SetDirty, Continue, Exit, RemoveDir
<1> QED BY <1>1, <1>2, <1>3, <1>4 DEF Step, Reading

\* ... and a stamp is not taken back.
LEMMA StampStays ==
  ASSUME NEW z \in Proc, Step(z)
  PROVE  stamped => stamped'
<1> USE DEF store, local, history
<1>1. CASE Reading(z)
  BY <1>1, ReadingStep
<1>2. CASE ResetSchema(z) \/ Unlink(z)
  BY <1>2 DEF ResetSchema, Drop, Keep, Unlink
<1>3. CASE MakeDir(z) \/ Open(z) \/ CreateSchema(z) \/ Seed(z) \/ SetLevel(z)
  BY <1>3 DEF MakeDir, Open, Connect, Fail, CreateSchema, Create, Seed, SetLevel
<1>4. CASE Replace(z) \/ Reconcile(z) \/ MarkOpen(z) \/ SetDirty(z) \/ RemoveDir(z)
  BY <1>4 DEF Replace, Fail, Reconcile, MarkOpen, Connect, SetDirty, Continue, Exit, RemoveDir
<1> QED BY <1>1, <1>2, <1>3, <1>4 DEF Step, Reading

\* Only seed_defaults writes the version.
LEMMA VersionStep ==
  ASSUME NEW z \in Proc, Step(z), ~(pc[z] = "seed version" /\ Seed(z))
  PROVE  version' = version \/ version' = "none"
<1> USE DEF store, local, history
<1>1. CASE Reading(z)
  BY <1>1, ReadingStep
<1>2. CASE ResetSchema(z) \/ Unlink(z)
  BY <1>2 DEF ResetSchema, Drop, Keep, Unlink
<1>3. CASE MakeDir(z) \/ Open(z) \/ CreateSchema(z) \/ Seed(z) \/ SetLevel(z)
  BY <1>3 DEF MakeDir, Open, Connect, Fail, CreateSchema, Create, Seed, SetLevel
<1>4. CASE Replace(z) \/ Reconcile(z) \/ MarkOpen(z) \/ SetDirty(z) \/ RemoveDir(z)
  BY <1>4 DEF Replace, Fail, Reconcile, MarkOpen, Connect, SetDirty, RemoveDir
<1> QED BY <1>1, <1>2, <1>3, <1>4 DEF Step, Reading

LEMMA UnstampedStep ==
  ASSUME StoredOK, HeldOK, \A y \in Proc : JobAt(y), Unstamped, NEW z \in Proc, Step(z)
  PROVE  Unstamped'
<1> DEFINE Past == {"drop state", "drop settings", "replace"} \cup Creating \cup Seeding
<1> SUFFICES ASSUME ~stamped', rows' = "old"
             PROVE  /\ version' # "new"
                    /\ \A y \in Proc :
                         /\ pc'[y] # "answer"
                         /\ job'[y] # "init" /\ conn'[y] => pc'[y] \notin Past
  BY DEF Unstamped
<1>1. /\ ~stamped /\ rows = "old" /\ version # "new" /\ ~Valid
      /\ \A y \in Proc : pc[y] # "answer" /\ (job[y] # "init" /\ conn[y] => pc[y] \notin Past)
  BY OldRows, StampStays DEF Unstamped, Valid
<1>2. version' # "new"
  <2>1. CASE pc[z] = "seed version" /\ Seed(z)
    <3>1. job[z] = "init"
      BY <2>1, <1>1 DEF Seed, Seeding
    <3>2. stamped'
      BY <2>1, <3>1, <1>1 DEF Seed
    <3> QED BY <3>2
  <2> QED BY <2>1, <1>1, VersionStep
<1>3. /\ pc'[z] # "answer"
      /\ job'[z] # "init" /\ conn'[z] => pc'[z] \notin Past
  <2> USE <1>1 DEF store, local, history, Goto, Creating, Seeding
  <2>1. CASE StartCommand(z)
    BY <2>1 DEF HeldOK, StartCommand, Start
  <2>2. CASE Finish(z)
    BY <2>2 DEF HeldOK, Finish, Exit
  <2>3. CASE MakeDir(z)
    BY <2>3 DEF HeldOK, MakeDir
  <2>4. CASE Ensure(z)
    BY <2>4 DEF HeldOK, Ensure, Exit
  <2>5. CASE Open(z)
    <3>1. CASE Fail(z)
      BY <3>1 DEF HeldOK, Fail
    <3>2. CASE pc[z] = "open" /\ ~Fail(z)
      <4>1. job'[z] = job[z] /\ job[z] \in {"init", "search"}
        BY <2>5, <3>2 DEF JobAt, Open, Connect
      <4>2. pc' = [pc EXCEPT ![z] = IF job[z] = "init" THEN "create settings" ELSE "validate"]
        BY <2>5, <3>2, <4>1 DEF Open
      <4> QED BY <4>1, <4>2 DEF HeldOK
    <3>3. CASE pc[z] = "reopen" /\ ~Fail(z)
      BY <2>5, <3>3 DEF HeldOK, Open
    <3> QED BY <2>5, <3>1, <3>2, <3>3 DEF Open
  <2>6. CASE CreateSchema(z)
    BY <2>6 DEF HeldOK, CreateSchema, Create
  <2>7. CASE Retain(z)
    BY <2>7 DEF HeldOK, Retain
  <2>8. CASE ResetSchema(z)
    BY <2>8 DEF HeldOK, ResetSchema, Drop, Keep
  <2>9. CASE Seed(z)
    BY <2>9 DEF HeldOK, Seed
  <2>10. CASE SetLevel(z)
    BY <2>10 DEF HeldOK, SetLevel
  <2>11. CASE NoSuchTable(z)
    BY <2>11 DEF HeldOK, NoSuchTable, Fail
  <2>12. CASE InitStatus(z)
    BY <2>12 DEF HeldOK, InitStatus, Fail
  <2>13. CASE Replace(z)
    BY <2>13 DEF HeldOK, Replace, Fail
  <2>14. CASE Validate(z)
    BY <2>14 DEF HeldOK, Validate, Fail
  <2>15. CASE Reconcile(z)
    BY <2>15 DEF HeldOK, Reconcile, Fail
  <2>16. CASE Snapshot(z)
    BY <2>16 DEF HeldOK, Snapshot, Fail
  <2>17. CASE Query(z)
    BY <2>17 DEF HeldOK, Query
  <2>18. CASE Status(z)
    BY <2>18 DEF HeldOK, Status, Continue, Exit
  <2>19. CASE Rebuilt(z)
    BY <2>19 DEF HeldOK, Rebuilt, Exit
  <2>20. CASE MarkOpen(z)
    BY <2>20 DEF HeldOK, MarkOpen, Connect, Exit
  <2>21. CASE SetDirty(z)
    BY <2>21 DEF HeldOK, SetDirty, Continue, Exit
  <2>22. CASE Unlink(z)
    BY <2>22 DEF HeldOK, Unlink, Keep
  <2>23. CASE RemoveDir(z)
    BY <2>23 DEF HeldOK, RemoveDir, Exit
  <2>24. CASE Orphaned(z)
    BY <2>24 DEF HeldOK, Orphaned, Continue, Exit
  <2>25. CASE Crash(z)
    BY <2>25 DEF HeldOK, Crash, Exit
  <2> QED BY <2>1, <2>2, <2>3, <2>4, <2>5, <2>6, <2>7, <2>8, <2>9, <2>10, <2>11, <2>12,
         <2>13, <2>14, <2>15, <2>16, <2>17, <2>18, <2>19, <2>20, <2>21, <2>22, <2>23, <2>24,
         <2>25 DEF Step
<1>4. ASSUME NEW y \in Proc \ {z}
      PROVE  /\ pc'[y] # "answer"
             /\ job'[y] # "init" /\ conn'[y] => pc'[y] \notin Past
  BY <1>1, OthersStay
<1> QED BY <1>2, <1>3, <1>4

\* Where Settled asks for nothing.
LEMMA Unsettled ==
  ASSUME NEW z \in Proc,
         \/ pc'[z] \in {"idle", "answer", "no answer", "mkdir", "ensure", "open", "init status", "snapshot",
                        "query", "status", "mark open", "unlink", "rmdir"}
         \/ pc'[z] = "failed" /\ job'[z] \notin {"build", "rebuild"}
  PROVE  Settled(z)'
  BY DEF Settled, Working, Seeding

\* A failure of a search, or outside a rebuild.
LEMMA FailSettled ==
  ASSUME HeldOK, NEW z \in Proc, Fail(z), job[z] \notin {"build", "rebuild"}
  PROVE  Settled(z)'
<1>1. job'[z] = job[z] /\ pc'[z] = (IF job[z] = "search" THEN "mark open" ELSE "failed")
  BY DEF HeldOK, Fail, Goto, local
<1> QED BY <1>1, Unsettled

LEMMA ContinueSettled ==
  ASSUME HeldOK, NEW z \in Proc, Continue(z)
  PROVE  Settled(z)'
<1>1. pc'[z] \in {"idle", "ensure"}
  BY DEF HeldOK, Continue, Exit, Goto
<1> QED BY <1>1, Unsettled

\* A command starts with nothing to find but the file, and its level as its goal.
LEMMA StartFits ==
  ASSUME HeldOK, NEW z \in Proc, StartCommand(z)
  PROVE  Settled(z)' /\ Aimed(z)' /\ Answerable(z)'
<1> USE DEF store, local, history, Goto
<1>1. Settled(z)'
  <2>1. pc'[z] \in {"mkdir", "ensure", "status", "unlink", "open"}
    BY DEF HeldOK, StartCommand, Start
  <2> QED BY <2>1, Unsettled
<1>2. Aimed(z)'
  <2>1. ASSUME NEW lvl \in Levels, NEW name \in {"init", "rebuild"}, NEW label \in Label,
               Start(z, name, lvl, label)
        PROVE  Aimed(z)'
    <3>1. want'[z] = lvl /\ goal'[z] = lvl /\ lvl # "none"
      BY <2>1, RootLifecycleAssumption DEF HeldOK, Start, Level
    <3> QED BY <3>1 DEF Aimed
  <2>2. CASE Start(z, "prepare", "none", "status")
    BY <2>2 DEF HeldOK, Aimed, Start
  <2>3. CASE \E name \in {"delete", "status", "search"}, label \in Label :
               Start(z, name, "none", label)
    BY <2>3 DEF HeldOK, Aimed, Start
  <2> QED BY <2>1, <2>2, <2>3 DEF StartCommand, Label
<1>3. Answerable(z)'
  <2>1. pc'[z] \in {"mkdir", "ensure", "status", "unlink", "open"} /\ file' = file
    BY DEF HeldOK, StartCommand, Start
  <2>2. job'[z] \in {"search", "status"} => file
    BY DEF HeldOK, StartCommand, Start
  <2> QED BY <2>1, <2>2 DEF Answerable
<1> QED BY <1>1, <1>2, <1>3

LEMMA SettledStep ==
  ASSUME StoredOK, HeldOK, Connected, Unstamped, NEW z \in Proc, JobAt(z), Settled(z), Aimed(z),
         Step(z)
  PROVE  Settled(z)'
<1> USE DEF store, local, history, Goto
<1>1. CASE StartCommand(z)
  BY <1>1, StartFits
<1>2. CASE Finish(z)
  <2>1. pc'[z] \in {"idle"}
    BY <1>2 DEF HeldOK, Finish, Exit
  <2> QED BY <2>1, Unsettled
<1>3. CASE MakeDir(z)
  <2>1. pc'[z] \in {"open"}
    BY <1>3 DEF HeldOK, MakeDir
  <2> QED BY <2>1, Unsettled
<1>4. CASE Ensure(z)
  BY <1>4 DEF HeldOK, Settled, Seeding, Working, Valid, Ensure, Exit
<1>5. CASE Open(z)
  <2>1. CASE Fail(z)
    <3>1. CASE pc[z] = "open"
      BY <2>1, <3>1, FailSettled DEF JobAt
    <3>2. CASE pc[z] = "reopen"
      <4>1. dir
        BY <3>2 DEF Settled, Connected
      <4>2. Connect(z) /\ pc'[z] = "retain"
        BY <1>5, <3>2, <4>1 DEF HeldOK, JobAt, Open
      <4>3. conn'[z]
        BY <4>2 DEF HeldOK, Connect
      <4> QED BY <4>2, <4>3 DEF Settled, Seeding
    <3> QED BY <1>5, <3>1, <3>2 DEF Open
  <2>2. CASE ~Fail(z)
    <3>1. conn'[z]
      BY <1>5, <2>2 DEF HeldOK, Open, Connect
    <3>2. pc'[z] \in {"retain", "create settings", "validate"}
      <4>1. CASE pc[z] = "reopen"
        BY <1>5, <2>2, <4>1 DEF HeldOK, Open
      <4>2. CASE pc[z] = "open"
        BY <1>5, <2>2, <4>2 DEF HeldOK, JobAt, Open
      <4> QED BY <1>5, <4>1, <4>2 DEF Open
    <3> QED BY <3>1, <3>2 DEF Settled, Seeding
  <2> QED BY <2>1, <2>2
<1>6. CASE CreateSchema(z)
  <2>1. conn'[z]
    BY <1>6 DEF CreateSchema, Create
  <2>2. CASE pc[z] = "create settings"
    <3>1. pc'[z] = "create state" /\ "settings" \in tables'
      BY <1>6, <2>2 DEF HeldOK, CreateSchema, Create
    <3> QED BY <2>1, <3>1 DEF Settled, Seeding
  <2>3. CASE pc[z] = "create state"
    <3>1. pc'[z] = "create rows" /\ "settings" \in tables' /\ "state" \in tables'
      BY <1>6, <2>3 DEF HeldOK, Settled, CreateSchema, Create
    <3> QED BY <2>1, <3>1 DEF Settled, Seeding
  <2>4. CASE pc[z] = "create rows"
    <3>1. pc'[z] = "seed version" /\ tables' = tables \cup {"rows"}
      BY <1>6, <2>4 DEF HeldOK, CreateSchema, Create
    <3>2. tables' = Tables
      BY <2>4, <3>1 DEF Settled, StoredOK, Tables
    <3> QED BY <2>1, <3>1, <3>2 DEF Settled
  <2>5. CASE pc[z] = "mark settings"
    <3>1. pc'[z] = "mark state"
      BY <1>6, <2>5 DEF HeldOK, CreateSchema, Create
    <3> QED BY <2>1, <3>1 DEF Settled, Seeding
  <2>6. CASE pc[z] = "mark state"
    <3>1. pc'[z] = "mark rows" /\ "state" \in tables'
      BY <1>6, <2>6 DEF HeldOK, CreateSchema, Create
    <3> QED BY <2>1, <3>1 DEF Settled, Seeding
  <2>7. CASE pc[z] = "mark rows"
    <3>1. pc'[z] = "set dirty" /\ "state" \in tables'
      BY <1>6, <2>7 DEF HeldOK, Settled, CreateSchema, Create
    <3> QED BY <2>1, <3>1 DEF Settled, Seeding
  <2> QED BY <1>6, <2>2, <2>3, <2>4, <2>5, <2>6, <2>7 DEF CreateSchema, Create
<1>7. CASE Retain(z)
  BY <1>7 DEF HeldOK, Settled, Seeding, Working, Valid, Retain
<1>8. CASE ResetSchema(z)
  BY <1>8 DEF HeldOK, Settled, Seeding, Working, Valid, ResetSchema, Drop, Keep
<1>9. CASE Seed(z)
  BY <1>9 DEF HeldOK, Settled, Seeding, Working, Valid, Seed
<1>10. CASE SetLevel(z)
  <2>1. CASE pc'[z] = "init status"
    BY <2>1, Unsettled
  <2>2. CASE pc'[z] # "init status"
    <3>1. /\ pc[z] = "set level" /\ job[z] # "init" /\ pc'[z] = "replace"
          /\ conn'[z] /\ goal'[z] = goal[z]
          /\ level' = (IF want[z] = "none" THEN level ELSE want[z])
      BY <1>10, <2>2 DEF HeldOK, SetLevel
    <3>2. tables' = Tables /\ version' = "new" /\ level = "fts"
      BY <1>10, <3>1 DEF Settled, Seeding, SetLevel
    <3>3. level' = goal'[z]
      BY <3>1, <3>2 DEF Aimed, JobAt, Seeding, Marking
    <3> QED BY <3>1, <3>2, <3>3 DEF Settled, Seeding
  <2> QED BY <2>1, <2>2
<1>11. CASE NoSuchTable(z)
  <2>1. pc[z] = "reconcile" /\ Fail(z)
    BY <1>11 DEF Settled, NoSuchTable, Seeding, Tables
  <2> QED BY <2>1, FailSettled DEF JobAt
<1>12. CASE InitStatus(z)
  <2>1. CASE Fail(z)
    BY <1>12, <2>1, FailSettled DEF InitStatus, JobAt
  <2>2. CASE ~Fail(z)
    <3>1. pc'[z] = "ensure"
      BY <1>12, <2>2 DEF HeldOK, InitStatus
    <3> QED BY <3>1, Unsettled
  <2> QED BY <2>1, <2>2
<1>13. CASE Replace(z)
  <2>1. CASE Fail(z)
    <3>1. rows = "old" /\ conn[z] /\ pc[z] = "replace"
      BY <1>13, <2>1 DEF HeldOK, Replace, Fail
    <3>2. job[z] \in {"build", "rebuild"}
      BY <3>1 DEF JobAt
    <3>3. stamped
      BY <3>1, <3>2 DEF Unstamped
    <3>4. pc'[z] = "failed" /\ stamped' = stamped /\ rows' = rows
      BY <2>1, <3>2 DEF HeldOK, Fail
    <3> QED BY <3>1, <3>3, <3>4 DEF Settled, Seeding, Working
  <2>2. CASE ~Fail(z)
    <3>1. /\ pc[z] = "replace" /\ pc'[z] = "rebuilt" /\ rows' = "new"
          /\ UNCHANGED <<file, tables, version, level, goal>>
      BY <1>13, <2>2 DEF HeldOK, Replace
    <3>2. Valid /\ level = goal[z]
      BY <1>13, <3>1 DEF Settled, Connected, Valid, Replace
    <3>3. Valid'
      BY <3>1, <3>2 DEF Valid
    <3> QED BY <3>1, <3>2, <3>3 DEF Settled, Seeding, Working
  <2> QED BY <2>1, <2>2
<1>14. CASE Validate(z)
  <2>1. CASE Fail(z)
    BY <1>14, <2>1, FailSettled DEF Validate, JobAt
  <2>2. CASE ~Fail(z)
    <3>1. pc'[z] = "reconcile" /\ conn'[z]
      BY <1>14, <2>2 DEF HeldOK, Validate
    <3> QED BY <3>1 DEF Settled, Seeding
  <2> QED BY <2>1, <2>2
<1>15. CASE Reconcile(z)
  <2>1. CASE Fail(z)
    BY <1>15, <2>1, FailSettled DEF Reconcile, JobAt
  <2>2. CASE ~Fail(z)
    <3>1. pc'[z] = "snapshot"
      BY <1>15, <2>2 DEF HeldOK, Reconcile
    <3> QED BY <3>1, Unsettled
  <2> QED BY <2>1, <2>2
<1>16. CASE Snapshot(z)
  <2>1. CASE Fail(z)
    BY <1>16, <2>1, FailSettled DEF Snapshot, JobAt
  <2>2. CASE ~Fail(z)
    <3>1. pc'[z] = "query"
      BY <1>16, <2>2 DEF HeldOK, Snapshot
    <3> QED BY <3>1, Unsettled
  <2> QED BY <2>1, <2>2
<1>17. CASE Query(z)
  <2>1. pc'[z] \in {"answer", "no answer", "failed"} /\ job'[z] = job[z] /\ job[z] = "search"
    BY <1>17 DEF HeldOK, JobAt, Query
  <2> QED BY <2>1, Unsettled
<1>18. CASE Status(z)
  <2>1. CASE Continue(z)
    BY <2>1, ContinueSettled
  <2>2. CASE ~Continue(z)
    <3>1. pc'[z] = "mark open"
      BY <1>18, <2>2 DEF HeldOK, Status
    <3> QED BY <3>1, Unsettled
  <2> QED BY <2>1, <2>2
<1>19. CASE Rebuilt(z)
  <2>1. Valid
    BY <1>19 DEF Settled, Rebuilt
  <2>2. pc'[z] \in {"status", "idle"}
    BY <1>19, <2>1 DEF HeldOK, Rebuilt, Exit
  <2> QED BY <2>2, Unsettled
<1>20. CASE MarkOpen(z)
  BY <1>20 DEF HeldOK, Settled, Seeding, Working, Valid, MarkOpen, Connect, Exit
<1>21. CASE SetDirty(z)
  BY <1>21, ContinueSettled DEF SetDirty
<1>22. CASE Unlink(z)
  <2>1. pc'[z] \in {"rmdir"}
    BY <1>22 DEF HeldOK, Unlink, Keep
  <2> QED BY <2>1, Unsettled
<1>23. CASE RemoveDir(z)
  <2>1. pc'[z] \in {"idle"}
    BY <1>23 DEF HeldOK, RemoveDir, Exit
  <2> QED BY <2>1, Unsettled
<1>24. CASE Orphaned(z)
  BY <1>24 DEF Settled, Orphaned
<1>25. CASE Crash(z)
  <2>1. pc'[z] \in {"idle"}
    BY <1>25 DEF HeldOK, Crash, Exit
  <2> QED BY <2>1, Unsettled
<1> QED BY <1>1, <1>2, <1>3, <1>4, <1>5, <1>6, <1>7, <1>8, <1>9, <1>10, <1>11, <1>12, <1>13,
       <1>14, <1>15, <1>16, <1>17, <1>18, <1>19, <1>20, <1>21, <1>22, <1>23, <1>24, <1>25
       DEF Step

LEMMA AimedStep ==
  ASSUME StoredOK, HeldOK, Connected, NEW z \in Proc, JobAt(z), Settled(z), Aimed(z), Step(z)
  PROVE  Aimed(z)'
<1> USE DEF store, local, history, Goto
<1>1. CASE StartCommand(z)
  BY <1>1, StartFits
<1>2. CASE Finish(z)
  BY <1>2 DEF HeldOK, Aimed, Marking, Finish, Exit
<1>3. CASE MakeDir(z)
  BY <1>3 DEF HeldOK, Aimed, Marking, MakeDir
<1>4. CASE Ensure(z)
  BY <1>4 DEF HeldOK, Aimed, Marking, Ensure, Exit
<1>5. CASE Open(z)
  <2>1. /\ job'[z] = job[z] /\ want'[z] = want[z] /\ goal'[z] = goal[z] /\ level' = level
        /\ pc[z] \in {"open", "reopen"}
    BY <1>5 DEF HeldOK, Open, Connect, Fail
  <2>2. CASE job[z] \in {"build", "rebuild"}
    <3>1. pc[z] = "reopen" /\ dir
      BY <2>1, <2>2 DEF JobAt, Settled, Connected
    <3>2. pc' = [pc EXCEPT ![z] = "retain"]
      BY <1>5, <2>2, <3>1 DEF Open
    <3> QED BY <2>1, <3>1, <3>2 DEF HeldOK, Aimed
  <2> QED BY <2>1, <2>2 DEF JobAt, Aimed
<1>6. CASE CreateSchema(z)
  BY <1>6 DEF HeldOK, Aimed, Marking, CreateSchema, Create
<1>7. CASE Retain(z)
  <2>1. /\ job'[z] = job[z] /\ goal'[z] = goal[z] /\ level' = level
        /\ pc[z] = "retain" /\ pc'[z] \in {"create settings", "drop rows"}
        /\ want'[z] = (IF want[z] # "none" THEN want[z]
                        ELSE IF "settings" \notin tables THEN "none"
                        ELSE IF level = "none" THEN "fts" ELSE level)
    BY <1>7 DEF HeldOK, Retain
  <2>2. job[z] \in {"build", "rebuild"}
    BY <2>1 DEF JobAt
  <2> QED BY <2>1, <2>2 DEF StoredOK, Aimed, Marking
<1>8. CASE ResetSchema(z)
  BY <1>8 DEF HeldOK, Aimed, Marking, ResetSchema, Drop, Keep
<1>9. CASE Seed(z)
  BY <1>9 DEF HeldOK, Aimed, Marking, Seed
<1>10. CASE SetLevel(z)
  BY <1>10 DEF HeldOK, Aimed, Marking, SetLevel
<1>11. CASE NoSuchTable(z)
  BY <1>11 DEF HeldOK, Aimed, Marking, NoSuchTable, Fail
<1>12. CASE InitStatus(z)
  <2>1. want'[z] = want[z] /\ goal'[z] = goal[z]
    BY <1>12 DEF InitStatus, Fail
  <2>2. job[z] = "init"
    BY <1>12 DEF JobAt, InitStatus
  <2> QED BY <2>1, <2>2 DEF Aimed
<1>13. CASE Replace(z)
  BY <1>13 DEF HeldOK, Aimed, Marking, Replace, Fail
<1>14. CASE Validate(z)
  BY <1>14 DEF HeldOK, Aimed, Marking, Validate, Fail
<1>15. CASE Reconcile(z)
  BY <1>15 DEF HeldOK, Aimed, Marking, Reconcile, Fail
<1>16. CASE Snapshot(z)
  BY <1>16 DEF HeldOK, Aimed, Marking, Snapshot, Fail
<1>17. CASE Query(z)
  BY <1>17 DEF HeldOK, Aimed, Marking, Query
<1>18. CASE Status(z)
  BY <1>18 DEF HeldOK, Aimed, Marking, Status, Continue, Exit
<1>19. CASE Rebuilt(z)
  <2>1. Valid /\ level = goal[z]
    BY <1>19 DEF Settled, Rebuilt
  <2>2. CASE Exit(z)
    BY <2>2 DEF HeldOK, Aimed, Exit
  <2>3. CASE ~Exit(z)
    <3>1. /\ job'[z] = job[z] /\ want'[z] = want[z] /\ goal'[z] = goal[z] /\ level' = level
          /\ pc'[z] = "status"
      BY <1>19, <2>1, <2>3 DEF HeldOK, Rebuilt
    <3> QED BY <2>1, <3>1 DEF Aimed
  <2> QED BY <2>2, <2>3
<1>20. CASE MarkOpen(z)
  BY <1>20 DEF HeldOK, Aimed, Marking, MarkOpen, Connect, Exit
<1>21. CASE SetDirty(z)
  BY <1>21 DEF HeldOK, Aimed, Marking, SetDirty, Continue, Exit
<1>22. CASE Unlink(z)
  BY <1>22 DEF HeldOK, Aimed, Marking, Unlink, Keep
<1>23. CASE RemoveDir(z)
  BY <1>23 DEF HeldOK, Aimed, Marking, RemoveDir, Exit
<1>24. CASE Orphaned(z)
  BY <1>24 DEF Settled, Orphaned
<1>25. CASE Crash(z)
  BY <1>25 DEF HeldOK, Aimed, Marking, Crash, Exit
<1> QED BY <1>1, <1>2, <1>3, <1>4, <1>5, <1>6, <1>7, <1>8, <1>9, <1>10, <1>11, <1>12, <1>13,
       <1>14, <1>15, <1>16, <1>17, <1>18, <1>19, <1>20, <1>21, <1>22, <1>23, <1>24, <1>25
       DEF Step

LEMMA ExitAnswerable ==
  ASSUME HeldOK, NEW z \in Proc, Exit(z)
  PROVE  Answerable(z)'
BY DEF HeldOK, Answerable, Exit, Goto

LEMMA ContinueAnswerable ==
  ASSUME HeldOK, NEW z \in Proc, Continue(z)
  PROVE  Answerable(z)'
<1>1. CASE job[z] = "prepare"
  BY <1>1 DEF HeldOK, Answerable, Continue, Goto
<1> QED BY <1>1, ExitAnswerable DEF Continue

\* A search goes on to mark its root.
LEMMA FailAnswerable ==
  ASSUME HeldOK, NEW z \in Proc, job[z] # "status", Answerable(z), Fail(z)
  PROVE  Answerable(z)'
BY DEF HeldOK, Answerable, Fail, Goto, store, local

\* Steps of the commands that need not answer.
LEMMA OtherAnswerable ==
  ASSUME NEW z \in Proc, job'[z] \notin {"search", "status"},
         pc'[z] \notin {"query", "answer", "no answer"}
  PROVE  Answerable(z)'
BY DEF Answerable

LEMMA AnswerableStep ==
  ASSUME HeldOK, NEW z \in Proc, JobAt(z), Settled(z), Answerable(z), Step(z)
  PROVE  Answerable(z)'
<1> USE DEF store, local, history, Goto
<1>1. CASE StartCommand(z)
  BY <1>1, StartFits
<1>2. CASE Finish(z)
  BY <1>2, ExitAnswerable DEF Finish
<1>3. CASE MakeDir(z)
  BY <1>3, OtherAnswerable DEF HeldOK, JobAt, MakeDir
<1>4. CASE Ensure(z)
  <2>1. CASE Exit(z)
    BY <2>1, ExitAnswerable
  <2>2. CASE ~Exit(z)
    BY <1>4, <2>2, OtherAnswerable DEF HeldOK, JobAt, Ensure
  <2> QED BY <2>1, <2>2
<1>5. CASE Open(z)
  <2>0. job[z] # "status" /\ pc[z] \in {"open", "reopen"}
    BY <1>5 DEF Open, JobAt
  <2>1. CASE Fail(z)
    BY <2>0, <2>1, FailAnswerable
  <2>2. CASE ~Fail(z)
    <3>1. file' = TRUE /\ job'[z] = job[z]
      BY <1>5, <2>2 DEF HeldOK, Open, Connect
    <3>2. pc'[z] \in {"retain", "create settings", "validate"}
      <4>1. CASE pc[z] = "reopen"
        BY <1>5, <2>2, <4>1 DEF HeldOK, Open
      <4>2. CASE pc[z] = "open"
        BY <1>5, <2>2, <4>2 DEF HeldOK, JobAt, Open
      <4> QED BY <2>0, <4>1, <4>2
    <3> QED BY <3>1, <3>2 DEF Answerable
  <2> QED BY <2>1, <2>2
<1>6. CASE CreateSchema(z)
  BY <1>6 DEF HeldOK, Answerable, CreateSchema, Create
<1>7. CASE Retain(z)
  BY <1>7, OtherAnswerable DEF HeldOK, JobAt, Retain
<1>8. CASE ResetSchema(z)
  BY <1>8 DEF HeldOK, Answerable, ResetSchema, Drop, Keep
<1>9. CASE Seed(z)
  BY <1>9 DEF HeldOK, Answerable, Seed
<1>10. CASE SetLevel(z)
  BY <1>10 DEF HeldOK, Answerable, SetLevel
<1>11. CASE NoSuchTable(z)
  BY <1>11, FailAnswerable DEF JobAt, Seeding, NoSuchTable
<1>12. CASE InitStatus(z)
  <2>1. CASE Fail(z)
    BY <1>12, <2>1, FailAnswerable DEF JobAt, InitStatus
  <2>2. CASE ~Fail(z)
    BY <1>12, <2>2, OtherAnswerable DEF HeldOK, InitStatus
  <2> QED BY <2>1, <2>2
<1>13. CASE Replace(z)
  <2>1. CASE Fail(z)
    BY <1>13, <2>1, FailAnswerable DEF JobAt, Replace
  <2>2. CASE ~Fail(z)
    BY <1>13, <2>2, OtherAnswerable DEF HeldOK, JobAt, Replace
  <2> QED BY <2>1, <2>2
<1>14. CASE Validate(z)
  <2>1. CASE Fail(z)
    BY <1>14, <2>1, FailAnswerable DEF JobAt, Validate
  <2>2. CASE ~Fail(z)
    <3>1. file' = file /\ job'[z] = job[z] /\ pc'[z] = "reconcile"
      BY <1>14, <2>2 DEF HeldOK, Validate
    <3> QED BY <3>1 DEF Answerable
  <2> QED BY <2>1, <2>2
<1>15. CASE Reconcile(z)
  <2>1. CASE Fail(z)
    BY <1>15, <2>1, FailAnswerable DEF JobAt, Reconcile
  <2>2. CASE ~Fail(z)
    <3>1. file' = file /\ job'[z] = job[z] /\ pc'[z] = "snapshot"
      BY <1>15, <2>2 DEF HeldOK, Reconcile
    <3> QED BY <3>1 DEF Answerable
  <2> QED BY <2>1, <2>2
<1>16. CASE Snapshot(z)
  <2>1. CASE Fail(z)
    BY <1>16, <2>1, FailAnswerable DEF JobAt, Snapshot
  <2>2. CASE ~Fail(z)
    <3>1. Valid' /\ file' = file /\ job'[z] = job[z] /\ pc'[z] = "query"
      BY <1>16, <2>2 DEF HeldOK, Valid, Snapshot
    <3> QED BY <3>1 DEF Answerable
  <2> QED BY <2>1, <2>2
<1>17. CASE Query(z)
  <2>1. Valid
    BY <1>17 DEF Answerable, Query
  <2>2. Valid' /\ file' = file /\ job'[z] = job[z] /\ pc'[z] \in {"answer", "no answer"}
    BY <1>17, <2>1 DEF HeldOK, Valid, Query
  <2> QED BY <2>2 DEF Answerable
<1>18. CASE Status(z)
  <2>1. CASE Continue(z)
    BY <2>1, ContinueAnswerable
  <2>2. CASE ~Continue(z)
    BY <1>18, <2>2 DEF HeldOK, Answerable, Status
  <2> QED BY <2>1, <2>2
<1>19. CASE Rebuilt(z)
  <2>1. CASE Exit(z)
    BY <2>1, ExitAnswerable
  <2>2. CASE ~Exit(z)
    <3>1. job'[z] = job[z] /\ pc'[z] \in {"failed", "status"}
      BY <1>19, <2>2 DEF HeldOK, Rebuilt
    <3>2. job[z] \in {"build", "rebuild"}
      BY <1>19 DEF JobAt, Rebuilt
    <3> QED BY <3>1, <3>2, OtherAnswerable
  <2> QED BY <2>1, <2>2
<1>20. CASE MarkOpen(z)
  <2>1. CASE Exit(z)
    BY <2>1, ExitAnswerable
  <2>2. CASE ~Exit(z)
    BY <1>20, <2>2 DEF HeldOK, Answerable, MarkOpen, Connect
  <2> QED BY <2>1, <2>2
<1>21. CASE SetDirty(z)
  BY <1>21, ContinueAnswerable DEF SetDirty
<1>22. CASE Unlink(z)
  BY <1>22, OtherAnswerable DEF HeldOK, JobAt, Unlink
<1>23. CASE RemoveDir(z)
  BY <1>23, ExitAnswerable DEF RemoveDir
<1>24. CASE Orphaned(z)
  BY <1>24 DEF Settled, Orphaned
<1>25. CASE Crash(z)
  BY <1>25, ExitAnswerable DEF Crash
<1> QED BY <1>1, <1>2, <1>3, <1>4, <1>5, <1>6, <1>7, <1>8, <1>9, <1>10, <1>11, <1>12, <1>13,
       <1>14, <1>15, <1>16, <1>17, <1>18, <1>19, <1>20, <1>21, <1>22, <1>23, <1>24, <1>25
       DEF Step

\* Only a command that starts makes its process alone.
LEMMA AloneStep ==
  ASSUME HeldOK, NEW z \in Proc, Step(z), ~StartCommand(z)
  PROVE  alone'[z] => alone[z]
<1> USE DEF HeldOK, store, local, history
<1>1. CASE Reading(z)
  BY <1>1 DEF Reading, Finish, Ensure, Retain, NoSuchTable, Fail, InitStatus, Validate, Snapshot,
     Query, Status, Rebuilt, Orphaned, Crash, Continue, Exit
<1>2. CASE ~Reading(z)
  BY <1>2 DEF Step, Reading, MakeDir, Open, Connect, Fail, CreateSchema, Create, ResetSchema, Drop,
     Seed, SetLevel, Replace, Reconcile, MarkOpen, SetDirty, Continue, Exit, Unlink, RemoveDir
<1> QED BY <1>1, <1>2

\* A process that is alone after a step of z is z itself, or it was alone and z
\* would have to be idle, and so starting.
LEMMA UndisturbedStep ==
  ASSUME StoredOK, HeldOK, Connected, Unstamped, \A y \in Proc : JobAt(y),
         \A y \in Proc : alone[y] => Undisturbed(y),
         NEW z \in Proc, Step(z), NEW x \in Proc, alone'[x]
  PROVE  Undisturbed(x)'
<1>1. CASE x = z
  <2>1. \A y \in Proc \ {z} : pc'[y] = "idle"
    <3>1. \A y \in Proc \ {z} : pc[y] = "idle"
      BY <1>1, AloneStep, StartEndsAlone DEF Undisturbed
    <3> QED BY <3>1, OthersStay
  <2>2. Settled(z)' /\ Aimed(z)' /\ Answerable(z)'
    <3>1. CASE StartCommand(z)
      BY <3>1, StartFits
    <3>2. CASE ~StartCommand(z)
      <4>1. Settled(z) /\ Aimed(z) /\ Answerable(z)
        BY <1>1, <3>2, AloneStep DEF Undisturbed
      <4> QED BY <4>1, SettledStep, AimedStep, AnswerableStep
    <3> QED BY <3>1, <3>2
  <2> QED BY <1>1, <2>1, <2>2 DEF Undisturbed
<1>2. CASE x # z
  <2>1. alone[x]
    BY <1>2, OthersStay
  <2>2. pc[z] = "idle"
    BY <1>2, <2>1 DEF Undisturbed
  <2>3. StartCommand(z)
    BY <2>2, IdleStarts
  <2> QED BY <1>2, <2>3, StartEndsAlone
<1> QED BY <1>1, <1>2

LEMMA CrashCounts ==
  ASSUME StoredOK, NEW z \in Proc, Crash(z)
  PROVE  crashes' # crashes
<1>1. crashes \in 0..MaxCrashes /\ MaxCrashes \in Nat
  BY RootLifecycleAssumption DEF StoredOK
<1>2. crashes' = crashes + 1
  BY DEF Crash
<1> QED BY <1>1, <1>2

-----------------------------------------------------------------------------
(* The theorems *)

LEMMA InitLInv == Init => LInv
<1> SUFFICES ASSUME Init PROVE LInv
  OBVIOUS
<1>1. StoredOK
  <2>1. PICK start \in {"nothing", "old", "current"} :
          /\ dir = (start # "nothing") /\ file = (start # "nothing")
          /\ tables = IF start = "nothing" THEN {} ELSE Tables
          /\ version = CASE start = "nothing" -> "none" [] start = "old" -> "old"
                         [] start = "current" -> "new"
          /\ rows = CASE start = "nothing" -> "empty" [] start = "old" -> "old"
                      [] start = "current" -> "new"
          /\ dirty = IF start = "nothing" THEN "none" ELSE "clean"
          /\ \/ start = "nothing" /\ level = "none"
             \/ start # "nothing" /\ level \in Level
    BY RootLifecycleAssumption DEF Init
  <2>2. MaxCrashes \in Nat /\ crashes = 0 /\ stamped = FALSE
    BY RootLifecycleAssumption DEF Init
  <2>3. crashes \in 0..MaxCrashes
    BY <2>2
  <2>4. CASE start = "nothing"
    BY <2>1, <2>2, <2>3, <2>4 DEF StoredOK, Tables
  <2>5. CASE start # "nothing"
    BY <2>1, <2>2, <2>3, <2>5 DEF StoredOK, Tables
  <2> QED BY <2>4, <2>5
<1>2. HeldOK
  BY DEF Init, HeldOK, Label, Job
<1>3. Connected
  BY DEF Init, Connected
<1>4. Unstamped
  <2>1. rows = "old" => version = "old"
    BY RootLifecycleAssumption DEF Init
  <2> QED BY <2>1 DEF Init, Unstamped
<1>5. \A z \in Proc : JobAt(z)
  BY DEF Init, JobAt, Creating, Seeding, Dropping, Marking
<1>6. \A z \in Proc : alone[z] => Undisturbed(z)
  BY DEF Init
<1> QED BY <1>1, <1>2, <1>3, <1>4, <1>5, <1>6, TypeParts DEF LInv

LEMMA LInvStep == LInv /\ [Next]_vars => LInv'
<1> SUFFICES ASSUME LInv, [Next]_vars PROVE LInv'
  OBVIOUS
<1>0. StoredOK /\ HeldOK /\ Connected /\ Unstamped /\ (\A y \in Proc : JobAt(y))
      /\ (\A y \in Proc : alone[y] => Undisturbed(y))
  BY TypeParts DEF LInv
<1>1. ASSUME NEW z \in Proc, Step(z) PROVE LInv'
  <2>1. StoredOK'
    BY <1>0, <1>1, StoredStep
  <2>2. HeldOK'
    BY <1>0, <1>1, HeldStep
  <2>3. Connected'
    BY <1>0, <1>1, ConnectedStep
  <2>4. Unstamped'
    BY <1>0, <1>1, UnstampedStep
  <2>5. ASSUME NEW y \in Proc PROVE JobAt(y)'
    <3>1. CASE y = z
      BY <1>0, <1>1, <3>1, JobStep
    <3>2. CASE y # z
      <4>1. pc'[y] = pc[y] /\ job'[y] = job[y]
        BY <1>0, <1>1, <3>2, OthersStay
      <4> QED BY <1>0, <4>1 DEF JobAt
    <3> QED BY <3>1, <3>2
  <2>6. ASSUME NEW y \in Proc, alone'[y] PROVE Undisturbed(y)'
    BY <1>0, <1>1, <2>6, UndisturbedStep
  <2>7. TypeOK'
    BY <2>1, <2>2, TypeParts, PTL
  <2> QED BY <2>3, <2>4, <2>5, <2>6, <2>7 DEF LInv
<1>2. CASE UNCHANGED vars
  BY <1>2 DEF LInv, vars, store, local, history, TypeOK, Connected, Unstamped, JobAt, Undisturbed,
     Settled, Aimed, Answerable, Valid
<1> QED BY <1>1, <1>2, Steps

LEMMA Invariance == Spec => []LInv
  BY InitLInv, LInvStep, PTL DEF Spec

\* Every variable keeps its type and a table that was dropped holds nothing,
\* wherever the statements of several commands are cut off or interleave.
THEOREM LifecycleTypes == Spec => []TypeOK
<1>1. LInv => TypeOK
  BY DEF LInv
<1> QED BY Invariance, <1>1, PTL

\* No search answers from an older zg's documents before an init has stamped
\* them with the new version, for any number of processes: they are dropped
\* before the version is written.
THEOREM OldRowsAreNotServed == Spec => []OldRowsNeverServedUnstamped
<1>1. LInv => OldRowsNeverServedUnstamped
  BY DEF LInv, Unstamped, OldRowsNeverServedUnstamped
<1> QED BY Invariance, <1>1, PTL

\* A rebuild that runs alone recovers a complete index of the level that was
\* asked for, or that the root had, from whatever any number of interrupted
\* commands left behind.
THEOREM RebuildsRecover == Spec => []RebuildRecovers
<1>1. LInv => RebuildRecovers
  BY DEF LInv, Undisturbed, Settled, RebuildRecovers
<1> QED BY Invariance, <1>1, PTL

\* A search or a status that runs alone comes to its query or its report over
\* tables that validate, or leaves the root marked dirty: it keeps the file it
\* found, creates the table that holds the mark, and ends nowhere else.
THEOREM FailuresAreMarked == Spec => FailureIsMarked
<1>1. LInv /\ [Next]_vars =>
        [\A z \in Proc :
           job[z] \in {"search", "status"} /\ alone[z] /\ pc'[z] = "idle" /\ crashes' = crashes =>
             \/ pc[z] \in {"answer", "no answer", "status"} /\ Valid
             \/ dirty' = "dirty"]_vars
  <2> SUFFICES ASSUME LInv, Next, NEW z \in Proc, job[z] \in {"search", "status"},
                      alone[z], pc'[z] = "idle", crashes' = crashes
               PROVE  \/ pc[z] \in {"answer", "no answer", "status"} /\ Valid
                      \/ dirty' = "dirty"
    OBVIOUS
  <2>1. StoredOK /\ HeldOK /\ Connected /\ JobAt(z) /\ Undisturbed(z)
    BY TypeParts DEF LInv
  <2>2. /\ \A x \in Proc \ {z} : pc[x] = "idle"
        /\ Settled(z) /\ file /\ dir /\ pc[z] # "failed"
        /\ pc[z] \in {"answer", "no answer"} => Valid
    BY <2>1 DEF Undisturbed, Answerable, Connected
  <2>3. PICK y \in Proc : Step(y)
    BY Steps
  <2>4. CASE y # z
    <3>1. StartCommand(y) /\ pc[z] = "idle"
      BY <2>1, <2>2, <2>3, <2>4, IdleStarts, OthersStay
    <3> QED BY <2>1, <3>1 DEF JobAt
  <2>5. CASE y = z
    <3>1. ~Crash(z)
      BY <2>1, CrashCounts
    <3>2. CASE Finish(z)
      BY <2>2, <3>2 DEF Finish
    <3>3. CASE Status(z)
      BY <2>1, <3>3 DEF HeldOK, Status, Goto
    <3>4. CASE SetDirty(z)
      <4>1. "state" \in tables
        BY <2>2, <3>4 DEF Settled, SetDirty
      <4> QED BY <2>2, <3>4, <4>1 DEF SetDirty
    <3>5. CASE Orphaned(z)
      BY <2>2, <3>5 DEF Settled, Orphaned
    <3>6. CASE MarkOpen(z)
      BY <2>1, <2>2, <3>6 DEF HeldOK, MarkOpen, Goto
    <3>7. CASE Ensure(z) \/ Rebuilt(z) \/ RemoveDir(z)
      BY <2>1, <3>7 DEF JobAt, Ensure, Rebuilt, RemoveDir
    <3>8. CASE Open(z)
      BY <2>1, <2>2, <3>8 DEF HeldOK, JobAt, Open, Goto
    <3>9. CASE \/ StartCommand(z) \/ MakeDir(z) \/ CreateSchema(z) \/ Retain(z)
               \/ ResetSchema(z) \/ Seed(z) \/ SetLevel(z) \/ NoSuchTable(z)
               \/ InitStatus(z) \/ Replace(z) \/ Validate(z) \/ Reconcile(z)
               \/ Snapshot(z) \/ Query(z) \/ Unlink(z)
      BY <2>1, <3>9 DEF HeldOK, StartCommand, Start, MakeDir, CreateSchema, Create, Retain,
         ResetSchema, Drop, Seed, SetLevel, NoSuchTable, InitStatus, Fail, Replace, Validate,
         Reconcile, Snapshot, Query, Unlink, Goto
    <3> QED BY <2>3, <2>5, <3>1, <3>2, <3>3, <3>4, <3>5, <3>6, <3>7, <3>8, <3>9 DEF Step
  <2> QED BY <2>4, <2>5
<1> QED BY Invariance, <1>1, PTL DEF Spec, FailureIsMarked
=============================================================================
