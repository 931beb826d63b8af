---------------------------- MODULE FinishedJobs ----------------------------
(***************************************************************************)
(* GET /api/jobs?from=..&max=.. and GET /api/jobs/<id>:                    *)
(* DataBase::getFinishedJobs, getFinishedJob and their handlers in         *)
(* api/Server.h, reading the directory of finished jobs while the          *)
(* TestRunner processes write to it.  Nothing synchronises the two: the    *)
(* directory may gain files while it is iterated over, and a file may be   *)
(* read before it is complete.                                             *)
(***************************************************************************)
EXTENDS TestRunner, Sequences, FiniteSetsExt

CONSTANTS
  Froms,  \* values of the parameter from
  Maxes   \* values of the parameter max

ASSUME ParameterAssumption == Froms \subseteq Int /\ Maxes \subseteq Int

VARIABLES
  pc,       \* where the request is
  single,   \* the request is for one job, the one in id
  fromId,   \* parameter of getFinishedJobs
  max,      \* parameter of getFinishedJobs
  atOpen,   \* the files present when the directory was opened
  seen,     \* the files the directory iterator returned
  id,       \* loop variable
  items,    \* what was put into the stream: <<id, what was read>>
  comma,    \* a separator was put into the stream with no job after it
  finished  \* history: the jobs with a complete result when the request began

readerVars == <<pc, single, fromId, max, atOpen, seen, id, items, comma, finished>>
vars == <<runnerVars, readerVars>>

Files == {i \in Ids : result[i] # "none"}

highestId == IF seen = {} THEN -1 ELSE Max(seen)
fromFound == fromId \in seen
cnt == Len(items)

ReaderTypeOK ==
  /\ pc \in {"idle", "scan", "loop", "parse"}
  /\ single \in BOOLEAN
  /\ fromId \in Froms \cup {0} /\ max \in Maxes \cup {0}
  /\ atOpen \subseteq Ids /\ seen \subseteq Ids /\ finished \subseteq Ids
  /\ id \in Int
  /\ items \in Seq(Ids \X (FileStates \ {"none"}))
  /\ comma \in BOOLEAN

\* The types of the files and of the request in progress.
TypeOK == RunnerTypeOK /\ ReaderTypeOK

Init ==
  /\ RunnerInit
  /\ pc = "idle" /\ single = FALSE
  /\ fromId = 0 /\ max = 0 /\ id = 0
  /\ atOpen = {} /\ seen = {} /\ finished = {}
  /\ items = <<>>
  /\ comma = FALSE

-----------------------------------------------------------------------------
\* The handler reads its parameters; getFinishedJobs opens the directory.
getFinishedJobs(f, m) ==
  /\ pc = "idle"
  /\ single' = FALSE /\ fromId' = f /\ max' = m
  /\ atOpen' = Files
  /\ finished' = {i \in Ids : result[i] = "complete"}
  /\ seen' = {} /\ items' = <<>> /\ comma' = FALSE /\ id' = 0
  /\ pc' = "scan"

\* The directory iterator: it returns every file that was there when the
\* directory was opened, and any of those that were created since.
scanDirectory ==
  /\ pc = "scan" /\ finishedDir
  /\ \E new \in SUBSET (Files \ atOpen) : seen' = atOpen \cup new
  /\ UNCHANGED <<single, fromId, max, atOpen, items, comma, finished>>
  /\ id' = IF fromFound' THEN fromId ELSE highestId'
  /\ pc' = "loop"

\* Mutant: the reverse loop stops before job 0.
InRange_NotZero ==
  IF fromFound THEN id < fromId + max
  ELSE id > 0 /\ id >= highestId - max

\* Mutant: the forward loop runs to fromId + max itself.
InRange_AtMost ==
  IF fromFound THEN id <= fromId + max
  ELSE id >= 0 /\ id >= highestId - max

\* The conditions of the two loops.
InRange ==
  IF fromFound THEN id < fromId + max
  ELSE id >= 0 /\ id >= highestId - max

Read(i) == IF i \in Ids THEN result[i] ELSE "none"

\* Mutant: resultFile.fail() is not tested.
readResult_NoTest ==
  /\ pc = "loop" /\ InRange
  /\ items' = Append(items, <<id, Read(id)>>)
  /\ id' = IF fromFound THEN id + 1 ELSE id - 1
  /\ UNCHANGED <<pc, single, fromId, max, atOpen, seen, comma, finished>>

\* One iteration that finds the file of job id.
readResult ==
  /\ pc = "loop" /\ InRange
  /\ Read(id) # "none"
  /\ items' = Append(items, <<id, Read(id)>>)
  /\ id' = IF fromFound THEN id + 1 ELSE id - 1
  /\ UNCHANGED <<pc, single, fromId, max, atOpen, seen, comma, finished>>

\* Mutant: the reverse loop, too, puts the separator before it tests the file.
leaveLoop_Separator ==
  /\ pc = "loop"
  /\ ~InRange \/ Read(id) = "none"
  /\ comma' = (InRange /\ cnt > 0)
  /\ pc' = "parse"
  /\ UNCHANGED <<single, fromId, max, atOpen, seen, id, items, finished>>

\* The loop ends, or an iteration finds no file: break.  The forward loop has
\* put the separator into the stream by then.
leaveLoop ==
  /\ pc = "loop"
  /\ ~InRange \/ Read(id) = "none"
  /\ comma' = (fromFound /\ InRange /\ cnt > 0)
  /\ pc' = "parse"
  /\ UNCHANGED <<single, fromId, max, atOpen, seen, id, items, finished>>

\* GET /api/jobs/<id>: the file is read in one go; "job not found" is the text
\* if there is none.
getFinishedJob(i) ==
  /\ pc = "idle"
  /\ single' = TRUE /\ id' = i
  /\ items' = IF Read(i) = "none" THEN <<>> ELSE <<<<i, Read(i)>>>>
  /\ pc' = "parse"
  /\ UNCHANGED <<fromId, max, atOpen, seen, comma, finished>>

\* json::parse of the text.  A torn result, a separator without a job and "job
\* not found" are syntax errors; an empty file is none if it is the only one
\* of a list.
Parses ==
  /\ single => cnt = 1 /\ items[1][2] # "empty"
  /\ ~comma
  /\ \A k \in 1 .. cnt : items[k][2] # "torn"
  /\ cnt > 1 => \A k \in 1 .. cnt : items[k][2] # "empty"

\* json::parse throws: httplib answers 500; otherwise 200.
Status == IF Parses THEN 200 ELSE 500

\* The request is over.
Done ==
  /\ pc' = "idle" /\ single' = FALSE
  /\ fromId' = 0 /\ max' = 0 /\ id' = 0
  /\ atOpen' = {} /\ seen' = {} /\ finished' = {} /\ items' = <<>> /\ comma' = FALSE

respond == pc = "parse" /\ Done

\* fs::directory_iterator throws if there is no directory: httplib answers 500.
scanThrows == pc = "scan" /\ ~finishedDir /\ Done

-----------------------------------------------------------------------------
ReaderNext ==
  \/ \E f \in Froms, m \in Maxes : getFinishedJobs(f, m)
  \/ \E i \in Ids : getFinishedJob(i)
  \/ scanDirectory \/ scanThrows \/ readResult \/ leaveLoop \/ respond

Next ==
  \/ RunnerNext /\ UNCHANGED readerVars
  \/ ReaderNext /\ UNCHANGED runnerVars

Spec == Init /\ [][Next]_vars

-----------------------------------------------------------------------------
(* Properties *)

Listed(i) == \E k \in 1 .. cnt : items[k] = <<i, "complete">>

\* The ids between job i and the one the loop starts with.
Between(i) == IF fromFound THEN fromId .. i ELSE i .. highestId

InWindow(i) ==
  IF fromFound THEN i \in fromId .. fromId + max - 1
  ELSE i \in highestId - max .. highestId

\* A list fails for two reasons only: it holds a job that had not finished when
\* the request began, or it runs upwards and a job without a result follows
\* before max jobs are reached (the separator is in the stream already).  So
\* a list of the newest jobs does not fail because of jobs that had finished.
FailsForUnfinished ==
  (pc = "parse" /\ ~single /\ Status = 500) =>
    \/ \E k \in 1 .. cnt : items[k][1] \notin finished
    \/ fromFound /\ cnt \in 1 .. max - 1 /\ fromId + cnt \notin finished

\* A list is a run of consecutive ids, upwards from the parameter from or
\* downwards from the newest job, whatever is created while it is put
\* together.  Upwards it has at most max jobs, as api.md promises of every
\* list (none if max is negative); downwards it may have one more.
WithinMax ==
  ~single =>
    IF fromFound
    THEN (cnt = 0 \/ cnt <= max) /\ \A k \in 1 .. cnt : items[k][1] = fromId + k - 1
    ELSE \A k \in 1 .. cnt : items[k][1] = highestId - k + 1

\* A job that had finished before the request is in the text of the list if it
\* lies in the requested window and no id between it and the start of the
\* window was without a result file, whatever the TestRunners write meanwhile.
ListedUnlessGap ==
  (pc = "parse" /\ ~single) =>
    \A i \in finished :
      (InWindow(i) /\ Between(i) \subseteq seen) => Listed(i)

\* api.md, GET /api/jobs: "get finished test jobs": a request for the newest
\* jobs lists every job that had finished when it was made, as far as max goes.
FinishedAreListed ==
  (pc = "parse" /\ ~single /\ ~fromFound) =>
    \A i \in finished : InWindow(i) => Listed(i)
=============================================================================
