----------------------------- MODULE TestRunner -----------------------------
(***************************************************************************)
(* The TestRunner processes (testrunner/), one per job, from fork() to     *)
(* exit: parse the request, connect and load the script environment, run   *)
(* the script, write the result file.  The result file is created,         *)
(* truncated and filled in place, while the service may be reading it.     *)
(***************************************************************************)
EXTENDS Integers, FiniteSets

CONSTANTS
  Ids,       \* job ids, an initial segment of the naturals
  Requests,  \* kinds of request files that occur: "valid", "malformed"
  MayDie     \* whether a TestRunner may be killed or crash

ASSUME RunnerAssumption ==
  /\ Ids \subseteq Nat
  /\ Requests \subseteq {"valid", "malformed"}
  /\ MayDie \in BOOLEAN

VARIABLES
  rpc,         \* where the TestRunner of each job is
  request,     \* the request file of each job
  m_status,    \* Job::m_status
  result,      \* the result file of each job
  statusCode,  \* the statusCode inside the result file
  completed,   \* history: the script ran to its end without an exception
  finishedDir  \* the directory jobs/finished exists

runnerVars == <<rpc, request, m_status, result, statusCode, completed, finishedDir>>

RunnerPCs == {"waiting", "createFromFile", "load", "eval", "addResult", "write", "exited"}
FileStates == {"none", "empty", "torn", "complete"}

RunnerTypeOK ==
  /\ rpc \in [Ids -> RunnerPCs]
  /\ request \in [Ids -> Requests \cup {"none"}]
  /\ m_status \in [Ids -> {"INIT", "RUNNING", "FINISHED", "ABORTED"}]
  /\ result \in [Ids -> FileStates]
  /\ statusCode \in [Ids -> {"none", "Ok", "Error"}]
  /\ completed \in [Ids -> BOOLEAN]
  /\ finishedDir \in BOOLEAN

\* DataBase's constructor makes the directory together with jobs; where jobs
\* was there without it, as an empty volume is, nobody ever does.
RunnerInit ==
  /\ rpc = [i \in Ids |-> "waiting"]
  /\ request = [i \in Ids |-> "none"]
  /\ m_status = [i \in Ids |-> "INIT"]
  /\ result = [i \in Ids |-> "none"]
  /\ statusCode = [i \in Ids |-> "none"]
  /\ completed = [i \in Ids |-> FALSE]
  /\ finishedDir \in BOOLEAN

At(i, l) == rpc[i] = l
Goto(i, l) == rpc' = [rpc EXCEPT ![i] = l]

-----------------------------------------------------------------------------
\* The service wrote the request file and started the TestRunner; jobs start
\* in the order of their ids.
start(i) ==
  /\ At(i, "waiting")
  /\ \A j \in Ids : j < i => ~At(j, "waiting")
  /\ \E r \in Requests : request' = [request EXCEPT ![i] = r]
  /\ Goto(i, "createFromFile")
  /\ UNCHANGED <<m_status, result, statusCode, completed>>

\* JobFactory::createFromFile: json::parse and at() throw on a malformed
\* request, nobody catches the exception, and the process is terminated.
createFromFile(i) ==
  /\ At(i, "createFromFile")
  /\ Goto(i, IF request[i] = "valid" THEN "load" ELSE "exited")
  /\ UNCHANGED <<request, m_status, result, statusCode, completed>>

\* Job::execute up to rt.load(): connects to the server, loads libOpc.lua.
load(i) ==
  /\ At(i, "load")
  /\ \/ m_status' = [m_status EXCEPT ![i] = "RUNNING"] /\ Goto(i, "eval")
     \/ m_status' = [m_status EXCEPT ![i] = "ABORTED"] /\ Goto(i, "addResult")
  /\ UNCHANGED <<request, result, statusCode, completed>>

\* Mutant: m_status is set to FINISHED before the script runs.
eval_StatusFirst(i) ==
  /\ At(i, "eval")
  /\ completed' \in {completed, [completed EXCEPT ![i] = TRUE]}
  /\ m_status' = [m_status EXCEPT ![i] = "FINISHED"]
  /\ Goto(i, "addResult")
  /\ UNCHANGED <<request, result, statusCode>>

\* rt.eval(): the script ends, or an exception aborts the job.
eval(i) ==
  /\ At(i, "eval")
  /\ \/ /\ completed' = [completed EXCEPT ![i] = TRUE]
        /\ m_status' = [m_status EXCEPT ![i] = "FINISHED"]
     \/ /\ m_status' = [m_status EXCEPT ![i] = "ABORTED"]
        /\ UNCHANGED completed
  /\ Goto(i, "addResult")
  /\ UNCHANGED <<request, result, statusCode>>

\* Job::addResult up to std::ofstream out(outputFile): the file is created.
addResult(i) ==
  /\ At(i, "addResult") /\ finishedDir
  /\ result' = [result EXCEPT ![i] = "empty"]
  /\ statusCode' = [statusCode EXCEPT ![i] =
                      IF m_status[i] = "FINISHED" THEN "Ok" ELSE "Error"]
  /\ Goto(i, "write")
  /\ UNCHANGED <<request, m_status, completed>>

\* Without the directory the file cannot be created.  Nobody tests the stream:
\* the job ends as if it had a result.
addResultFails(i) ==
  /\ At(i, "addResult") /\ ~finishedDir
  /\ Goto(i, "exited")
  /\ UNCHANGED <<request, m_status, result, statusCode, completed>>

\* out << output: a result longer than the stream's buffer is written in pieces.
writePiece(i) ==
  /\ At(i, "write") /\ result[i] = "empty"
  /\ result' = [result EXCEPT ![i] = "torn"]
  /\ UNCHANGED <<rpc, request, m_status, statusCode, completed>>

\* out.close() and the end of main().
closeResult(i) ==
  /\ At(i, "write")
  /\ result' = [result EXCEPT ![i] = "complete"]
  /\ Goto(i, "exited")
  /\ UNCHANGED <<request, m_status, statusCode, completed>>

\* The process is killed, or the script or the OPC UA stack crashes it; a disk
\* that fills up while the result is created or written leaves the same files.
die(i) ==
  /\ MayDie
  /\ rpc[i] \notin {"waiting", "exited"}
  /\ Goto(i, "exited")
  /\ UNCHANGED <<request, m_status, result, statusCode, completed>>

-----------------------------------------------------------------------------
RunnerStep(i) ==
  \/ createFromFile(i) \/ load(i) \/ eval(i)
  \/ addResult(i) \/ addResultFails(i) \/ writePiece(i) \/ closeResult(i)

RunnerNext ==
  /\ \E i \in Ids : start(i) \/ RunnerStep(i) \/ die(i)
  /\ UNCHANGED finishedDir

-----------------------------------------------------------------------------
(* Properties *)

\* README, Jobs: an exception during the job marks it as aborted.  A finished
\* result file says "Ok" exactly if the script ran to its end, whatever was
\* thrown while connecting, loading or running it.
ResultHonest ==
  \A i \in Ids :
    result[i] = "complete" => (statusCode[i] = "Ok" <=> completed[i])
=============================================================================
