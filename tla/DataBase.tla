------------------------------ MODULE DataBase ------------------------------
(***************************************************************************)
(* The job part of the DataBase (testService/DataBase.h, DataBase.cpp):    *)
(* the directories it creates on first use, the search for the next job id *)
(* and newJob(), which writes one request file per job.  The files survive *)
(* a crash, m_jobId does not: the names of the files are the only record   *)
(* of the ids already given to clients.                                    *)
(*                                                                         *)
(* newJob() is called under the scheduler's mutex only, so that one call   *)
(* is in progress at a time; the process may end between any two system    *)
(* calls of the constructor and of newJob(), and the machine may lose      *)
(* power: nothing is ever synced.  None of the code checks whether a file  *)
(* could be opened or written.                                             *)
(***************************************************************************)
EXTENDS Naturals, FiniteSets, JobFiles

CONSTANTS
  Contents,  \* what a client may POST as a job request
  Partial,   \* content of a file that is not, or not completely, written
  None,      \* no content
  MaxJobs,   \* bound: ids handed out by one service process
  MaxCalls   \* bound: calls of newJob() over all service processes

ASSUME DataBaseAssumption ==
  /\ Partial \notin Contents /\ None \notin Contents
  /\ MaxJobs \in Nat /\ MaxCalls \in Nat

VARIABLES
  dirs,      \* the directories that exist
  requests,  \* the request files: id -> content
  m_jobId,   \* DataBase::m_jobId
  pc,        \* where the service process is
  content,   \* the argument of newJob()
  calls,     \* calls of newJob() so far
  acked,     \* history: id -> what the client was told is accepted
  unwritten, \* history: ids whose request could not be written completely
  faults     \* history: what went wrong so far, a subset of Faults

vars == <<dirs, requests, m_jobId, pc, content, calls, acked, unwritten, faults>>

\* The jobs directory is a mount point and exists before the first start; the
\* constructor is cut short between two directories; a request file cannot be
\* created (no directory, no descriptor, no space); the machine lost power.
Faults == {"volume", "mkdirCrash", "openFails", "powerLoss"}

\* The directories the code uses for jobs.  The comment DataBase.h:10-20 names
\* jobs/logs too, which nothing creates or reads: the logs are in root/logs.
Dirs == {"jobs", "jobs/requests", "jobs/finished"}
PCs == {"down", "mkdir", "ready", "open", "write", "return"}

Init ==
  /\ \/ dirs = {} /\ faults = {}
     \/ dirs = {"jobs"} /\ faults = {"volume"}
  /\ requests = [id \in {} |-> None]
  /\ m_jobId = 0
  /\ pc = "down"
  /\ content = None
  /\ calls = 0
  /\ acked = [id \in {} |-> None]
  /\ unwritten = {}

-----------------------------------------------------------------------------
(* The constructor *)

\* fs::exists(jobs) decides alone: either nothing is there and the directories
\* are created, or the first id without a request file is searched for.
construct ==
  /\ pc = "down"
  /\ IF "jobs" \notin dirs
     THEN pc' = "mkdir" /\ m_jobId' = 0
     ELSE pc' = "ready" /\ m_jobId' = FirstFree(DOMAIN requests)
  /\ UNCHANGED <<dirs, requests, content, calls, acked, unwritten, faults>>

\* Mutant: the path of the requests directory lacks its prefix.
Missing_NoPrefix ==
  IF "jobs" \notin dirs THEN "jobs"
  ELSE IF "requests" \notin dirs THEN "requests"
  ELSE "jobs/finished"

\* create_directories(jobs/requests), then create_directories(jobs/finished):
\* a directory after its parent, one mkdir() at a time.
Missing ==
  IF "jobs" \notin dirs THEN "jobs"
  ELSE IF "jobs/requests" \notin dirs THEN "jobs/requests"
  ELSE "jobs/finished"

\* Mutant: the second create_directories() is missing.
create_directories_RequestsOnly ==
  /\ pc = "mkdir"
  /\ dirs' = dirs \cup {Missing}
  /\ pc' = IF Missing = "jobs/requests" THEN "ready" ELSE "mkdir"
  /\ UNCHANGED <<requests, m_jobId, content, calls, acked, unwritten, faults>>

create_directories ==
  /\ pc = "mkdir"
  /\ dirs' = dirs \cup {Missing}
  /\ pc' = IF Missing = "jobs/finished" THEN "ready" ELSE "mkdir"
  /\ UNCHANGED <<requests, m_jobId, content, calls, acked, unwritten, faults>>

-----------------------------------------------------------------------------
(* newJob() *)

newJob ==
  /\ pc = "ready"
  /\ m_jobId < MaxJobs /\ calls < MaxCalls
  /\ \E c \in Contents : content' = c
  /\ calls' = calls + 1
  /\ pc' = "open"
  /\ UNCHANGED <<dirs, requests, m_jobId, acked, unwritten, faults>>

SetRequest(id, c) ==
  requests' = [i \in DOMAIN requests \cup {id} |->
                 IF i = id THEN c ELSE requests[i]]

\* std::ofstream out(path): creates the file, or truncates the one that is there.
openRequest ==
  /\ pc = "open"
  /\ "jobs/requests" \in dirs
  /\ SetRequest(m_jobId, Partial)
  /\ pc' = "write"
  /\ UNCHANGED <<dirs, m_jobId, content, calls, acked, unwritten, faults>>

\* The stream is in a failed state, which nobody looks at: no file, but the
\* code after it runs all the same.
openRequestFails ==
  /\ pc = "open"
  /\ pc' = "return"
  /\ faults' = faults \cup {"openFails"}
  /\ UNCHANGED <<dirs, requests, m_jobId, content, calls, acked, unwritten>>

\* out << requestJson; out.close()
writeRequest ==
  /\ pc = "write"
  /\ SetRequest(m_jobId, content)
  /\ pc' = "return"
  /\ UNCHANGED <<dirs, m_jobId, content, calls, acked, unwritten, faults>>

\* The disk is full or fails: the file stays without its content, or with a part
\* of it, and nobody looks at the state of the stream.
writeRequestFails ==
  /\ pc = "write"
  /\ pc' = "return"
  /\ unwritten' = unwritten \cup {m_jobId}
  /\ UNCHANGED <<dirs, requests, m_jobId, content, calls, acked, faults>>

\* Mutant: the id is returned without counting it up.
newJobReturn_NoIncrement ==
  /\ pc = "return"
  /\ acked' = [i \in DOMAIN acked \cup {m_jobId} |->
                 IF i = m_jobId THEN content ELSE acked[i]]
  /\ content' = None
  /\ pc' = "ready"
  /\ UNCHANGED <<dirs, requests, m_jobId, calls, unwritten, faults>>

\* m_jobId++; return newJobId: the client is told "ok" and the id.
newJobReturn ==
  /\ pc = "return"
  /\ acked' = [i \in DOMAIN acked \cup {m_jobId} |->
                 IF i = m_jobId THEN content ELSE acked[i]]
  /\ m_jobId' = m_jobId + 1
  /\ content' = None
  /\ pc' = "ready"
  /\ UNCHANGED <<dirs, requests, calls, unwritten, faults>>

-----------------------------------------------------------------------------
\* Nothing is left of the service process but its files.
Ends ==
  /\ pc' = "down"
  /\ m_jobId' = 0
  /\ content' = None
  /\ UNCHANGED <<calls, acked, unwritten>>

\* The service process ends; what it handed to the kernel is kept.
Crash ==
  /\ pc # "down"
  /\ faults' = faults \cup (IF pc = "mkdir" THEN {"mkdirCrash"} ELSE {})
  /\ Ends
  /\ UNCHANGED <<dirs, requests>>

\* The machine loses power: of the directories, the files and their contents,
\* none of which was synced, any part may be missing afterwards.
PowerLoss ==
  /\ dirs' \in {d \in SUBSET dirs : d # {} \/ "volume" \in faults => "jobs" \in d}
  /\ \E kept \in SUBSET DOMAIN requests : \E cut \in SUBSET kept :
       /\ kept # {} => "jobs/requests" \in dirs'
       /\ requests' = [id \in kept |-> IF id \in cut THEN Partial ELSE requests[id]]
  /\ faults' = faults \cup {"powerLoss"}
  /\ Ends

Next ==
  \/ construct \/ create_directories
  \/ newJob \/ openRequest \/ openRequestFails
  \/ writeRequest \/ writeRequestFails \/ newJobReturn
  \/ Crash \/ PowerLoss

Spec == Init /\ [][Next]_vars

-----------------------------------------------------------------------------
(* Properties *)

\* The types of the DataBase's state and of the files it writes.
TypeOK ==
  /\ dirs \in SUBSET Dirs
  /\ DOMAIN requests \in SUBSET Nat
  /\ requests \in [DOMAIN requests -> Contents \cup {Partial}]
  /\ m_jobId \in Nat
  /\ pc \in PCs
  /\ content \in Contents \cup {None}
  /\ (pc \in {"open", "write", "return"}) => content \in Contents
  /\ calls \in Nat
  /\ DOMAIN acked \in SUBSET Nat
  /\ acked \in [DOMAIN acked -> Contents]
  /\ unwritten \in SUBSET Nat
  /\ faults \in SUBSET Faults

\* Every request file could be created and the machine did not lose power.
FilesKept == {"openFails", "powerLoss"} \cap faults = {}

\* A job whose id newJob() returned to a client keeps its request file, through
\* every later job, every end of the service process and every restart, and
\* with the content the client sent unless that very file could not be written:
\* as long as every file could be created and the machine did not lose power.
AckedDurable ==
  FilesKept =>
    \A id \in DOMAIN acked :
      /\ id \in DOMAIN requests
      /\ requests[id] = acked[id] \/ id \in unwritten

\* Until a request file cannot be created or the power fails, the files are
\* 0 .. n-1 without a gap, which is what the search of the constructor relies
\* on to find an id that is really new; the counter in memory agrees with them.
NoGap ==
  FilesKept =>
    \E n \in 0 .. MaxJobs :
      /\ DOMAIN requests = 0 .. n - 1
      /\ (pc \in {"ready", "open"}) => m_jobId = n
      /\ (pc \in {"write", "return"}) => m_jobId = n - 1

\* DataBase.h:28-29, 33-38: whenever the constructor is done, the directory
\* newJob() writes to and the one the TestRunners write to exist, if no start
\* was cut short, jobs was not there before and the power did not fail: the
\* existence of jobs alone decides whether they are created.
LayoutReady ==
  (pc \notin {"down", "mkdir"} /\ faults \subseteq {"openFails"}) =>
    {"jobs/requests", "jobs/finished"} \subseteq dirs

\* api.md, POST /api/jobs: an existing item is never overwritten: a request
\* file that was written stays as it is, unless the machine lost power.
RequestsPreserved ==
  [][\A id \in DOMAIN requests :
       ("powerLoss" \notin faults' /\ requests[id] \in Contents) =>
         id \in DOMAIN requests' /\ requests'[id] = requests[id]]_vars
=============================================================================
