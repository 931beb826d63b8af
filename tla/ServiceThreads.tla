--------------------------- MODULE ServiceThreads ---------------------------
(***************************************************************************)
(* The threads of the TestService process and what they wait for.          *)
(* httplib serves every connection with a thread of one pool; a client of  *)
(* GET /api/events keeps its thread in EventDispatcher::wait_event() until *)
(* a write to it fails, any other request until its handler has returned.  *)
(* The handler of POST /api/jobs takes the scheduler's mutex _m.  The      *)
(* signal thread sends its event with _m held and needs the dispatcher's   *)
(* mutex m_ for it; a writer holds m_ until the client has taken the event *)
(* or httplib gives up.  The REPL's listener sends events without _m.      *)
(*                                                                         *)
(* What the handlers do to jobs, files and scripts is in JobScheduler,     *)
(* DataBase, FinishedJobs, Scripts and ReplBridge; here a handler only     *)
(* occupies a thread and its locks.                                        *)
(***************************************************************************)
EXTENDS EventDispatcher, FiniteSets

CONSTANTS
  Pool,       \* threads of httplib's pool
  Requests,   \* requests other than GET /api/events
  SigThread,  \* the thread of the lambda signalHandler
  NoHolder    \* nobody holds the scheduler's mutex

ASSUME PoolAssumption == Pool \in Nat \ {0}
ASSUME RequestAssumption ==
  /\ Conns \cap Requests = {}
  /\ SigThread \notin Requests /\ NoHolder \notin Requests \cup {SigThread}

VARIABLES
  Posts,      \* the requests that are POST /api/jobs; the others take no lock
  tasks,      \* httplib: accepted connections no thread has taken yet
  req,        \* how far each request is
  mutex,      \* JobScheduler::_m: the request in create(), or SigThread
  job,        \* the job created by each POST
  sig         \* where the signal thread is

serviceVars == <<Posts, tasks, req, mutex, job, sig>>
allVars == <<vars, serviceVars>>

ServiceInit ==
  /\ Init
  /\ Posts \in SUBSET Requests
  /\ tasks = <<>>
  /\ req = [r \in Requests |-> "none"]
  /\ mutex = NoHolder
  /\ job = [r \in Requests |-> "none"]
  /\ sig = "sigwait"

-----------------------------------------------------------------------------
(* httplib's pool *)

InTasks(x) == \E i \in 1 .. Len(tasks) : tasks[i] = x

HeldByConns == {c \in Conns : pc[c] # "ended"}
InHandler == {r \in Requests : req[r] \in {"handler", "locked"}}
FreeThread == Cardinality(HeldByConns) + Cardinality(InHandler) < Pool

\* The listening thread accepts a connection and queues it.
acceptEvents(c) ==
  /\ pc[c] = "ended" /\ ~InTasks(c)
  /\ tasks' = Append(tasks, c)
  /\ UNCHANGED <<vars, Posts, req, mutex, job, sig>>

acceptRequest(r) ==
  /\ req[r] = "none"
  /\ req' = [req EXCEPT ![r] = "queued"]
  /\ tasks' = Append(tasks, r)
  /\ UNCHANGED <<vars, Posts, mutex, job, sig>>

\* A free thread takes the oldest connection and enters its handler.
takeEvents(c) ==
  /\ tasks # <<>> /\ Head(tasks) = c /\ FreeThread
  /\ tasks' = Tail(tasks)
  /\ connect(c)
  /\ UNCHANGED <<Posts, req, mutex, job, sig>>

takeRequest(r) ==
  /\ tasks # <<>> /\ Head(tasks) = r /\ FreeThread
  /\ tasks' = Tail(tasks)
  /\ req' = [req EXCEPT ![r] = "handler"]
  /\ UNCHANGED <<vars, Posts, mutex, job, sig>>

-----------------------------------------------------------------------------
(* The handlers *)

\* A handler that takes no lock: apiCallback() and the answer.
answer(r) ==
  /\ r \notin Posts /\ req[r] = "handler"
  /\ req' = [req EXCEPT ![r] = "answered"]
  /\ UNCHANGED <<vars, Posts, tasks, mutex, job, sig>>

\* POST /api/jobs: newJob() calls create(), which locks _m.
create(r) ==
  /\ r \in Posts /\ req[r] = "handler" /\ mutex = NoHolder
  /\ mutex' = r
  /\ req' = [req EXCEPT ![r] = "locked"]
  /\ UNCHANGED <<vars, Posts, tasks, job, sig>>

\* Mutant: create() returns without unlocking.
createReturns_KeepsLock(r) ==
  /\ req[r] = "locked"
  /\ job' = [job EXCEPT ![r] = "running"]
  /\ req' = [req EXCEPT ![r] = "answered"]
  /\ UNCHANGED <<vars, Posts, tasks, mutex, sig>>

\* create() has stored and scheduled the job; unlock, and the answer.
createReturns(r) ==
  /\ req[r] = "locked"
  /\ mutex' = NoHolder
  /\ job' = [job EXCEPT ![r] = "running"]
  /\ req' = [req EXCEPT ![r] = "answered"]
  /\ UNCHANGED <<vars, Posts, tasks, sig>>

-----------------------------------------------------------------------------
(* The other threads that send events *)

\* sigwait() and wait() of the signal thread return the TestRunner of job r.
reap(r) ==
  /\ sig = "sigwait" /\ job[r] = "running"
  /\ sig' = "lock"
  /\ job' = [job EXCEPT ![r] = "reaped"]
  /\ UNCHANGED <<vars, Posts, tasks, req, mutex>>

\* jobFinished() locks _m and finds the job.
jobFinished ==
  /\ sig = "lock" /\ mutex = NoHolder
  /\ mutex' = SigThread
  /\ sig' = "event"
  /\ UNCHANGED <<vars, Posts, tasks, req, job>>

\* m_fJobFinished sends the event; erase, schedule() and unlock follow.
jobFinishedEvent(r) ==
  /\ sig = "event" /\ job[r] = "reaped"
  /\ send_event
  /\ job' = [job EXCEPT ![r] = "announced"]
  /\ mutex' = NoHolder
  /\ sig' = "sigwait"
  /\ UNCHANGED <<Posts, tasks, req>>

\* Bound: the REPL's listener leaves room for the events of the jobs.
RoomForJobs ==
  id_ + Cardinality({r \in Requests : job[r] # "announced"}) < MaxEvents

\* The REPL's listener sends a line of output.
replEvent ==
  /\ RoomForJobs
  /\ send_event
  /\ UNCHANGED serviceVars

-----------------------------------------------------------------------------
DispatcherStep(c) ==
  /\ \/ disconnect(c) \/ stall(c) \/ endProvider(c) \/ spuriousWakeup(c)
     \/ wait_event(c) \/ wake(c) \/ write(c)
  /\ UNCHANGED serviceVars

ServiceNext ==
  \/ \E c \in Conns : acceptEvents(c) \/ takeEvents(c) \/ DispatcherStep(c)
  \/ \E r \in Requests : \/ acceptRequest(r) \/ takeRequest(r) \/ answer(r)
                         \/ create(r) \/ createReturns(r)
                         \/ reap(r) \/ jobFinishedEvent(r)
  \/ jobFinished
  \/ replEvent

ServiceSpec == ServiceInit /\ [][ServiceNext]_allVars

\* Threads that can go on do so.  Nothing obliges a client to connect, to read
\* or to leave, a TestRunner to end, httplib to notice a broken connection or
\* the REPL to print.
ServiceFairness ==
  /\ Fairness
  /\ \A c \in Conns : WF_allVars(takeEvents(c))
  /\ \A r \in Requests :
       /\ WF_allVars(takeRequest(r)) /\ WF_allVars(answer(r))
       /\ WF_allVars(create(r)) /\ WF_allVars(createReturns(r))
       /\ WF_allVars(jobFinishedEvent(r))
  /\ WF_allVars(jobFinished)

FairServiceSpec == ServiceSpec /\ ServiceFairness

-----------------------------------------------------------------------------
(* Liveness *)

\* Every thread of the pool is kept by a client of /api/events.
Exhausted == Cardinality(HeldByConns) >= Pool

\* A request that was accepted is answered, whatever the other clients and the
\* signal thread do, unless event clients hold the whole pool: no request
\* waits for ever behind a client that does not read.
RequestServed ==
  \A r \in Requests : (req[r] = "queued") ~> (req[r] = "answered" \/ Exhausted)

\* Once its TestRunner is reaped, the end of a job is announced and the
\* scheduler is free for the next one, also when the clients of /api/events
\* do not read, when they hold every thread, and while jobs are created.
EndsAnnounced ==
  \A r \in Requests : (job[r] = "reaped") ~> (job[r] = "announced")
=============================================================================
