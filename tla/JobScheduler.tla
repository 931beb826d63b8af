---------------------------- MODULE JobScheduler ----------------------------
(***************************************************************************)
(* The job scheduler of the TestService process (testService/              *)
(* JobScheduler.cpp) with the threads that call it and the part of the     *)
(* kernel it relies on.                                                    *)
(*                                                                         *)
(* HTTP worker threads call create(); a dedicated thread loops over        *)
(* sigwait(SIGCHLD), wait() and jobFinished().  Both methods run under the *)
(* mutex _m and end in schedule(), which forks at most one TestRunner.     *)
(* The kernel keeps ONE pending bit for SIGCHLD, however many children     *)
(* exit, and wait() reaps any one child: a TestRunner, the REPL forked at  *)
(* start-up, or the shell of a concurrent system() call.                   *)
(*                                                                         *)
(* A step ends where another thread or the kernel can interfere: fork()    *)
(* and the registration of the new pid are two steps, because the child    *)
(* may already be gone when its pid enters activeJobs.                     *)
(***************************************************************************)
EXTENDS Naturals, Sequences, FiniteSets, JobFiles

CONSTANTS
  Workers,            \* HTTP worker threads
  SigThread,          \* the thread running the lambda signalHandler
  NoThread,           \* nobody holds the mutex
  Pids,               \* process ids, handed out in increasing order, never twice
  NoPid,              \* the -1 that wait() returns when there is no child
  maxConcurrentJobs,  \* 4 in the code
  MaxJobs,            \* bound: jobs created
  MaxClones,          \* bound: calls of system() by cloneScriptRepo
  MaxStarts,          \* bound: starts of the service
  ReplMayExit         \* whether the REPL child may end while the service runs

ASSUME MaxAssumption == maxConcurrentJobs \in Nat \ {0}
ASSUME ThreadAssumption ==
  /\ SigThread \notin Workers
  /\ NoThread \notin Workers \cup {SigThread}
ASSUME PidAssumption == Pids \subseteq Nat /\ NoPid \notin Pids
ASSUME BoundAssumption ==
  /\ MaxJobs \in Nat /\ MaxClones \in Nat /\ MaxStarts \in Nat
  /\ ReplMayExit \in BOOLEAN

Threads == Workers \cup {SigThread}

VARIABLES
  up,          \* the service process exists
  requests,    \* ids with a file in jobs/requests; survives a crash
  m_jobId,     \* DataBase::m_jobId
  firstId,     \* history: m_jobId when this service process started
  waitQueue,   \* JobScheduler::waitQueue
  activeJobs,  \* JobScheduler::activeJobs, pid -> job id
  mutex,       \* holder of JobScheduler::_m
  pc,          \* where each thread is
  jobId,       \* local of schedule(): the id it popped
  pid,         \* local of each thread: pid forked, reaped or waited for
  procs,       \* kernel: the processes forked by the service
  sigPending,  \* kernel: SIGCHLD is pending for the service
  announced,   \* history: jobs whose JobFinishedEvent this service process sent
  forked,      \* history: the TestRunners this service process forked
  intact       \* history: so far every request file could be created

dbVars == <<requests, m_jobId, firstId, intact>>
schedVars == <<waitQueue, activeJobs, mutex, announced, forked>>
threadVars == <<pc, jobId, pid>>
kernelVars == <<procs, sigPending>>
vars == <<up, dbVars, schedVars, threadVars, kernelVars>>

Kinds == {"none", "repl", "shell", "runner"}
ProcStates == {"unused", "running", "zombie", "orphan", "gone"}
Proc == [kind : Kinds, job : Nat, st : ProcStates]
PCs == {"idle", "system", "sigwait", "wait", "lock", "schedule", "register"}

EmptyMap == [p \in {} |-> 0]

TypeOK ==
  /\ up \in BOOLEAN
  /\ requests \in SUBSET Nat
  /\ m_jobId \in Nat
  /\ firstId \in Nat
  /\ waitQueue \in Seq(Nat)
  /\ DOMAIN activeJobs \in SUBSET Pids
  /\ activeJobs \in [DOMAIN activeJobs -> Nat]
  /\ mutex \in Threads \cup {NoThread}
  /\ pc \in [Threads -> PCs]
  /\ jobId \in [Threads -> Nat]
  /\ pid \in [Threads -> Pids \cup {NoPid}]
  /\ procs \in [Pids -> Proc]
  /\ sigPending \in BOOLEAN
  /\ announced \in SUBSET Nat
  /\ forked \in SUBSET Pids
  /\ intact \in BOOLEAN

Home(t) == IF t = SigThread THEN "sigwait" ELSE "idle"

OfKind(k) == {p \in Pids : procs[p].kind = k}
Runners == OfKind("runner")
Children == {p \in Pids : procs[p].st \in {"running", "zombie"}}
RunnerChildren == Runners \cap Children

-----------------------------------------------------------------------------
(* The kernel *)

\* fork() succeeds and p, the next pid, is the child's.
Spawn(p, kind, job) ==
  /\ procs[p].st = "unused"
  /\ \A q \in Pids : q < p => procs[q].st # "unused"
  /\ procs' = [procs EXCEPT ![p] = [kind |-> kind, job |-> job, st |-> "running"]]

\* A child ends: it stays a zombie until it is waited for, and SIGCHLD becomes
\* pending; it was pending already when an earlier exit has not been taken.
Exit(p) ==
  /\ procs[p].st = "running"
  /\ procs' = [procs EXCEPT ![p].st = "zombie"]
  /\ sigPending' = TRUE
  /\ UNCHANGED <<up, dbVars, schedVars, threadVars>>

RunnerExit(p) == procs[p].kind = "runner" /\ Exit(p)
ShellExit(p) == procs[p].kind = "shell" /\ Exit(p)
ReplExit(p) == ReplMayExit /\ procs[p].kind = "repl" /\ Exit(p)

\* A process left over from an earlier service process is reaped by init.
OrphanExit(p) ==
  /\ procs[p].st = "orphan"
  /\ procs' = [procs EXCEPT ![p].st = "gone"]
  /\ UNCHANGED <<up, dbVars, schedVars, threadVars, sigPending>>

Reap(p) ==
  /\ procs[p].st = "zombie"
  /\ procs' = [procs EXCEPT ![p].st = "gone"]

-----------------------------------------------------------------------------
(* Start-up and end of the service process *)

Init ==
  /\ up = FALSE
  /\ requests = {} /\ m_jobId = 0 /\ firstId = 0 /\ intact = TRUE
  /\ waitQueue = <<>> /\ activeJobs = EmptyMap
  /\ mutex = NoThread /\ announced = {} /\ forked = {}
  /\ pc = [t \in Threads |-> Home(t)]
  /\ jobId = [t \in Threads |-> 0]
  /\ pid = [t \in Threads |-> NoPid]
  /\ procs = [p \in Pids |-> [kind |-> "none", job |-> 0, st |-> "unused"]]
  /\ sigPending = FALSE

\* main() up to server.listen(): SIGCHLD is blocked, the REPL is forked, the
\* DataBase finds the next id, and cloneScriptRepo() runs a shell to its end.
\* system() reaps that shell, but its SIGCHLD stays pending: no thread waits
\* for the signal yet.
Start ==
  /\ ~up
  /\ Cardinality(OfKind("repl")) < MaxStarts
  /\ \E p \in Pids : Spawn(p, "repl", 0)
  /\ up' = TRUE
  /\ m_jobId' = FirstFree(requests)
  /\ firstId' = m_jobId'
  /\ sigPending' = TRUE
  /\ UNCHANGED <<requests, intact, schedVars, threadVars>>

\* What becomes of a child when its parent ends.
WithoutParent(st) ==
  IF st = "running" THEN "orphan" ELSE IF st = "zombie" THEN "gone" ELSE st

\* The process ends: everything it held in memory is lost, its children are
\* inherited by init.  The machine and its files stay.
Down ==
  /\ up' = FALSE
  /\ m_jobId' = 0 /\ firstId' = 0
  /\ waitQueue' = <<>> /\ activeJobs' = EmptyMap
  /\ mutex' = NoThread /\ announced' = {} /\ forked' = {}
  /\ pc' = [t \in Threads |-> Home(t)]
  /\ jobId' = [t \in Threads |-> 0]
  /\ pid' = [t \in Threads |-> NoPid]
  /\ procs' = [p \in Pids |-> [procs[p] EXCEPT !.st = WithoutParent(@)]]
  /\ sigPending' = FALSE
  /\ UNCHANGED <<requests, intact>>

Crash == up /\ Down

-----------------------------------------------------------------------------
(* JobScheduler, run by thread t *)

\* The lock_guard goes out of scope and the method returns to the thread's loop.
Return(t) ==
  /\ mutex' = NoThread
  /\ pc' = [pc EXCEPT ![t] = Home(t)]

\* create(): lock, DataBase::newJob (request file, then m_jobId++), push.
\* newJob does not ask whether the file could be created: without one the id is
\* counted, returned and queued all the same.
create(w) ==
  /\ up /\ pc[w] = "idle" /\ mutex = NoThread
  /\ m_jobId < MaxJobs
  /\ \/ requests' = requests \cup {m_jobId} /\ UNCHANGED intact
     \/ requests' = requests /\ intact' = FALSE
  /\ m_jobId' = m_jobId + 1
  /\ waitQueue' = Append(waitQueue, m_jobId)
  /\ mutex' = w
  /\ pc' = [pc EXCEPT ![w] = "schedule"]
  /\ UNCHANGED <<up, firstId, activeJobs, announced, forked, jobId, pid, kernelVars>>

\* Mutant: > instead of >= in the test of activeJobs.size().
SlotFree_OneTooMany == Cardinality(DOMAIN activeJobs) <= maxConcurrentJobs

SlotFree == Cardinality(DOMAIN activeJobs) < maxConcurrentJobs

\* Mutant: front() is popped before the test of activeJobs.size().
schedulePostpone_PopsFirst(t) ==
  /\ pc[t] = "schedule"
  /\ waitQueue = <<>> \/ ~SlotFree
  /\ waitQueue' = IF waitQueue = <<>> THEN <<>> ELSE Tail(waitQueue)
  /\ Return(t)
  /\ UNCHANGED <<up, dbVars, activeJobs, announced, forked, jobId, pid, kernelVars>>

\* schedule() returns early: nothing waits, or too many jobs are active.
schedulePostpone(t) ==
  /\ pc[t] = "schedule"
  /\ waitQueue = <<>> \/ ~SlotFree
  /\ Return(t)
  /\ UNCHANGED <<up, dbVars, waitQueue, activeJobs, announced, forked, jobId, pid, kernelVars>>

\* Mutant: the mutex is released before fork() returns in the parent.
scheduleFork_Unlocked(t) ==
  /\ pc[t] = "schedule"
  /\ waitQueue # <<>> /\ SlotFree
  /\ waitQueue' = Tail(waitQueue)
  /\ jobId' = [jobId EXCEPT ![t] = Head(waitQueue)]
  /\ \E p \in Pids : /\ Spawn(p, "runner", Head(waitQueue))
                     /\ pid' = [pid EXCEPT ![t] = p]
                     /\ forked' = forked \cup {p}
  /\ pc' = [pc EXCEPT ![t] = "register"]
  /\ mutex' = NoThread
  /\ UNCHANGED <<up, dbVars, activeJobs, announced, sigPending>>

\* schedule() pops the front of the queue and forks its TestRunner.
scheduleFork(t) ==
  /\ pc[t] = "schedule"
  /\ waitQueue # <<>> /\ SlotFree
  /\ waitQueue' = Tail(waitQueue)
  /\ jobId' = [jobId EXCEPT ![t] = Head(waitQueue)]
  /\ \E p \in Pids : /\ Spawn(p, "runner", Head(waitQueue))
                     /\ pid' = [pid EXCEPT ![t] = p]
                     /\ forked' = forked \cup {p}
  /\ pc' = [pc EXCEPT ![t] = "register"]
  /\ UNCHANGED <<up, dbVars, activeJobs, mutex, announced, sigPending>>

\* Mutant: the result -1 of fork() is not checked.
scheduleForkFails_Unchecked(t) ==
  /\ pc[t] = "schedule"
  /\ waitQueue # <<>> /\ SlotFree
  /\ waitQueue' = Tail(waitQueue)
  /\ pid' = [pid EXCEPT ![t] = NoPid]
  /\ pc' = [pc EXCEPT ![t] = "register"]
  /\ UNCHANGED <<up, dbVars, activeJobs, mutex, announced, forked, jobId, kernelVars>>

\* fork() returns -1: the whole service exits.
scheduleForkFails(t) ==
  /\ pc[t] = "schedule"
  /\ waitQueue # <<>> /\ SlotFree
  /\ Down

\* The parent branch of schedule(): activeJobs[pid] = jobId.
scheduleRegister(t) ==
  /\ pc[t] = "register"
  /\ activeJobs' = [p \in DOMAIN activeJobs \cup {pid[t]} |->
                      IF p = pid[t] THEN jobId[t] ELSE activeJobs[p]]
  /\ Return(t)
  /\ UNCHANGED <<up, dbVars, waitQueue, announced, forked, jobId, pid, kernelVars>>

\* cloneScriptRepo(): system() forks a shell; no mutex is held.
cloneScriptRepo(w) ==
  /\ up /\ pc[w] = "idle"
  /\ Cardinality(OfKind("shell")) < MaxClones
  /\ \E p \in Pids : /\ Spawn(p, "shell", 0)
                     /\ pid' = [pid EXCEPT ![w] = p]
  /\ pc' = [pc EXCEPT ![w] = "system"]
  /\ UNCHANGED <<up, dbVars, schedVars, jobId, sigPending>>

\* system() returns: it reaped its shell, or found it reaped by the signal
\* thread (waitpid fails, a warning is logged).
systemReturns(w) ==
  /\ pc[w] = "system"
  /\ \/ Reap(pid[w])
     \/ procs[pid[w]].st = "gone" /\ UNCHANGED procs
  /\ pc' = [pc EXCEPT ![w] = "idle"]
  /\ UNCHANGED <<up, dbVars, schedVars, jobId, pid, sigPending>>

-----------------------------------------------------------------------------
(* The signal thread *)

sigwait ==
  /\ up /\ pc[SigThread] = "sigwait"
  /\ sigPending
  /\ sigPending' = FALSE
  /\ pc' = [pc EXCEPT ![SigThread] = "wait"]
  /\ UNCHANGED <<up, dbVars, schedVars, jobId, pid, procs>>

\* Mutant: the result of wait() is not what jobFinished() is called with.
wait_LosesPid ==
  /\ pc[SigThread] = "wait"
  /\ \/ \E p \in Pids : Reap(p)
     \/ Children = {} /\ UNCHANGED procs
  /\ pid' = [pid EXCEPT ![SigThread] = NoPid]
  /\ pc' = [pc EXCEPT ![SigThread] = "lock"]
  /\ UNCHANGED <<up, dbVars, schedVars, jobId, sigPending>>

\* handleSigChld: wait(nullptr) blocks while every child runs, reaps any one
\* zombie, and returns -1 when the service has no child at all.
wait ==
  /\ pc[SigThread] = "wait"
  /\ \/ \E p \in Pids : /\ Reap(p)
                        /\ pid' = [pid EXCEPT ![SigThread] = p]
     \/ /\ Children = {}
        /\ pid' = [pid EXCEPT ![SigThread] = NoPid]
        /\ UNCHANGED procs
  /\ pc' = [pc EXCEPT ![SigThread] = "lock"]
  /\ UNCHANGED <<up, dbVars, schedVars, jobId, sigPending>>

\* Mutant: jobFinished() does not end in schedule().
jobFinished_NoSchedule ==
  /\ pc[SigThread] = "lock" /\ mutex = NoThread
  /\ IF pid[SigThread] \in DOMAIN activeJobs
     THEN /\ announced' = announced \cup {activeJobs[pid[SigThread]]}
          /\ activeJobs' = [p \in DOMAIN activeJobs \ {pid[SigThread]} |-> activeJobs[p]]
     ELSE UNCHANGED <<announced, activeJobs>>
  /\ pc' = [pc EXCEPT ![SigThread] = "sigwait"]
  /\ UNCHANGED <<up, dbVars, waitQueue, mutex, forked, jobId, pid, kernelVars>>

\* jobFinished(pid): lock, then announce and erase the job of that pid; an
\* unknown pid is only logged.  schedule() follows in both cases.
jobFinished ==
  /\ pc[SigThread] = "lock" /\ mutex = NoThread
  /\ mutex' = SigThread
  /\ IF pid[SigThread] \in DOMAIN activeJobs
     THEN /\ announced' = announced \cup {activeJobs[pid[SigThread]]}
          /\ activeJobs' = [p \in DOMAIN activeJobs \ {pid[SigThread]} |-> activeJobs[p]]
     ELSE UNCHANGED <<announced, activeJobs>>
  /\ pc' = [pc EXCEPT ![SigThread] = "schedule"]
  /\ UNCHANGED <<up, dbVars, waitQueue, forked, jobId, pid, kernelVars>>

-----------------------------------------------------------------------------
Next ==
  \/ Start
  \/ Crash
  \/ \E w \in Workers : create(w) \/ cloneScriptRepo(w) \/ systemReturns(w)
  \/ sigwait \/ wait \/ jobFinished
  \/ \E t \in Threads : \/ schedulePostpone(t) \/ scheduleFork(t)
                        \/ scheduleForkFails(t) \/ scheduleRegister(t)
  \/ \E p \in Pids : RunnerExit(p) \/ ShellExit(p) \/ ReplExit(p) \/ OrphanExit(p)

Spec == Init /\ [][Next]_vars
-----------------------------------------------------------------------------
(* Fairness: the kernel runs every thread that can take a step, a TestRunner *)
(* ends (its scripts are finite), and so does the shell of system().  Nothing*)
(* obliges a client to send requests, the service to crash, fork() to fail   *)
(* or the REPL to end.                                                       *)

Fairness ==
  /\ \A t \in Threads :
       WF_vars(schedulePostpone(t) \/ scheduleFork(t) \/ scheduleRegister(t))
  /\ \A w \in Workers : WF_vars(systemReturns(w))
  /\ WF_vars(sigwait) /\ WF_vars(wait) /\ WF_vars(jobFinished)
  /\ \A p \in Pids : WF_vars(RunnerExit(p)) /\ WF_vars(ShellExit(p))

FairSpec == Spec /\ Fairness

-----------------------------------------------------------------------------
(* Safety *)

\* JobScheduler.h:35: the TestRunner processes that exist, counted in the
\* kernel's process table and not in activeJobs, never exceed
\* maxConcurrentJobs, although fork() and registration are separate steps and
\* a reaped pid stays in activeJobs until jobFinished() gets the mutex.
ConcurrencyBound == Cardinality(RunnerChildren) <= maxConcurrentJobs

\* schedule() starts only one job per call, yet whenever the mutex is free a
\* job waits only if every slot of activeJobs is taken.
WorkConserving ==
  (up /\ mutex = NoThread) =>
    \/ waitQueue = <<>>
    \/ Cardinality(DOMAIN activeJobs) = maxConcurrentJobs

\* jobFinished() finds every TestRunner that wait() returned, under the job it
\* was forked for, even one that ended before fork() returned in the parent:
\* the warning "no job active with this id" is about the REPL or a shell only.
CompletionRecognised ==
  (pc[SigThread] = "lock" /\ mutex = NoThread /\ pid[SigThread] \in Runners) =>
    /\ pid[SigThread] \in DOMAIN activeJobs
    /\ activeJobs[pid[SigThread]] = procs[pid[SigThread]].job

\* The JobFinishedEvent of a job of this service process has been sent exactly
\* when its TestRunner has been reaped and jobFinished() is past the mutex:
\* no event is early and none is lost.
AnnouncedWhenReaped ==
  \A p \in forked :
    procs[p].job \in announced <=>
      /\ procs[p].st = "gone"
      /\ ~(pc[SigThread] = "lock" /\ pid[SigThread] = p)

\* The ids this service process has handed out.
Accepted == firstId .. m_jobId - 1
HasRunner(id) == \E p \in forked : procs[p].job = id

\* A job accepted by this service process is in the waitQueue or was handed to
\* a TestRunner, and never both: no early return of schedule() drops an id,
\* and an id whose request file could not be created is queued like any other.
NoJobVanishes ==
  up => \A id \in Accepted :
          (\E i \in 1 .. Len(waitQueue) : waitQueue[i] = id) # HasRunner(id)

\* A signal or a call to wait() is always outstanding while a slot is held by
\* a TestRunner that has ended: the one pending SIGCHLD cannot be used up
\* for less than the children it stands for, as long as every slot is taken
\* and no TestRunner is left to raise another one.
SlotsRecover ==
  (up /\ Cardinality(DOMAIN activeJobs) = maxConcurrentJobs) =>
    \/ \E p \in Runners : procs[p].st = "running"
    \/ sigPending
    \/ pc[SigThread] # "sigwait"

-----------------------------------------------------------------------------
(* What a step may never do *)

\* A TestRunner is only ever forked for an id greater than every id this
\* service process forked one for before: jobs start in the order they were
\* accepted, none twice.  As long as every request file could be created it is
\* also greater than the ids of earlier service processes, so no old result is
\* overwritten.  After one failed (DataBase.cpp:14 is not checked) a restart
\* hands its id out again, and only the first part remains.
StartOrder ==
  [][\A p \in Pids :
       (procs[p].st = "unused" /\ procs'[p].kind = "runner") =>
         /\ \A q \in forked : procs[q].job < procs'[p].job
         /\ intact => \A q \in Runners : procs[q].job < procs'[p].job]_vars

-----------------------------------------------------------------------------
(* Liveness *)

\* README, Architecture: "After requesting a new job, the TestService forks and
\* executes the TestRunner": every accepted job gets its TestRunner unless
\* the service process ends first.
EveryJobStarts ==
  \A id \in 0 .. MaxJobs - 1 : (up /\ id \in Accepted) ~> (HasRunner(id) \/ ~up)

-----------------------------------------------------------------------------
(* The scheduler implements the abstract job queue. *)

Abstract == INSTANCE JobQueue WITH
  Max <- maxConcurrentJobs,
  Ids <- 0 .. MaxJobs - 1,
  stored <- requests,
  issued <- Accepted,
  waiting <- waitQueue,
  begun <- {procs[p].job : p \in forked},
  started <- {procs[p].job : p \in Runners},
  running <- {procs[p].job : p \in {q \in Runners : procs[q].st = "running"}}

\* Every step of threads, signals and processes is a step of JobQueue or
\* leaves the client's view of the jobs alone.
ImplementsJobQueue == Abstract!JobSpec
=============================================================================
