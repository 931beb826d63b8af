------------------------------ MODULE JobsView ------------------------------
(***************************************************************************)
(* The jobs page of the web client (hmi/testToolApp, JobsComponent and     *)
(* JobsService).  It fetches the list of the newest finished jobs when it  *)
(* is opened and again with every event, selects the first one and fetches *)
(* its log; the user may select another one.  Requests are answered in any *)
(* order or not at all, and an event is seen only by a page whose          *)
(* connection is open.                                                     *)
(*                                                                         *)
(* The service appears as the jobs that write their result files and end   *)
(* (module TestRunner), the event sent for each job that ended (module     *)
(* JobScheduler) and the listing of module FinishedJobs for from=100000.   *)
(***************************************************************************)
EXTENDS Integers, Sequences, FiniteSetsExt

CONSTANTS
  Jobs,         \* job ids, an initial segment of the naturals
  Slots,        \* requests that can be under way at the same time
  NoJob,        \* nothing selected, no log
  max,          \* parameter max of the list request
  MaxSelects    \* bound: selections by the user

ASSUME ViewAssumption ==
  Jobs \subseteq Nat /\ NoJob \notin Nat /\ max \in Nat /\ MaxSelects \in Nat

VARIABLES
  runner,       \* each job's TestRunner
  events,       \* events on their way to the page
  conn,         \* the EventSource: "closed", "connecting", "open"
  request,      \* the requests under way
  sent,         \* number of requests sent
  jobs,         \* JobsComponent.jobs
  selectedJob,  \* JobsComponent.selectedJob
  jobLog,       \* JobsComponent.jobLog, as the job whose log it is
  selects,      \* selections by the user so far
  newest,       \* history: the latest request that was answered or failed, by kind
  overtaken,    \* history: kinds of requests with answers out of order
  failed,       \* history: kinds whose last request got no answer
  missed        \* history: an event did not reach the page

pageVars == <<jobs, selectedJob, jobLog, selects, newest, overtaken, failed>>
vars == <<runner, events, conn, request, sent, missed, pageVars>>

Kinds == {"list", "log"}
Idle == [kind |-> "idle", no |-> 0, job |-> NoJob, served |-> FALSE,
         status |-> 200, list |-> <<>>]

Init ==
  /\ runner = [j \in Jobs |-> "running"]
  /\ events = <<>> /\ missed = FALSE
  /\ conn = "closed"
  /\ request = [r \in Slots |-> Idle]
  /\ sent = 0
  /\ jobs = <<>> /\ selectedJob = NoJob /\ jobLog = NoJob
  /\ selects = 0
  /\ newest = [k \in Kinds |-> 0]
  /\ overtaken = {} /\ failed = {}

-----------------------------------------------------------------------------
(* The service *)

writeResult(j) ==
  /\ runner[j] \in {"running", "writing"}
  /\ runner' = [runner EXCEPT ![j] = IF @ = "running" THEN "writing" ELSE "written"]
  /\ UNCHANGED <<events, conn, request, sent, missed, pageVars>>

\* The TestRunner is gone, with a result, without one or with half of one; the
\* event reaches the page, or it passes it by (module EventDispatcher).
jobFinished(j) ==
  /\ runner[j] \in {"running", "writing", "written"}
  /\ runner' = [runner EXCEPT ![j] = CASE @ = "written" -> "finished"
                                       [] @ = "writing" -> "torn"
                                       [] @ = "running" -> "failed"]
  /\ \/ conn = "open" /\ events' = Append(events, j) /\ UNCHANGED missed
     \/ missed' = TRUE /\ UNCHANGED events
  /\ UNCHANGED <<conn, request, sent, pageVars>>

Files == {j \in Jobs : runner[j] \in {"writing", "torn", "written", "finished"}}

\* From the highest id downwards, at most max + 1 files, up to the first gap.
Listing ==
  LET highestId == Max(Files)
      count == Max({c \in 0 .. max + 1 : \A i \in 0 .. c - 1 : highestId - i \in Files})
  IN IF Files = {} THEN <<>> ELSE [k \in 1 .. count |-> highestId - k + 1]

Torn(list) == \E k \in DOMAIN list : runner[list[k]] \in {"writing", "torn"}

\* GET /api/jobs: a result that is not complete spoils the whole answer.
serveList(r) ==
  /\ request[r].kind = "list" /\ ~request[r].served
  /\ request' = [request EXCEPT ![r].served = TRUE, ![r].list = Listing,
                                ![r].status = IF Torn(Listing) THEN 500 ELSE 200]
  /\ UNCHANGED <<runner, events, conn, sent, missed, pageVars>>

\* GET /api/jobs/<id>/log
serveLog(r) ==
  /\ request[r].kind = "log" /\ ~request[r].served
  /\ request' = [request EXCEPT ![r].served = TRUE]
  /\ UNCHANGED <<runner, events, conn, sent, missed, pageVars>>

-----------------------------------------------------------------------------
(* The page *)

Get(kind, j) == [Idle EXCEPT !.kind = kind, !.job = j, !.no = sent + 1]

getJobs(r) ==
  /\ request[r] = Idle
  /\ request' = [request EXCEPT ![r] = Get("list", NoJob)]
  /\ sent' = sent + 1

\* getJobs(), then the subscription to the events.
ngOnInit(r) ==
  /\ conn = "closed"
  /\ getJobs(r)
  /\ conn' = "connecting"
  /\ UNCHANGED <<runner, events, missed, pageVars>>

\* The connection to /api/events is there: from now on events arrive.
connected ==
  /\ conn = "connecting"
  /\ conn' = "open"
  /\ UNCHANGED <<runner, events, request, sent, missed, pageVars>>

\* Mutant: the list is fetched only if it is empty.
onmessage_Once(r) ==
  /\ events # <<>>
  /\ IF jobs = <<>> THEN getJobs(r) ELSE UNCHANGED <<request, sent>>
  /\ events' = Tail(events)
  /\ UNCHANGED <<runner, conn, missed, pageVars>>

\* Every event fetches the list again.
onmessage(r) ==
  /\ events # <<>>
  /\ getJobs(r)
  /\ events' = Tail(events)
  /\ UNCHANGED <<runner, conn, missed, pageVars>>

\* The user selects a job of the list.
onSelect(r, j) ==
  /\ selects < MaxSelects
  /\ \E k \in DOMAIN jobs : jobs[k] = j
  /\ request[r] = Idle
  /\ request' = [request EXCEPT ![r] = Get("log", j)]
  /\ sent' = sent + 1
  /\ selectedJob' = j
  /\ selects' = selects + 1
  /\ UNCHANGED <<runner, events, conn, missed, jobs, jobLog, newest, overtaken, failed>>

Applied(r) ==
  LET k == request[r].kind
  IN /\ newest' = [newest EXCEPT ![k] = request[r].no]
     /\ overtaken' = IF request[r].no < newest[k] THEN overtaken \cup {k} ELSE overtaken

\* Mutant: the length of the list is not tested (undefined is -1).
receiveList_NoTest(r) ==
  /\ request[r].kind = "list" /\ request[r].served
  /\ request[r].status = 200
  /\ Applied(r) /\ failed' = failed \ {"list"}
  /\ jobs' = request[r].list
  /\ selectedJob' = IF jobs' = <<>> THEN -1 ELSE jobs'[1]
  /\ request' = [request EXCEPT ![r] = Get("log", selectedJob')]
  /\ sent' = sent + 1
  /\ UNCHANGED <<runner, events, conn, missed, jobLog, selects>>

\* Mutant: the first job is selected without fetching its log.
receiveList_NoLog(r) ==
  /\ request[r].kind = "list" /\ request[r].served
  /\ request[r].status = 200
  /\ Applied(r) /\ failed' = failed \ {"list"}
  /\ jobs' = request[r].list
  /\ selectedJob' = IF jobs' = <<>> THEN selectedJob ELSE jobs'[1]
  /\ request' = [request EXCEPT ![r] = Idle]
  /\ UNCHANGED <<runner, events, conn, sent, missed, jobLog, selects>>

\* A list arrives: its first job, if there is one, is selected and its log
\* fetched.
receiveList(r) ==
  /\ request[r].kind = "list" /\ request[r].served
  /\ request[r].status = 200
  /\ Applied(r) /\ failed' = failed \ {"list"}
  /\ jobs' = request[r].list
  /\ IF jobs' = <<>>
     THEN /\ request' = [request EXCEPT ![r] = Idle]
          /\ UNCHANGED <<selectedJob, sent>>
     ELSE /\ selectedJob' = jobs'[1]
          /\ request' = [request EXCEPT ![r] = Get("log", jobs'[1])]
          /\ sent' = sent + 1
  /\ UNCHANGED <<runner, events, conn, missed, jobLog, selects>>

\* The answer is an error, which nobody handles: the page stays as it is.
receiveError(r) ==
  /\ request[r].kind = "list" /\ request[r].served
  /\ request[r].status = 500
  /\ Applied(r) /\ failed' = failed \ {"list"}
  /\ request' = [request EXCEPT ![r] = Idle]
  /\ UNCHANGED <<runner, events, conn, sent, missed, jobs, selectedJob, jobLog, selects>>

receiveLog(r) ==
  /\ request[r].kind = "log" /\ request[r].served
  /\ Applied(r) /\ failed' = failed \ {"log"}
  /\ jobLog' = request[r].job
  /\ request' = [request EXCEPT ![r] = Idle]
  /\ UNCHANGED <<runner, events, conn, sent, missed, jobs, selectedJob, selects>>

\* No answer arrives, be it that the request or that its answer was lost; nobody
\* handles that either.
receiveFailure(r) ==
  /\ request[r].kind \in Kinds
  /\ Applied(r) /\ failed' = failed \cup {request[r].kind}
  /\ request' = [request EXCEPT ![r] = Idle]
  /\ UNCHANGED <<runner, events, conn, sent, missed, jobs, selectedJob, jobLog, selects>>

-----------------------------------------------------------------------------
Next ==
  \/ \E j \in Jobs : writeResult(j) \/ jobFinished(j)
  \/ connected
  \/ \E r \in Slots :
       \/ serveList(r) \/ serveLog(r)
       \/ ngOnInit(r) \/ onmessage(r)
       \/ receiveList(r) \/ receiveError(r) \/ receiveLog(r) \/ receiveFailure(r)
       \/ \E j \in Jobs : onSelect(r, j)

Spec == Init /\ [][Next]_vars

-----------------------------------------------------------------------------
(* Properties *)

\* The types of the page's state and of the requests under way.
TypeOK ==
  /\ runner \in [Jobs -> {"running", "writing", "torn", "written", "finished", "failed"}]
  /\ events \in Seq(Jobs)
  /\ conn \in {"closed", "connecting", "open"}
  /\ \A r \in Slots :
       /\ request[r].kind \in Kinds \cup {"idle"}
       /\ request[r].no \in 0 .. sent
       /\ request[r].job \in Jobs \cup {NoJob}
       /\ request[r].kind = "log" => request[r].job \in Jobs
       /\ request[r].list \in Seq(Jobs)
  /\ jobs \in Seq(Jobs)
  /\ selectedJob \in Jobs \cup {NoJob} /\ jobLog \in Jobs \cup {NoJob}
  /\ overtaken \subseteq Kinds /\ failed \subseteq Kinds
  /\ missed \in BOOLEAN

Pending(kind) == \E r \in Slots : request[r].kind = kind

\* The log on the page is the log of the selected job once every request for a
\* log is answered, however events and clicks change the selection, unless
\* answers for logs came out of order or the last one did not come: then the
\* log of another job stays on the page (jobs.component.ts:30).
LogOfSelected ==
  (~Pending("log") /\ "log" \notin overtaken \cup failed) => jobLog = selectedJob

\* When every job has ended and nothing is under way, the page lists what the
\* service would answer now: a request that failed because some result was
\* being written has been made up for by the event of that job, unless
\* answers came out of order, the last one did not come or an event did not
\* reach the page.
ListCurrent ==
  (/\ conn = "open" /\ events = <<>> /\ ~Pending("list")
   /\ ~missed /\ "list" \notin overtaken \cup failed
   /\ \A j \in Jobs : runner[j] \in {"finished", "failed", "torn"}
   /\ ~Torn(Listing))
     => jobs = Listing
=============================================================================
