--------------------------- MODULE JobsView_proofs --------------------------
(***************************************************************************)
(* What the jobs page shows, for any number of jobs, of requests under way *)
(* and of selections, and any order of events and answers.                 *)
(***************************************************************************)
EXTENDS JobsView, JobFiles_proofs, SequenceTheorems

-----------------------------------------------------------------------------
(* The inductive invariant *)

\* A request under way, or none.
KindsOrIdle == Kinds \cup {"idle"}
JobsOrNone == Jobs \cup {NoJob}
Statuses == {200, 500}
Lists == Seq(Jobs)
Requests ==
  [kind : KindsOrIdle, no : Nat, job : JobsOrNone, served : BOOLEAN,
   status : Statuses, list : Lists]

\* Requests are numbered in the order they were sent, and there are finitely
\* many result files.
CountInv ==
  /\ request \in [Slots -> Requests]
  /\ sent \in Nat
  /\ \A r \in Slots : request[r].no <= sent
  /\ newest \in [Kinds -> Nat]
  /\ \A k \in Kinds : newest[k] <= sent
  /\ \E n \in Nat : \A j \in Files : j <= n

\* No request of its kind was sent after r, and no answer to a later one came.
Latest(r, k) ==
  /\ request[r].kind = k
  /\ newest[k] <= request[r].no
  /\ \A s \in Slots : request[s].kind = k => request[s].no <= request[r].no

\* The latest request of its kind has been answered, or no answer comes.
Arrived(k) == \A s \in Slots : request[s].kind = k => request[s].no < newest[k]

\* The latest request for a log is the one for the selected job.
LogInv ==
  "log" \notin overtaken =>
    /\ \A r \in Slots : Latest(r, "log") => request[r].job = selectedJob
    /\ (Arrived("log") /\ "log" \notin failed) => jobLog = selectedJob

\* A request that is still to be answered, or was answered with what is there now.
Current(r) ==
  request[r].served =>
    /\ request[r].list = Listing
    /\ request[r].status = IF Torn(Listing) THEN 500 ELSE 200

\* All jobs have ended, and the page has taken notice of each.
Settled ==
  /\ ~missed /\ events = <<>>
  /\ \A j \in Jobs : runner[j] \in {"finished", "failed", "torn"}

\* Then the latest request for the list was sent after the last job ended.
ListInv ==
  ("list" \notin overtaken /\ Settled) =>
    /\ \A r \in Slots : Latest(r, "list") => Current(r)
    /\ (Arrived("list") /\ "list" \notin failed /\ ~Torn(Listing)) => jobs = Listing

IndInv == TypeOK /\ CountInv /\ LogInv /\ ListInv

-----------------------------------------------------------------------------
(* Types *)

\* The list the service answers with holds jobs only.
LEMMA ListingOfJobs ==
  ASSUME TypeOK, CountInv
  PROVE  Listing \in Seq(Jobs)
<1> DEFINE h == Max(Files)
           C == {c \in 0 .. max + 1 : \A i \in 0 .. c - 1 : h - i \in Files}
           n == Max(C)
<1>1. CASE Files = {}
  <2>1. <<>> \in Seq(Jobs)
    OBVIOUS
  <2>2. QED
    BY <1>1, <2>1, Zenon DEF Listing
<1>2. CASE Files # {}
  <2>1. Files \in SUBSET Nat /\ Files \subseteq Jobs
    BY ViewAssumption DEF Files
  <2>2. \E x \in Files : \A y \in Files : x >= y
    BY <1>2, <2>1, GreatestId DEF CountInv
  <2>3. h \in Nat
    BY <2>1, <2>2 DEF Max
  <2> HIDE DEF h
  <2>4. C \in SUBSET Nat /\ 0 \in C /\ \A c \in C : c <= max + 1
    BY ViewAssumption
  <2> HIDE DEF C
  <2>5. \E x \in C : \A y \in C : x >= y
    <3>1. max + 1 \in Nat /\ C # {}
      BY <2>4, ViewAssumption
    <3>2. QED
      BY <2>4, <3>1, GreatestId
  <2>6. n \in C
    BY <2>5 DEF Max
  <2> HIDE DEF n
  <2>7. n \in Nat /\ \A i \in 0 .. n - 1 : h - i \in Files
    BY <2>4, <2>6 DEF C
  <2>8. ASSUME NEW k \in 1 .. n
        PROVE  h - k + 1 \in Jobs
    <3>1. k - 1 \in 0 .. n - 1 /\ h - (k - 1) = h - k + 1
      BY <2>3, <2>7
    <3>2. QED
      BY <2>1, <2>7, <3>1
  <2>9. [k \in 1 .. n |-> h - k + 1] \in Seq(Jobs)
    BY <2>7, <2>8
  <2>10. Listing = [k \in 1 .. n |-> h - k + 1]
    BY <1>2 DEF Listing, h, n, C
  <2>11. QED
    BY <2>9, <2>10
<1>3. QED
  BY <1>1, <1>2

\* A request is replaced by another one or by none.
LEMMA RequestReplaced ==
  ASSUME CountInv, NEW r \in Slots, NEW q \in Requests,
         request' = [request EXCEPT ![r] = q], sent' \in Nat,
         sent <= sent', q.no <= sent'
  PROVE  /\ request' \in [Slots -> Requests]
         /\ \A s \in Slots : request'[s] = IF s = r THEN q ELSE request[s]
         /\ \A s \in Slots : request'[s].no <= sent'
<1>1. \A s \in Slots : request[s] \in Requests /\ request[s].no \in Nat
  BY DEF CountInv, Requests
<1>2. q.no \in Nat
  BY DEF Requests
<1>3. \A s \in Slots : request'[s] = IF s = r THEN q ELSE request[s]
  BY DEF CountInv
<1>4. request' \in [Slots -> Requests]
  BY DEF CountInv
<1>5. QED
  BY <1>1, <1>2, <1>3, <1>4 DEF CountInv

\* The requests the page sends.
LEMMA GetIsRequest ==
  ASSUME CountInv, NEW k \in Kinds, NEW j \in Jobs \cup {NoJob}
  PROVE  /\ Idle \in Requests /\ Get(k, j) \in Requests
         /\ Get(k, j).kind = k /\ Get(k, j).no = sent + 1 /\ Get(k, j).job = j
         /\ ~Get(k, j).served
<1>1. <<>> \in Seq(Jobs)
  OBVIOUS
<1>2. Idle \in Requests
  BY <1>1 DEF Idle, Requests, KindsOrIdle, JobsOrNone, Statuses, Lists
<1>3. PICK n : n = sent + 1
  OBVIOUS
<1>4. n \in Nat
  BY <1>3 DEF CountInv
<1>5. Get(k, j) = [Idle EXCEPT !.kind = k, !.job = j, !.no = n]
  BY <1>3 DEF Get
<1>6. [Idle EXCEPT !.kind = k, !.job = j, !.no = n] \in Requests
  <2>1. k \in KindsOrIdle /\ j \in JobsOrNone
    BY DEF KindsOrIdle, JobsOrNone
  <2>2. QED
    BY <1>2, <1>4, <2>1 DEF Requests
<1>7. QED
  BY <1>2, <1>3, <1>5, <1>6 DEF Idle

\* TypeOK in terms of Requests.
LEMMA TypeFromCount ==
  ASSUME TypeOK, CountInv',
         \A r \in Slots : request'[r].kind = "log" => request'[r].job \in Jobs
  PROVE  \A r \in Slots :
           /\ request'[r].kind \in Kinds \cup {"idle"}
           /\ request'[r].no \in 0 .. sent'
           /\ request'[r].job \in Jobs \cup {NoJob}
           /\ request'[r].kind = "log" => request'[r].job \in Jobs
           /\ request'[r].list \in Seq(Jobs)
BY DEF CountInv, Requests, KindsOrIdle, JobsOrNone, Statuses, Lists

\* Finitely many result files stay finitely many when one more is begun.
LEMMA FilesBounded ==
  ASSUME TypeOK, CountInv, NEW j \in Jobs,
         \A i \in Jobs : i # j => runner'[i] = runner[i]
  PROVE  \E n \in Nat : \A i \in Files' : i <= n
<1>1. PICK n \in Nat : \A i \in Files : i <= n
  BY DEF CountInv
<1>2. PICK m \in Nat : m >= n /\ m >= j
  BY ViewAssumption
<1>3. ASSUME NEW i \in Files'
      PROVE  i <= m
  <2>1. i \in Jobs /\ i \in Nat /\ j \in Nat
    BY <1>3, ViewAssumption DEF Files
  <2>2. CASE i = j
    BY <1>2, <2>2
  <2>3. CASE i # j
    BY <1>1, <1>2, <1>3, <2>1, <2>3 DEF Files
  <2>4. QED
    BY <2>2, <2>3
<1>4. QED
  BY <1>3

\* A request is answered: what Applied(r) does to the histories.
LEMMA AppliedStep ==
  ASSUME CountInv, TypeOK, NEW r \in Slots, request[r].kind \in Kinds, Applied(r)
  PROVE  /\ newest' \in [Kinds -> Nat]
         /\ newest'[request[r].kind] = request[r].no
         /\ \A k \in Kinds : k # request[r].kind => newest'[k] = newest[k]
         /\ \A k \in Kinds : newest'[k] <= sent
         /\ overtaken \subseteq overtaken' /\ overtaken' \subseteq Kinds
         /\ \A k \in Kinds : k # request[r].kind =>
              (k \in overtaken' <=> k \in overtaken)
         /\ request[r].kind \notin overtaken' =>
              newest[request[r].kind] <= request[r].no
<1> PICK k : k = request[r].kind
  OBVIOUS
<1> PICK n : n = request[r].no
  OBVIOUS
<1>1. k \in Kinds /\ n \in Nat /\ n <= sent /\ sent \in Nat
  BY DEF CountInv, Requests
<1>2. newest' = [newest EXCEPT ![k] = n]
  BY DEF Applied
<1>3. overtaken' = IF n < newest[k] THEN overtaken \cup {k} ELSE overtaken
  BY DEF Applied
<1>4. newest \in [Kinds -> Nat] /\ \A l \in Kinds : newest[l] <= sent
  BY DEF CountInv
<1>5. /\ newest' \in [Kinds -> Nat] /\ newest'[k] = n
      /\ \A l \in Kinds : l # k => newest'[l] = newest[l]
  BY <1>1, <1>2, <1>4
<1>6. \A l \in Kinds : newest'[l] <= sent
  BY <1>1, <1>4, <1>5
<1>7. overtaken \subseteq Kinds
  BY DEF TypeOK
<1>8. /\ overtaken \subseteq overtaken' /\ overtaken' \subseteq Kinds
      /\ \A l \in Kinds : l # k => (l \in overtaken' <=> l \in overtaken)
  BY <1>1, <1>3, <1>7
<1>9. k \notin overtaken' => newest[k] <= n
  BY <1>1, <1>3, <1>4
<1>10. QED
  BY <1>5, <1>6, <1>8, <1>9

\* The page sends a request from r.
LEMMA SendStep ==
  ASSUME CountInv, NEW r \in Slots, NEW k \in Kinds, NEW j \in Jobs \cup {NoJob},
         request' = [request EXCEPT ![r] = Get(k, j)], sent' = sent + 1
  PROVE  /\ request' \in [Slots -> Requests]
         /\ sent' \in Nat
         /\ \A s \in Slots : request'[s].no <= sent'
         /\ request'[r].kind = k /\ request'[r].job = j /\ request'[r].no = sent + 1
         /\ ~request'[r].served
         /\ \A s \in Slots : s # r => request'[s] = request[s]
<1>1. /\ Get(k, j) \in Requests /\ Get(k, j).kind = k /\ Get(k, j).no = sent + 1
      /\ Get(k, j).job = j /\ ~Get(k, j).served
  BY GetIsRequest
<1>2. PICK q : q = Get(k, j)
  OBVIOUS
<1>3. sent \in Nat /\ sent' \in Nat /\ sent <= sent' /\ q.no <= sent'
  BY <1>1, <1>2 DEF CountInv
<1>4. /\ request' \in [Slots -> Requests]
      /\ \A s \in Slots : request'[s] = IF s = r THEN q ELSE request[s]
      /\ \A s \in Slots : request'[s].no <= sent'
  BY <1>1, <1>2, <1>3, RequestReplaced
<1>5. QED
  BY <1>1, <1>2, <1>3, <1>4

\* The request r has been answered.
LEMMA CloseStep ==
  ASSUME CountInv, NEW r \in Slots, request' = [request EXCEPT ![r] = Idle], sent' = sent
  PROVE  /\ request' \in [Slots -> Requests]
         /\ \A s \in Slots : request'[s].no <= sent'
         /\ request'[r].kind = "idle"
         /\ \A s \in Slots : s # r => request'[s] = request[s]
<1>1. Idle \in Requests /\ Idle.no = 0 /\ Idle.kind = "idle"
  BY DEF Idle, Requests, KindsOrIdle, JobsOrNone, Statuses, Lists
<1>2. PICK q : q = Idle
  OBVIOUS
<1>3. sent \in Nat /\ sent' \in Nat /\ sent <= sent' /\ q.no <= sent'
  BY <1>1, <1>2 DEF CountInv
<1>4. /\ request' \in [Slots -> Requests]
      /\ \A s \in Slots : request'[s] = IF s = r THEN q ELSE request[s]
      /\ \A s \in Slots : request'[s].no <= sent'
  BY <1>1, <1>2, <1>3, RequestReplaced
<1>5. QED
  BY <1>1, <1>2, <1>4

\* The service answers the request r.
LEMMA ServeStep ==
  ASSUME CountInv, TypeOK, NEW r \in Slots, serveList(r) \/ serveLog(r)
  PROVE  /\ request' \in [Slots -> Requests]
         /\ \A s \in Slots : /\ request'[s].no = request[s].no
                             /\ request'[s].kind = request[s].kind
                             /\ request'[s].job = request[s].job
         /\ \A s \in Slots : s # r => request'[s] = request[s]
         /\ request[r].kind = "list" =>
              /\ request'[r].list = Listing
              /\ request'[r].status = IF Torn(Listing) THEN 500 ELSE 200
<1>1. PICK list, status : list = Listing /\ status = IF Torn(Listing) THEN 500 ELSE 200
  OBVIOUS
<1>2. list \in Lists /\ status \in Statuses
  BY <1>1, ListingOfJobs DEF Lists, Statuses
<1>3. request \in [Slots -> Requests] /\ request[r] \in Requests
  BY DEF CountInv
<1>4. CASE serveList(r)
  <2>1. PICK q : q = [request[r] EXCEPT !.served = TRUE, !.list = list, !.status = status]
    OBVIOUS
  <2>2. q \in Requests
    BY <1>2, <1>3, <2>1 DEF Requests
  <2>3. request' = [request EXCEPT ![r] = q]
    <3>1. request' = [request EXCEPT ![r].served = TRUE, ![r].list = list,
                                     ![r].status = status]
      BY <1>1, <1>4 DEF serveList
    <3>2. QED
      BY <1>3, <2>1, <3>1
  <2>4. /\ q.no = request[r].no /\ q.kind = request[r].kind /\ q.job = request[r].job
        /\ q.list = list /\ q.status = status
    BY <1>3, <2>1 DEF Requests
  <2>5. request' \in [Slots -> Requests]
    BY <1>3, <2>2, <2>3
  <2>6. \A s \in Slots : request'[s] = IF s = r THEN q ELSE request[s]
    BY <1>3, <2>3
  <2>7. QED
    BY <1>1, <2>4, <2>5, <2>6
<1>5. CASE serveLog(r)
  <2>1. /\ request[r].kind = "log"
        /\ request' = [request EXCEPT ![r] = [@ EXCEPT !.served = TRUE]]
    BY <1>5 DEF serveLog
  <2>2. PICK q : q = [request[r] EXCEPT !.served = TRUE]
    OBVIOUS
  <2>3. q \in Requests
    BY <1>3, <2>2 DEF Requests
  <2>a. q.no = request[r].no /\ q.kind = request[r].kind /\ q.job = request[r].job
    BY <1>3, <2>2 DEF Requests
  <2>4. /\ request' \in [Slots -> Requests]
        /\ \A s \in Slots : request'[s] = IF s = r THEN q ELSE request[s]
    BY <1>3, <2>1, <2>2, <2>3
  <2>5. QED
    BY <2>1, <2>3, <2>4, <2>a
<1>6. QED
  BY <1>4, <1>5

\* Every step keeps the types, the numbering and the bound on the files.
LEMMA NextTypeInv ==
  ASSUME TypeOK, CountInv, [Next]_vars
  PROVE  TypeOK' /\ CountInv'
<1> USE DEF pageVars
<1>1. ASSUME NEW j \in Jobs, writeResult(j) \/ jobFinished(j)
      PROVE  TypeOK' /\ CountInv'
  <2>1. /\ runner' \in [Jobs -> {"running", "writing", "torn", "written", "finished", "failed"}]
        /\ \A i \in Jobs : i # j => runner'[i] = runner[i]
    BY <1>1 DEF TypeOK, writeResult, jobFinished
  <2>2. \E n \in Nat : \A i \in Files' : i <= n
    BY <2>1, FilesBounded
  <2>3. UNCHANGED <<conn, request, sent, jobs, selectedJob, jobLog, newest, overtaken, failed>>
    BY <1>1 DEF writeResult, jobFinished
  <2>4. events' \in Seq(Jobs) /\ missed' \in BOOLEAN
    <3>1. events \in Seq(Jobs) /\ missed \in BOOLEAN
      BY DEF TypeOK
    <3>2. CASE writeResult(j)
      BY <3>1, <3>2 DEF writeResult
    <3>3. CASE jobFinished(j)
      <4>1. Append(events, j) \in Seq(Jobs)
        BY <3>1
      <4>2. \/ events' = Append(events, j) /\ missed' = missed
            \/ missed' = TRUE /\ events' = events
        BY <3>3 DEF jobFinished
      <4>3. QED
        BY <3>1, <4>1, <4>2
    <3>4. QED
      BY <1>1, <3>2, <3>3
  <2>5. CountInv'
    BY <2>2, <2>3 DEF CountInv
  <2>6. QED
    BY <2>1, <2>3, <2>4, <2>5 DEF TypeOK
<1> DEFINE FilesKept == \E n \in Nat : \A i \in Files' : i <= n
<1>2. ASSUME UNCHANGED runner
      PROVE  FilesKept
  <2>1. Files' = Files
    BY <1>2 DEF Files
  <2>2. QED
    BY <2>1 DEF CountInv
<1>3. CASE connected
  <2>1. CountInv'
    BY <1>2, <1>3 DEF CountInv, connected
  <2>2. QED
    BY <1>3, <2>1 DEF TypeOK, connected
<1>4. ASSUME NEW r \in Slots, serveList(r) \/ serveLog(r)
      PROVE  TypeOK' /\ CountInv'
  <2>1. UNCHANGED <<runner, events, conn, sent, missed, pageVars>>
    BY <1>4 DEF serveList, serveLog
  <2>2. /\ request' \in [Slots -> Requests]
        /\ \A s \in Slots : /\ request'[s].no = request[s].no
                            /\ request'[s].kind = request[s].kind
                            /\ request'[s].job = request[s].job
    BY <1>4, ServeStep
  <2>3. CountInv'
    BY <1>2, <2>1, <2>2 DEF CountInv
  <2>4. \A s \in Slots : request'[s].kind = "log" => request'[s].job \in Jobs
    BY <2>2 DEF TypeOK
  <2>5. QED
    BY <2>1, <2>3, <2>4, TypeFromCount DEF TypeOK
<1>5. ASSUME NEW r \in Slots, ngOnInit(r) \/ onmessage(r)
      PROVE  TypeOK' /\ CountInv'
  <2>1. /\ request' = [request EXCEPT ![r] = Get("list", NoJob)] /\ sent' = sent + 1
        /\ UNCHANGED <<runner, missed, pageVars>>
    BY <1>5 DEF ngOnInit, onmessage, getJobs
  <2>2. /\ request' \in [Slots -> Requests] /\ sent' \in Nat
        /\ \A s \in Slots : request'[s].no <= sent'
        /\ request'[r].kind = "list"
        /\ \A s \in Slots : s # r => request'[s] = request[s]
    BY <2>1, SendStep DEF Kinds
  <2>3. \A k \in Kinds : newest[k] <= sent'
    BY <2>1 DEF CountInv
  <2>4. CountInv'
    BY <1>2, <2>1, <2>2, <2>3 DEF CountInv
  <2>5. \A s \in Slots : request'[s].kind = "log" => request'[s].job \in Jobs
    BY <2>2 DEF TypeOK
  <2>6. events' \in Seq(Jobs) /\ conn' \in {"closed", "connecting", "open"}
    <3>1. events \in Seq(Jobs) /\ conn \in {"closed", "connecting", "open"}
      BY DEF TypeOK
    <3>2. events # <<>> => Tail(events) \in Seq(Jobs)
      BY <3>1
    <3>3. QED
      BY <1>5, <3>1, <3>2 DEF ngOnInit, onmessage
  <2>7. QED
    BY <2>1, <2>4, <2>5, <2>6, TypeFromCount DEF TypeOK
<1>6. ASSUME NEW r \in Slots, NEW j \in Jobs, onSelect(r, j)
      PROVE  TypeOK' /\ CountInv'
  <2>1. /\ request' = [request EXCEPT ![r] = Get("log", j)] /\ sent' = sent + 1
        /\ selectedJob' = j
        /\ UNCHANGED <<runner, events, conn, missed, jobs, jobLog, newest, overtaken, failed>>
    BY <1>6 DEF onSelect
  <2>2. /\ request' \in [Slots -> Requests] /\ sent' \in Nat
        /\ \A s \in Slots : request'[s].no <= sent'
        /\ request'[r].job = j
        /\ \A s \in Slots : s # r => request'[s] = request[s]
    BY <2>1, SendStep DEF Kinds
  <2>3. \A k \in Kinds : newest[k] <= sent'
    BY <2>1 DEF CountInv
  <2>4. CountInv'
    BY <1>2, <2>1, <2>2, <2>3 DEF CountInv
  <2>5. \A s \in Slots : request'[s].kind = "log" => request'[s].job \in Jobs
    BY <2>2 DEF TypeOK
  <2>6. QED
    BY <2>1, <2>4, <2>5, TypeFromCount DEF TypeOK
<1>7. ASSUME NEW r \in Slots, receiveList(r)
      PROVE  TypeOK' /\ CountInv'
  <2>1. /\ request[r].kind = "list" /\ Applied(r) /\ jobs' = request[r].list
        /\ failed' = failed \ {"list"}
        /\ UNCHANGED <<runner, events, conn, missed, jobLog>>
    BY <1>7 DEF receiveList
  <2>2. /\ newest' \in [Kinds -> Nat] /\ \A k \in Kinds : newest'[k] <= sent
        /\ overtaken' \subseteq Kinds
    BY <2>1, AppliedStep DEF Kinds
  <2>3. jobs' \in Seq(Jobs)
    BY <2>1 DEF TypeOK
  <2>4. CASE jobs' = <<>>
    <3>1. /\ request' = [request EXCEPT ![r] = Idle] /\ sent' = sent
          /\ selectedJob' = selectedJob
      BY <1>7, <2>4 DEF receiveList
    <3>2. /\ request' \in [Slots -> Requests] /\ \A s \in Slots : request'[s].no <= sent'
          /\ request'[r].kind = "idle"
          /\ \A s \in Slots : s # r => request'[s] = request[s]
      BY <3>1, CloseStep
    <3>3. CountInv'
      BY <1>2, <2>1, <2>2, <3>1, <3>2 DEF CountInv
    <3>4. \A s \in Slots : request'[s].kind = "log" => request'[s].job \in Jobs
      BY <3>2 DEF TypeOK
    <3>5. QED
      BY <2>1, <2>2, <2>3, <3>1, <3>3, <3>4, TypeFromCount DEF TypeOK
  <2>5. CASE jobs' # <<>>
    <3>1. PICK j : j = jobs'[1]
      OBVIOUS
    <3>2. j \in Jobs
      BY <2>3, <2>5, <3>1
    <3>3. /\ request' = [request EXCEPT ![r] = Get("log", j)] /\ sent' = sent + 1
          /\ selectedJob' = j
      BY <1>7, <2>5, <3>1 DEF receiveList
    <3>4. /\ request' \in [Slots -> Requests] /\ sent' \in Nat
          /\ \A s \in Slots : request'[s].no <= sent'
          /\ request'[r].job = j
          /\ \A s \in Slots : s # r => request'[s] = request[s]
      BY <3>2, <3>3, SendStep DEF Kinds
    <3>5. \A k \in Kinds : newest'[k] <= sent'
      BY <2>2, <3>3 DEF CountInv
    <3>6. CountInv'
      BY <1>2, <2>1, <2>2, <3>4, <3>5 DEF CountInv
    <3>7. \A s \in Slots : request'[s].kind = "log" => request'[s].job \in Jobs
      BY <3>2, <3>4 DEF TypeOK
    <3>8. QED
      BY <2>1, <2>2, <2>3, <3>2, <3>3, <3>6, <3>7, TypeFromCount DEF TypeOK
  <2>6. QED
    BY <2>4, <2>5
<1>8. ASSUME NEW r \in Slots, receiveError(r) \/ receiveLog(r) \/ receiveFailure(r)
      PROVE  TypeOK' /\ CountInv'
  <2>1. /\ request[r].kind \in Kinds /\ Applied(r)
        /\ request' = [request EXCEPT ![r] = Idle] /\ sent' = sent
        /\ UNCHANGED <<runner, events, conn, missed, jobs, selectedJob>>
    BY <1>8 DEF receiveError, receiveLog, receiveFailure, Kinds
  <2>2. /\ newest' \in [Kinds -> Nat] /\ \A k \in Kinds : newest'[k] <= sent
        /\ overtaken' \subseteq Kinds
    BY <2>1, AppliedStep
  <2>3. /\ request' \in [Slots -> Requests] /\ \A s \in Slots : request'[s].no <= sent'
        /\ request'[r].kind = "idle"
        /\ \A s \in Slots : s # r => request'[s] = request[s]
    BY <2>1, CloseStep
  <2>4. CountInv'
    BY <1>2, <2>1, <2>2, <2>3 DEF CountInv
  <2>5. \A s \in Slots : request'[s].kind = "log" => request'[s].job \in Jobs
    BY <2>3 DEF TypeOK
  <2>6. jobLog' \in Jobs \cup {NoJob} /\ failed' \subseteq Kinds
    BY <1>8 DEF receiveError, receiveLog, receiveFailure, TypeOK
  <2>7. QED
    BY <2>1, <2>2, <2>4, <2>5, <2>6, TypeFromCount DEF TypeOK
<1>9. CASE UNCHANGED vars
  <2>1. CountInv'
    BY <1>2, <1>9 DEF CountInv, vars
  <2>2. QED
    BY <1>9, <2>1 DEF TypeOK, vars
<1>10. QED
  BY <1>1, <1>3, <1>4, <1>5, <1>6, <1>7, <1>8, <1>9 DEF Next

-----------------------------------------------------------------------------
(* The latest request of a kind *)

\* A request that is sent is the latest one of its kind.
LEMMA LatestSent ==
  ASSUME CountInv, CountInv', NEW r \in Slots, NEW k \in Kinds,
         request'[r].kind = k, request'[r].no = sent + 1, newest'[k] = newest[k],
         \A s \in Slots : s # r => request'[s] = request[s]
  PROVE  /\ \A s \in Slots : Latest(s, k)' => s = r
         /\ ~Arrived(k)'
<1>1. sent \in Nat /\ newest[k] \in Nat /\ newest[k] <= sent
  BY DEF CountInv
<1>2. \A s \in Slots : request[s].no \in Nat /\ request[s].no <= sent
  BY DEF CountInv, Requests
<1>3. \A s \in Slots : s # r => request'[s].no < request'[r].no
  BY <1>1, <1>2
<1>4. \A s \in Slots : request'[s].no \in Nat
  BY DEF CountInv, Requests
<1>5. QED
  BY <1>1, <1>3, <1>4 DEF Latest, Arrived

\* When answers come in order, an answer leaves the latest request the latest
\* one, unless it is the answer to that one.
LEMMA LatestAnswered ==
  ASSUME CountInv, CountInv', TypeOK, NEW r \in Slots, NEW k \in Kinds,
         request[r].kind = k, Applied(r), k \notin overtaken', request'[r].kind # k,
         \A s \in Slots : s # r => request'[s] = request[s]
  PROVE  /\ k \notin overtaken
         /\ \A s \in Slots : Latest(s, k)' => s # r /\ Latest(s, k)
         /\ Arrived(k)' => Latest(r, k)
<1>1. newest'[k] = request[r].no /\ newest[k] <= request[r].no /\ k \notin overtaken
  BY AppliedStep
<1>2. newest[k] \in Nat /\ \A s \in Slots : request[s].no \in Nat
  BY DEF CountInv, Requests
<1>3. ASSUME NEW s \in Slots, Latest(s, k)'
      PROVE  s # r /\ Latest(s, k)
  <2>1. s # r /\ request'[s] = request[s] /\ request[s].kind = k
    BY <1>3 DEF Latest
  <2>2. request[r].no <= request[s].no
    BY <1>1, <1>3, <2>1 DEF Latest
  <2>3. \A u \in Slots : request[u].kind = k => request[u].no <= request[s].no
    BY <1>3, <2>1, <2>2 DEF Latest
  <2>4. newest[k] <= request[s].no
    BY <1>1, <1>2, <2>2
  <2>5. QED
    BY <2>1, <2>3, <2>4 DEF Latest
<1>4. ASSUME Arrived(k)'
      PROVE  Latest(r, k)
  <2>1. \A s \in Slots : s # r /\ request[s].kind = k => request[s].no < request[r].no
    BY <1>1, <1>4 DEF Arrived
  <2>2. QED
    BY <1>1, <1>2, <2>1 DEF Latest
<1>5. QED
  BY <1>1, <1>3, <1>4

\* What happens to requests of the other kind does not matter.
LEMMA LatestKept ==
  ASSUME NEW k \in Kinds, newest'[k] = newest[k],
         \A s \in Slots : /\ request'[s].kind = k <=> request[s].kind = k
                          /\ request[s].kind = k => request'[s].no = request[s].no
  PROVE  /\ \A s \in Slots : Latest(s, k)' => Latest(s, k)
         /\ Arrived(k)' => Arrived(k)
BY DEF Latest, Arrived

-----------------------------------------------------------------------------
(* The log of the selected job *)

\* Every step keeps the latest request for a log the one for the selection.
LEMMA NextLogInv ==
  ASSUME TypeOK, CountInv, CountInv', LogInv, [Next]_vars
  PROVE  LogInv'
<1> USE DEF pageVars
<1>1. SUFFICES ASSUME "log" \notin overtaken'
               PROVE  /\ \A s \in Slots : Latest(s, "log")' => request'[s].job = selectedJob'
                      /\ (Arrived("log") /\ "log" \notin failed)' => jobLog' = selectedJob'
  BY DEF LogInv
<1> DEFINE Kept == /\ \A s \in Slots : Latest(s, "log")' => Latest(s, "log")
                   /\ Arrived("log")' => Arrived("log")
<1>a. "log" \in Kinds /\ "list" \in Kinds
  BY DEF Kinds
<1>2. ASSUME Kept, "log" \notin overtaken, UNCHANGED <<selectedJob, jobLog>>,
             "log" \in failed => "log" \in failed',
             \A s \in Slots : request'[s].kind = "log" => request'[s].job = request[s].job
      PROVE  LogInv'
  <2>1. \A s \in Slots : Latest(s, "log")' => request'[s].kind = "log"
    BY DEF Latest
  <2>2. QED
    BY <1>2, <2>1 DEF LogInv
<1>3. ASSUME UNCHANGED <<request, newest, overtaken, failed, selectedJob, jobLog>>
      PROVE  LogInv'
  BY <1>3 DEF LogInv, Latest, Arrived
<1>b. ASSUME NEW j \in Jobs, writeResult(j) \/ jobFinished(j)
      PROVE  LogInv'
  <2>1. UNCHANGED <<request, newest, overtaken, failed, selectedJob, jobLog>>
    BY <1>b DEF writeResult, jobFinished
  <2>2. QED
    BY <1>3, <2>1
<1>4. ASSUME connected \/ UNCHANGED vars
      PROVE  LogInv'
  <2>1. UNCHANGED <<request, newest, overtaken, failed, selectedJob, jobLog>>
    BY <1>4 DEF connected, vars
  <2>2. QED
    BY <1>3, <2>1
<1>5. ASSUME NEW r \in Slots, serveList(r) \/ serveLog(r)
      PROVE  LogInv'
  <2>1. UNCHANGED <<newest, overtaken, failed, selectedJob, jobLog>>
    BY <1>5 DEF serveList, serveLog
  <2>2. \A s \in Slots : /\ request'[s].no = request[s].no
                         /\ request'[s].kind = request[s].kind
                         /\ request'[s].job = request[s].job
    BY <1>5, ServeStep
  <2>3. Kept
    BY <1>a, <2>1, <2>2, LatestKept
  <2>4. QED
    BY <1>1, <1>2, <2>1, <2>2, <2>3
<1>6. ASSUME NEW r \in Slots, ngOnInit(r) \/ onmessage(r)
      PROVE  LogInv'
  <2>1. /\ request' = [request EXCEPT ![r] = Get("list", NoJob)] /\ sent' = sent + 1
        /\ request[r] = Idle
        /\ UNCHANGED <<newest, overtaken, failed, selectedJob, jobLog>>
    BY <1>6 DEF ngOnInit, onmessage, getJobs
  <2>2. /\ request'[r].kind = "list"
        /\ \A s \in Slots : s # r => request'[s] = request[s]
    BY <1>a, <2>1, SendStep
  <2>3. request[r].kind # "log"
    BY <2>1 DEF Idle
  <2>4. Kept
    BY <1>a, <2>1, <2>2, <2>3, LatestKept
  <2>5. QED
    BY <1>1, <1>2, <2>1, <2>2, <2>4
<1>7. ASSUME NEW r \in Slots, NEW j \in Jobs, onSelect(r, j)
      PROVE  LogInv'
  <2>1. /\ request' = [request EXCEPT ![r] = Get("log", j)] /\ sent' = sent + 1
        /\ selectedJob' = j /\ newest' = newest
    BY <1>7 DEF onSelect
  <2>2. /\ request'[r].kind = "log" /\ request'[r].no = sent + 1 /\ request'[r].job = j
        /\ \A s \in Slots : s # r => request'[s] = request[s]
    BY <1>a, <2>1, SendStep
  <2>3. /\ \A s \in Slots : Latest(s, "log")' => s = r
        /\ ~Arrived("log")'
    BY <1>a, <2>1, <2>2, LatestSent
  <2>4. QED
    BY <2>1, <2>2, <2>3 DEF LogInv
<1>8. ASSUME NEW r \in Slots, receiveList(r)
      PROVE  LogInv'
  <2>1. /\ request[r].kind = "list" /\ Applied(r) /\ jobLog' = jobLog
        /\ "log" \in failed => "log" \in failed'
    BY <1>8 DEF receiveList
  <2>2. newest'["log"] = newest["log"] /\ "log" \notin overtaken
    BY <1>1, <1>a, <2>1, AppliedStep
  <2>3. CASE jobs' = <<>>
    <3>1. /\ request' = [request EXCEPT ![r] = Idle] /\ sent' = sent
          /\ selectedJob' = selectedJob
      BY <1>8, <2>3 DEF receiveList
    <3>2. /\ request'[r].kind = "idle"
          /\ \A s \in Slots : s # r => request'[s] = request[s]
      BY <3>1, CloseStep
    <3>3. Kept
      BY <1>a, <2>1, <2>2, <3>2, LatestKept
    <3>4. QED
      BY <1>2, <2>1, <2>2, <3>1, <3>2, <3>3
  <2>4. CASE jobs' # <<>>
    <3>1. PICK j : j = jobs'[1]
      OBVIOUS
    <3>2. /\ request' = [request EXCEPT ![r] = Get("log", j)] /\ sent' = sent + 1
          /\ selectedJob' = j
      BY <1>8, <2>4, <3>1 DEF receiveList
    <3>3. j \in Jobs
      <4>1. request[r].list \in Seq(Jobs) /\ jobs' = request[r].list
        BY <1>8 DEF TypeOK, receiveList
      <4>2. QED
        BY <2>4, <3>1, <4>1
    <3>4. /\ request'[r].kind = "log" /\ request'[r].no = sent + 1 /\ request'[r].job = j
          /\ \A s \in Slots : s # r => request'[s] = request[s]
      BY <1>a, <3>2, <3>3, SendStep
    <3>5. /\ \A s \in Slots : Latest(s, "log")' => s = r
          /\ ~Arrived("log")'
      BY <1>a, <2>2, <3>4, LatestSent
    <3>6. QED
      BY <3>2, <3>4, <3>5 DEF LogInv
  <2>5. QED
    BY <2>3, <2>4
<1>9. ASSUME NEW r \in Slots, request[r].kind = "list", Applied(r),
             request' = [request EXCEPT ![r] = Idle], sent' = sent,
             UNCHANGED <<selectedJob, jobLog>>, "log" \in failed => "log" \in failed'
      PROVE  LogInv'
  <2>1. newest'["log"] = newest["log"] /\ "log" \notin overtaken
    BY <1>1, <1>9, <1>a, AppliedStep
  <2>2. /\ request'[r].kind = "idle"
        /\ \A s \in Slots : s # r => request'[s] = request[s]
    BY <1>9, CloseStep
  <2>3. Kept
    BY <1>9, <1>a, <2>1, <2>2, LatestKept
  <2>4. QED
    BY <1>2, <1>9, <2>1, <2>2, <2>3
<1>10. ASSUME NEW r \in Slots, request[r].kind = "log", Applied(r),
              request' = [request EXCEPT ![r] = Idle], sent' = sent,
              selectedJob' = selectedJob,
              jobLog' = request[r].job \/ "log" \in failed'
       PROVE  LogInv'
  <2>1. /\ request'[r].kind = "idle"
        /\ \A s \in Slots : s # r => request'[s] = request[s]
    BY <1>10, CloseStep
  <2>2. /\ "log" \notin overtaken
        /\ \A s \in Slots : Latest(s, "log")' => s # r /\ Latest(s, "log")
        /\ Arrived("log")' => Latest(r, "log")
    BY <1>1, <1>10, <1>a, <2>1, LatestAnswered
  <2>3. QED
    BY <1>10, <2>1, <2>2 DEF LogInv
<1>c. ASSUME NEW r \in Slots, receiveError(r)
      PROVE  LogInv'
  BY <1>9, <1>c DEF receiveError
<1>d. ASSUME NEW r \in Slots, receiveLog(r)
      PROVE  LogInv'
  BY <1>10, <1>d DEF receiveLog
<1>e. ASSUME NEW r \in Slots, receiveFailure(r)
      PROVE  LogInv'
  <2>1. /\ request[r].kind \in Kinds /\ Applied(r) /\ failed' = failed \cup {request[r].kind}
        /\ request' = [request EXCEPT ![r] = Idle]
        /\ UNCHANGED <<sent, selectedJob, jobLog>>
    BY <1>e DEF receiveFailure
  <2>2. CASE request[r].kind = "list"
    BY <1>9, <2>1, <2>2
  <2>3. CASE request[r].kind = "log"
    BY <1>10, <2>1, <2>3
  <2>4. QED
    BY <2>1, <2>2, <2>3 DEF Kinds
<1>11. LogInv'
  BY <1>4, <1>5, <1>6, <1>7, <1>8, <1>b, <1>c, <1>d, <1>e DEF Next
<1>12. QED
  BY <1>1, <1>11 DEF LogInv

-----------------------------------------------------------------------------
(* The list of the finished jobs *)

\* The answer to a request for the list changes only with the result files.
LEMMA ListingKept ==
  ASSUME runner' = runner
  PROVE  Listing' = Listing /\ (Torn(Listing)' <=> Torn(Listing))
<1>1. Files' = Files
  BY DEF Files
<1>2. Listing' = Listing
  BY <1>1 DEF Listing
<1>3. QED
  BY <1>2 DEF Torn

\* The current list, the requests and the histories decide about ListInv.
LEMMA ListKept ==
  ASSUME ListInv, runner' = runner, missed' = missed, events' = events, jobs' = jobs,
         "list" \in overtaken => "list" \in overtaken',
         "list" \in failed => "list" \in failed',
         \A s \in Slots : Latest(s, "list")' => Latest(s, "list"),
         Arrived("list")' => Arrived("list"),
         \A s \in Slots : request'[s].kind = "list" =>
           (request'[s] = request[s] \/ Current(s)')
  PROVE  ListInv'
<1>1. SUFFICES ASSUME "list" \notin overtaken', Settled'
               PROVE  /\ \A r \in Slots : Latest(r, "list")' => Current(r)'
                      /\ (Arrived("list") /\ "list" \notin failed /\ ~Torn(Listing))' => jobs' = Listing'
  BY DEF ListInv
<1>2. "list" \notin overtaken /\ Settled
  BY <1>1 DEF Settled
<1>3. Listing' = Listing /\ (Torn(Listing)' <=> Torn(Listing))
  BY ListingKept
<1>4. ASSUME NEW s \in Slots, Latest(s, "list")'
      PROVE  Current(s)'
  <2>1. Current(s)
    BY <1>2, <1>4 DEF ListInv
  <2>2. request'[s].kind = "list"
    BY <1>4 DEF Latest
  <2>3. CASE request'[s] = request[s]
    BY <1>3, <2>1, <2>3 DEF Current
  <2>4. QED
    BY <2>2, <2>3
<1>5. (Arrived("list") /\ "list" \notin failed /\ ~Torn(Listing))' => jobs' = Listing'
  BY <1>2, <1>3 DEF ListInv
<1>6. QED
  BY <1>4, <1>5

\* Every step keeps the latest request for the list up to date.
LEMMA NextListInv ==
  ASSUME TypeOK, CountInv, CountInv', ListInv, [Next]_vars
  PROVE  ListInv'
<1> USE DEF pageVars
<1>a. "log" \in Kinds /\ "list" \in Kinds
  BY DEF Kinds
<1>1. ASSUME NEW j \in Jobs, writeResult(j) \/ jobFinished(j)
      PROVE  ListInv'
  <2>1. CASE writeResult(j)
    <3>1. runner'[j] \in {"writing", "written"}
      BY <2>1 DEF writeResult, TypeOK
    <3>2. QED
      BY <3>1 DEF ListInv, Settled
  <2>2. CASE jobFinished(j)
    <3>1. events \in Seq(Jobs)
      BY DEF TypeOK
    <3>2. Append(events, j) # <<>>
      BY <3>1, AppendProperties
    <3>3. events' # <<>> \/ missed'
      BY <2>2, <3>2 DEF jobFinished
    <3>4. QED
      BY <3>3 DEF ListInv, Settled
  <2>3. QED
    BY <1>1, <2>1, <2>2
<1>2. CASE connected \/ UNCHANGED vars
  <2>1. UNCHANGED <<runner, missed, events, jobs, request, newest, overtaken, failed>>
    BY <1>2 DEF connected, vars
  <2>2. QED
    BY <2>1, ListKept DEF Latest, Arrived
<1>3. ASSUME NEW r \in Slots, serveList(r) \/ serveLog(r)
      PROVE  ListInv'
  <2>1. UNCHANGED <<runner, missed, events, jobs, newest, overtaken, failed>>
    BY <1>3 DEF serveList, serveLog
  <2>2. /\ \A s \in Slots : /\ request'[s].no = request[s].no
                            /\ request'[s].kind = request[s].kind
        /\ \A s \in Slots : s # r => request'[s] = request[s]
        /\ request[r].kind = "list" =>
             /\ request'[r].list = Listing
             /\ request'[r].status = IF Torn(Listing) THEN 500 ELSE 200
    BY <1>3, ServeStep
  <2>3. /\ \A s \in Slots : Latest(s, "list")' => Latest(s, "list")
        /\ Arrived("list")' => Arrived("list")
    BY <1>a, <2>1, <2>2, LatestKept
  <2>4. Listing' = Listing /\ (Torn(Listing)' <=> Torn(Listing))
    BY <2>1, ListingKept
  <2>5. request'[r].kind = "list" => Current(r)'
    BY <2>2, <2>4 DEF Current
  <2>6. QED
    BY <2>1, <2>2, <2>3, <2>5, ListKept
<1>4. ASSUME NEW r \in Slots, ngOnInit(r) \/ onmessage(r)
      PROVE  ListInv'
  <2>1. /\ request' = [request EXCEPT ![r] = Get("list", NoJob)] /\ sent' = sent + 1
        /\ newest' = newest
    BY <1>4 DEF ngOnInit, onmessage, getJobs
  <2>2. /\ request'[r].kind = "list" /\ request'[r].no = sent + 1 /\ ~request'[r].served
        /\ \A s \in Slots : s # r => request'[s] = request[s]
    BY <1>a, <2>1, SendStep
  <2>3. /\ \A s \in Slots : Latest(s, "list")' => s = r
        /\ ~Arrived("list")'
    BY <1>a, <2>1, <2>2, LatestSent
  <2>4. QED
    BY <2>2, <2>3 DEF ListInv, Current
<1>5. ASSUME NEW r \in Slots, NEW j \in Jobs, onSelect(r, j)
      PROVE  ListInv'
  <2>1. /\ request' = [request EXCEPT ![r] = Get("log", j)] /\ sent' = sent + 1
        /\ request[r] = Idle
        /\ UNCHANGED <<runner, missed, events, jobs, newest, overtaken, failed>>
    BY <1>5 DEF onSelect
  <2>2. /\ request'[r].kind = "log"
        /\ \A s \in Slots : s # r => request'[s] = request[s]
    BY <1>a, <2>1, SendStep
  <2>3. request[r].kind # "list"
    BY <2>1 DEF Idle
  <2>4. /\ \A s \in Slots : Latest(s, "list")' => Latest(s, "list")
        /\ Arrived("list")' => Arrived("list")
    BY <1>a, <2>1, <2>2, <2>3, LatestKept
  <2>5. QED
    BY <2>1, <2>2, <2>4, ListKept
<1>6. ASSUME NEW r \in Slots, request[r].kind = "list",
             receiveList(r) \/ receiveError(r) \/ receiveFailure(r)
      PROVE  ListInv'
  <2>1. /\ request[r].kind = "list" /\ Applied(r)
        /\ UNCHANGED <<runner, missed, events>>
    BY <1>6 DEF receiveList, receiveError, receiveFailure
  <2>2. /\ request'[r].kind # "list"
        /\ \A s \in Slots : s # r => request'[s] = request[s]
    <3>1. CASE request' = [request EXCEPT ![r] = Idle] /\ sent' = sent
      BY <3>1, CloseStep
    <3>2. CASE \E j \in Jobs : request' = [request EXCEPT ![r] = Get("log", j)]
                               /\ sent' = sent + 1
      BY <1>a, <3>2, SendStep
    <3>3. CASE receiveList(r) /\ jobs' # <<>>
      <4>1. request[r].list \in Seq(Jobs) /\ jobs' = request[r].list
        BY <3>3 DEF TypeOK, receiveList
      <4>2. jobs'[1] \in Jobs
        BY <3>3, <4>1
      <4>3. request' = [request EXCEPT ![r] = Get("log", jobs'[1])] /\ sent' = sent + 1
        BY <3>3 DEF receiveList
      <4>4. QED
        BY <3>2, <4>2, <4>3
    <3>4. QED
      BY <1>6, <3>1, <3>3 DEF receiveList, receiveError, receiveFailure
  <2>3. SUFFICES ASSUME "list" \notin overtaken', Settled'
                 PROVE  /\ \A s \in Slots : Latest(s, "list")' => Current(s)'
                        /\ (Arrived("list") /\ "list" \notin failed /\ ~Torn(Listing))' =>
                             jobs' = Listing'
    BY DEF ListInv
  <2>4. /\ "list" \notin overtaken
        /\ \A s \in Slots : Latest(s, "list")' => s # r /\ Latest(s, "list")
        /\ Arrived("list")' => Latest(r, "list")
    BY <1>a, <2>1, <2>2, <2>3, LatestAnswered
  <2>5. Settled
    BY <2>1, <2>3 DEF Settled
  <2>6. Listing' = Listing /\ (Torn(Listing)' <=> Torn(Listing))
    BY <2>1, ListingKept
  <2>7. ASSUME NEW s \in Slots, Latest(s, "list")'
        PROVE  Current(s)'
    <3>1. Current(s) /\ request'[s] = request[s]
      BY <2>2, <2>4, <2>5, <2>7 DEF ListInv
    <3>2. QED
      BY <2>6, <3>1 DEF Current
  <2>8. ASSUME Arrived("list")', "list" \notin failed', ~Torn(Listing)'
        PROVE  jobs' = Listing'
    <3>0. request[r].served /\ (receiveList(r) \/ receiveError(r))
      BY <1>6, <2>8 DEF receiveList, receiveError, receiveFailure
    <3>1. Current(r)
      BY <2>4, <2>5, <2>8 DEF ListInv
    <3>2. request[r].list = Listing /\ request[r].status = 200
      BY <2>6, <2>8, <3>0, <3>1 DEF Current
    <3>3. receiveList(r)
      BY <3>0, <3>2 DEF receiveError
    <3>4. QED
      BY <2>6, <3>2, <3>3 DEF receiveList
  <2>9. QED
    BY <2>7, <2>8
<1>7. ASSUME NEW r \in Slots, request[r].kind = "log",
             receiveLog(r) \/ receiveFailure(r)
      PROVE  ListInv'
  <2>1. /\ request[r].kind = "log" /\ Applied(r)
        /\ request' = [request EXCEPT ![r] = Idle] /\ sent' = sent
        /\ UNCHANGED <<runner, missed, events, jobs>>
        /\ "list" \in failed => "list" \in failed'
    BY <1>7 DEF receiveLog, receiveFailure
  <2>2. newest'["list"] = newest["list"] /\ overtaken \subseteq overtaken'
    BY <1>a, <2>1, AppliedStep
  <2>3. /\ request'[r].kind = "idle"
        /\ \A s \in Slots : s # r => request'[s] = request[s]
    BY <2>1, CloseStep
  <2>4. /\ \A s \in Slots : Latest(s, "list")' => Latest(s, "list")
        /\ Arrived("list")' => Arrived("list")
    BY <1>a, <2>1, <2>2, <2>3, LatestKept
  <2>5. QED
    BY <2>1, <2>2, <2>3, <2>4, ListKept
<1>8. ASSUME NEW r \in Slots, receiveList(r) \/ receiveError(r) \/ receiveLog(r)
                               \/ receiveFailure(r)
      PROVE  ListInv'
  <2>1. request[r].kind \in {"list", "log"}
    BY <1>8 DEF receiveList, receiveError, receiveLog, receiveFailure, Kinds
  <2>2. /\ request[r].kind = "list" => ~receiveLog(r)
        /\ request[r].kind = "log" => ~receiveList(r) /\ ~receiveError(r)
    BY DEF receiveList, receiveError, receiveLog
  <2>3. QED
    BY <1>6, <1>7, <1>8, <2>1, <2>2
<1>9. QED
  BY <1>1, <1>2, <1>3, <1>4, <1>5, <1>8 DEF Next

-----------------------------------------------------------------------------
(* The theorems *)

\* The page is closed: nothing was sent, and no job has a result.
LEMMA InitIndInv == Init => IndInv
<1> SUFFICES ASSUME Init PROVE IndInv
  OBVIOUS
<1>1. Files = {} /\ 0 \in Nat
  BY DEF Init, Files
<1>2. <<>> \in Seq(Jobs)
  OBVIOUS
<1>3. Idle \in Requests /\ Idle.no = 0 /\ Idle.kind = "idle"
  BY <1>2 DEF Idle, Requests, KindsOrIdle, JobsOrNone, Statuses, Lists
<1>4. request \in [Slots -> Requests] /\ \A r \in Slots : request[r] = Idle
  BY <1>3 DEF Init
<1>5. CountInv
  BY <1>1, <1>3, <1>4 DEF Init, CountInv
<1>6. TypeOK
  <2>1. \A r \in Slots : /\ request[r].kind \in Kinds \cup {"idle"}
                         /\ request[r].no \in 0 .. sent
                         /\ request[r].job \in Jobs \cup {NoJob}
                         /\ request[r].kind = "log" => request[r].job \in Jobs
                         /\ request[r].list \in Seq(Jobs)
    <3>1. sent = 0
      BY DEF Init
    <3>2. Idle.job = NoJob /\ Idle.list \in Seq(Jobs)
      BY <1>2 DEF Idle
    <3>3. PICK q : q = Idle
      OBVIOUS
    <3>4. /\ q.kind = "idle" /\ q.no \in 0 .. sent /\ q.job = NoJob
          /\ q.list \in Seq(Jobs)
      BY <1>3, <3>1, <3>2, <3>3
    <3>5. QED
      BY <1>4, <3>3, <3>4
  <2>2. QED
    BY <1>2, <2>1 DEF Init, TypeOK
<1>7. LogInv
  BY <1>3, <1>4 DEF Init, LogInv, Latest
<1>8. ListInv
  <2>1. Listing = <<>>
    BY <1>1, Zenon DEF Listing
  <2>2. \A r \in Slots : ~Latest(r, "list")
    BY <1>3, <1>4 DEF Latest
  <2>3. QED
    BY <2>1, <2>2 DEF Init, ListInv
<1>9. QED
  BY <1>5, <1>6, <1>7, <1>8 DEF IndInv

\* The invariant holds in every reachable state.
LEMMA IndInvAlways == Spec => []IndInv
<1>1. IndInv /\ [Next]_vars => IndInv'
  BY NextTypeInv, NextLogInv, NextListInv DEF IndInv
<1>2. QED
  BY <1>1, InitIndInv, PTL DEF Spec

\* The types, whatever is answered when.
THEOREM TypeOKAlways == Spec => []TypeOK
<1>1. IndInv => TypeOK
  BY DEF IndInv
<1>2. QED
  BY <1>1, IndInvAlways, PTL

\* However the selection changes, by clicks and by lists that arrive, the log on
\* the page (jobLog) ends up as that of the selected job, unless answers for
\* logs came out of order or the last one did not come.
THEOREM LogOfSelectedAlways == Spec => []LogOfSelected
<1>1. IndInv => LogOfSelected
  BY DEF IndInv, LogInv, LogOfSelected, Pending, Arrived
<1>2. QED
  BY <1>1, IndInvAlways, PTL

\* The events keep the list on the page (jobs) up to date: once every job has
\* ended and nothing is under way, the page shows what the service would answer
\* now, unless answers came out of order, the last one did not come or an event
\* was lost.
THEOREM ListCurrentAlways == Spec => []ListCurrent
<1>1. IndInv => ListCurrent
  BY DEF IndInv, ListInv, Settled, ListCurrent, Pending, Arrived
<1>2. QED
  BY <1>1, IndInvAlways, PTL
=============================================================================
