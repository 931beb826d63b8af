------------------------- MODULE JobScheduler_proofs ------------------------
(***************************************************************************)
(* The scheduler's properties for any number of worker threads, processes, *)
(* jobs and slots, any number of crashes and restarts, and any order in    *)
(* which children end and are reaped.                                      *)
(***************************************************************************)
EXTENDS JobScheduler, JobFiles_proofs, SequenceTheorems

-----------------------------------------------------------------------------
(* The inductive invariant *)

\* There are finitely many request files, so the search for the next id ends.
\* While none failed they are 0 .. n-1 and a running service counts from n.
IdInv ==
  /\ IsFiniteSet(requests)
  /\ intact => \E n \in Nat : requests = 0 .. n - 1 /\ (up => m_jobId = n)

\* The threads inside schedule() are those that hold the mutex: at most one.
LockInv ==
  \A t \in Threads : pc[t] \in {"schedule", "register"} <=> mutex = t

\* Nothing is left of a service process that has ended.
DownInv ==
  ~up => /\ waitQueue = <<>> /\ activeJobs = EmptyMap
         /\ m_jobId = 0 /\ firstId = 0 /\ forked = {} /\ announced = {}
         /\ \A t \in Threads : pc[t] \notin {"schedule", "register", "lock", "wait", "system"}

Busy == DOMAIN activeJobs

\* How full the slots are at each point of create() and jobFinished(): one
\* call of schedule() is enough, because a job waits only if at most one slot
\* is free.
SlotInv ==
  /\ IsFiniteSet(Busy) /\ Cardinality(Busy) <= maxConcurrentJobs
  /\ mutex = NoThread => waitQueue = <<>> \/ Cardinality(Busy) = maxConcurrentJobs
  /\ \A t \in Threads :
       pc[t] = "schedule" =>
         Len(waitQueue) <= 1 \/ Cardinality(Busy) >= maxConcurrentJobs - 1
  /\ \A t \in Threads :
       pc[t] = "register" =>
         /\ Cardinality(Busy) < maxConcurrentJobs
         /\ waitQueue = <<>> \/ Cardinality(Busy) = maxConcurrentJobs - 1

Registering(p) == \E t \in Threads : pc[t] = "register" /\ pid[t] = p
Reaped(p) == pc[SigThread] = "lock" /\ pid[SigThread] = p

\* A TestRunner occupies a slot from fork() until jobFinished(), except while
\* schedule() has not yet registered it.
RunnerInv ==
  /\ \A p \in Pids : procs[p].st = "unused" => procs[p].kind = "none"
  /\ \A t \in Threads : pc[t] = "system" => pid[t] \in Pids
  /\ \A p \in Busy : p \in Runners /\ activeJobs[p] = procs[p].job
  /\ \A t \in Threads :
       pc[t] = "register" =>
         /\ pid[t] \in Runners \ Busy
         /\ procs[pid[t]].job = jobId[t]
  /\ \A p \in Runners :
       (p \in Children \/ Reaped(p)) => p \in Busy \/ Registering(p)
  /\ pc[SigThread] = "lock" => pid[SigThread] = NoPid \/ procs[pid[SigThread]].st = "gone"

\* The queue holds the last ids handed out, in order; the TestRunners of this
\* service process are for smaller ids, and while no request file failed so
\* are those of earlier ones.
OrderInv ==
  /\ forked \subseteq Runners
  /\ intact => \A p \in Runners : procs[p].job \in requests
  /\ up => /\ Len(waitQueue) <= m_jobId
           /\ \A i \in 1 .. Len(waitQueue) :
                waitQueue[i] = (m_jobId - Len(waitQueue)) + (i - 1)
           /\ \A p \in forked : procs[p].job < m_jobId - Len(waitQueue)
           /\ intact => \A p \in Runners : procs[p].job < m_jobId - Len(waitQueue)

IndInv == TypeOK /\ IdInv /\ LockInv /\ DownInv /\ SlotInv /\ RunnerInv /\ OrderInv

-----------------------------------------------------------------------------
(* What the kernel's operations do to the process table *)

\* fork() changes the entry of the new child only.
LEMMA SpawnFacts ==
  ASSUME procs \in [Pids -> Proc],
         NEW p \in Pids, NEW k \in Kinds, NEW j \in Nat, Spawn(p, k, j)
  PROVE  /\ procs' \in [Pids -> Proc]
         /\ procs[p].st = "unused"
         /\ procs'[p].kind = k /\ procs'[p].job = j /\ procs'[p].st = "running"
         /\ \A q \in Pids : q # p => procs'[q] = procs[q]
  BY DEF Spawn, Proc, ProcStates

\* An exit or a wait() changes the state of one process only.
LEMMA StateFacts ==
  ASSUME procs \in [Pids -> Proc],
         NEW p \in Pids, NEW s \in ProcStates,
         procs' = [procs EXCEPT ![p].st = s]
  PROVE  /\ procs' \in [Pids -> Proc]
         /\ \A q \in Pids : /\ procs'[q].kind = procs[q].kind
                            /\ procs'[q].job = procs[q].job
                            /\ procs'[q].st = IF q = p THEN s ELSE procs[q].st
  BY DEF Proc, ProcStates

\* When the service ends it has no children any more.
LEMMA DownFacts ==
  ASSUME procs \in [Pids -> Proc], Down
  PROVE  /\ procs' \in [Pids -> Proc]
         /\ \A q \in Pids : /\ procs'[q].kind = procs[q].kind
                            /\ procs'[q].job = procs[q].job
                            /\ procs'[q].st \notin {"running", "zombie"}
                            /\ procs'[q].st = "unused" => procs[q].st = "unused"
<1>1. ASSUME NEW q \in Pids
      PROVE  /\ procs'[q] \in Proc
             /\ procs'[q].kind = procs[q].kind /\ procs'[q].job = procs[q].job
             /\ procs'[q].st \notin {"running", "zombie"}
             /\ procs'[q].st = "unused" => procs[q].st = "unused"
  <2>1. procs'[q] = [procs[q] EXCEPT !.st = WithoutParent(procs[q].st)]
    BY DEF Down
  <2>2. procs[q] \in Proc /\ procs[q].st \in ProcStates
    BY DEF Proc
  <2>3. PICK s : s = WithoutParent(procs[q].st)
    OBVIOUS
  <2>4. /\ s \in ProcStates /\ s \notin {"running", "zombie"}
        /\ s = "unused" => procs[q].st = "unused"
    BY <2>2, <2>3 DEF WithoutParent, ProcStates
  <2>5. procs'[q] = [procs[q] EXCEPT !.st = s]
    BY <2>1, <2>3
  <2>6. QED
    BY <2>2, <2>4, <2>5 DEF Proc
<1>2. procs' \in [Pids -> Proc]
  <2>1. procs' = [q \in Pids |-> procs'[q]]
    BY DEF Down
  <2>2. QED
    BY <1>1, <2>1
<1>3. QED
  BY <1>1, <1>2

\* A process that is waited for was a child and is gone; no other one changes.
LEMMA ReapFacts ==
  ASSUME procs \in [Pids -> Proc], NEW p \in Pids, Reap(p)
  PROVE  /\ procs' \in [Pids -> Proc]
         /\ p \in Children /\ procs'[p].st = "gone"
         /\ Runners' = Runners /\ Children' \subseteq Children
         /\ \A q \in Pids : /\ procs'[q].kind = procs[q].kind
                            /\ procs'[q].job = procs[q].job
                            /\ procs[q].st \in {"gone", "unused"} => procs'[q].st = procs[q].st
                            /\ procs'[q].st = "unused" => procs[q].st = "unused"
<1>1. /\ procs' \in [Pids -> Proc]
      /\ \A q \in Pids : /\ procs'[q].kind = procs[q].kind
                         /\ procs'[q].job = procs[q].job
                         /\ procs'[q].st = IF q = p THEN "gone" ELSE procs[q].st
  BY StateFacts DEF Reap, ProcStates
<1>2. p \in Children /\ procs[p].st = "zombie"
  BY DEF Reap, Children
<1>3. Runners' = Runners /\ Children' \subseteq Children
  BY <1>1 DEF Runners, OfKind, Children
<1>4. QED
  BY <1>1, <1>2, <1>3

\* The number of busy slots is a number.
LEMMA BusyCount ==
  ASSUME SlotInv
  PROVE  Cardinality(Busy) \in Nat
  BY FS_CardinalityType DEF SlotInv

\* What a step that reaps at most one process does to the process table.
TableKept ==
  /\ procs' \in [Pids -> Proc]
  /\ Runners' = Runners /\ Children' \subseteq Children
  /\ \A q \in Pids : /\ procs'[q].kind = procs[q].kind
                     /\ procs'[q].job = procs[q].job
                     /\ procs[q].st \in {"gone", "unused"} => procs'[q].st = procs[q].st
                     /\ procs'[q].st = "unused" => procs[q].st = "unused"

\* system() reaps its own shell or nothing.
LEMMA SystemReturnsFacts ==
  ASSUME TypeOK, RunnerInv, NEW w \in Workers, systemReturns(w)
  PROVE  TableKept
<1>1. pid[w] \in Pids
  BY DEF systemReturns, RunnerInv, Threads
<1>2. CASE Reap(pid[w])
  BY <1>1, <1>2, ReapFacts DEF TypeOK, TableKept
<1>3. CASE UNCHANGED procs
  BY <1>3 DEF TypeOK, TableKept, Runners, OfKind, Children
<1>4. QED
  BY <1>2, <1>3 DEF systemReturns

\* wait() returns a child it reaped, or -1 and reaps nothing.
LEMMA WaitFacts ==
  ASSUME TypeOK, wait
  PROVE  /\ TableKept
         /\ pid' \in [Threads -> Pids \cup {NoPid}]
         /\ \A t \in Workers : pid'[t] = pid[t]
         /\ \/ pid'[SigThread] = NoPid
            \/ pid'[SigThread] \in Children /\ procs'[pid'[SigThread]].st = "gone"
<1>1. SigThread \in Threads
  BY DEF Threads
<1>2. ASSUME NEW p \in Pids, Reap(p), pid' = [pid EXCEPT ![SigThread] = p]
      PROVE  /\ TableKept
             /\ pid' \in [Threads -> Pids \cup {NoPid}]
             /\ \A t \in Workers : pid'[t] = pid[t]
             /\ pid'[SigThread] \in Children /\ procs'[pid'[SigThread]].st = "gone"
  <2>1. TableKept /\ p \in Children /\ procs'[p].st = "gone"
    BY <1>2, ReapFacts DEF TypeOK, TableKept
  <2>2. pid'[SigThread] = p /\ pid' \in [Threads -> Pids \cup {NoPid}]
    BY <1>1, <1>2 DEF TypeOK
  <2>3. \A t \in Workers : pid'[t] = pid[t]
    BY <1>2, ThreadAssumption DEF TypeOK, Threads
  <2>4. QED
    BY <2>1, <2>2, <2>3
<1>3. ASSUME pid' = [pid EXCEPT ![SigThread] = NoPid], UNCHANGED procs
      PROVE  /\ TableKept
             /\ pid' \in [Threads -> Pids \cup {NoPid}]
             /\ \A t \in Workers : pid'[t] = pid[t]
             /\ pid'[SigThread] = NoPid
  <2>1. TableKept
    BY <1>3 DEF TypeOK, TableKept, Runners, OfKind, Children
  <2>2. QED
    BY <1>1, <1>3, <2>1, ThreadAssumption DEF TypeOK, Threads
<1>4. QED
  BY <1>2, <1>3 DEF wait

\* schedule() forks one new TestRunner for the head of the queue.
LEMMA ForkFacts ==
  ASSUME TypeOK, NEW t \in Threads, scheduleFork(t)
  PROVE  /\ Head(waitQueue) \in Nat
         /\ procs' \in [Pids -> Proc]
         /\ \E p \in Pids :
              /\ pid' = [pid EXCEPT ![t] = p] /\ forked' = forked \cup {p}
              /\ procs[p].st = "unused"
              /\ procs'[p].kind = "runner" /\ procs'[p].job = Head(waitQueue)
              /\ procs'[p].st = "running"
              /\ \A q \in Pids : q # p => procs'[q] = procs[q]
<1>1. Head(waitQueue) \in Nat
  BY HeadTailProperties DEF scheduleFork, TypeOK
<1>2. PICK p \in Pids : /\ Spawn(p, "runner", Head(waitQueue))
                       /\ pid' = [pid EXCEPT ![t] = p] /\ forked' = forked \cup {p}
  BY DEF scheduleFork
<1>3. /\ procs' \in [Pids -> Proc]
      /\ procs[p].st = "unused"
      /\ procs'[p].kind = "runner" /\ procs'[p].job = Head(waitQueue)
      /\ procs'[p].st = "running"
      /\ \A q \in Pids : q # p => procs'[q] = procs[q]
  BY <1>1, <1>2, SpawnFacts DEF TypeOK, Kinds
<1>4. QED
  BY <1>1, <1>2, <1>3

\* fork() adds the child to the processes of its kind and to no other kind.
LEMMA KindsAfterFork ==
  ASSUME procs \in [Pids -> Proc], RunnerInv, NEW p \in Pids, NEW k \in Kinds,
         procs[p].st = "unused", procs'[p].kind = k,
         \A q \in Pids : q # p => procs'[q] = procs[q]
  PROVE  /\ \A c \in Kinds \ {"none"} : p \notin OfKind(c)
         /\ OfKind(k)' = OfKind(k) \cup {p}
         /\ \A c \in Kinds \ {"none", k} : OfKind(c)' = OfKind(c)
         /\ \A c \in Kinds \ {"none"} : \A q \in OfKind(c) : procs'[q] = procs[q]
<1>1. procs[p].kind = "none"
  BY DEF RunnerInv
<1>2. \A c \in Kinds \ {"none"} : p \notin OfKind(c)
  BY <1>1 DEF OfKind
<1>3. OfKind(k)' = OfKind(k) \cup {p}
  BY DEF OfKind
<1>4. \A c \in Kinds \ {"none", k} : OfKind(c)' = OfKind(c)
  BY <1>1 DEF OfKind
<1>5. QED
  BY <1>2, <1>3, <1>4 DEF OfKind

-----------------------------------------------------------------------------
\* Before the first start the invariant holds.
LEMMA InitIndInv ==
  ASSUME Init
  PROVE  IndInv
<1> USE MaxAssumption, ThreadAssumption, PidAssumption, BoundAssumption DEF Init
<1>1. TypeOK
  <2>1. procs \in [Pids -> Proc]
    BY DEF Proc, Kinds, ProcStates
  <2>2. activeJobs \in [DOMAIN activeJobs -> Nat] /\ DOMAIN activeJobs = {}
    BY DEF EmptyMap
  <2>3. pc \in [Threads -> PCs]
    BY DEF Threads, PCs, Home
  <2>4. waitQueue \in Seq(Nat)
    OBVIOUS
  <2>5. QED
    BY <2>1, <2>2, <2>3, <2>4 DEF TypeOK, Threads
<1>2. IdInv /\ LockInv /\ DownInv /\ OrderInv
  BY FS_EmptySet DEF IdInv, LockInv, DownInv, OrderInv, Threads, Home, Runners, OfKind
<1>3. Busy = {}
  BY DEF Busy, EmptyMap
<1>4. SlotInv
  BY <1>3, FS_EmptySet DEF SlotInv, Threads, Home
<1>5. RunnerInv
  BY <1>3 DEF RunnerInv, Runners, OfKind, Children, Reaped, Threads, Home
<1>6. QED
  BY <1>1, <1>2, <1>4, <1>5 DEF IndInv

\* Every step of a thread, of the kernel and every crash preserves the invariant.
LEMMA NextIndInv ==
  ASSUME IndInv, [Next]_vars
  PROVE  IndInv'
<1> USE MaxAssumption, ThreadAssumption, PidAssumption, BoundAssumption
<1> USE DEF dbVars, schedVars, threadVars, kernelVars
<1>1. ASSUME Start
      PROVE  IndInv'
  <2>1. TypeOK'
    <3>1. PICK p \in Pids : Spawn(p, "repl", 0)
      BY <1>1 DEF Start
    <3>2. procs' \in [Pids -> Proc]
      BY <3>1, SpawnFacts DEF IndInv, TypeOK, Kinds
    <3>3. m_jobId' \in Nat /\ firstId' = m_jobId'
      BY <1>1, FirstFreeIsNew DEF Start, IndInv, IdInv, TypeOK
    <3>4. /\ waitQueue' = waitQueue /\ activeJobs' = activeJobs /\ mutex' = mutex
          /\ pc' = pc /\ jobId' = jobId /\ pid' = pid /\ requests' = requests
          /\ announced' = announced /\ forked' = forked /\ intact' = intact
          /\ up' = TRUE /\ sigPending' = TRUE
      BY <1>1 DEF Start
    <3>5. QED
      BY <3>2, <3>3, <3>4 DEF IndInv, TypeOK
  <2>2. IdInv'
    <3>1. requests' = requests /\ intact' = intact
      BY <1>1 DEF Start
    <3>2. ASSUME intact
          PROVE  \E n \in Nat : requests = 0 .. n - 1 /\ m_jobId' = n
      <4>1. PICK n \in Nat : requests = 0 .. n - 1
        BY <3>2 DEF IndInv, IdInv
      <4>2. QED
        BY <1>1, <4>1, FirstFreeOfInterval DEF Start
    <3>3. QED
      BY <3>1, <3>2 DEF IndInv, IdInv
  <2>3. LockInv'
    BY <1>1 DEF IndInv, Start, Spawn, TypeOK, LockInv, Threads, Home
  <2>4. DownInv'
    BY <1>1 DEF IndInv, Start, Spawn, TypeOK, DownInv, LockInv, Threads, Home
  <2>5. SlotInv'
    BY <1>1 DEF IndInv, Start, Spawn, TypeOK, SlotInv, LockInv, Busy, Threads, Home, EmptyMap
  <2>6. RunnerInv'
    BY <1>1 DEF IndInv, Start, Spawn, TypeOK, RunnerInv, LockInv, Runners, OfKind, Children, Registering, Reaped, Busy, Threads, Home, Proc, Kinds, ProcStates
  <2>7. OrderInv'
    <3>1. PICK p \in Pids : Spawn(p, "repl", 0)
      BY <1>1 DEF Start
    <3>2. Runners' \subseteq Runners /\ \A q \in Runners' : procs'[q] = procs[q]
      BY <3>1, SpawnFacts DEF IndInv, TypeOK, Kinds, Runners, OfKind
    <3>3. /\ waitQueue' = <<>> /\ requests' = requests /\ intact' = intact
          /\ forked' = {} /\ Len(waitQueue') = 0
      BY <1>1 DEF Start, IndInv, DownInv
    <3>4. m_jobId' \in Nat
      BY <2>1 DEF TypeOK
    <3>5. ASSUME intact
          PROVE  \A q \in Runners' : procs'[q].job \in requests /\ procs'[q].job < m_jobId'
      <4>1. PICK n \in Nat : requests = 0 .. n - 1
        BY <3>5 DEF IndInv, IdInv
      <4>2. m_jobId' = n
        BY <1>1, <4>1, FirstFreeOfInterval DEF Start
      <4>3. \A q \in Runners' : procs'[q].job \in 0 .. n - 1
        BY <3>2, <3>5, <4>1 DEF IndInv, OrderInv
      <4>4. QED
        BY <4>1, <4>2, <4>3
    <3>6. QED
      BY <3>3, <3>4, <3>5 DEF OrderInv
  <2>8. QED
    BY <2>1, <2>2, <2>3, <2>4, <2>5, <2>6, <2>7 DEF IndInv
<1>2. ASSUME Down
      PROVE  IndInv'
  <2>1. TypeOK'
    <3>1. procs' \in [Pids -> Proc]
      BY <1>2, DownFacts DEF IndInv, TypeOK
    <3>2. activeJobs' \in [DOMAIN activeJobs' -> Nat] /\ DOMAIN activeJobs' = {}
      BY <1>2 DEF Down, EmptyMap
    <3>3. pc' \in [Threads -> PCs]
      BY <1>2 DEF Down, PCs, Home
    <3>4. /\ up' = FALSE /\ sigPending' = FALSE /\ m_jobId' = 0 /\ firstId' = 0
          /\ waitQueue' = <<>> /\ mutex' = NoThread
          /\ requests' = requests /\ intact' = intact
          /\ announced' = {} /\ forked' = {}
      BY <1>2 DEF Down
    <3>5. jobId' \in [Threads -> Nat] /\ pid' \in [Threads -> Pids \cup {NoPid}]
      BY <1>2 DEF Down
    <3>6. m_jobId' \in Nat /\ firstId' \in Nat
      BY <3>4
    <3>7. waitQueue' \in Seq(Nat) /\ mutex' \in Threads \cup {NoThread}
      BY <3>4
    <3>8. /\ requests' \in SUBSET Nat /\ announced' \in SUBSET Nat
          /\ forked' \in SUBSET Pids /\ intact' \in BOOLEAN
      BY <3>4 DEF IndInv, TypeOK
    <3>9. DOMAIN activeJobs' \in SUBSET Pids
      BY <3>2
    <3>10. up' \in BOOLEAN /\ sigPending' \in BOOLEAN
      BY <3>4
    <3>11. QED
      BY <3>1, <3>2, <3>3, <3>5, <3>6, <3>7, <3>8, <3>9, <3>10 DEF TypeOK
  <2>2. IdInv'
    BY <1>2 DEF IndInv, Down, TypeOK, IdInv
  <2>3. LockInv'
    BY <1>2 DEF IndInv, Down, TypeOK, LockInv, Threads, Home
  <2>4. DownInv'
    BY <1>2 DEF IndInv, Down, TypeOK, DownInv, LockInv, Threads, Home
  <2>5. SlotInv'
    <3>1. Busy' = {} /\ waitQueue' = <<>>
      BY <1>2 DEF Down, Busy, EmptyMap
    <3>2. \A t \in Threads : pc'[t] \notin {"schedule", "register"}
      BY <1>2 DEF Down, Home
    <3>3. QED
      BY <3>1, <3>2, FS_EmptySet DEF SlotInv
  <2>6. RunnerInv'
    <3>1. Busy' = {}
      BY <1>2 DEF Down, Busy, EmptyMap
    <3>2. \A t \in Threads : pc'[t] \notin {"register", "lock", "system"}
      BY <1>2 DEF Down, Home
    <3>3. Children' = {}
      BY <1>2, DownFacts DEF IndInv, TypeOK, Children
    <3>4. \A q \in Pids : procs'[q].st = "unused" => procs'[q].kind = "none"
      BY <1>2, DownFacts DEF IndInv, TypeOK, RunnerInv
    <3>5. QED
      BY <3>1, <3>2, <3>3, <3>4 DEF RunnerInv, Reaped, Runners, OfKind, Threads
  <2>7. OrderInv'
    <3>1. ~up' /\ requests' = requests /\ intact' = intact /\ forked' = {}
      BY <1>2 DEF Down
    <3>2. Runners' = Runners /\ \A q \in Runners : procs'[q].job = procs[q].job
      BY <1>2, DownFacts DEF IndInv, TypeOK, Runners, OfKind
    <3>3. QED
      BY <3>1, <3>2 DEF IndInv, OrderInv
  <2>8. QED
    BY <2>1, <2>2, <2>3, <2>4, <2>5, <2>6, <2>7 DEF IndInv
<1>3. ASSUME NEW w \in Workers, create(w)
      PROVE  IndInv'
  <2>1. TypeOK'
    <3>1. TypeOK /\ w \in Threads
      BY DEF IndInv, Threads
    <3>2. requests' \in SUBSET Nat /\ intact' \in BOOLEAN /\ m_jobId' \in Nat
      <4>1. /\ m_jobId' = m_jobId + 1
            /\ requests' = requests \/ requests' = requests \cup {m_jobId}
            /\ intact' = intact \/ intact' = FALSE
        BY <1>3 DEF create
      <4>2. intact' \in BOOLEAN
        BY <3>1, <4>1, Zenon DEF TypeOK
      <4>3. QED
        BY <3>1, <4>1, <4>2 DEF TypeOK
    <3>3. waitQueue' \in Seq(Nat)
      BY <1>3, <3>1 DEF create, TypeOK
    <3>4. mutex' \in Threads \cup {NoThread} /\ pc' \in [Threads -> PCs]
      BY <1>3, <3>1 DEF create, TypeOK, PCs
    <3>5. /\ up' = up /\ firstId' = firstId /\ activeJobs' = activeJobs
          /\ announced' = announced /\ forked' = forked
          /\ jobId' = jobId /\ pid' = pid /\ procs' = procs /\ sigPending' = sigPending
      BY <1>3 DEF create
    <3>6. QED
      BY <3>1, <3>2, <3>3, <3>4, <3>5 DEF TypeOK
  <2>2. IdInv'
    <3>1. \/ requests' = requests \cup {m_jobId} /\ intact' = intact
          \/ requests' = requests /\ intact' = FALSE
      BY <1>3 DEF create
    <3>2. IsFiniteSet(requests')
      BY <3>1, FS_AddElement DEF IndInv, IdInv
    <3>3. ASSUME intact'
          PROVE  \E n \in Nat : requests' = 0 .. n - 1 /\ m_jobId' = n
      <4>1. intact /\ up /\ requests' = requests \cup {m_jobId} /\ m_jobId' = m_jobId + 1
        BY <1>3, <3>1, <3>3 DEF create
      <4>2. m_jobId \in Nat /\ requests = 0 .. m_jobId - 1
        BY <4>1 DEF IndInv, IdInv, TypeOK
      <4>3. requests' = 0 .. (m_jobId + 1) - 1 /\ m_jobId + 1 \in Nat
        BY <4>1, <4>2
      <4>4. QED
        BY <4>1, <4>3
    <3>4. QED
      BY <3>2, <3>3 DEF IdInv
  <2>3. LockInv'
    BY <1>3 DEF IndInv, create, TypeOK, LockInv, Threads, Home
  <2>4. DownInv'
    BY <1>3 DEF IndInv, create, TypeOK, DownInv, LockInv, Threads, Home
  <2>5. SlotInv'
    BY <1>3 DEF IndInv, create, TypeOK, SlotInv, LockInv, Busy, Threads, Home, EmptyMap
  <2>6. RunnerInv'
    BY <1>3 DEF IndInv, create, TypeOK, RunnerInv, LockInv, Runners, OfKind, Children, Registering, Reaped, Busy, Threads, Home, Proc, Kinds, ProcStates
  <2>7. OrderInv'
    <3>1. m_jobId \in Nat /\ waitQueue \in Seq(Nat) /\ up
      BY <1>3 DEF create, IndInv, TypeOK
    <3>2. /\ Len(waitQueue') = Len(waitQueue) + 1
          /\ \A i \in 1 .. Len(waitQueue) : waitQueue'[i] = waitQueue[i]
          /\ waitQueue'[Len(waitQueue) + 1] = m_jobId
      BY <1>3, <3>1, AppendProperties DEF create
    <3>3. /\ m_jobId' = m_jobId + 1 /\ requests \subseteq requests'
          /\ forked' = forked /\ (intact' => intact)
      BY <1>3 DEF create
    <3>4. Runners' = Runners /\ procs' = procs
      BY <1>3 DEF create, Runners, OfKind
    <3>5. /\ Len(waitQueue) \in Nat /\ Len(waitQueue) <= m_jobId
          /\ \A i \in 1 .. Len(waitQueue) : waitQueue[i] = (m_jobId - Len(waitQueue)) + (i - 1)
          /\ forked \subseteq Runners /\ \A q \in forked : procs[q].job < m_jobId - Len(waitQueue)
          /\ intact => \A q \in Runners : procs[q].job < m_jobId - Len(waitQueue) /\ procs[q].job \in requests
      BY <3>1 DEF IndInv, OrderInv
    <3>6. m_jobId' - Len(waitQueue') = m_jobId - Len(waitQueue) /\ Len(waitQueue') <= m_jobId'
      BY <3>1, <3>2, <3>3, <3>5
    <3>7. ASSUME NEW i \in 1 .. Len(waitQueue')
          PROVE  waitQueue'[i] = (m_jobId' - Len(waitQueue')) + (i - 1)
      <4>1. CASE i \in 1 .. Len(waitQueue)
        <5>1. waitQueue'[i] = (m_jobId - Len(waitQueue)) + (i - 1)
          BY <3>2, <3>5, <4>1
        <5>2. QED
          BY <3>6, <5>1
      <4>2. CASE i = Len(waitQueue) + 1
        <5>1. waitQueue'[i] = m_jobId
          BY <3>2, <4>2
        <5>2. m_jobId = (m_jobId - Len(waitQueue)) + (i - 1)
          BY <3>1, <3>5, <4>2
        <5>3. QED
          BY <3>6, <5>1, <5>2
      <4>3. i \in 1 .. Len(waitQueue) \/ i = Len(waitQueue) + 1
        BY <3>2, <3>5
      <4>4. QED
        BY <4>1, <4>2, <4>3
    <3>8. QED
      BY <3>3, <3>4, <3>5, <3>6, <3>7 DEF OrderInv
  <2>8. QED
    BY <2>1, <2>2, <2>3, <2>4, <2>5, <2>6, <2>7 DEF IndInv
<1>4. ASSUME NEW w \in Workers, cloneScriptRepo(w)
      PROVE  IndInv'
  <2>1. TypeOK'
    <3>1. PICK p \in Pids : Spawn(p, "shell", 0) /\ pid' = [pid EXCEPT ![w] = p]
      BY <1>4 DEF cloneScriptRepo
    <3>2. procs' \in [Pids -> Proc]
      BY <3>1, SpawnFacts DEF IndInv, TypeOK, Kinds
    <3>3. pid' \in [Threads -> Pids \cup {NoPid}] /\ pc' \in [Threads -> PCs]
      BY <1>4, <3>1 DEF cloneScriptRepo, IndInv, TypeOK, PCs
    <3>4. /\ up' = up /\ requests' = requests /\ m_jobId' = m_jobId /\ firstId' = firstId
          /\ waitQueue' = waitQueue /\ activeJobs' = activeJobs /\ mutex' = mutex
          /\ jobId' = jobId /\ sigPending' = sigPending /\ announced' = announced
          /\ forked' = forked /\ intact' = intact
      BY <1>4 DEF cloneScriptRepo
    <3>5. QED
      BY <3>2, <3>3, <3>4 DEF IndInv, TypeOK
  <2>2. IdInv'
    BY <1>4 DEF IndInv, cloneScriptRepo, Spawn, TypeOK, IdInv
  <2>3. LockInv'
    BY <1>4 DEF IndInv, cloneScriptRepo, Spawn, TypeOK, LockInv, Threads, Home
  <2>4. DownInv'
    BY <1>4 DEF IndInv, cloneScriptRepo, Spawn, TypeOK, DownInv, LockInv, Threads, Home
  <2>5. SlotInv'
    BY <1>4 DEF IndInv, cloneScriptRepo, Spawn, TypeOK, SlotInv, LockInv, Busy, Threads, Home, EmptyMap
  <2>6. RunnerInv'
    BY <1>4, SMTT(30) DEF IndInv, cloneScriptRepo, Spawn, TypeOK, RunnerInv, LockInv, Runners, OfKind, Children, Registering, Reaped, Busy, Threads, Home, Proc, Kinds, ProcStates
  <2>7. OrderInv'
    <3>1. PICK p \in Pids : Spawn(p, "shell", 0)
      BY <1>4 DEF cloneScriptRepo
    <3>2. /\ procs[p].st = "unused" /\ procs'[p].kind = "shell"
          /\ \A q \in Pids : q # p => procs'[q] = procs[q]
      BY <3>1, SpawnFacts DEF IndInv, TypeOK, Kinds
    <3>3. Runners' = Runners /\ \A q \in Runners : procs'[q] = procs[q]
      BY <3>2, KindsAfterFork DEF IndInv, TypeOK, Kinds, Runners
    <3>4. /\ up' = up /\ m_jobId' = m_jobId /\ waitQueue' = waitQueue
          /\ requests' = requests /\ forked' = forked /\ intact' = intact
      BY <1>4 DEF cloneScriptRepo
    <3>5. QED
      BY <3>3, <3>4 DEF IndInv, OrderInv
  <2>8. QED
    BY <2>1, <2>2, <2>3, <2>4, <2>5, <2>6, <2>7 DEF IndInv
<1>5. ASSUME NEW w \in Workers, systemReturns(w)
      PROVE  IndInv'
  <2>1. TypeOK'
    <3>1. TableKept
      BY <1>5, SystemReturnsFacts DEF IndInv
    <3>2. QED
      BY <1>5, <3>1 DEF systemReturns, TableKept, IndInv, TypeOK, Threads, PCs
  <2>2. IdInv'
    BY <1>5 DEF IndInv, systemReturns, Reap, TypeOK, IdInv
  <2>3. LockInv'
    BY <1>5 DEF IndInv, systemReturns, Reap, TypeOK, LockInv, Threads, Home
  <2>4. DownInv'
    BY <1>5 DEF IndInv, systemReturns, Reap, TypeOK, DownInv, LockInv, Threads, Home
  <2>5. SlotInv'
    BY <1>5 DEF IndInv, systemReturns, Reap, TypeOK, SlotInv, LockInv, Busy, Threads, Home, EmptyMap
  <2>6. RunnerInv'
    <3>1. TableKept
      BY <1>5, SystemReturnsFacts DEF IndInv
    <3>2. /\ pid' = pid /\ jobId' = jobId /\ activeJobs' = activeJobs /\ Busy' = Busy
          /\ pc[w] = "system" /\ w # SigThread /\ w \in Threads /\ pc'[w] = "idle"
          /\ \A t \in Threads : t # w => pc'[t] = pc[t]
      BY <1>5 DEF systemReturns, Threads, IndInv, TypeOK, Busy
    <3>3. \A p \in Pids : (Registering(p) => Registering(p)') /\ (Reaped(p)' => Reaped(p))
      BY <3>2 DEF Registering, Reaped, Threads
    <3>4. \A p \in Pids : procs'[p].st = "unused" => procs'[p].kind = "none"
      BY <3>1 DEF TableKept, IndInv, RunnerInv
    <3>5. \A p \in Busy' : p \in Runners' /\ activeJobs'[p] = procs'[p].job
      <4>1. \A p \in Busy : p \in Pids /\ p \in Runners /\ activeJobs[p] = procs[p].job
        BY DEF IndInv, RunnerInv, Runners, OfKind
      <4>2. QED
        BY <3>1, <3>2, <4>1 DEF TableKept
    <3>6. ASSUME NEW t \in Threads
          PROVE  /\ pc'[t] = "system" => pid'[t] \in Pids
                 /\ pc'[t] = "register" => pid'[t] \in Runners' \ Busy' /\ procs'[pid'[t]].job = jobId'[t]
      <4>1. pc'[t] \in {"system", "register"} => pc'[t] = pc[t] /\ pid'[t] = pid[t]
        BY <3>1, <3>2 DEF Threads
      <4>2. pc'[t] = "system" => pid'[t] \in Pids
        BY <4>1 DEF IndInv, RunnerInv
      <4>3. ASSUME pc'[t] = "register"
            PROVE  pid'[t] \in Runners' \ Busy' /\ procs'[pid'[t]].job = jobId'[t]
        <5>1. pid[t] \in Runners \ Busy /\ procs[pid[t]].job = jobId[t]
          BY <4>1, <4>3 DEF IndInv, RunnerInv
        <5>2. pid[t] \in Pids
          BY <5>1 DEF Runners, OfKind
        <5>3. Runners' = Runners /\ procs'[pid[t]].job = procs[pid[t]].job
          BY <3>1, <5>2 DEF TableKept
        <5>4. pid'[t] = pid[t] /\ jobId' = jobId /\ Busy' = Busy
          BY <3>2, <4>1, <4>3
        <5>5. QED
          BY <5>1, <5>3, <5>4
      <4>4. QED
        BY <4>2, <4>3
    <3>7. \A p \in Runners' : (p \in Children' \/ Reaped(p)') => p \in Busy' \/ Registering(p)'
      BY <3>1, <3>2, <3>3 DEF TableKept, IndInv, RunnerInv, Runners, OfKind
    <3>8. pc'[SigThread] = "lock" => pid'[SigThread] = NoPid \/ procs'[pid'[SigThread]].st = "gone"
      BY <3>1, <3>2 DEF TableKept, IndInv, RunnerInv, TypeOK, Threads
    <3>9. QED
      BY <3>4, <3>5, <3>6, <3>7, <3>8 DEF RunnerInv
  <2>7. OrderInv'
    <3>1. TableKept
      BY <1>5, SystemReturnsFacts DEF IndInv
    <3>2. QED
      BY <1>5, <3>1 DEF systemReturns, TableKept, IndInv, OrderInv, Runners, OfKind
  <2>8. QED
    BY <2>1, <2>2, <2>3, <2>4, <2>5, <2>6, <2>7 DEF IndInv
<1>6. ASSUME sigwait
      PROVE  IndInv'
  <2>1. TypeOK'
    BY <1>6 DEF IndInv, sigwait, TypeOK, Threads, PCs, Proc, Kinds, ProcStates, Home, EmptyMap
  <2>2. IdInv'
    BY <1>6 DEF IndInv, sigwait, TypeOK, IdInv
  <2>3. LockInv'
    BY <1>6 DEF IndInv, sigwait, TypeOK, LockInv, Threads, Home
  <2>4. DownInv'
    BY <1>6 DEF IndInv, sigwait, TypeOK, DownInv, LockInv, Threads, Home
  <2>5. SlotInv'
    BY <1>6 DEF IndInv, sigwait, TypeOK, SlotInv, LockInv, Busy, Threads, Home, EmptyMap
  <2>6. RunnerInv'
    BY <1>6 DEF IndInv, sigwait, TypeOK, RunnerInv, LockInv, Runners, OfKind, Children, Registering, Reaped, Busy, Threads, Home, Proc, Kinds, ProcStates
  <2>7. OrderInv'
    BY <1>6 DEF IndInv, sigwait, TypeOK, OrderInv, DownInv, Runners, OfKind, Proc, Kinds, ProcStates
  <2>8. QED
    BY <2>1, <2>2, <2>3, <2>4, <2>5, <2>6, <2>7 DEF IndInv
<1>7. ASSUME wait
      PROVE  IndInv'
  <2>1. TypeOK'
    <3>1. /\ TableKept
          /\ pid' \in [Threads -> Pids \cup {NoPid}]
          /\ \A t \in Workers : pid'[t] = pid[t]
          /\ \/ pid'[SigThread] = NoPid
             \/ pid'[SigThread] \in Children /\ procs'[pid'[SigThread]].st = "gone"
      BY <1>7, WaitFacts DEF IndInv
    <3>2. QED
      BY <1>7, <3>1 DEF wait, TableKept, IndInv, TypeOK, Threads, PCs
  <2>2. IdInv'
    BY <1>7 DEF IndInv, wait, Reap, TypeOK, IdInv
  <2>3. LockInv'
    BY <1>7 DEF IndInv, wait, Reap, TypeOK, LockInv, Threads, Home
  <2>4. DownInv'
    BY <1>7 DEF IndInv, wait, Reap, TypeOK, DownInv, LockInv, Threads, Home
  <2>5. SlotInv'
    BY <1>7 DEF IndInv, wait, Reap, TypeOK, SlotInv, LockInv, Busy, Threads, Home, EmptyMap
  <2>6. RunnerInv'
    <3>1. /\ TableKept
          /\ pid' \in [Threads -> Pids \cup {NoPid}]
          /\ \A t \in Workers : pid'[t] = pid[t]
          /\ \/ pid'[SigThread] = NoPid
             \/ pid'[SigThread] \in Children /\ procs'[pid'[SigThread]].st = "gone"
      BY <1>7, WaitFacts DEF IndInv
    <3>2. /\ jobId' = jobId /\ activeJobs' = activeJobs /\ Busy' = Busy
          /\ pc[SigThread] = "wait" /\ pc'[SigThread] = "lock"
          /\ \A t \in Workers : pc'[t] = pc[t]
      BY <1>7 DEF wait, IndInv, TypeOK, Threads, Busy
    <3>3. \A p \in Pids : (Registering(p) => Registering(p)') /\ (Reaped(p)' => p \in Children)
      BY <3>1, <3>2 DEF Registering, Reaped, Threads
    <3>4. \A p \in Pids : procs'[p].st = "unused" => procs'[p].kind = "none"
      BY <3>1 DEF TableKept, IndInv, RunnerInv
    <3>5. \A p \in Busy' : p \in Runners' /\ activeJobs'[p] = procs'[p].job
      <4>1. \A p \in Busy : p \in Pids /\ p \in Runners /\ activeJobs[p] = procs[p].job
        BY DEF IndInv, RunnerInv, Runners, OfKind
      <4>2. QED
        BY <3>1, <3>2, <4>1 DEF TableKept
    <3>6. ASSUME NEW t \in Threads
          PROVE  /\ pc'[t] = "system" => pid'[t] \in Pids
                 /\ pc'[t] = "register" => pid'[t] \in Runners' \ Busy' /\ procs'[pid'[t]].job = jobId'[t]
      <4>1. pc'[t] \in {"system", "register"} => pc'[t] = pc[t] /\ pid'[t] = pid[t]
        BY <3>1, <3>2 DEF Threads
      <4>2. pc'[t] = "system" => pid'[t] \in Pids
        BY <4>1 DEF IndInv, RunnerInv
      <4>3. ASSUME pc'[t] = "register"
            PROVE  pid'[t] \in Runners' \ Busy' /\ procs'[pid'[t]].job = jobId'[t]
        <5>1. pid[t] \in Runners \ Busy /\ procs[pid[t]].job = jobId[t]
          BY <4>1, <4>3 DEF IndInv, RunnerInv
        <5>2. pid[t] \in Pids
          BY <5>1 DEF Runners, OfKind
        <5>3. Runners' = Runners /\ procs'[pid[t]].job = procs[pid[t]].job
          BY <3>1, <5>2 DEF TableKept
        <5>4. pid'[t] = pid[t] /\ jobId' = jobId /\ Busy' = Busy
          BY <3>2, <4>1, <4>3
        <5>5. QED
          BY <5>1, <5>3, <5>4
      <4>4. QED
        BY <4>2, <4>3
    <3>7. \A p \in Runners' : (p \in Children' \/ Reaped(p)') => p \in Busy' \/ Registering(p)'
      BY <3>1, <3>2, <3>3 DEF TableKept, IndInv, RunnerInv, Runners, OfKind
    <3>8. QED
      BY <3>1, <3>4, <3>5, <3>6, <3>7 DEF RunnerInv
  <2>7. OrderInv'
    <3>1. /\ TableKept
          /\ pid' \in [Threads -> Pids \cup {NoPid}]
          /\ \A t \in Workers : pid'[t] = pid[t]
          /\ \/ pid'[SigThread] = NoPid
             \/ pid'[SigThread] \in Children /\ procs'[pid'[SigThread]].st = "gone"
      BY <1>7, WaitFacts DEF IndInv
    <3>2. QED
      BY <1>7, <3>1 DEF wait, TableKept, IndInv, OrderInv, Runners, OfKind
  <2>8. QED
    BY <2>1, <2>2, <2>3, <2>4, <2>5, <2>6, <2>7 DEF IndInv
<1>8. ASSUME jobFinished
      PROVE  IndInv'
  <2>1. TypeOK'
    BY <1>8 DEF IndInv, jobFinished, TypeOK, Threads, PCs, Proc, Kinds, ProcStates, Home, EmptyMap
  <2>2. IdInv'
    BY <1>8 DEF IndInv, jobFinished, TypeOK, IdInv
  <2>3. LockInv'
    BY <1>8 DEF IndInv, jobFinished, TypeOK, LockInv, Threads, Home
  <2>4. DownInv'
    BY <1>8 DEF IndInv, jobFinished, TypeOK, DownInv, LockInv, Threads, Home
  <2>5. SlotInv'
    <3>1. Busy' = Busy \ {pid[SigThread]}
      BY <1>8 DEF jobFinished, Busy
    <3>2. /\ IsFiniteSet(Busy') /\ Cardinality(Busy') \in Nat
          /\ Cardinality(Busy') <= Cardinality(Busy)
          /\ Cardinality(Busy') >= Cardinality(Busy) - 1
      <4>1. /\ IsFiniteSet(Busy')
            /\ Cardinality(Busy') = IF pid[SigThread] \in Busy THEN Cardinality(Busy) - 1
                                     ELSE Cardinality(Busy)
        BY <3>1, FS_RemoveElement DEF IndInv, SlotInv
      <4>2. Cardinality(Busy') \in Nat
        BY <4>1, FS_CardinalityType
      <4>3. QED
        BY <4>1, <4>2, BusyCount DEF IndInv
    <3>3. waitQueue = <<>> \/ Cardinality(Busy) = maxConcurrentJobs
      BY <1>8 DEF jobFinished, IndInv, SlotInv
    <3>4. Len(waitQueue) <= 1 \/ Cardinality(Busy') >= maxConcurrentJobs - 1
      BY <3>2, <3>3, BusyCount DEF IndInv
    <3>5. /\ mutex' # NoThread /\ waitQueue' = waitQueue
          /\ \A t \in Threads : pc'[t] # "register"
      BY <1>8 DEF jobFinished, IndInv, TypeOK, LockInv, Threads
    <3>6. Cardinality(Busy') <= maxConcurrentJobs
      BY <3>2, BusyCount DEF IndInv, SlotInv
    <3>7. QED
      BY <3>2, <3>4, <3>5, <3>6 DEF SlotInv
  <2>6. RunnerInv'
    <3>1. /\ Busy' = Busy \ {pid[SigThread]}
          /\ \A p \in Busy' : activeJobs'[p] = activeJobs[p]
      BY <1>8 DEF jobFinished, Busy
    <3>2. /\ procs' = procs /\ pid' = pid /\ jobId' = jobId
          /\ Runners' = Runners /\ Children' = Children
      BY <1>8 DEF jobFinished, Runners, OfKind, Children
    <3>3. /\ \A t \in Threads : pc[t] # "register" /\ pc'[t] # "register"
          /\ pc[SigThread] = "lock" /\ pc'[SigThread] = "schedule"
          /\ \A t \in Workers : pc'[t] = pc[t]
      BY <1>8 DEF jobFinished, IndInv, TypeOK, LockInv, Threads
    <3>4. pid[SigThread] \notin Children
      BY <3>3 DEF IndInv, RunnerInv, Children
    <3>5. \A p \in Runners : p \in Children => p \in Busy'
      BY <3>1, <3>3, <3>4 DEF IndInv, RunnerInv, Registering
    <3>6. QED
      BY <3>1, <3>2, <3>3, <3>5 DEF IndInv, RunnerInv, Reaped, Threads
  <2>7. OrderInv'
    BY <1>8 DEF IndInv, jobFinished, TypeOK, OrderInv, DownInv, Runners, OfKind, Proc, Kinds, ProcStates
  <2>8. QED
    BY <2>1, <2>2, <2>3, <2>4, <2>5, <2>6, <2>7 DEF IndInv
<1>9. ASSUME NEW t \in Threads, schedulePostpone(t)
      PROVE  IndInv'
  <2>1. TypeOK'
    BY <1>9 DEF IndInv, schedulePostpone, Return, TypeOK, Threads, PCs, Proc, Kinds, ProcStates, Home, EmptyMap
  <2>2. IdInv'
    BY <1>9 DEF IndInv, schedulePostpone, Return, TypeOK, IdInv
  <2>3. LockInv'
    BY <1>9 DEF IndInv, schedulePostpone, Return, TypeOK, LockInv, Threads, Home
  <2>4. DownInv'
    BY <1>9 DEF IndInv, schedulePostpone, Return, TypeOK, DownInv, LockInv, Threads, Home
  <2>5. SlotInv'
    <3>1. waitQueue = <<>> \/ Cardinality(Busy) = maxConcurrentJobs
      BY <1>9, BusyCount DEF schedulePostpone, SlotFree, IndInv, SlotInv, Busy
    <3>2. waitQueue' = waitQueue /\ Busy' = Busy
      BY <1>9 DEF schedulePostpone, Busy
    <3>3. \A s \in Threads : pc'[s] \notin {"schedule", "register"}
      BY <1>9 DEF schedulePostpone, Return, IndInv, TypeOK, LockInv, Home
    <3>4. QED
      BY <3>1, <3>2, <3>3 DEF IndInv, SlotInv
  <2>6. RunnerInv'
    BY <1>9 DEF IndInv, schedulePostpone, Return, TypeOK, RunnerInv, LockInv, Runners, OfKind, Children, Registering, Reaped, Busy, Threads, Home, Proc, Kinds, ProcStates
  <2>7. OrderInv'
    BY <1>9 DEF IndInv, schedulePostpone, Return, TypeOK, OrderInv, DownInv, Runners, OfKind, Proc, Kinds, ProcStates
  <2>8. QED
    BY <2>1, <2>2, <2>3, <2>4, <2>5, <2>6, <2>7 DEF IndInv
<1>10. ASSUME NEW t \in Threads, scheduleFork(t)
      PROVE  IndInv'
  <2>1. TypeOK'
    <3>1. Head(waitQueue) \in Nat /\ procs' \in [Pids -> Proc]
      BY <1>10, ForkFacts DEF IndInv
    <3>2. PICK p \in Pids :
            /\ pid' = [pid EXCEPT ![t] = p]
            /\ procs[p].st = "unused"
            /\ procs'[p].kind = "runner" /\ procs'[p].job = Head(waitQueue)
            /\ procs'[p].st = "running"
            /\ \A q \in Pids : q # p => procs'[q] = procs[q]
      BY <1>10, ForkFacts DEF IndInv
    <3>3. waitQueue' \in Seq(Nat) /\ forked' \in SUBSET Pids
      BY <1>10, HeadTailProperties DEF scheduleFork, IndInv, TypeOK
    <3>4. QED
      BY <1>10, <3>1, <3>2, <3>3 DEF scheduleFork, IndInv, TypeOK, PCs
  <2>2. IdInv'
    BY <1>10 DEF IndInv, scheduleFork, Spawn, TypeOK, IdInv
  <2>3. LockInv'
    BY <1>10 DEF IndInv, scheduleFork, Spawn, TypeOK, LockInv, Threads, Home
  <2>4. DownInv'
    BY <1>10 DEF IndInv, scheduleFork, Spawn, TypeOK, DownInv, LockInv, Threads, Home
  <2>5. SlotInv'
    <3>1. /\ Cardinality(Busy) \in Nat /\ Cardinality(Busy) < maxConcurrentJobs
          /\ Len(waitQueue) <= 1 \/ Cardinality(Busy) >= maxConcurrentJobs - 1
      BY <1>10, BusyCount DEF scheduleFork, SlotFree, IndInv, SlotInv, Busy
    <3>2. waitQueue' \in Seq(Nat) /\ Len(waitQueue') = Len(waitQueue) - 1
      BY <1>10, HeadTailProperties DEF scheduleFork, IndInv, TypeOK
    <3>3. Len(waitQueue) <= 1 => waitQueue' = <<>>
      BY <1>10, <3>2 DEF scheduleFork, IndInv, TypeOK
    <3>4. Busy' = Busy /\ mutex' = mutex
      BY <1>10 DEF scheduleFork, Busy
    <3>5. /\ mutex = t
          /\ \A s \in Threads : pc'[s] # "schedule"
      BY <1>10 DEF scheduleFork, IndInv, TypeOK, LockInv
    <3>6. waitQueue' = <<>> \/ Cardinality(Busy) = maxConcurrentJobs - 1
      BY <3>1, <3>3
    <3>7. t # NoThread
      BY DEF Threads
    <3>8. QED
      BY <3>1, <3>4, <3>5, <3>6, <3>7 DEF IndInv, SlotInv
  <2>6. RunnerInv'
    <3>1. Head(waitQueue) \in Nat /\ procs' \in [Pids -> Proc]
      BY <1>10, ForkFacts DEF IndInv
    <3>2. PICK p \in Pids :
            /\ pid' = [pid EXCEPT ![t] = p]
            /\ procs[p].st = "unused"
            /\ procs'[p].kind = "runner" /\ procs'[p].job = Head(waitQueue)
            /\ procs'[p].st = "running"
            /\ \A q \in Pids : q # p => procs'[q] = procs[q]
      BY <1>10, ForkFacts DEF IndInv
    <3>3. /\ pc[t] = "schedule" /\ pc'[t] = "register" /\ pid'[t] = p
          /\ \A s \in Threads : s # t => pc'[s] = pc[s] /\ pid'[s] = pid[s]
          /\ activeJobs' = activeJobs
          /\ jobId'[t] = Head(waitQueue)
      BY <1>10, <3>2 DEF scheduleFork, IndInv, TypeOK
    <3>4. \A s \in Threads : pc[s] # "register" /\ (pc'[s] = "register" => s = t)
      BY <1>10, <3>3 DEF scheduleFork, IndInv, LockInv
    <3>5. p \notin Runners /\ p \notin Busy
      BY <3>2 DEF IndInv, RunnerInv, Runners, OfKind
    <3>6. Runners' = Runners \cup {p} /\ Children' = Children \cup {p}
      BY <3>2 DEF Runners, OfKind, Children
    <3>7. \A q \in Pids : Reaped(q)' => Reaped(q)
      BY <3>3 DEF Reaped, Threads
    <3>8. Registering(p)'
      BY <3>3 DEF Registering
    <3>9. \A q \in Runners' : (q \in Children' \/ Reaped(q)') => q \in Busy' \/ Registering(q)'
      BY <3>3, <3>4, <3>6, <3>7, <3>8 DEF IndInv, RunnerInv, Busy, Registering, Runners, OfKind
    <3>10. \A q \in Busy' : q \in Runners' /\ activeJobs'[q] = procs'[q].job
      <4>1. \A q \in Busy : q \in Runners /\ q \in Pids /\ q # p /\ activeJobs[q] = procs[q].job
        BY <3>5 DEF IndInv, RunnerInv, Runners, OfKind
      <4>2. Busy' = Busy
        BY <3>3 DEF Busy
      <4>3. QED
        BY <3>2, <3>3, <3>6, <4>1, <4>2
    <3>11. \A s \in Threads : pc'[s] = "register" =>
                               pid'[s] \in Runners' \ Busy' /\ procs'[pid'[s]].job = jobId'[s]
      BY <3>2, <3>3, <3>4, <3>5, <3>6 DEF Busy
    <3>12. /\ \A q \in Pids : procs'[q].st = "unused" => procs'[q].kind = "none"
           /\ \A s \in Threads : pc'[s] = "system" => pid'[s] \in Pids
      BY <3>2, <3>3 DEF IndInv, RunnerInv
    <3>13. pc'[SigThread] = "lock" => pid'[SigThread] = NoPid \/ procs'[pid'[SigThread]].st = "gone"
      <4>1. CASE t = SigThread
        BY <3>3, <4>1
      <4>2. CASE t # SigThread
        <5>1. SigThread \in Threads /\ pc'[SigThread] = pc[SigThread] /\ pid'[SigThread] = pid[SigThread]
          BY <3>3, <4>2 DEF Threads
        <5>2. pid[SigThread] \in Pids \cup {NoPid}
          BY <5>1 DEF IndInv, TypeOK
        <5>3. QED
          BY <3>2, <5>1, <5>2 DEF IndInv, RunnerInv
      <4>3. QED
        BY <4>1, <4>2
    <3>14. QED
      BY <3>9, <3>10, <3>11, <3>12, <3>13 DEF RunnerInv
  <2>7. OrderInv'
    <3>1. Head(waitQueue) \in Nat /\ procs' \in [Pids -> Proc]
      BY <1>10, ForkFacts DEF IndInv
    <3>2. PICK p \in Pids :
            /\ forked' = forked \cup {p}
            /\ procs[p].st = "unused"
            /\ procs'[p].kind = "runner" /\ procs'[p].job = Head(waitQueue)
            /\ procs'[p].st = "running"
            /\ \A q \in Pids : q # p => procs'[q] = procs[q]
      BY <1>10, ForkFacts DEF IndInv
    <3>3. /\ up /\ up' /\ m_jobId' = m_jobId /\ requests' = requests /\ intact' = intact
          /\ waitQueue # <<>> /\ waitQueue \in Seq(Nat) /\ m_jobId \in Nat
      BY <1>10 DEF scheduleFork, IndInv, DownInv, TypeOK
    <3>4. /\ Len(waitQueue') = Len(waitQueue) - 1
          /\ \A i \in 1 .. Len(waitQueue') : waitQueue'[i] = waitQueue[i + 1]
          /\ Len(waitQueue) \in Nat \ {0} /\ Head(waitQueue) = waitQueue[1]
      BY <1>10, <3>3, HeadTailProperties DEF scheduleFork
    <3>5. /\ Len(waitQueue) <= m_jobId
          /\ \A i \in 1 .. Len(waitQueue) : waitQueue[i] = (m_jobId - Len(waitQueue)) + (i - 1)
          /\ forked \subseteq Runners /\ \A q \in forked : procs[q].job < m_jobId - Len(waitQueue)
          /\ intact => \A q \in Runners : procs[q].job < m_jobId - Len(waitQueue) /\ procs[q].job \in requests
      BY <3>3 DEF IndInv, OrderInv
    <3>6. Head(waitQueue) = m_jobId - Len(waitQueue)
      BY <3>3, <3>4, <3>5
    <3>7. \A i \in 1 .. Len(waitQueue') : waitQueue'[i] = (m_jobId' - Len(waitQueue')) + (i - 1)
      BY <3>3, <3>4, <3>5
    <3>8. /\ p \notin Runners /\ Runners' = Runners \cup {p}
          /\ \A q \in Runners : procs'[q].job = procs[q].job /\ procs[q].job \in Nat
      <4>1. \A q \in Runners : procs[q].job \in Nat
        BY DEF IndInv, TypeOK, Runners, OfKind, Proc
      <4>2. p \notin Runners /\ Runners' = Runners \cup {p}
        BY <3>2, KindsAfterFork DEF IndInv, TypeOK, Kinds, Runners
      <4>3. \A q \in Runners : procs'[q] = procs[q]
        BY <3>2, <4>2 DEF Runners, OfKind
      <4>4. QED
        BY <4>1, <4>2, <4>3
    <3>9. \A j \in Nat : j < m_jobId - Len(waitQueue) => j < m_jobId' - Len(waitQueue')
      BY <3>3, <3>4
    <3>10. procs'[p].job < m_jobId' - Len(waitQueue')
      BY <3>2, <3>3, <3>4, <3>6
    <3>11. \A q \in forked' : q \in Runners' /\ procs'[q].job < m_jobId' - Len(waitQueue')
      BY <3>2, <3>5, <3>8, <3>9, <3>10
    <3>12. ASSUME intact
           PROVE  \A q \in Runners' : procs'[q].job \in requests /\ procs'[q].job < m_jobId' - Len(waitQueue')
      <4>1. requests = 0 .. m_jobId - 1
        BY <3>3, <3>12 DEF IndInv, IdInv
      <4>2. procs'[p].job \in requests
        BY <3>2, <3>3, <3>4, <3>5, <3>6, <4>1
      <4>3. QED
        BY <3>5, <3>8, <3>9, <3>10, <3>12, <4>2
    <3>13. Len(waitQueue') <= m_jobId'
      BY <3>3, <3>4, <3>5
    <3>14. QED
      BY <3>3, <3>7, <3>11, <3>12, <3>13 DEF OrderInv
  <2>8. QED
    BY <2>1, <2>2, <2>3, <2>4, <2>5, <2>6, <2>7 DEF IndInv
<1>11. ASSUME NEW t \in Threads, scheduleRegister(t)
      PROVE  IndInv'
  <2>1. TypeOK'
    <3>1. pid[t] \in Pids
      BY <1>11 DEF scheduleRegister, IndInv, RunnerInv, Runners, OfKind
    <3>2. /\ DOMAIN activeJobs' = DOMAIN activeJobs \cup {pid[t]}
          /\ activeJobs' \in [DOMAIN activeJobs' -> Nat]
      BY <1>11 DEF scheduleRegister, IndInv, TypeOK
    <3>3. pc' \in [Threads -> PCs]
      BY <1>11 DEF scheduleRegister, Return, Home, IndInv, TypeOK, PCs
    <3>4. QED
      BY <1>11, <3>1, <3>2, <3>3 DEF scheduleRegister, Return, IndInv, TypeOK
  <2>2. IdInv'
    BY <1>11 DEF IndInv, scheduleRegister, Return, TypeOK, IdInv
  <2>3. LockInv'
    BY <1>11 DEF IndInv, scheduleRegister, Return, TypeOK, LockInv, Threads, Home
  <2>4. DownInv'
    BY <1>11 DEF IndInv, scheduleRegister, Return, TypeOK, DownInv, LockInv, Threads, Home
  <2>5. SlotInv'
    <3>1. Busy' = Busy \cup {pid[t]} /\ pid[t] \notin Busy
      BY <1>11 DEF scheduleRegister, Busy, IndInv, RunnerInv
    <3>2. IsFiniteSet(Busy') /\ Cardinality(Busy') = Cardinality(Busy) + 1
      BY <3>1, FS_AddElement DEF IndInv, SlotInv
    <3>3. /\ Cardinality(Busy) < maxConcurrentJobs /\ Cardinality(Busy) \in Nat
          /\ waitQueue = <<>> \/ Cardinality(Busy) = maxConcurrentJobs - 1
      BY <1>11, BusyCount DEF scheduleRegister, IndInv, SlotInv
    <3>4. \A s \in Threads : pc'[s] \notin {"schedule", "register"}
      BY <1>11 DEF scheduleRegister, Return, IndInv, TypeOK, LockInv, Home
    <3>5. waitQueue' = waitQueue
      BY <1>11 DEF scheduleRegister
    <3>6. QED
      BY <3>2, <3>3, <3>4, <3>5 DEF SlotInv
  <2>6. RunnerInv'
    <3>1. /\ procs' = procs /\ pid' = pid /\ jobId' = jobId
          /\ Runners' = Runners /\ Children' = Children
      BY <1>11 DEF scheduleRegister, Runners, OfKind, Children
    <3>2. /\ Busy' = Busy \cup {pid[t]} /\ activeJobs'[pid[t]] = jobId[t]
          /\ \A p \in Busy : p # pid[t] => activeJobs'[p] = activeJobs[p]
      BY <1>11 DEF scheduleRegister, Busy
    <3>3. /\ pid[t] \in Runners \ Busy /\ procs[pid[t]].job = jobId[t]
          /\ \A s \in Threads : pc[s] = "register" => s = t
      BY <1>11 DEF scheduleRegister, IndInv, RunnerInv, LockInv
    <3>4. /\ \A s \in Threads : s # t => pc'[s] = pc[s]
          /\ pc'[t] \in {"idle", "sigwait"}
      BY <1>11 DEF scheduleRegister, Return, Home, IndInv, TypeOK
    <3>5. \A p \in Busy' : p \in Runners' /\ activeJobs'[p] = procs'[p].job
      BY <3>1, <3>2, <3>3 DEF IndInv, RunnerInv
    <3>6. \A s \in Threads : pc'[s] # "register" /\ (pc'[s] = "system" => pid'[s] \in Pids)
      BY <3>1, <3>3, <3>4 DEF IndInv, RunnerInv
    <3>7. \A p \in Runners' : (p \in Children' \/ Reaped(p)') => p \in Busy'
      BY <3>1, <3>2, <3>3, <3>4 DEF IndInv, RunnerInv, Reaped, Registering, Threads
    <3>8. pc'[SigThread] = "lock" => pc[SigThread] = "lock"
      BY <3>4 DEF Threads
    <3>9. QED
      BY <3>1, <3>5, <3>6, <3>7, <3>8 DEF IndInv, RunnerInv
  <2>7. OrderInv'
    BY <1>11 DEF IndInv, scheduleRegister, Return, TypeOK, OrderInv, DownInv, Runners, OfKind, Proc, Kinds, ProcStates
  <2>8. QED
    BY <2>1, <2>2, <2>3, <2>4, <2>5, <2>6, <2>7 DEF IndInv
<1>12. ASSUME NEW p \in Pids, Exit(p)
      PROVE  IndInv'
  <2>1. TypeOK'
    <3>1. procs' \in [Pids -> Proc]
      BY <1>12, StateFacts DEF IndInv, TypeOK, Exit, ProcStates
    <3>2. /\ up' = up /\ requests' = requests /\ m_jobId' = m_jobId /\ firstId' = firstId
          /\ waitQueue' = waitQueue /\ activeJobs' = activeJobs /\ mutex' = mutex
          /\ pc' = pc /\ jobId' = jobId /\ pid' = pid
          /\ sigPending' = TRUE /\ announced' = announced
          /\ forked' = forked /\ intact' = intact
      BY <1>12 DEF Exit
    <3>3. QED
      BY <3>1, <3>2 DEF IndInv, TypeOK
  <2>2. IdInv'
    BY <1>12 DEF IndInv, Exit, TypeOK, IdInv
  <2>3. LockInv'
    BY <1>12 DEF IndInv, Exit, TypeOK, LockInv, Threads, Home
  <2>4. DownInv'
    BY <1>12 DEF IndInv, Exit, TypeOK, DownInv, LockInv, Threads, Home
  <2>5. SlotInv'
    BY <1>12 DEF IndInv, Exit, TypeOK, SlotInv, LockInv, Busy, Threads, Home, EmptyMap
  <2>6. RunnerInv'
    BY <1>12, SMTT(30) DEF IndInv, Exit, TypeOK, RunnerInv, LockInv, Runners, OfKind, Children, Registering, Reaped, Busy, Threads, Home, Proc, Kinds, ProcStates
  <2>7. OrderInv'
    BY <1>12 DEF IndInv, Exit, TypeOK, OrderInv, DownInv, Runners, OfKind, Proc, Kinds, ProcStates
  <2>8. QED
    BY <2>1, <2>2, <2>3, <2>4, <2>5, <2>6, <2>7 DEF IndInv
<1>13. ASSUME NEW p \in Pids, OrphanExit(p)
      PROVE  IndInv'
  <2>1. TypeOK'
    <3>1. procs' \in [Pids -> Proc]
      BY <1>13 DEF IndInv, OrphanExit, TypeOK, Proc, Kinds, ProcStates
    <3>2. /\ up' = up /\ requests' = requests /\ m_jobId' = m_jobId /\ firstId' = firstId
          /\ waitQueue' = waitQueue /\ activeJobs' = activeJobs /\ mutex' = mutex
          /\ pc' = pc /\ jobId' = jobId /\ pid' = pid
          /\ sigPending' = sigPending /\ announced' = announced
          /\ forked' = forked /\ intact' = intact
      BY <1>13 DEF OrphanExit, dbVars, schedVars, threadVars
    <3>3. QED
      BY <3>1, <3>2 DEF IndInv, TypeOK
  <2>2. IdInv'
    BY <1>13 DEF IndInv, OrphanExit, TypeOK, IdInv
  <2>3. LockInv'
    BY <1>13 DEF IndInv, OrphanExit, TypeOK, LockInv, Threads, Home
  <2>4. DownInv'
    BY <1>13 DEF IndInv, OrphanExit, TypeOK, DownInv, LockInv, Threads, Home
  <2>5. SlotInv'
    BY <1>13 DEF IndInv, OrphanExit, TypeOK, SlotInv, LockInv, Busy, Threads, Home, EmptyMap
  <2>6. RunnerInv'
    BY <1>13, SMTT(30) DEF IndInv, OrphanExit, TypeOK, RunnerInv, LockInv, Runners, OfKind, Children, Registering, Reaped, Busy, Threads, Home, Proc, Kinds, ProcStates
  <2>7. OrderInv'
    BY <1>13 DEF IndInv, OrphanExit, TypeOK, OrderInv, DownInv, Runners, OfKind, Proc, Kinds, ProcStates
  <2>8. QED
    BY <2>1, <2>2, <2>3, <2>4, <2>5, <2>6, <2>7 DEF IndInv
<1>14. ASSUME UNCHANGED vars
      PROVE  IndInv'
  <2>1. TypeOK'
    BY <1>14 DEF IndInv, vars, TypeOK, Threads, PCs, Proc, Kinds, ProcStates, Home, EmptyMap
  <2>2. IdInv'
    BY <1>14 DEF IndInv, vars, TypeOK, IdInv
  <2>3. LockInv'
    BY <1>14 DEF IndInv, vars, TypeOK, LockInv, Threads, Home
  <2>4. DownInv'
    BY <1>14 DEF IndInv, vars, TypeOK, DownInv, LockInv, Threads, Home
  <2>5. SlotInv'
    BY <1>14 DEF IndInv, vars, TypeOK, SlotInv, LockInv, Busy, Threads, Home, EmptyMap
  <2>6. RunnerInv'
    BY <1>14 DEF IndInv, vars, TypeOK, RunnerInv, LockInv, Runners, OfKind, Children, Registering, Reaped, Busy, Threads, Home, Proc, Kinds, ProcStates
  <2>7. OrderInv'
    BY <1>14 DEF IndInv, vars, TypeOK, OrderInv, DownInv, Runners, OfKind, Proc, Kinds, ProcStates
  <2>8. QED
    BY <2>1, <2>2, <2>3, <2>4, <2>5, <2>6, <2>7 DEF IndInv
<1>15. QED
  BY <1>1, <1>2, <1>3, <1>4, <1>5, <1>6, <1>7, <1>8, <1>9, <1>10, <1>11, <1>12, <1>13, <1>14
     DEF Next, Crash, scheduleForkFails, RunnerExit, ShellExit, ReplExit

-----------------------------------------------------------------------------
(* The theorems *)

\* The inductive invariant holds in every reachable state.
LEMMA IndInvAlways == Spec => []IndInv
<1>1. Init => IndInv
  BY InitIndInv
<1>2. IndInv /\ [Next]_vars => IndInv'
  BY NextIndInv
<1>3. QED
  BY <1>1, <1>2, PTL DEF Spec

\* Every variable keeps its type: in particular activeJobs only ever holds
\* pids that fork() returned.
THEOREM TypeOKAlways == Spec => []TypeOK
<1>1. IndInv => TypeOK
  BY DEF IndInv
<1>2. QED
  BY <1>1, IndInvAlways, PTL

\* JobScheduler.h:35, maxConcurrentJobs: the children that are TestRunners are
\* in activeJobs, or one of them is the child that schedule() is about to
\* enter there, and schedule() only forks with a slot free.
LEMMA BoundFromInvariant ==
  ASSUME IndInv
  PROVE  ConcurrencyBound
<1> USE MaxAssumption
<1>1. IsFiniteSet(Busy) /\ Cardinality(Busy) \in Nat /\ Cardinality(Busy) <= maxConcurrentJobs
  BY BusyCount DEF IndInv, SlotInv
<1>2. CASE \E t \in Threads : pc[t] = "register"
  <2>1. PICK t \in Threads : pc[t] = "register"
    BY <1>2
  <2>2. \A s \in Threads : pc[s] = "register" => s = t
    BY <2>1 DEF IndInv, LockInv
  <2>3. RunnerChildren \subseteq Busy \cup {pid[t]}
    BY <2>2 DEF RunnerChildren, Registering, IndInv, RunnerInv
  <2>4. pid[t] \notin Busy /\ Cardinality(Busy) < maxConcurrentJobs
    BY <2>1 DEF IndInv, RunnerInv, SlotInv
  <2>5. /\ IsFiniteSet(Busy \cup {pid[t]})
        /\ Cardinality(Busy \cup {pid[t]}) = Cardinality(Busy) + 1
    BY <1>1, <2>4, FS_AddElement
  <2>6. /\ IsFiniteSet(RunnerChildren)
        /\ Cardinality(RunnerChildren) <= Cardinality(Busy) + 1
    BY <2>3, <2>5, FS_Subset
  <2>7. Cardinality(RunnerChildren) \in Nat
    BY <2>6, FS_CardinalityType
  <2>8. QED
    BY <1>1, <2>4, <2>6, <2>7 DEF ConcurrencyBound
<1>3. CASE ~ \E t \in Threads : pc[t] = "register"
  <2>1. RunnerChildren \subseteq Busy
    BY <1>3 DEF RunnerChildren, Registering, IndInv, RunnerInv
  <2>2. /\ IsFiniteSet(RunnerChildren)
        /\ Cardinality(RunnerChildren) <= Cardinality(Busy)
    BY <1>1, <2>1, FS_Subset
  <2>3. Cardinality(RunnerChildren) \in Nat
    BY <2>2, FS_CardinalityType
  <2>4. QED
    BY <1>1, <2>2, <2>3 DEF ConcurrencyBound
<1>4. QED
  BY <1>2, <1>3

\* However fork(), registration, exits, wait() and jobFinished() interleave,
\* the service never has more than maxConcurrentJobs TestRunner children.
THEOREM ConcurrencyBoundAlways == Spec => []ConcurrencyBound
<1>1. IndInv => ConcurrencyBound
  BY BoundFromInvariant
<1>2. QED
  BY <1>1, IndInvAlways, PTL

\* One call of schedule() per create() and per jobFinished() is enough: with
\* the mutex free, a job waits only while every slot is taken.
THEOREM WorkConservingAlways == Spec => []WorkConserving
<1>1. IndInv => WorkConserving
  BY DEF IndInv, SlotInv, WorkConserving, Busy
<1>2. QED
  BY <1>1, IndInvAlways, PTL

\* jobFinished() recognises every TestRunner that handleSigChld reaped, also
\* one that ended before its pid was entered in activeJobs.
THEOREM CompletionRecognisedAlways == Spec => []CompletionRecognised
<1>1. ASSUME IndInv, pc[SigThread] = "lock", mutex = NoThread, pid[SigThread] \in Runners
      PROVE  /\ pid[SigThread] \in Busy
             /\ activeJobs[pid[SigThread]] = procs[pid[SigThread]].job
  <2>1. \A t \in Threads : pc[t] # "register"
    BY <1>1, ThreadAssumption DEF IndInv, LockInv, Threads
  <2>2. Reaped(pid[SigThread])
    BY <1>1 DEF Reaped
  <2>3. pid[SigThread] \in Busy
    BY <1>1, <2>1, <2>2 DEF IndInv, RunnerInv, Registering
  <2>4. QED
    BY <1>1, <2>3 DEF IndInv, RunnerInv
<1>2. IndInv => CompletionRecognised
  BY <1>1 DEF CompletionRecognised, Busy
<1>3. QED
  BY <1>2, IndInvAlways, PTL

\* A step of StartOrder, without the box.
StartsInOrder ==
  \A p \in Pids :
    (procs[p].st = "unused" /\ procs'[p].kind = "runner") =>
      /\ \A q \in forked : procs[q].job < procs'[p].job
      /\ intact => \A q \in Runners : procs[q].job < procs'[p].job

\* Only schedule() makes a process a TestRunner, and the id it takes from the
\* front of the queue is above the ids started before, as far as OrderInv knows
\* them.
LEMMA StepStartsInOrder ==
  ASSUME IndInv, [Next]_vars
  PROVE  StartsInOrder
<1> USE PidAssumption
<1>1. procs \in [Pids -> Proc] /\ \A p \in Pids : procs[p].st = "unused" => procs[p].kind = "none"
  BY DEF IndInv, TypeOK, RunnerInv
<1>2. ASSUME \A p \in Pids : procs[p].st = "unused" => procs'[p].kind # "runner"
      PROVE  StartsInOrder
  BY <1>2 DEF StartsInOrder
<1>3. ASSUME procs' = procs
      PROVE  StartsInOrder
  BY <1>1, <1>2, <1>3
<1>4. ASSUME Start
      PROVE  StartsInOrder
  BY <1>1, <1>2, <1>4, SpawnFacts DEF Start, Kinds
<1>5. ASSUME Down
      PROVE  StartsInOrder
  BY <1>1, <1>2, <1>5, DownFacts
<1>6. ASSUME NEW w \in Workers, cloneScriptRepo(w)
      PROVE  StartsInOrder
  BY <1>1, <1>2, <1>6, SpawnFacts DEF cloneScriptRepo, Kinds
<1>7. ASSUME NEW w \in Workers, systemReturns(w)
      PROVE  StartsInOrder
  BY <1>1, <1>2, <1>7, SystemReturnsFacts DEF IndInv, TableKept
<1>8. ASSUME wait
      PROVE  StartsInOrder
  BY <1>1, <1>2, <1>8, WaitFacts DEF IndInv, TableKept
<1>9. ASSUME NEW p \in Pids, Exit(p) \/ OrphanExit(p)
      PROVE  StartsInOrder
  <2>1. \A q \in Pids : procs'[q].kind = procs[q].kind
    BY <1>1, <1>9, StateFacts DEF Exit, OrphanExit, ProcStates
  <2>2. QED
    BY <1>1, <1>2, <2>1
<1>10. ASSUME NEW t \in Threads, scheduleFork(t)
       PROVE  StartsInOrder
  <2>1. PICK p \in Pids : /\ procs'[p].job = Head(waitQueue)
                         /\ \A q \in Pids : q # p => procs'[q] = procs[q]
    BY <1>10, ForkFacts DEF IndInv
  <2>2. /\ up /\ waitQueue # <<>> /\ waitQueue \in Seq(Nat) /\ m_jobId \in Nat
    BY <1>10 DEF scheduleFork, IndInv, DownInv, TypeOK
  <2>3. Len(waitQueue) \in Nat \ {0} /\ Head(waitQueue) = waitQueue[1]
    BY <2>2, HeadTailProperties
  <2>4. /\ \A i \in 1 .. Len(waitQueue) : waitQueue[i] = (m_jobId - Len(waitQueue)) + (i - 1)
        /\ \A q \in forked : procs[q].job < m_jobId - Len(waitQueue)
        /\ intact => \A q \in Runners : procs[q].job < m_jobId - Len(waitQueue)
    BY <2>2 DEF IndInv, OrderInv
  <2>5. Head(waitQueue) = m_jobId - Len(waitQueue)
    BY <2>2, <2>3, <2>4
  <2>6. QED
    BY <1>1, <2>1, <2>4, <2>5 DEF StartsInOrder
<1>11. ASSUME \/ \E w \in Workers : create(w)
              \/ sigwait \/ jobFinished
              \/ \E t \in Threads : schedulePostpone(t) \/ scheduleRegister(t)
              \/ UNCHANGED vars
       PROVE  procs' = procs
  BY <1>11 DEF create, sigwait, jobFinished, schedulePostpone, scheduleRegister, vars, kernelVars
<1>12. QED
  BY <1>3, <1>4, <1>5, <1>6, <1>7, <1>8, <1>9, <1>10, <1>11
     DEF Next, Crash, scheduleForkFails, RunnerExit, ShellExit, ReplExit

\* Within one service process jobs start in the order of their ids, none twice,
\* whatever becomes of the request files.  While every request file could be
\* created this holds across crashes and restarts too, so a result file is
\* written by one TestRunner only.
THEOREM StartOrderAlways == Spec => StartOrder
<1>1. IndInv /\ [Next]_vars => [StartsInOrder]_vars
  BY StepStartsInOrder
<1>2. Spec => [][StartsInOrder]_vars
  BY <1>1, IndInvAlways, PTL DEF Spec
<1>3. QED
  BY <1>2 DEF StartOrder, StartsInOrder

-----------------------------------------------------------------------------
(* The history of the jobs: which TestRunners there were, and what was announced *)

\* system() waits for the shell it forked and for nothing else.
ShellInv ==
  \A t \in Threads : pc[t] = "system" => pid[t] \in OfKind("shell")

\* No two TestRunners of this service process are for the same job, and its
\* children, its slots and the child it is about to register are among them.
RunnerJobsInv ==
  /\ \A p, q \in forked : procs[p].job = procs[q].job => p = q
  /\ RunnerChildren \subseteq forked
  /\ Busy \subseteq forked
  /\ \A t \in Threads : pc[t] = "register" => pid[t] \in forked
  /\ \A p \in forked : procs[p].st # "orphan"

\* The ids between the first one of this service process and the front of the
\* queue have their TestRunner.
StartedInv ==
  up => /\ firstId <= m_jobId - Len(waitQueue)
        /\ \A id \in firstId .. (m_jobId - Len(waitQueue)) - 1 : HasRunner(id)

\* Nothing is announced for a job that waits or is still to come.
AnnouncedInv ==
  up => \A id \in announced : id < m_jobId - Len(waitQueue)

HistoryInv ==
  ShellInv /\ RunnerJobsInv /\ StartedInv /\ AnnouncedInv /\ AnnouncedWhenReaped

\* A step that neither forks a TestRunner nor moves an id into or out of the
\* queue, and makes no process an orphan.
JobsKept ==
  /\ up' = up /\ firstId' = firstId
  /\ m_jobId' = m_jobId /\ waitQueue' = waitQueue
  /\ Runners' = Runners /\ forked' = forked
  /\ \A p \in Runners : /\ procs'[p].job = procs[p].job
                        /\ procs'[p].st = "orphan" => procs[p].st = "orphan"
                        /\ procs'[p].st \in {"running", "zombie"}
                             => procs[p].st \in {"running", "zombie"}

\* Such a step leaves the TestRunners of the jobs as they are, unless it
\* registers a process that is none of them.
LEMMA JobsKeptStep ==
  ASSUME JobsKept, RunnerJobsInv, StartedInv, forked \subseteq Runners,
         Runners \subseteq Pids, Busy' \subseteq forked,
         \A t \in Threads : pc'[t] = "register" => pid'[t] \in forked
  PROVE  RunnerJobsInv' /\ StartedInv'
<1>1. RunnerChildren' \subseteq RunnerChildren
  BY DEF JobsKept, RunnerChildren, Children
<1>2. RunnerJobsInv'
  BY <1>1 DEF JobsKept, RunnerJobsInv
<1>3. StartedInv'
  BY DEF JobsKept, StartedInv, HasRunner
<1>4. QED
  BY <1>2, <1>3

\* Such a step that announces nothing leaves the announcements justified.
LEMMA AnnouncedKept ==
  ASSUME JobsKept, AnnouncedInv, announced' = announced
  PROVE  AnnouncedInv'
  BY DEF JobsKept, AnnouncedInv

\* When the queue is empty and the counter is at the first id, no id was handed
\* out yet.
LEMMA NothingAfterStart ==
  ASSUME NEW n \in Nat, NEW l, l = 0
  PROVE  n <= n - l /\ \A id : id \notin n .. (n - l) - 1
  OBVIOUS

\* Before the first start nothing was started or announced.
LEMMA InitHistoryInv ==
  ASSUME Init
  PROVE  HistoryInv
<1>1. Runners = {} /\ forked = {} /\ Busy = {} /\ up = FALSE
  BY DEF Init, Runners, OfKind, Busy, EmptyMap
<1>2. \A t \in Threads : pc[t] \notin {"system", "register"}
  BY DEF Init, Home
<1>3. QED
  BY <1>1, <1>2 DEF HistoryInv, ShellInv, RunnerJobsInv, RunnerChildren, StartedInv,
                    AnnouncedInv, AnnouncedWhenReaped

\* Every step preserves it.
LEMMA NextHistoryInv ==
  ASSUME IndInv, HistoryInv, [Next]_vars
  PROVE  HistoryInv'
<1> USE MaxAssumption, ThreadAssumption, PidAssumption, BoundAssumption
<1> USE DEF dbVars, schedVars, threadVars, kernelVars
<1>0. /\ TypeOK /\ SigThread \in Threads
      /\ \A w \in Workers : w \in Threads /\ w # SigThread
      /\ forked \subseteq Runners /\ Runners \subseteq Pids
  BY DEF IndInv, OrderInv, Threads, TypeOK, Runners, OfKind
<1>a. ASSUME JobsKept, Busy' \subseteq Busy,
             \A t \in Threads : pc'[t] = "register" => pc[t] = "register" /\ pid'[t] = pid[t]
      PROVE  RunnerJobsInv' /\ StartedInv'
  <2>1. /\ Busy' \subseteq forked /\ RunnerJobsInv /\ StartedInv
        /\ \A t \in Threads : pc'[t] = "register" => pid'[t] \in forked
    BY <1>a DEF HistoryInv, RunnerJobsInv
  <2>2. QED
    BY <1>0, <1>a, <2>1, JobsKeptStep
<1>1. ASSUME Start
      PROVE  HistoryInv'
  <2>1. PICK p \in Pids : Spawn(p, "repl", 0)
    BY <1>1 DEF Start
  <2>2. Runners' = Runners /\ \A q \in Runners : procs'[q] = procs[q]
    <3>1. /\ procs[p].st = "unused" /\ procs'[p].kind = "repl"
          /\ \A q \in Pids : q # p => procs'[q] = procs[q]
      BY <1>0, <2>1, SpawnFacts DEF TypeOK, Kinds
    <3>2. QED
      BY <1>0, <3>1, KindsAfterFork DEF IndInv, TypeOK, Kinds, Runners
  <2>3. /\ m_jobId' = firstId' /\ waitQueue' = <<>> /\ forked' = {} /\ announced' = {}
        /\ pc' = pc /\ pid' = pid /\ Busy' = {} /\ up' = TRUE
        /\ \A t \in Threads : pc[t] \notin {"system", "register"}
    BY <1>1 DEF Start, IndInv, DownInv, Busy, EmptyMap
  <2>4. m_jobId' \in Nat /\ Len(waitQueue') = 0
    BY <1>1, <2>3, FirstFreeIsNew DEF Start, IndInv, IdInv, TypeOK
  <2>5. ShellInv'
    BY <2>3 DEF ShellInv
  <2>6. RunnerJobsInv'
    <3>1. \A q \in Runners : procs[q].st \notin {"running", "zombie"}
      BY <1>1, <2>3 DEF Start, IndInv, DownInv, HistoryInv, RunnerJobsInv, RunnerChildren, Children, Runners, OfKind
    <3>2. RunnerChildren' = {}
      BY <2>2, <3>1 DEF RunnerChildren, Children
    <3>3. QED
      BY <2>3, <3>2 DEF RunnerJobsInv
  <2>7. StartedInv'
    <3>1. PICK n \in Nat : n = m_jobId'
      BY <2>4
    <3>2. n <= n - Len(waitQueue') /\ \A id : id \notin n .. (n - Len(waitQueue')) - 1
      BY <2>4, NothingAfterStart
    <3>3. QED
      BY <2>3, <3>1, <3>2, Zenon DEF StartedInv
  <2>8. AnnouncedInv' /\ AnnouncedWhenReaped'
    BY <2>3 DEF AnnouncedInv, AnnouncedWhenReaped
  <2>9. QED
    BY <2>5, <2>6, <2>7, <2>8 DEF HistoryInv
<1>2. ASSUME Down
      PROVE  HistoryInv'
  <2>1. up' = FALSE /\ forked' = {} /\ Busy' = {}
    BY <1>2 DEF Down, Busy, EmptyMap
  <2>2. \A t \in Threads : pc'[t] \notin {"system", "register"}
    BY <1>2 DEF Down, Home
  <2>3. RunnerChildren' = {}
    BY <1>0, <1>2, DownFacts DEF TypeOK, RunnerChildren, Children
  <2>4. ShellInv' /\ StartedInv' /\ AnnouncedInv' /\ AnnouncedWhenReaped'
    BY <2>1, <2>2 DEF ShellInv, StartedInv, AnnouncedInv, AnnouncedWhenReaped
  <2>5. RunnerJobsInv'
    BY <2>1, <2>2, <2>3 DEF RunnerJobsInv
  <2>6. QED
    BY <2>4, <2>5 DEF HistoryInv
<1>3. ASSUME NEW w \in Workers, create(w)
      PROVE  HistoryInv'
  <2>1. /\ procs' = procs /\ announced' = announced /\ pid' = pid
        /\ up' = up /\ up /\ firstId' = firstId
        /\ forked' = forked /\ activeJobs' = activeJobs
    BY <1>3 DEF create
  <2>2. Runners' = Runners /\ RunnerChildren' = RunnerChildren /\ Busy' = Busy
    BY <2>1 DEF Runners, OfKind, RunnerChildren, Children, Busy
  <2>3. m_jobId' - Len(waitQueue') = m_jobId - Len(waitQueue)
    <3>1. /\ m_jobId \in Nat /\ waitQueue \in Seq(Nat)
          /\ m_jobId' = m_jobId + 1 /\ waitQueue' = Append(waitQueue, m_jobId)
      BY <1>0, <1>3 DEF create, TypeOK
    <3>2. Len(waitQueue') = Len(waitQueue) + 1 /\ Len(waitQueue) \in Nat
      BY <3>1
    <3>3. QED
      BY <3>1, <3>2
  <2>4. /\ pc'[SigThread] = pc[SigThread]
        /\ \A t \in Threads : pc'[t] \in {"system", "register"} => pc'[t] = pc[t]
    BY <1>0, <1>3 DEF create, TypeOK
  <2>5. ShellInv'
    BY <2>1, <2>4 DEF HistoryInv, ShellInv, OfKind
  <2>6. RunnerJobsInv' /\ StartedInv' /\ AnnouncedInv'
    <3>1. RunnerJobsInv'
      BY <2>1, <2>2, <2>4 DEF HistoryInv, RunnerJobsInv
    <3>2. StartedInv' /\ AnnouncedInv'
      BY <2>1, <2>3 DEF HistoryInv, StartedInv, HasRunner, AnnouncedInv
    <3>3. QED
      BY <3>1, <3>2
  <2>7. AnnouncedWhenReaped'
    BY <2>1, <2>4 DEF HistoryInv, AnnouncedWhenReaped
  <2>8. QED
    BY <2>5, <2>6, <2>7 DEF HistoryInv
<1>4. ASSUME NEW w \in Workers, cloneScriptRepo(w)
      PROVE  HistoryInv'
  <2>1. PICK p \in Pids : Spawn(p, "shell", 0) /\ pid' = [pid EXCEPT ![w] = p]
    BY <1>4 DEF cloneScriptRepo
  <2>2. /\ Runners' = Runners /\ \A q \in Runners : procs'[q] = procs[q]
        /\ OfKind("shell")' = OfKind("shell") \cup {p}
    <3>1. /\ procs[p].st = "unused" /\ procs'[p].kind = "shell"
          /\ \A q \in Pids : q # p => procs'[q] = procs[q]
      BY <1>0, <2>1, SpawnFacts DEF TypeOK, Kinds
    <3>2. QED
      BY <1>0, <3>1, KindsAfterFork DEF IndInv, TypeOK, Kinds, Runners
  <2>3. JobsKept /\ announced' = announced /\ Busy' = Busy
    BY <1>4, <2>2 DEF JobsKept, cloneScriptRepo, Busy
  <2>4. /\ pc'[SigThread] = pc[SigThread] /\ pid'[SigThread] = pid[SigThread]
        /\ pid'[w] = p
        /\ \A t \in Threads : t # w => pc'[t] = pc[t] /\ pid'[t] = pid[t]
    BY <1>0, <1>4, <2>1 DEF cloneScriptRepo, TypeOK
  <2>5. ShellInv'
    BY <2>2, <2>4 DEF HistoryInv, ShellInv
  <2>6. AnnouncedWhenReaped'
    BY <1>0, <2>2, <2>3, <2>4 DEF HistoryInv, AnnouncedWhenReaped, JobsKept
  <2>7. \A t \in Threads : pc'[t] = "register" => pc[t] = "register" /\ pid'[t] = pid[t]
    BY <1>0, <1>4, <2>4 DEF cloneScriptRepo, TypeOK
  <2>8. RunnerJobsInv' /\ StartedInv'
    BY <1>a, <2>3, <2>7
  <2>9. QED
    BY <2>3, <2>5, <2>6, <2>8, AnnouncedKept DEF HistoryInv
<1>5. ASSUME NEW w \in Workers, systemReturns(w)
      PROVE  HistoryInv'
  <2>1. pid[w] \in OfKind("shell") /\ pid[w] \in Pids
    BY <1>0, <1>5 DEF systemReturns, HistoryInv, ShellInv, OfKind
  <2>2. /\ Runners' = Runners /\ OfKind("shell")' = OfKind("shell")
        /\ \A q \in Runners : procs'[q].job = procs[q].job /\ procs'[q].st = procs[q].st
    <3>1. CASE Reap(pid[w])
      BY <1>0, <2>1, <3>1, StateFacts DEF Reap, TypeOK, ProcStates, Runners, OfKind
    <3>2. CASE UNCHANGED procs
      BY <3>2 DEF Runners, OfKind
    <3>3. QED
      BY <1>5, <3>1, <3>2 DEF systemReturns
  <2>3. JobsKept /\ announced' = announced /\ Busy' = Busy
    BY <1>5, <2>2 DEF JobsKept, systemReturns, Busy
  <2>4. /\ pc'[SigThread] = pc[SigThread] /\ pid' = pid
        /\ \A t \in Threads : pc'[t] = "system" => pc[t] = "system"
    BY <1>0, <1>5 DEF systemReturns, TypeOK
  <2>5. ShellInv'
    BY <2>2, <2>4 DEF HistoryInv, ShellInv
  <2>6. AnnouncedWhenReaped'
    BY <1>0, <2>2, <2>3, <2>4 DEF HistoryInv, AnnouncedWhenReaped, JobsKept
  <2>7. \A t \in Threads : pc'[t] = "register" => pc[t] = "register" /\ pid'[t] = pid[t]
    BY <1>0, <1>5, <2>4 DEF systemReturns, TypeOK
  <2>8. RunnerJobsInv' /\ StartedInv'
    BY <1>a, <2>3, <2>7
  <2>9. QED
    BY <2>3, <2>5, <2>6, <2>8, AnnouncedKept DEF HistoryInv
<1>6. ASSUME wait
      PROVE  HistoryInv'
  <2>1. /\ pc[SigThread] = "wait" /\ pc' = [pc EXCEPT ![SigThread] = "lock"]
        /\ announced' = announced /\ Busy' = Busy
    BY <1>6 DEF wait, Busy
  <2>2. ASSUME NEW p \in Pids, Reap(p), pid' = [pid EXCEPT ![SigThread] = p]
        PROVE  HistoryInv'
    <3>1. /\ procs[p].st = "zombie"
          /\ Runners' = Runners /\ OfKind("shell")' = OfKind("shell")
          /\ \A q \in Runners :
               /\ procs'[q].job = procs[q].job
               /\ procs'[q].st = IF q = p THEN "gone" ELSE procs[q].st
      BY <1>0, <2>2, StateFacts DEF Reap, TypeOK, ProcStates, Runners, OfKind
    <3>2. JobsKept
      BY <1>6, <3>1 DEF JobsKept, wait
    <3>3. pc'[SigThread] = "lock" /\ pid'[SigThread] = p
      BY <1>0, <2>1, <2>2 DEF TypeOK
    <3>4. ShellInv'
      BY <1>0, <2>1, <2>2, <3>1 DEF HistoryInv, ShellInv, TypeOK
    <3>5. AnnouncedWhenReaped'
      BY <1>0, <2>1, <3>1, <3>2, <3>3 DEF HistoryInv, AnnouncedWhenReaped, JobsKept
    <3>6. RunnerJobsInv' /\ StartedInv'
      <4>1. \A t \in Threads : pc'[t] = "register" => pc[t] = "register" /\ pid'[t] = pid[t]
        BY <1>0, <2>1, <2>2 DEF TypeOK
      <4>2. QED
        BY <1>a, <2>1, <3>2, <4>1
    <3>7. QED
      BY <2>1, <3>2, <3>4, <3>5, <3>6, AnnouncedKept DEF HistoryInv
  <2>3. ASSUME UNCHANGED procs, pid' = [pid EXCEPT ![SigThread] = NoPid]
        PROVE  HistoryInv'
    <3>1. JobsKept
      BY <1>6, <2>3 DEF JobsKept, wait, Runners, OfKind
    <3>2. pc'[SigThread] = "lock" /\ pid'[SigThread] = NoPid /\ NoPid \notin Runners
      BY <1>0, <2>1, <2>3 DEF TypeOK, Runners, OfKind
    <3>3. ShellInv'
      BY <1>0, <2>1, <2>3 DEF HistoryInv, ShellInv, TypeOK, OfKind
    <3>4. AnnouncedWhenReaped'
      BY <1>0, <2>1, <2>3, <3>1, <3>2 DEF HistoryInv, AnnouncedWhenReaped, JobsKept
    <3>5. RunnerJobsInv' /\ StartedInv'
      <4>1. \A t \in Threads : pc'[t] = "register" => pc[t] = "register" /\ pid'[t] = pid[t]
        BY <1>0, <2>1, <2>3 DEF TypeOK
      <4>2. QED
        BY <1>a, <2>1, <3>1, <4>1
    <3>6. QED
      BY <2>1, <3>1, <3>3, <3>4, <3>5, AnnouncedKept DEF HistoryInv
  <2>4. QED
    BY <1>6, <2>2, <2>3 DEF wait
<1>7. ASSUME jobFinished
      PROVE  HistoryInv'
  <2>1. /\ pc[SigThread] = "lock" /\ mutex = NoThread
        /\ pc' = [pc EXCEPT ![SigThread] = "schedule"]
        /\ procs' = procs /\ pid' = pid
    BY <1>7 DEF jobFinished
  <2>2. JobsKept
    BY <1>7 DEF jobFinished, JobsKept, Runners, OfKind
  <2>3. pc'[SigThread] = "schedule"
    BY <1>0, <2>1 DEF TypeOK
  <2>4. ShellInv'
    BY <1>0, <2>1 DEF HistoryInv, ShellInv, TypeOK, OfKind
  <2>a. RunnerJobsInv' /\ StartedInv'
    <3>1. Busy' \subseteq Busy
      BY <1>7 DEF jobFinished, Busy
    <3>2. \A t \in Threads : pc'[t] = "register" => pc[t] = "register" /\ pid'[t] = pid[t]
      BY <1>0, <2>1 DEF TypeOK
    <3>3. QED
      BY <1>a, <2>2, <3>1, <3>2
  <2>5. CASE pid[SigThread] \in Busy
    <3> DEFINE p == pid[SigThread]
    <3>1. p \in forked /\ activeJobs[p] = procs[p].job /\ procs[p].st = "gone"
      BY <2>1, <2>5, PidAssumption DEF IndInv, RunnerInv, Runners, OfKind, HistoryInv, RunnerJobsInv
    <3>2. announced' = announced \cup {procs[p].job}
      BY <1>7, <2>5, <3>1 DEF jobFinished, Busy
    <3>3. AnnouncedInv'
      BY <2>2, <3>1, <3>2 DEF HistoryInv, AnnouncedInv, JobsKept, IndInv, OrderInv
    <3>4. AnnouncedWhenReaped'
      <4>1. ASSUME NEW q \in forked
            PROVE  procs[q].job \in announced' <=> procs[q].st = "gone"
        <5>1. CASE q = p
          BY <3>1, <3>2, <5>1
        <5>2. CASE q # p
          <6>1. procs[q].job # procs[p].job
            BY <3>1, <5>2 DEF HistoryInv, RunnerJobsInv
          <6>2. procs[q].job \in announced <=> procs[q].st = "gone"
            BY <4>1, <5>2 DEF HistoryInv, AnnouncedWhenReaped
          <6>3. QED
            BY <3>2, <6>1, <6>2
        <5>3. QED
          BY <5>1, <5>2
      <4>2. QED
        BY <2>1, <2>2, <2>3, <4>1 DEF AnnouncedWhenReaped, JobsKept
    <3>5. QED
      BY <2>a, <2>4, <3>3, <3>4 DEF HistoryInv
  <2>6. CASE pid[SigThread] \notin Busy
    <3>1. announced' = announced
      BY <1>7, <2>6 DEF jobFinished, Busy
    <3>2. pid[SigThread] \notin Runners
      <4>1. \A t \in Threads : pc[t] # "register"
        BY <2>1 DEF IndInv, LockInv, Threads
      <4>2. QED
        BY <2>1, <2>6, <4>1 DEF IndInv, RunnerInv, Registering, Reaped
    <3>3. AnnouncedWhenReaped'
      BY <1>0, <2>1, <2>2, <2>3, <3>1, <3>2 DEF HistoryInv, AnnouncedWhenReaped, JobsKept
    <3>4. QED
      BY <2>a, <2>2, <2>4, <3>1, <3>3, AnnouncedKept DEF HistoryInv
  <2>7. QED
    BY <2>5, <2>6
<1>8. ASSUME NEW t \in Threads, scheduleFork(t)
      PROVE  HistoryInv'
  <2>1. PICK p \in Pids :
          /\ pid' = [pid EXCEPT ![t] = p] /\ forked' = forked \cup {p}
          /\ procs[p].st = "unused"
          /\ procs'[p].kind = "runner" /\ procs'[p].job = Head(waitQueue)
          /\ procs'[p].st = "running"
          /\ \A q \in Pids : q # p => procs'[q] = procs[q]
    BY <1>8, ForkFacts DEF IndInv
  <2>2. /\ up /\ up' /\ firstId' = firstId /\ m_jobId' = m_jobId /\ requests' = requests
        /\ announced' = announced /\ waitQueue # <<>> /\ waitQueue \in Seq(Nat)
        /\ waitQueue' = Tail(waitQueue) /\ m_jobId \in Nat /\ firstId \in Nat
    BY <1>8 DEF scheduleFork, IndInv, DownInv, TypeOK
  <2>3. /\ Len(waitQueue) \in Nat \ {0} /\ Len(waitQueue') = Len(waitQueue) - 1
        /\ Head(waitQueue) = waitQueue[1]
    BY <2>2, HeadTailProperties
  <2>4. /\ Head(waitQueue) = m_jobId - Len(waitQueue)
        /\ \A q \in forked : procs[q].job < Head(waitQueue)
    BY <2>2, <2>3 DEF IndInv, OrderInv
  <2>5. /\ p \notin Runners /\ Runners' = Runners \cup {p}
        /\ OfKind("shell")' = OfKind("shell")
    BY <1>0, <2>1, KindsAfterFork DEF IndInv, TypeOK, Kinds, Runners
  <2>6. \A q \in Runners : procs'[q] = procs[q] /\ procs[q].job \in Nat
    BY <1>0, <2>1, <2>5 DEF TypeOK, Proc, Runners, OfKind
  <2>7. ShellInv'
    <3>1. \A s \in Threads : pc'[s] = "system" => pc[s] = "system" /\ pid'[s] = pid[s]
      BY <1>0, <1>8, <2>1 DEF scheduleFork, TypeOK
    <3>2. QED
      BY <2>5, <3>1 DEF HistoryInv, ShellInv
  <2>8. RunnerJobsInv'
    <3>1. /\ \A q \in forked : procs'[q] = procs[q] /\ procs[q].job \in Nat
          /\ p \notin forked
      BY <1>0, <2>5, <2>6
    <3>2. \A q, r \in forked' : procs'[q].job = procs'[r].job => q = r
      BY <2>1, <2>4, <3>1 DEF HistoryInv, RunnerJobsInv
    <3>3. RunnerChildren' \subseteq forked'
      BY <2>1, <2>5, <2>6 DEF HistoryInv, RunnerJobsInv, RunnerChildren, Children
    <3>4. Busy' \subseteq forked'
      BY <1>8, <2>1 DEF scheduleFork, Busy, HistoryInv, RunnerJobsInv
    <3>5. ASSUME NEW s \in Threads, pc'[s] = "register"
          PROVE  pid'[s] \in forked'
      <4>1. CASE s = t
        BY <1>0, <2>1, <4>1 DEF TypeOK
      <4>2. CASE s # t
        <5>1. pc[s] = "register" /\ pid'[s] = pid[s]
          BY <1>0, <1>8, <2>1, <3>5, <4>2 DEF scheduleFork, TypeOK
        <5>2. QED
          BY <2>1, <5>1 DEF HistoryInv, RunnerJobsInv
      <4>3. QED
        BY <4>1, <4>2
    <3>6. \A q \in forked' : procs'[q].st # "orphan"
      BY <2>1, <3>1 DEF HistoryInv, RunnerJobsInv
    <3>7. QED
      BY <3>2, <3>3, <3>4, <3>5, <3>6 DEF RunnerJobsInv
  <2>9. StartedInv'
    <3> DEFINE f == m_jobId - Len(waitQueue)
    <3>1. /\ firstId <= f /\ m_jobId' - Len(waitQueue') = f + 1 /\ f \in Int
          /\ \A id \in firstId .. f - 1 : \E q \in forked : procs[q].job = id
      <4>1. StartedInv
        BY DEF HistoryInv
      <4>2. /\ firstId <= f
            /\ \A id \in firstId .. f - 1 : \E q \in forked : procs[q].job = id
        BY <2>2, <4>1 DEF StartedInv, HasRunner
      <4>3. f \in Int /\ m_jobId' - Len(waitQueue') = f + 1
        BY <2>2, <2>3
      <4>4. QED
        BY <4>2, <4>3
    <3>2. ASSUME NEW id \in firstId .. f
          PROVE  \E q \in forked' : procs'[q].job = id
      <4>1. CASE id = f
        BY <2>1, <2>4, <2>5, <4>1
      <4>2. CASE id # f
        <5>0. firstId \in Int /\ f \in Int /\ id \in Int
          BY <2>2, <3>1
        <5> HIDE DEF f
        <5>1. id \in firstId .. f - 1
          BY <4>2, <5>0
        <5>2. QED
          BY <1>0, <2>1, <2>6, <3>1, <5>1
      <4>3. QED
        BY <4>1, <4>2
    <3>3. firstId <= f + 1 /\ (f + 1) - 1 = f
      BY <2>2, <3>1
    <3> HIDE DEF f
    <3>4. QED
      BY <2>2, <3>1, <3>2, <3>3 DEF StartedInv, HasRunner
  <2>10. AnnouncedInv'
    <3>1. announced \subseteq Nat /\ \A id \in announced : id < m_jobId - Len(waitQueue)
      BY <1>0, <2>2 DEF HistoryInv, AnnouncedInv, TypeOK
    <3>2. \A id \in announced : id < m_jobId' - Len(waitQueue')
      BY <2>2, <2>3, <3>1
    <3>3. QED
      BY <2>2, <3>2 DEF HistoryInv, AnnouncedInv
  <2>11. AnnouncedWhenReaped'
    <3>1. procs'[p].job \notin announced'
      BY <2>1, <2>2, <2>3, <2>4 DEF HistoryInv, AnnouncedInv
    <3>2. ASSUME NEW q \in forked
          PROVE  (pc'[SigThread] = "lock" /\ pid'[SigThread] = q)
                   <=> (pc[SigThread] = "lock" /\ pid[SigThread] = q)
      <4>1. CASE t = SigThread
        BY <1>0, <1>8, <4>1 DEF scheduleFork, TypeOK
      <4>2. CASE t # SigThread
        BY <1>0, <1>8, <2>1, <4>2 DEF scheduleFork, TypeOK
      <4>3. QED
        BY <4>1, <4>2
    <3>3. ASSUME NEW q \in forked
          PROVE  procs'[q].job \in announced' <=>
                   /\ procs'[q].st = "gone"
                   /\ ~(pc'[SigThread] = "lock" /\ pid'[SigThread] = q)
      <4>1. procs'[q] = procs[q] /\ announced' = announced
        BY <1>0, <2>2, <2>6, <3>3
      <4>2. QED
        BY <3>2, <3>3, <4>1 DEF HistoryInv, AnnouncedWhenReaped
    <3>4. QED
      BY <2>1, <3>1, <3>3 DEF AnnouncedWhenReaped
  <2>12. QED
    BY <2>7, <2>8, <2>9, <2>10, <2>11 DEF HistoryInv
<1>9. ASSUME NEW p \in Pids, Exit(p)
      PROVE  HistoryInv'
  <2>1. /\ procs[p].st = "running"
        /\ Runners' = Runners /\ OfKind("shell")' = OfKind("shell")
        /\ \A q \in Runners :
             /\ procs'[q].job = procs[q].job
             /\ procs'[q].st = IF q = p THEN "zombie" ELSE procs[q].st
    BY <1>0, <1>9, StateFacts DEF Exit, TypeOK, ProcStates, Runners, OfKind
  <2>2. JobsKept /\ announced' = announced /\ pc' = pc /\ pid' = pid /\ Busy' = Busy
    BY <1>9, <2>1 DEF JobsKept, Exit, Busy
  <2>3. ShellInv'
    BY <2>1, <2>2 DEF HistoryInv, ShellInv
  <2>4. AnnouncedWhenReaped'
    BY <1>0, <2>1, <2>2 DEF HistoryInv, AnnouncedWhenReaped, JobsKept
  <2>5. RunnerJobsInv' /\ StartedInv'
    BY <1>a, <2>2
  <2>6. QED
    BY <2>2, <2>3, <2>4, <2>5, AnnouncedKept DEF HistoryInv
<1>10. ASSUME NEW p \in Pids, OrphanExit(p)
       PROVE  HistoryInv'
  <2>1. /\ procs[p].st = "orphan"
        /\ Runners' = Runners /\ OfKind("shell")' = OfKind("shell")
        /\ \A q \in Runners :
             /\ procs'[q].job = procs[q].job
             /\ procs'[q].st = IF q = p THEN "gone" ELSE procs[q].st
    BY <1>0, <1>10, StateFacts DEF OrphanExit, TypeOK, ProcStates, Runners, OfKind
  <2>2. JobsKept /\ announced' = announced /\ pc' = pc /\ pid' = pid /\ Busy' = Busy
    BY <1>10, <2>1 DEF JobsKept, OrphanExit, Busy
  <2>3. ShellInv'
    BY <2>1, <2>2 DEF HistoryInv, ShellInv
  <2>4. AnnouncedWhenReaped'
    <3>1. p \notin forked
      BY <2>1 DEF HistoryInv, RunnerJobsInv
    <3>2. QED
      BY <1>0, <2>1, <2>2, <3>1 DEF HistoryInv, AnnouncedWhenReaped, JobsKept
  <2>5. RunnerJobsInv' /\ StartedInv'
    BY <1>a, <2>2
  <2>6. QED
    BY <2>2, <2>3, <2>4, <2>5, AnnouncedKept DEF HistoryInv
<1>11. ASSUME \/ sigwait
              \/ \E t \in Threads : schedulePostpone(t) \/ scheduleRegister(t)
              \/ UNCHANGED vars
       PROVE  HistoryInv'
  <2>1. JobsKept /\ announced' = announced /\ procs' = procs /\ pid' = pid
    BY <1>11 DEF sigwait, schedulePostpone, scheduleRegister, vars, JobsKept, Runners, OfKind
  <2>2. \A t \in Threads : /\ pc'[t] = "system" => pc[t] = "system"
                           /\ pc'[t] = "lock" <=> pc[t] = "lock"
    BY <1>0, <1>11 DEF sigwait, schedulePostpone, scheduleRegister, Return, Home, vars, TypeOK
  <2>3. ShellInv'
    BY <2>1, <2>2 DEF HistoryInv, ShellInv, OfKind
  <2>4. AnnouncedWhenReaped'
    BY <1>0, <2>1, <2>2 DEF HistoryInv, AnnouncedWhenReaped, JobsKept
  <2>5. \A t \in Threads : pc'[t] = "register" => pc[t] = "register" /\ pid'[t] = pid[t]
    BY <1>0, <1>11 DEF sigwait, schedulePostpone, scheduleRegister, Return, Home, vars, TypeOK
  <2>6. Busy' \subseteq forked
    <3>1. CASE Busy' = Busy
      BY <3>1 DEF HistoryInv, RunnerJobsInv
    <3>2. ASSUME NEW t \in Threads, scheduleRegister(t)
          PROVE  Busy' \subseteq forked
      BY <3>2 DEF scheduleRegister, Busy, HistoryInv, RunnerJobsInv
    <3>3. QED
      BY <1>11, <3>1, <3>2 DEF sigwait, schedulePostpone, vars, Busy
  <2>7. RunnerJobsInv' /\ StartedInv'
    <3>1. RunnerJobsInv /\ StartedInv
      BY DEF HistoryInv
    <3>2. \A t \in Threads : pc'[t] = "register" => pid'[t] \in forked
      BY <2>5, <3>1 DEF RunnerJobsInv
    <3>3. QED
      BY <1>0, <2>1, <2>6, <3>1, <3>2, JobsKeptStep
  <2>8. QED
    BY <2>1, <2>3, <2>4, <2>7, AnnouncedKept DEF HistoryInv
<1>12. QED
  BY <1>1, <1>2, <1>3, <1>4, <1>5, <1>6, <1>7, <1>8, <1>9, <1>10, <1>11
     DEF Next, Crash, scheduleForkFails, RunnerExit, ShellExit, ReplExit

\* Both invariants hold in every reachable state.
LEMMA HistoryInvAlways == Spec => [](IndInv /\ HistoryInv)
<1>1. Init => HistoryInv
  BY InitHistoryInv
<1>2. IndInv /\ HistoryInv /\ [Next]_vars => HistoryInv'
  BY NextHistoryInv
<1>3. QED
  BY <1>1, <1>2, IndInvAlways, PTL DEF Spec

\* Every JobFinishedEvent is sent, and none before the TestRunner was reaped,
\* however exits, the single pending SIGCHLD, wait() and the mutex interleave.
THEOREM AnnouncedWhenReapedAlways == Spec => []AnnouncedWhenReaped
<1>1. HistoryInv => AnnouncedWhenReaped
  BY DEF HistoryInv
<1>2. QED
  BY <1>1, HistoryInvAlways, PTL

\* An accepted id waits or has a TestRunner, and never both: no path through
\* create(), schedule() and jobFinished() drops one or hands it out twice.
THEOREM NoJobVanishesAlways == Spec => []NoJobVanishes
<1>1. ASSUME IndInv, HistoryInv, up, NEW id \in firstId .. m_jobId - 1
      PROVE  (\E i \in 1 .. Len(waitQueue) : waitQueue[i] = id)
               # HasRunner(id)
  <2> DEFINE f == m_jobId - Len(waitQueue)
  <2>1. /\ m_jobId \in Nat /\ Len(waitQueue) \in Nat /\ firstId \in Nat /\ id \in Int
        /\ Len(waitQueue) <= m_jobId
        /\ \A i \in 1 .. Len(waitQueue) : waitQueue[i] = f + (i - 1)
        /\ \A p \in forked : procs[p].job < f
        /\ \A j \in firstId .. f - 1 : HasRunner(j)
    BY <1>1 DEF IndInv, TypeOK, OrderInv, HistoryInv, StartedInv
  <2>2. CASE id >= f
    <3>1. (id - f) + 1 \in 1 .. Len(waitQueue) /\ waitQueue[(id - f) + 1] = id
      <4>1. id <= m_jobId - 1 /\ f \in Int
        BY <1>1, <2>1
      <4>2. (id - f) + 1 \in 1 .. Len(waitQueue)
        BY <2>1, <2>2, <4>1
      <4>3. waitQueue[(id - f) + 1] = f + (((id - f) + 1) - 1)
        BY <2>1, <4>2
      <4>4. f + (((id - f) + 1) - 1) = id
        BY <2>1, <4>1
      <4>5. QED
        BY <4>2, <4>3, <4>4
    <3>2. ~ HasRunner(id)
      BY <2>1, <2>2 DEF HasRunner
    <3>3. QED
      BY <3>1, <3>2
  <2>3. CASE id < f
    <3>1. HasRunner(id)
      BY <1>1, <2>1, <2>3
    <3>2. ~ \E i \in 1 .. Len(waitQueue) : waitQueue[i] = id
      BY <2>1, <2>3
    <3>3. QED
      BY <3>1, <3>2
  <2>4. id >= f \/ id < f
    BY <2>1
  <2>5. QED
    BY <2>2, <2>3, <2>4
<1>2. IndInv /\ HistoryInv => NoJobVanishes
  BY <1>1 DEF NoJobVanishes, Accepted
<1>3. QED
  BY <1>2, HistoryInvAlways, PTL

-----------------------------------------------------------------------------
(* The scheduler implements the abstract job queue *)

\* The client's view of the process table, as the refinement mapping reads it.
RunningPids == {p \in Runners : procs[p].st = "running"}
BegunJobs == {procs[p].job : p \in forked}
StartedJobs == {procs[p].job : p \in Runners}
RunningJobs == {procs[p].job : p \in RunningPids}

\* As long as nobody is about to register a child, the running jobs are no more
\* than the busy slots.
LEMMA RunningFitsSlots ==
  ASSUME IndInv, \A t \in Threads : pc[t] # "register"
  PROVE  Cardinality(RunningJobs) <= Cardinality(Busy) /\ Cardinality(RunningJobs) \in Nat
<1>1. RunningPids \subseteq Busy /\ IsFiniteSet(Busy) /\ Cardinality(Busy) \in Nat
  BY BusyCount DEF IndInv, SlotInv, RunnerInv, RunningPids, Children, Registering, Runners, OfKind
<1>2. IsFiniteSet(RunningPids) /\ Cardinality(RunningPids) <= Cardinality(Busy)
  BY <1>1, FS_Subset
<1> DEFINE jobOf == [p \in RunningPids |-> procs[p].job]
<1>3. jobOf \in Surjection(RunningPids, RunningJobs)
  BY DEF Surjection, RunningJobs
<1> HIDE DEF jobOf
<1>4. IsFiniteSet(RunningJobs) /\ Cardinality(RunningJobs) <= Cardinality(RunningPids)
  BY <1>2, <1>3, FS_Surjection
<1>5. Cardinality(RunningPids) \in Nat /\ Cardinality(RunningJobs) \in Nat
  BY <1>2, <1>4, FS_CardinalityType
<1>6. QED
  BY <1>1, <1>2, <1>4, <1>5

\* A step that changes no request file, no id handed out, no waiting job and no
\* TestRunner's life is invisible to a client.
LEMMA InvisibleStep ==
  ASSUME requests' = requests, intact' = intact, Accepted' = Accepted,
         waitQueue' = waitQueue, Runners' = Runners,
         forked' = forked, forked \subseteq Runners,
         \A p \in Runners : /\ procs'[p].job = procs[p].job
                            /\ procs'[p].st = "running" <=> procs[p].st = "running"
  PROVE  UNCHANGED Abstract!jobVars
<1>1. StartedJobs' = StartedJobs /\ BegunJobs' = BegunJobs
  BY DEF StartedJobs, BegunJobs
<1>2. RunningPids' = RunningPids
  BY DEF RunningPids
<1>3. RunningJobs' = RunningJobs
  BY <1>2 DEF RunningJobs, RunningPids
<1>4. QED
  BY <1>1, <1>3 DEF Abstract!jobVars, BegunJobs, StartedJobs, RunningJobs, RunningPids

\* create() is Submit, a fork is StartFirst, the exit of a TestRunner is Finish,
\* the end of the service is ServiceEnds, and no other step is visible.
LEMMA StepImplements ==
  ASSUME IndInv, HistoryInv, [Next]_vars
  PROVE  [Abstract!JobNext]_(Abstract!jobVars)
<1> USE MaxAssumption, ThreadAssumption, PidAssumption, BoundAssumption
<1> USE DEF dbVars, schedVars, threadVars, kernelVars
<1>0. TypeOK /\ forked \subseteq Runners /\ \A p \in Runners : p \in Pids
  BY DEF IndInv, OrderInv, Runners, OfKind
<1>1. ASSUME Start \/ \E w \in Workers : cloneScriptRepo(w)
      PROVE  UNCHANGED Abstract!jobVars
  <2>1. PICK k \in {"repl", "shell"}, p \in Pids : Spawn(p, k, 0)
    BY <1>1 DEF Start, cloneScriptRepo
  <2>2. /\ procs[p].st = "unused" /\ procs'[p].kind = k
        /\ \A q \in Pids : q # p => procs'[q] = procs[q]
    <3>1. k \in Kinds /\ 0 \in Nat /\ procs \in [Pids -> Proc]
      BY <1>0 DEF TypeOK, Kinds
    <3>2. QED
      BY <2>1, <3>1, SpawnFacts
  <2>3. Runners' = Runners /\ \A q \in Runners : procs'[q] = procs[q]
    BY <1>0, <2>2, KindsAfterFork DEF IndInv, TypeOK, Kinds, Runners
  <2>4. requests' = requests /\ intact' = intact /\ waitQueue' = waitQueue /\ forked' = forked
    BY <1>1 DEF Start, cloneScriptRepo
  <2>5. Accepted' = Accepted
    <3>1. CASE Start
      <4>1. Accepted = 0 .. 0 - 1 /\ firstId' = m_jobId' /\ m_jobId' = FirstFree(requests)
        BY <3>1 DEF Start, IndInv, DownInv, Accepted
      <4>2. m_jobId' \in Nat
        BY <1>0, <4>1, FirstFreeIsNew DEF IndInv, IdInv, TypeOK
      <4>3. PICK n \in Nat : n = m_jobId'
        BY <4>2
      <4>4. Accepted' = n .. n - 1
        BY <4>1, <4>3 DEF Accepted
      <4>5. \A i : i \notin n .. n - 1
        BY <4>3
      <4>6. \A i : i \notin 0 .. 0 - 1
        OBVIOUS
      <4>7. QED
        BY <4>1, <4>4, <4>5, <4>6, Zenon
    <3>2. CASE \E w \in Workers : cloneScriptRepo(w)
      BY <3>2 DEF cloneScriptRepo, Accepted
    <3>3. QED
      BY <1>1, <3>1, <3>2
  <2>6. QED
    BY <1>0, <2>3, <2>4, <2>5, InvisibleStep
<1>2. ASSUME Down
      PROVE  Abstract!JobNext
  <2>1. /\ Runners' = Runners
        /\ \A q \in Runners : /\ procs'[q].job = procs[q].job
                              /\ procs'[q].st # "running"
    BY <1>0, <1>2, DownFacts DEF TypeOK, Runners, OfKind
  <2>2. StartedJobs' = StartedJobs /\ RunningJobs' = {}
    BY <2>1 DEF StartedJobs, RunningJobs, RunningPids
  <2>3. waitQueue' = <<>> /\ requests' = requests /\ intact' = intact /\ forked' = {}
    BY <1>2 DEF Down
  <2>a. BegunJobs' = {} /\ Accepted' = {}
    BY <1>2, <2>3 DEF Down, BegunJobs, Accepted
  <2>4. Abstract!ServiceEnds
    BY <2>2, <2>3, <2>a DEF Abstract!ServiceEnds, BegunJobs, StartedJobs, RunningJobs, RunningPids
  <2>5. QED
    BY <2>4 DEF Abstract!JobNext
<1>3. ASSUME NEW w \in Workers, create(w)
      PROVE  Abstract!JobNext
  <2>1. /\ up /\ m_jobId \in Nat /\ m_jobId < MaxJobs /\ firstId \in Nat
        /\ \/ requests' = requests \cup {m_jobId} /\ intact' = intact
           \/ requests' = requests /\ intact' = FALSE
        /\ m_jobId' = m_jobId + 1 /\ firstId' = firstId
        /\ waitQueue' = Append(waitQueue, m_jobId) /\ procs' = procs /\ forked' = forked
    BY <1>0, <1>3 DEF create, TypeOK
  <2>2. m_jobId \in 0 .. MaxJobs - 1 /\ \A i \in Accepted : i < m_jobId
    BY <2>1 DEF Accepted
  <2>3. StartedJobs' = StartedJobs /\ RunningJobs' = RunningJobs /\ BegunJobs' = BegunJobs
    BY <2>1 DEF StartedJobs, RunningJobs, BegunJobs, RunningPids, Runners, OfKind
  <2>4. Accepted' = Accepted \cup {m_jobId}
    <3>1. firstId <= m_jobId
      <4>1. firstId <= m_jobId - Len(waitQueue)
        BY <2>1 DEF HistoryInv, StartedInv
      <4>2. Len(waitQueue) \in Nat
        BY <1>0 DEF TypeOK
      <4>3. QED
        BY <2>1, <4>1, <4>2
    <3>2. QED
      BY <2>1, <3>1 DEF Accepted
  <2>5. ASSUME intact
        PROVE  \A i \in requests \cup StartedJobs : i < m_jobId
    <3>1. requests = 0 .. m_jobId - 1
      BY <2>1, <2>5 DEF IndInv, IdInv
    <3>2. StartedJobs \subseteq requests
      BY <2>5 DEF IndInv, OrderInv, StartedJobs
    <3>3. QED
      BY <2>1, <3>1, <3>2
  <2>6. Abstract!Submit
    BY <2>1, <2>2, <2>3, <2>4, <2>5
       DEF Abstract!Submit, BegunJobs, StartedJobs, RunningJobs, RunningPids
  <2>7. QED
    BY <2>6 DEF Abstract!JobNext
<1>4. ASSUME NEW t \in Threads, scheduleFork(t)
      PROVE  Abstract!JobNext
  <2>1. PICK p \in Pids :
          /\ procs[p].st = "unused" /\ forked' = forked \cup {p}
          /\ procs'[p].kind = "runner" /\ procs'[p].job = Head(waitQueue)
          /\ procs'[p].st = "running"
          /\ \A q \in Pids : q # p => procs'[q] = procs[q]
    BY <1>4, ForkFacts DEF IndInv
  <2>2. /\ up /\ waitQueue # <<>> /\ waitQueue' = Tail(waitQueue) /\ requests' = requests
        /\ waitQueue \in Seq(Nat) /\ m_jobId \in Nat
        /\ intact' = intact /\ Accepted' = Accepted
        /\ pc[t] = "schedule" /\ SlotFree
    BY <1>4 DEF scheduleFork, IndInv, DownInv, TypeOK, Accepted
  <2>3. /\ p \notin Runners /\ Runners' = Runners \cup {p}
        /\ \A q \in Runners : procs'[q] = procs[q]
    BY <1>0, <2>1, KindsAfterFork DEF IndInv, TypeOK, Kinds, Runners
  <2>4. /\ StartedJobs' = StartedJobs \cup {Head(waitQueue)}
        /\ BegunJobs' = BegunJobs \cup {Head(waitQueue)}
    BY <1>0, <2>1, <2>3 DEF StartedJobs, BegunJobs
  <2>5. RunningPids' = RunningPids \cup {p}
    BY <2>1, <2>3 DEF RunningPids
  <2>6. RunningJobs' = RunningJobs \cup {Head(waitQueue)}
    BY <2>1, <2>3, <2>5 DEF RunningJobs, RunningPids
  <2>7. /\ \A i \in BegunJobs : i < Head(waitQueue)
        /\ intact => \A i \in StartedJobs : i < Head(waitQueue)
    <3>1. Len(waitQueue) \in Nat \ {0} /\ Head(waitQueue) = waitQueue[1]
      BY <2>2, HeadTailProperties
    <3>2. Head(waitQueue) = m_jobId - Len(waitQueue)
      BY <2>2, <3>1 DEF IndInv, OrderInv
    <3>3. QED
      BY <2>2, <3>2 DEF IndInv, OrderInv, StartedJobs, BegunJobs
  <2>8. Cardinality(RunningJobs) < maxConcurrentJobs
    <3>1. \A s \in Threads : pc[s] # "register"
      BY <2>2 DEF IndInv, LockInv
    <3>2. /\ Cardinality(RunningJobs) <= Cardinality(Busy) /\ Cardinality(RunningJobs) \in Nat
          /\ Cardinality(Busy) \in Nat
      BY <3>1, RunningFitsSlots, BusyCount DEF IndInv
    <3>3. Cardinality(Busy) < maxConcurrentJobs
      BY <2>2 DEF SlotFree, Busy
    <3>4. QED
      BY <3>2, <3>3
  <2>9. Abstract!StartFirst
    <3>1. /\ waitQueue # <<>> /\ waitQueue' = Tail(waitQueue) /\ requests' = requests
          /\ intact' = intact /\ Accepted' = Accepted
      BY <2>2
    <3>2. QED
      BY <2>4, <2>6, <2>7, <2>8, <3>1
         DEF Abstract!StartFirst, Abstract!Cardinality, Cardinality,
             BegunJobs, StartedJobs, RunningJobs, RunningPids
  <2>10. QED
    BY <2>9 DEF Abstract!JobNext
<1>5. ASSUME NEW p \in Pids, RunnerExit(p)
      PROVE  Abstract!JobNext
  <2>1. /\ p \in RunningPids /\ Runners' = Runners
        /\ \A q \in Runners : /\ procs'[q].job = procs[q].job
                              /\ procs'[q].st = IF q = p THEN "zombie" ELSE procs[q].st
        /\ requests' = requests /\ waitQueue' = waitQueue
        /\ intact' = intact /\ forked' = forked /\ Accepted' = Accepted
    BY <1>0, <1>5, StateFacts DEF RunnerExit, Exit, TypeOK, ProcStates, RunningPids, Runners, OfKind, Accepted
  <2>2. StartedJobs' = StartedJobs /\ BegunJobs' = BegunJobs
    BY <1>0, <2>1 DEF StartedJobs, BegunJobs
  <2>3. RunningPids' = RunningPids \ {p} /\ RunningPids \subseteq Runners
    BY <2>1 DEF RunningPids
  <2>4. \A q \in RunningPids : q # p => procs[q].job # procs[p].job
    <3>1. RunningPids \subseteq forked
      BY DEF HistoryInv, RunnerJobsInv, RunnerChildren, Children, RunningPids, Runners, OfKind
    <3>2. QED
      BY <2>1, <3>1 DEF HistoryInv, RunnerJobsInv
  <2>5. procs[p].job \in RunningJobs /\ RunningJobs' = RunningJobs \ {procs[p].job}
    <3>1. \A q \in RunningPids : procs'[q].job = procs[q].job
      BY <2>1, <2>3
    <3>2. RunningJobs' = {procs[q].job : q \in RunningPids \ {p}}
      BY <2>3, <3>1 DEF RunningJobs
    <3>3. QED
      BY <2>1, <2>4, <3>2 DEF RunningJobs
  <2>6. Abstract!Finish
    BY <2>1, <2>2, <2>5 DEF Abstract!Finish, BegunJobs, StartedJobs, RunningJobs, RunningPids
  <2>7. QED
    BY <2>6 DEF Abstract!JobNext
<1>6. ASSUME NEW p \in Pids, ShellExit(p) \/ ReplExit(p) \/ OrphanExit(p)
      PROVE  UNCHANGED Abstract!jobVars
  <2>1. /\ Runners' = Runners
        /\ \A q \in Runners : /\ procs'[q].job = procs[q].job
                              /\ procs'[q].st = "running" <=> procs[q].st = "running"
    <3>1. CASE ShellExit(p) \/ ReplExit(p)
      <4>1. /\ procs[p].kind # "runner" /\ procs[p].st = "running"
            /\ procs' = [procs EXCEPT ![p].st = "zombie"]
        BY <3>1 DEF ShellExit, ReplExit, Exit
      <4>2. QED
        BY <1>0, <4>1, StateFacts DEF TypeOK, ProcStates, Runners, OfKind
    <3>2. CASE OrphanExit(p)
      BY <1>0, <3>2, StateFacts DEF OrphanExit, TypeOK, ProcStates, Runners, OfKind
    <3>3. QED
      BY <1>6, <3>1, <3>2
  <2>2. /\ requests' = requests /\ waitQueue' = waitQueue
        /\ intact' = intact /\ forked' = forked /\ Accepted' = Accepted
    BY <1>6 DEF ShellExit, ReplExit, Exit, OrphanExit, Accepted
  <2>3. QED
    BY <1>0, <2>1, <2>2, InvisibleStep
<1>7. ASSUME wait \/ \E w \in Workers : systemReturns(w)
      PROVE  UNCHANGED Abstract!jobVars
  <2>1. procs' = procs \/ \E p \in Pids : Reap(p)
    BY <1>7 DEF wait, systemReturns, IndInv, RunnerInv, Threads
  <2>2. /\ Runners' = Runners
        /\ \A q \in Runners : /\ procs'[q].job = procs[q].job
                              /\ procs'[q].st = "running" <=> procs[q].st = "running"
    <3>1. CASE procs' = procs
      BY <3>1 DEF Runners, OfKind
    <3>2. ASSUME NEW p \in Pids, Reap(p)
          PROVE  <2>2
      BY <1>0, <3>2, StateFacts DEF Reap, TypeOK, ProcStates, Runners, OfKind
    <3>3. QED
      BY <2>1, <3>1, <3>2
  <2>3. /\ requests' = requests /\ waitQueue' = waitQueue
        /\ intact' = intact /\ forked' = forked /\ Accepted' = Accepted
    BY <1>7 DEF wait, systemReturns, Accepted
  <2>4. QED
    BY <1>0, <2>2, <2>3, InvisibleStep
<1>8. ASSUME \/ sigwait \/ jobFinished
             \/ \E t \in Threads : schedulePostpone(t) \/ scheduleRegister(t)
             \/ UNCHANGED vars
      PROVE  UNCHANGED Abstract!jobVars
  <2>1. /\ procs' = procs /\ requests' = requests /\ waitQueue' = waitQueue
        /\ intact' = intact /\ forked' = forked /\ Accepted' = Accepted
    BY <1>8 DEF sigwait, jobFinished, schedulePostpone, scheduleRegister, vars, Accepted
  <2>2. QED
    BY <1>0, <2>1, InvisibleStep DEF Runners, OfKind
<1>9. QED
  BY <1>1, <1>2, <1>3, <1>4, <1>5, <1>6, <1>7, <1>8 DEF Next, Crash, scheduleForkFails

\* Threads, mutex, signals and pids implement the queue a client sees: within a
\* service process ids are fresh, jobs start in order and once, at most
\* maxConcurrentJobs at a time; across crashes and restarts ids are fresh as
\* long as every request file could be created.  For every number of slots,
\* workers, processes, crashes and restarts.
THEOREM SchedulerImplementsJobQueue == Spec => ImplementsJobQueue
<1>1. Init => Abstract!JobInit
  BY DEF Init, Abstract!JobInit, Runners, OfKind, Accepted
<1>2. IndInv /\ HistoryInv /\ [Next]_vars => [Abstract!JobNext]_(Abstract!jobVars)
  BY StepImplements
<1>3. QED
  BY <1>1, <1>2, HistoryInvAlways, PTL DEF Spec, ImplementsJobQueue, Abstract!JobSpec

-----------------------------------------------------------------------------
(* Slots recover while the TestRunners are the only children that end *)

\* The REPL runs as long as the service does, so wait() never returns -1, and
\* only a TestRunner can be a zombie.
OnlyRunnersEnd ==
  /\ OfKind("shell") = {}
  /\ \A p \in Pids : procs[p].kind = "none" => procs[p].st = "unused"
  /\ \A p \in OfKind("repl") : procs[p].st # "zombie"
  /\ up => \E p \in OfKind("repl") : procs[p].st = "running"

\* A round of the signal thread frees a slot before it fills one, and the child
\* that schedule() is about to register still runs, or its SIGCHLD is pending,
\* or the signal thread took that signal and waits for the mutex.
RoundInv ==
  /\ pc[SigThread] = "lock" => pid[SigThread] \in Runners
  /\ pc[SigThread] = "schedule" => Cardinality(Busy) < maxConcurrentJobs
  /\ \A t \in Threads :
       pc[t] = "register" =>
         \/ procs[pid[t]].st = "running"
         \/ sigPending
         \/ pc[SigThread] \in {"wait", "lock"}

RecoverInv == OnlyRunnersEnd /\ RoundInv /\ SlotsRecover

\* With no client that clones and a REPL that stays, Init establishes it.
LEMMA InitRecoverInv ==
  ASSUME Init
  PROVE  RecoverInv
<1>1. SigThread \in Threads /\ up = FALSE /\ \A t \in Threads : pc[t] \in {"idle", "sigwait"}
  BY DEF Init, Threads, Home
<1>2. OnlyRunnersEnd
  BY DEF Init, OnlyRunnersEnd, OfKind
<1>3. QED
  BY <1>1, <1>2 DEF RecoverInv, RoundInv, SlotsRecover

\* An exit or a wait() that leaves the REPL running keeps it that way.
LEMMA OnlyRunnersEndKept ==
  ASSUME OnlyRunnersEnd, up' = up,
         \A q \in Pids : /\ procs'[q].kind = procs[q].kind
                         /\ procs[q].st = "unused" => procs'[q].st = "unused"
                         /\ procs[q].st = "running" /\ procs[q].kind = "repl" => procs'[q].st = "running"
                         /\ procs'[q].st = "zombie" /\ procs[q].kind = "repl" => procs[q].st = "zombie"
  PROVE  OnlyRunnersEnd' /\ Runners' = Runners
<1>1. /\ OfKind("shell")' = OfKind("shell") /\ OfKind("repl")' = OfKind("repl")
      /\ Runners' = Runners
  BY DEF OfKind, Runners
<1>2. \A q \in OfKind("repl") : q \in Pids /\ procs[q].kind = "repl"
  BY DEF OfKind
<1>3. QED
  BY <1>1, <1>2 DEF OnlyRunnersEnd

\* A step that leaves the children, the slots and the signal alone and moves no
\* thread into the critical section or out of a round of the signal thread.
LEMMA RoundKept ==
  ASSUME RecoverInv, up' = up, procs' = procs, activeJobs' = activeJobs,
         sigPending' = sigPending, pid' = pid,
         pc'[SigThread] = pc[SigThread],
         \A t \in Threads : pc'[t] = "register" => pc[t] = "register"
  PROVE  RecoverInv'
<1>1. OnlyRunnersEnd'
  BY DEF RecoverInv, OnlyRunnersEnd, OfKind
<1>2. RoundInv'
  BY DEF RecoverInv, RoundInv, Runners, OfKind, Busy
<1>3. SlotsRecover'
  BY DEF RecoverInv, SlotsRecover, Runners, OfKind
<1>4. QED
  BY <1>1, <1>2, <1>3 DEF RecoverInv

\* Every step preserves it.
LEMMA NextRecoverInv ==
  ASSUME ReplMayExit = FALSE, MaxClones = 0, IndInv, ShellInv, RecoverInv, [Next]_vars
  PROVE  RecoverInv'
<1> USE MaxAssumption, ThreadAssumption, PidAssumption, BoundAssumption
<1> USE DEF dbVars, schedVars, threadVars, kernelVars
<1>0. /\ TypeOK /\ SigThread \in Threads /\ procs \in [Pids -> Proc]
      /\ \A w \in Workers : w \in Threads /\ w # SigThread
      /\ Cardinality(Busy) \in Nat
  BY BusyCount DEF IndInv, Threads, TypeOK
<1>1. ASSUME Start
      PROVE  RecoverInv'
  <2>1. PICK p \in Pids : Spawn(p, "repl", 0)
    BY <1>1 DEF Start
  <2>2. /\ procs[p].st = "unused" /\ procs'[p].kind = "repl" /\ procs'[p].st = "running"
        /\ \A q \in Pids : q # p => procs'[q] = procs[q]
    BY <1>0, <2>1, SpawnFacts DEF TypeOK, Kinds
  <2>3. /\ OfKind("repl")' = OfKind("repl") \cup {p} /\ OfKind("shell")' = OfKind("shell")
        /\ \A q \in OfKind("repl") : procs'[q] = procs[q]
    BY <1>0, <2>2, KindsAfterFork DEF IndInv, Kinds
  <2>4. OnlyRunnersEnd'
    BY <2>2, <2>3 DEF RecoverInv, OnlyRunnersEnd
  <2>5. sigPending' = TRUE /\ pc' = pc /\ \A t \in Threads : pc[t] \notin {"lock", "schedule", "register"}
    BY <1>1 DEF Start, IndInv, DownInv
  <2>6. QED
    BY <1>0, <2>4, <2>5 DEF RecoverInv, RoundInv, SlotsRecover
<1>2. ASSUME Down
      PROVE  RecoverInv'
  <2>1. \A q \in Pids : /\ procs'[q].kind = procs[q].kind
                        /\ procs'[q].st # "zombie"
    BY <1>0, <1>2, DownFacts
  <2>2. \A q \in Pids : procs[q].st = "unused" => procs'[q].st = "unused"
    BY <1>0, <1>2 DEF Down, WithoutParent, Proc
  <2>3. up' = FALSE /\ \A t \in Threads : pc'[t] \in {"idle", "sigwait"}
    BY <1>2 DEF Down, Home
  <2>4. OnlyRunnersEnd'
    BY <2>1, <2>2, <2>3 DEF RecoverInv, OnlyRunnersEnd, OfKind
  <2>5. QED
    BY <1>0, <2>3, <2>4 DEF RecoverInv, RoundInv, SlotsRecover
<1>3. ASSUME NEW w \in Workers, cloneScriptRepo(w)
      PROVE  RecoverInv'
  <2>1. Cardinality({}) = 0
    BY FS_EmptySet
  <2>2. Cardinality(OfKind("shell")) < 0
    BY <1>3 DEF cloneScriptRepo
  <2>3. OfKind("shell") = {}
    BY DEF RecoverInv, OnlyRunnersEnd
  <2>4. QED
    BY <2>1, <2>2, <2>3
<1>4. ASSUME NEW w \in Workers, create(w)
      PROVE  RecoverInv'
  BY <1>0, <1>4, RoundKept DEF create, TypeOK
<1>5. ASSUME NEW p \in Pids, Reap(p)
      PROVE  p \in Runners
  BY <1>0, <1>5 DEF Reap, Proc, Kinds, RecoverInv, OnlyRunnersEnd, OfKind, Runners
<1>6. ASSUME sigwait
      PROVE  RecoverInv'
  <2>1. /\ up' = up /\ procs' = procs /\ activeJobs' = activeJobs /\ pid' = pid
        /\ pc'[SigThread] = "wait"
    BY <1>0, <1>6 DEF sigwait, TypeOK
  <2>2. OnlyRunnersEnd'
    BY <2>1 DEF RecoverInv, OnlyRunnersEnd, OfKind
  <2>3. QED
    BY <2>1, <2>2 DEF RecoverInv, RoundInv, SlotsRecover
<1>7. ASSUME wait
      PROVE  RecoverInv'
  <2>1. Children # {}
    BY <1>7 DEF wait, IndInv, DownInv, RecoverInv, OnlyRunnersEnd, OfKind, Children, Threads
  <2>2. PICK p \in Pids : Reap(p) /\ pid' = [pid EXCEPT ![SigThread] = p]
    BY <1>7, <2>1 DEF wait
  <2>3. \A q \in Pids : /\ procs'[q].kind = procs[q].kind
                        /\ procs'[q].st = IF q = p THEN "gone" ELSE procs[q].st
    BY <1>0, <2>2, StateFacts DEF Reap, ProcStates
  <2>4. /\ p \in Runners /\ Runners' = Runners /\ procs[p].st = "zombie"
        /\ procs[p].kind = "runner"
    BY <1>5, <2>2, <2>3 DEF Runners, OfKind, Reap
  <2>5. pc'[SigThread] = "lock" /\ pid'[SigThread] = p
    BY <1>0, <1>7, <2>2 DEF wait, TypeOK
  <2>6. OnlyRunnersEnd'
    <3>1. up' = up
      BY <1>7 DEF wait
    <3>2. QED
      BY <2>3, <2>4, <3>1, OnlyRunnersEndKept DEF RecoverInv
  <2>7. QED
    BY <2>4, <2>5, <2>6 DEF RecoverInv, RoundInv, SlotsRecover
<1>8. ASSUME jobFinished
      PROVE  RecoverInv'
  <2>1. /\ pc[SigThread] = "lock" /\ mutex = NoThread /\ pc' = [pc EXCEPT ![SigThread] = "schedule"]
        /\ up' = up /\ procs' = procs /\ sigPending' = sigPending
    BY <1>8 DEF jobFinished
  <2>2. \A t \in Threads : pc[t] # "register" /\ pc'[t] # "register"
    BY <1>0, <2>1 DEF IndInv, LockInv, TypeOK, Threads
  <2>3. pid[SigThread] \in Busy
    BY <2>1, <2>2 DEF RecoverInv, RoundInv, IndInv, RunnerInv, Reaped, Registering
  <2>4. Busy' = Busy \ {pid[SigThread]}
    BY <1>8, <2>3 DEF jobFinished, Busy
  <2>5. Cardinality(Busy') < maxConcurrentJobs
    <3>1. Cardinality(Busy') = Cardinality(Busy) - 1
      BY <2>3, <2>4, FS_RemoveElement DEF IndInv, SlotInv
    <3>2. Cardinality(Busy) <= maxConcurrentJobs
      BY DEF IndInv, SlotInv
    <3>3. QED
      BY <1>0, <3>1, <3>2
  <2>6. pc'[SigThread] = "schedule"
    BY <1>0, <2>1 DEF TypeOK
  <2>7. OnlyRunnersEnd'
    BY <2>1 DEF RecoverInv, OnlyRunnersEnd, OfKind
  <2>8. QED
    BY <2>2, <2>5, <2>6, <2>7 DEF RecoverInv, RoundInv, SlotsRecover
<1>9. ASSUME NEW t \in Threads, schedulePostpone(t)
      PROVE  RecoverInv'
  <2>1. /\ pc[t] = "schedule" /\ pc' = [pc EXCEPT ![t] = Home(t)]
        /\ up' = up /\ procs' = procs /\ activeJobs' = activeJobs
        /\ sigPending' = sigPending /\ pid' = pid
    BY <1>9 DEF schedulePostpone, Return
  <2>2. CASE t # SigThread
    BY <1>0, <2>1, <2>2, RoundKept DEF Home, TypeOK
  <2>3. CASE t = SigThread
    <3>1. Cardinality(Busy') < maxConcurrentJobs /\ Busy' = DOMAIN activeJobs'
      BY <2>1, <2>3 DEF RecoverInv, RoundInv, Busy
    <3>2. \A s \in Threads : pc'[s] # "register"
      BY <1>0, <2>1 DEF IndInv, LockInv, TypeOK, Home
    <3>3. pc'[SigThread] = "sigwait"
      BY <1>0, <2>1, <2>3 DEF TypeOK, Home
    <3>4. OnlyRunnersEnd'
      BY <2>1 DEF RecoverInv, OnlyRunnersEnd, OfKind
    <3>5. ~(Cardinality(DOMAIN activeJobs') = maxConcurrentJobs)
      BY <3>1
    <3>6. QED
      BY <3>2, <3>3, <3>4, <3>5 DEF RecoverInv, RoundInv, SlotsRecover
  <2>4. QED
    BY <2>2, <2>3
<1>10. ASSUME NEW t \in Threads, scheduleFork(t)
       PROVE  RecoverInv'
  <2>1. PICK p \in Pids :
          /\ pid' = [pid EXCEPT ![t] = p]
          /\ procs[p].st = "unused"
          /\ procs'[p].kind = "runner" /\ procs'[p].st = "running"
          /\ \A q \in Pids : q # p => procs'[q] = procs[q]
    BY <1>0, <1>10, ForkFacts
  <2>2. /\ p \notin Runners /\ Runners' = Runners \cup {p}
        /\ OfKind("shell")' = OfKind("shell") /\ OfKind("repl")' = OfKind("repl")
        /\ \A q \in OfKind("repl") : procs'[q] = procs[q]
    BY <1>0, <2>1, KindsAfterFork DEF IndInv, Kinds, Runners
  <2>3. up' = up /\ activeJobs' = activeJobs /\ sigPending' = sigPending
    BY <1>10 DEF scheduleFork
  <2>4. OnlyRunnersEnd'
    BY <2>1, <2>2, <2>3 DEF RecoverInv, OnlyRunnersEnd
  <2>5. SlotsRecover'
    BY <2>1, <2>2 DEF SlotsRecover
  <2>6. /\ \A s \in Threads : pc'[s] = "register" => s = t
        /\ pid'[t] = p
        /\ t # SigThread => pc'[SigThread] = pc[SigThread] /\ pid'[SigThread] = pid[SigThread]
        /\ pc'[t] = "register"
    BY <1>0, <1>10, <2>1 DEF scheduleFork, IndInv, LockInv, TypeOK
  <2>7. RoundInv'
    <3>1. pc'[SigThread] = "lock" => pid'[SigThread] \in Runners'
      BY <2>2, <2>6 DEF RecoverInv, RoundInv
    <3>2. pc'[SigThread] # "schedule"
      BY <1>0, <1>10, <2>6 DEF scheduleFork, IndInv, LockInv
    <3>3. QED
      BY <2>1, <2>6, <3>1, <3>2 DEF RoundInv
  <2>8. QED
    BY <2>4, <2>5, <2>7 DEF RecoverInv
<1>11. ASSUME NEW t \in Threads, scheduleRegister(t)
       PROVE  RecoverInv'
  <2>1. /\ pc[t] = "register" /\ pc' = [pc EXCEPT ![t] = Home(t)]
        /\ up' = up /\ procs' = procs /\ sigPending' = sigPending /\ pid' = pid
    BY <1>11 DEF scheduleRegister, Return
  <2>2. pid[t] \in Runners /\ Runners' = Runners
    BY <2>1 DEF IndInv, RunnerInv, Runners, OfKind
  <2>3. /\ \A s \in Threads : pc'[s] \notin {"register", "schedule"}
        /\ t # SigThread => pc'[SigThread] = pc[SigThread]
        /\ t = SigThread => pc[SigThread] = "register"
    BY <1>0, <2>1 DEF IndInv, LockInv, TypeOK, Home
  <2>4. pc'[SigThread] = "lock" => pc[SigThread] = "lock"
    BY <1>0, <2>1 DEF TypeOK, Home
  <2>5. OnlyRunnersEnd'
    BY <2>1 DEF RecoverInv, OnlyRunnersEnd, OfKind
  <2>6. SlotsRecover'
    <3>1. procs[pid[t]].st = "running" \/ sigPending \/ pc[SigThread] \in {"wait", "lock"}
      BY <2>1 DEF RecoverInv, RoundInv
    <3>2. pc[SigThread] \in {"wait", "lock"} => pc'[SigThread] # "sigwait"
      BY <2>3
    <3>3. QED
      BY <2>1, <2>2, <3>1, <3>2 DEF SlotsRecover
  <2>7. RoundInv'
    BY <1>0, <2>1, <2>2, <2>3, <2>4 DEF RecoverInv, RoundInv
  <2>8. QED
    BY <2>5, <2>6, <2>7 DEF RecoverInv
<1>12. ASSUME NEW p \in Pids, RunnerExit(p)
       PROVE  RecoverInv'
  <2>1. /\ sigPending' = TRUE /\ pc' = pc /\ pid' = pid /\ up' = up
        /\ activeJobs' = activeJobs /\ procs[p].kind = "runner"
        /\ procs[p].st = "running"
    BY <1>12 DEF RunnerExit, Exit
  <2>2. \A q \in Pids : /\ procs'[q].kind = procs[q].kind
                        /\ q # p => procs'[q].st = procs[q].st
    BY <1>0, <1>12, StateFacts DEF RunnerExit, Exit, ProcStates
  <2>3. OnlyRunnersEnd' /\ Runners' = Runners
    BY <2>1, <2>2, OnlyRunnersEndKept DEF RecoverInv
  <2>4. RoundInv' /\ SlotsRecover'
    BY <2>1, <2>3 DEF RecoverInv, RoundInv, SlotsRecover, Busy
  <2>5. QED
    BY <2>3, <2>4 DEF RecoverInv
<1>13. ASSUME NEW p \in Pids, OrphanExit(p)
       PROVE  RecoverInv'
  <2>1. /\ sigPending' = sigPending /\ pc' = pc /\ pid' = pid /\ up' = up
        /\ activeJobs' = activeJobs /\ procs[p].st = "orphan"
    BY <1>13 DEF OrphanExit
  <2>2. \A q \in Pids : /\ procs'[q].kind = procs[q].kind
                        /\ procs'[q].st = IF q = p THEN "gone" ELSE procs[q].st
    BY <1>0, <1>13, StateFacts DEF OrphanExit, ProcStates
  <2>3. OnlyRunnersEnd' /\ Runners' = Runners
    BY <2>1, <2>2, OnlyRunnersEndKept DEF RecoverInv
  <2>4. \A q \in Pids : procs[q].st = "running" => procs'[q].st = "running"
    BY <2>1, <2>2
  <2>5. SlotsRecover'
    BY <2>1, <2>3, <2>4 DEF RecoverInv, SlotsRecover, Runners, OfKind
  <2>6. RoundInv'
    BY <2>1, <2>3, <2>4 DEF RecoverInv, RoundInv, Busy, IndInv, RunnerInv, Runners, OfKind
  <2>7. QED
    BY <2>3, <2>5, <2>6 DEF RecoverInv
<1>14. ASSUME NEW p \in Pids, ShellExit(p) \/ ReplExit(p)
       PROVE  FALSE
  BY <1>14 DEF ShellExit, ReplExit, RecoverInv, OnlyRunnersEnd, OfKind
<1>15. ASSUME NEW w \in Workers, systemReturns(w)
       PROVE  FALSE
  BY <1>0, <1>15 DEF systemReturns, ShellInv, RecoverInv, OnlyRunnersEnd
<1>16. CASE UNCHANGED vars
  BY <1>16, RoundKept DEF vars
<1>17. QED
  BY <1>1, <1>2, <1>3, <1>4, <1>6, <1>7, <1>8, <1>9, <1>10, <1>11, <1>12, <1>13, <1>14, <1>15, <1>16
     DEF Next, Crash, scheduleForkFails

\* With no clone in progress and a REPL that stays, the one pending bit of
\* SIGCHLD is enough: as long as every slot is taken, a TestRunner runs, the
\* signal is pending or the signal thread is on its way to free a slot.
THEOREM SlotsRecoverAlways ==
  ASSUME ReplMayExit = FALSE, MaxClones = 0
  PROVE  Spec => []SlotsRecover
<1>1. Init => RecoverInv
  BY InitRecoverInv
<1>2. IndInv /\ HistoryInv /\ RecoverInv /\ [Next]_vars => RecoverInv'
  BY NextRecoverInv DEF HistoryInv
<1>3. RecoverInv => SlotsRecover
  BY DEF RecoverInv
<1>4. QED
  BY <1>1, <1>2, <1>3, HistoryInvAlways, PTL DEF Spec
=============================================================================
