--------------------------- MODULE DataBase_proofs --------------------------
(***************************************************************************)
(* For any contents, any number of jobs, any number of failed writes and   *)
(* any number of crashes between the system calls of the constructor and   *)
(* of newJob(): an acknowledged job keeps its request until some request   *)
(* file cannot be created or the machine loses power.                      *)
(***************************************************************************)
EXTENDS DataBase, JobFiles_proofs

\* The request files are 0 .. n-1, the counter agrees with them, the file
\* being written is the last one, and every acknowledged job has its content
\* unless it could not be written.
FilesInv(n) ==
  /\ DOMAIN requests = 0 .. n - 1
  /\ n <= MaxJobs /\ (pc = "open" => n < MaxJobs)
  /\ (pc \in {"ready", "open"}) => m_jobId = n
  /\ (pc \in {"write", "return"}) => n # 0 /\ m_jobId = n - 1
  /\ pc = "return" => requests[n - 1] = content \/ n - 1 \in unwritten
  /\ (pc = "mkdir") => n = 0 /\ m_jobId = 0

AckedInv(n) ==
  \A id \in DOMAIN acked :
    /\ id \in 0 .. n - 1
    /\ (pc \in {"write", "return"}) => id # n - 1
    /\ requests[id] = acked[id] \/ id \in unwritten

Written == \E n \in Nat : FilesInv(n) /\ AckedInv(n)

\* Without jobs there is nothing; the constructor creates the directories in
\* order, and all of them if it is neither cut short nor handed jobs.
DirsInv ==
  /\ IsFiniteSet(DOMAIN requests)
  /\ "jobs" \notin dirs => dirs = {} /\ DOMAIN requests = {}
  /\ pc = "mkdir" => dirs \in {{}, {"jobs"}, {"jobs", "jobs/requests"}}
  /\ pc = "write" => "jobs" \in dirs
  /\ faults \subseteq {"openFails"} =>
       /\ (pc \notin {"down", "mkdir"}) => dirs = Dirs
       /\ pc = "down" => dirs \in {{}, Dirs}

IndInv ==
  /\ TypeOK
  /\ DirsInv
  /\ FilesKept => Written

-----------------------------------------------------------------------------
\* The state before the first start satisfies the invariant.
LEMMA InitIndInv ==
  ASSUME Init
  PROVE  IndInv
<1>1. TypeOK /\ DirsInv
  BY FS_EmptySet DEF Init, TypeOK, DirsInv, Dirs, PCs, Faults
<1>2. FilesInv(0) /\ AckedInv(0)
  BY DataBaseAssumption DEF Init, FilesInv, AckedInv
<1>3. QED
  BY <1>1, <1>2 DEF IndInv, Written

\* Types and directories: no step depends on the numbering of the files.
LEMMA NextTypeAndDirs ==
  ASSUME TypeOK, DirsInv, [Next]_vars
  PROVE  TypeOK' /\ DirsInv'
<1>0. IsFiniteSet(DOMAIN requests \cup {m_jobId})
  <2>1. IsFiniteSet(DOMAIN requests)
    BY DEF DirsInv
  <2>2. QED
    BY <2>1, FS_AddElement
<1> USE DEF TypeOK, DirsInv, Dirs, PCs, Faults
<1>1. CASE construct
  <2>1. FirstFree(DOMAIN requests) \in Nat
    BY FirstFreeIsNew
  <2>2. QED
    BY <1>1, <2>1 DEF construct
<1>2. CASE create_directories
  BY <1>2 DEF create_directories, Missing
<1>3. CASE newJob
  BY <1>3 DEF newJob
<1>4. CASE openRequest
  <2>1. DOMAIN requests' = DOMAIN requests \cup {m_jobId}
    BY <1>4 DEF openRequest, SetRequest
  <2>2. IsFiniteSet(DOMAIN requests')
    BY <1>0, <2>1
  <2>3. TypeOK'
    BY <1>4, <2>1 DEF openRequest, SetRequest
  <2>4. DirsInv'
    BY <1>4, <2>1, <2>2 DEF openRequest
  <2>5. QED
    BY <2>3, <2>4
<1>5. CASE openRequestFails
  BY <1>5 DEF openRequestFails
<1>6. CASE writeRequest
  <2>1. DOMAIN requests' = DOMAIN requests \cup {m_jobId}
    BY <1>6 DEF writeRequest, SetRequest
  <2>2. IsFiniteSet(DOMAIN requests')
    BY <1>0, <2>1
  <2>3. TypeOK'
    BY <1>6, <2>1 DEF writeRequest, SetRequest
  <2>4. DirsInv'
    BY <1>6, <2>1, <2>2 DEF writeRequest
  <2>5. QED
    BY <2>3, <2>4
<1>7. CASE newJobReturn
  BY <1>7 DEF newJobReturn
<1>8. CASE Crash
  BY <1>8 DEF Crash, Ends
<1>9. CASE writeRequestFails
  BY <1>9 DEF writeRequestFails
<1>10. CASE PowerLoss
  <2>1. PICK kept \in SUBSET DOMAIN requests : \E cut \in SUBSET kept :
          /\ kept # {} => "jobs/requests" \in dirs'
          /\ requests' = [id \in kept |-> IF id \in cut THEN Partial ELSE requests[id]]
    BY <1>10 DEF PowerLoss
  <2>2. PICK cut \in SUBSET kept :
          requests' = [id \in kept |-> IF id \in cut THEN Partial ELSE requests[id]]
    BY <2>1
  <2>3. /\ DOMAIN requests' = kept
        /\ requests' \in [kept -> Contents \cup {Partial}]
    BY <2>2
  <2>4. IsFiniteSet(DOMAIN requests')
    BY <2>3, FS_Subset
  <2>5. TypeOK'
    BY <1>10, <2>3 DEF PowerLoss, Ends
  <2>6. /\ dirs' \subseteq dirs /\ ("jobs" \notin dirs' => dirs' = {})
        /\ pc' = "down" /\ "powerLoss" \in faults'
    BY <1>10 DEF PowerLoss, Ends
  <2>7. DirsInv'
    BY <2>1, <2>3, <2>4, <2>6
  <2>8. QED
    BY <2>5, <2>7
<1>11. CASE UNCHANGED vars
  BY <1>11 DEF vars
<1>12. QED
  BY <1>1, <1>2, <1>3, <1>4, <1>5, <1>6, <1>7, <1>8, <1>9, <1>10, <1>11 DEF Next

\* While every file is kept, every step keeps the numbering and the contents.
LEMMA NextWritten ==
  ASSUME TypeOK, DirsInv, Written, [Next]_vars, FilesKept'
  PROVE  Written'
<1> USE DataBaseAssumption DEF PCs
<1>0. PICK n \in Nat : FilesInv(n) /\ AckedInv(n)
  BY DEF Written
<1>1. CASE construct
  <2>1. CASE "jobs" \notin dirs
    <3>1. n = 0
      BY <1>0, <2>1 DEF DirsInv, FilesInv
    <3>2. FilesInv(0)' /\ AckedInv(0)'
      BY <1>0, <1>1, <2>1, <3>1 DEF construct, FilesInv, AckedInv
    <3>3. QED BY <3>2 DEF Written
  <2>2. CASE "jobs" \in dirs
    <3>1. m_jobId' = n
      BY <1>0, <1>1, <2>2, FirstFreeOfInterval DEF construct, FilesInv
    <3>2. FilesInv(n)' /\ AckedInv(n)'
      BY <1>0, <1>1, <2>2, <3>1 DEF construct, FilesInv, AckedInv
    <3>3. QED BY <3>2 DEF Written
  <2>3. QED BY <2>1, <2>2
<1>2. CASE create_directories
  <2>1. FilesInv(0)' /\ AckedInv(0)'
    BY <1>0, <1>2 DEF create_directories, FilesInv, AckedInv
  <2>2. QED BY <2>1 DEF Written
<1>3. CASE newJob
  <2>1. FilesInv(n)' /\ AckedInv(n)'
    BY <1>0, <1>3 DEF newJob, FilesInv, AckedInv
  <2>2. QED BY <2>1 DEF Written
<1>4. CASE openRequest
  <2>1. m_jobId = n /\ DOMAIN requests = 0 .. n - 1
    BY <1>0, <1>4 DEF openRequest, FilesInv
  <2>2. /\ DOMAIN requests' = 0 .. n
        /\ \A i \in 0 .. n - 1 : requests'[i] = requests[i]
    BY <1>4, <2>1 DEF openRequest, SetRequest
  <2>3. FilesInv(n + 1)' /\ AckedInv(n + 1)'
    BY <1>0, <1>4, <2>1, <2>2 DEF openRequest, FilesInv, AckedInv
  <2>4. QED BY <2>3 DEF Written
<1>5. CASE openRequestFails
  BY <1>5 DEF openRequestFails, FilesKept
<1>6. CASE writeRequest
  <2>1. n # 0 /\ m_jobId = n - 1 /\ DOMAIN requests = 0 .. n - 1
    BY <1>0, <1>6 DEF writeRequest, FilesInv
  <2>2. /\ DOMAIN requests' = 0 .. n - 1
        /\ requests'[n - 1] = content
        /\ \A i \in 0 .. n - 1 : i # n - 1 => requests'[i] = requests[i]
    BY <1>6, <2>1 DEF writeRequest, SetRequest
  <2>3. FilesInv(n)' /\ AckedInv(n)'
    BY <1>0, <1>6, <2>1, <2>2 DEF writeRequest, FilesInv, AckedInv
  <2>4. QED BY <2>3 DEF Written
<1>7. CASE newJobReturn
  <2>1. n # 0 /\ m_jobId = n - 1 /\ (requests[n - 1] = content \/ n - 1 \in unwritten)
    BY <1>0, <1>7 DEF newJobReturn, FilesInv
  <2>2. FilesInv(n)' /\ AckedInv(n)'
    BY <1>0, <1>7, <2>1 DEF newJobReturn, FilesInv, AckedInv
  <2>3. QED BY <2>2 DEF Written
<1>8. CASE Crash
  <2>1. FilesInv(n)' /\ AckedInv(n)'
    BY <1>0, <1>8 DEF Crash, Ends, FilesInv, AckedInv
  <2>2. QED BY <2>1 DEF Written
<1>9. CASE writeRequestFails
  <2>1. n # 0 /\ m_jobId = n - 1
    BY <1>0, <1>9 DEF writeRequestFails, FilesInv
  <2>2. FilesInv(n)' /\ AckedInv(n)'
    BY <1>0, <1>9, <2>1 DEF writeRequestFails, FilesInv, AckedInv
  <2>3. QED BY <2>2 DEF Written
<1>10. CASE PowerLoss
  BY <1>10 DEF PowerLoss, FilesKept
<1>11. CASE UNCHANGED vars
  <2>1. FilesInv(n)' /\ AckedInv(n)'
    BY <1>0, <1>11 DEF vars, FilesInv, AckedInv
  <2>2. QED BY <2>1 DEF Written
<1>12. QED
  BY <1>1, <1>2, <1>3, <1>4, <1>5, <1>6, <1>7, <1>8, <1>9, <1>10, <1>11 DEF Next

\* What has gone wrong stays recorded.
LEMMA FaultsGrow ==
  ASSUME [Next]_vars
  PROVE  faults \subseteq faults'
  BY DEF Next, construct, create_directories, newJob, openRequest, openRequestFails,
         writeRequest, writeRequestFails, newJobReturn, Crash, PowerLoss, vars

\* The invariant holds in every reachable state.
LEMMA IndInvAlways == Spec => []IndInv
<1>1. Init => IndInv
  BY InitIndInv
<1>2. ASSUME IndInv, [Next]_vars
      PROVE  IndInv'
  <2>1. TypeOK' /\ DirsInv'
    BY <1>2, NextTypeAndDirs DEF IndInv
  <2>2. ASSUME FilesKept'
        PROVE  Written'
    <3>1. FilesKept
      BY <1>2, <2>2, FaultsGrow DEF FilesKept
    <3>2. QED
      BY <1>2, <2>2, <3>1, NextWritten DEF IndInv
  <2>3. QED
    BY <2>1, <2>2 DEF IndInv
<1>3. QED
  BY <1>1, <1>2, PTL DEF Spec

-----------------------------------------------------------------------------
\* An acknowledged job keeps its request file, whatever is posted later and
\* wherever the constructor or newJob() is cut short by the end of the process,
\* and the file holds what the client sent unless writing this one failed: as
\* long as every file could be created and the machine did not lose power, the
\* unchecked search for the next id never comes upon an id that was given out.
THEOREM AckedDurableAlways == Spec => []AckedDurable
<1>1. ASSUME IndInv, FilesKept, NEW id \in DOMAIN acked
      PROVE  id \in DOMAIN requests /\ (requests[id] = acked[id] \/ id \in unwritten)
  BY <1>1 DEF IndInv, Written, FilesInv, AckedInv
<1>2. IndInv => AckedDurable
  BY <1>1 DEF AckedDurable
<1>3. QED
  BY <1>2, IndInvAlways, PTL

\* Until a request file cannot be created or the power fails, the files are
\* 0 .. n-1 and the counter agrees with them, wherever a crash cut a call short: the search of the
\* constructor, which stops at the first gap, finds the first id never given.
THEOREM NoGapAlways == Spec => []NoGap
<1>1. ASSUME IndInv, FilesKept
      PROVE  \E n \in 0 .. MaxJobs :
               /\ DOMAIN requests = 0 .. n - 1
               /\ (pc \in {"ready", "open"}) => m_jobId = n
               /\ (pc \in {"write", "return"}) => m_jobId = n - 1
  <2>1. PICK n \in Nat : FilesInv(n)
    BY <1>1 DEF IndInv, Written
  <2>2. n \in 0 .. MaxJobs
    BY <2>1, DataBaseAssumption DEF FilesInv
  <2>3. QED
    BY <2>1, <2>2 DEF FilesInv
<1>2. IndInv => NoGap
  BY <1>1 DEF NoGap
<1>3. QED
  BY <1>2, IndInvAlways, PTL

\* Files, counter and histories keep their types, wherever a crash cuts the
\* constructor or newJob() short.
THEOREM TypeOKAlways == Spec => []TypeOK
<1>1. IndInv => TypeOK
  BY DEF IndInv
<1>2. QED
  BY <1>1, IndInvAlways, PTL

\* The constructor leaves jobs/requests and jobs/finished behind if no start was
\* cut short, jobs was not there before and the machine did not lose power.
THEOREM LayoutReadyAlways == Spec => []LayoutReady
<1>1. IndInv => LayoutReady
  BY DEF IndInv, DirsInv, LayoutReady, Dirs
<1>2. QED
  BY <1>1, IndInvAlways, PTL
=============================================================================
