------------------------- MODULE FinishedJobs_proofs ------------------------
(***************************************************************************)
(* What GET /api/jobs and GET /api/jobs/<id> return, for any number of     *)
(* TestRunners that write, die or reject their request meanwhile, and for  *)
(* any parameters from and max.                                            *)
(***************************************************************************)
EXTENDS FinishedJobs, JobFiles_proofs, SequenceTheorems

-----------------------------------------------------------------------------
(* The inductive invariant *)

\* Where the TestRunner of job i is decides what its result file can hold, and
\* the status code is settled by the time the file exists.
JobInv(i) ==
  /\ (rpc[i] \in {"waiting", "createFromFile", "load", "eval"}) =>
       ~completed[i] /\ result[i] = "none"
  /\ rpc[i] = "addResult" =>
       (m_status[i] = "FINISHED" <=> completed[i]) /\ result[i] = "none"
  /\ result[i] # "none" => (statusCode[i] = "Ok" <=> completed[i])
  /\ rpc[i] = "write" => result[i] # "none"
  /\ result[i] = "complete" => rpc[i] = "exited"

RunnerInv == \A i \in Ids : JobInv(i)

\* There are finitely many files, and a request only knows of existing ones.
FilesInv ==
  /\ \E n \in Nat : \A i \in Files : i <= n
  /\ atOpen \subseteq Files /\ seen \subseteq Files /\ finished \subseteq atOpen
  /\ \A i \in finished : result[i] = "complete"
  /\ (pc \in {"loop", "parse"} /\ ~single) => atOpen \subseteq seen

\* The k-th job of a list and the next one the loop looks at.
Nth(k) == IF fromFound THEN fromId + k - 1 ELSE highestId - k + 1

\* The loop has put the jobs up to id into the stream, each as it found it.
LoopInv ==
  (pc \in {"loop", "parse"} /\ ~single) =>
    /\ id = Nth(cnt + 1)
    /\ fromFound => cnt = 0 \/ cnt <= max
    /\ \A k \in 1 .. cnt : /\ items[k][1] = Nth(k)
                           /\ items[k][1] \in finished => items[k][2] = "complete"

\* Before the loop nothing is in the stream; after it the next job was out of
\* range or had no file, and only an upward list that met such a job ends with
\* a separator; a request for one job has read at most that one.
PhaseInv ==
  /\ pc = "idle" => ~single /\ seen = {} /\ atOpen = {}
  /\ pc \in {"idle", "scan"} => items = <<>>
  /\ (pc = "parse" /\ ~single) => ~InRange \/ id \notin seen
  /\ pc # "parse" => ~single
  /\ comma => pc = "parse" /\ ~single /\ fromFound /\ InRange /\ cnt > 0
  /\ single => items = <<>> \/ \E s \in FileStates \ {"none"} : items = <<<<id, s>>>>

IndInv == TypeOK /\ RunnerInv /\ FilesInv /\ LoopInv /\ PhaseInv

-----------------------------------------------------------------------------
(* The highest id *)

\* Finitely many files, at least one: the search finds the highest id.
LEMMA BoundedHasMax ==
  ASSUME NEW S \in SUBSET Nat, S # {}, NEW n \in Nat, \A i \in S : i <= n
  PROVE  Max(S) \in S /\ \A i \in S : i <= Max(S)
<1>1. \E x \in S : \A y \in S : x >= y
  BY GreatestId
<1>2. Max(S) \in S /\ \A y \in S : Max(S) >= y
  BY <1>1 DEF Max
<1>3. QED
  BY <1>2

\* So the loops count with integers, and nothing the directory iterator
\* returned is above highestId.
LEMMA HighestOf ==
  ASSUME NEW S \in SUBSET Ids, NEW n \in Nat, \A i \in S : i <= n,
         NEW h, h = IF S = {} THEN -1 ELSE Max(S)
  PROVE  h \in Int /\ \A i \in S : i <= h
<1>1. S \in SUBSET Nat
  BY RunnerAssumption
<1>2. CASE S = {}
  BY <1>2
<1>3. CASE S # {}
  <2>1. Max(S) \in S /\ \A i \in S : i <= Max(S)
    BY <1>1, <1>3, BoundedHasMax
  <2>2. Max(S) \in Nat
    BY <1>1, <2>1, Zenon
  <2>3. h = Max(S)
    BY <1>3
  <2>4. QED
    BY <2>1, <2>2, <2>3
<1>4. QED
  BY <1>2, <1>3

-----------------------------------------------------------------------------
(* The TestRunners *)

\* What a step of a TestRunner may do to the result files.
ResultsKept ==
  /\ Files \subseteq Files'
  /\ \A i \in Ids : result[i] = "complete" => result'[i] = "complete"
  /\ \E i \in Ids : Files' \subseteq Files \cup {i}

\* A step of job i leaves every other job alone; a complete result stays.
LEMMA RunnerStepInv ==
  ASSUME RunnerTypeOK, RunnerInv, RunnerNext
  PROVE  RunnerTypeOK' /\ RunnerInv' /\ ResultsKept
<1>0. PICK i \in Ids : (start(i) \/ RunnerStep(i) \/ die(i)) /\ UNCHANGED finishedDir
  BY DEF RunnerNext
<1> USE DEF At, Goto
<1>1. RunnerTypeOK'
  <2> USE <1>0 DEF RunnerTypeOK, RunnerPCs, FileStates
  <2>1. CASE start(i)
    BY <2>1 DEF start
  <2>2. CASE createFromFile(i)
    BY <2>2 DEF createFromFile
  <2>3. CASE load(i)
    BY <2>3 DEF load
  <2>4. CASE eval(i)
    BY <2>4 DEF eval
  <2>5. CASE addResult(i)
    BY <2>5 DEF addResult
  <2>6. CASE writePiece(i)
    BY <2>6 DEF writePiece
  <2>7. CASE closeResult(i)
    BY <2>7 DEF closeResult
  <2>8. CASE addResultFails(i)
    BY <2>8 DEF addResultFails
  <2>9. CASE die(i)
    BY <2>9 DEF die
  <2>10. QED
    BY <1>0, <2>1, <2>2, <2>3, <2>4, <2>5, <2>6, <2>7, <2>8, <2>9 DEF RunnerStep
<1>2. \A j \in Ids : j # i =>
        /\ rpc'[j] = rpc[j] /\ m_status'[j] = m_status[j] /\ result'[j] = result[j]
        /\ statusCode'[j] = statusCode[j] /\ completed'[j] = completed[j]
  BY <1>0 DEF RunnerTypeOK, start, RunnerStep, die, createFromFile,
              load, eval, addResult, addResultFails, writePiece, closeResult
<1>3. JobInv(i)' /\ (result[i] # "none" => result'[i] # "none")
        /\ (result[i] = "complete" => result'[i] = "complete")
  <2> USE DEF RunnerTypeOK, JobInv
  <2>0. JobInv(i)
    BY DEF RunnerInv
  <2>1. CASE start(i)
    BY <2>0, <2>1 DEF start
  <2>2. CASE createFromFile(i)
    BY <2>0, <2>2 DEF createFromFile
  <2>3. CASE load(i)
    BY <2>0, <2>3 DEF load
  <2>4. CASE eval(i)
    BY <2>0, <2>4 DEF eval
  <2>5. CASE addResult(i)
    BY <2>0, <2>5 DEF addResult
  <2>6. CASE writePiece(i)
    BY <2>0, <2>6 DEF writePiece
  <2>7. CASE closeResult(i)
    BY <2>0, <2>7 DEF closeResult
  <2>8. CASE addResultFails(i)
    BY <2>0, <2>8 DEF addResultFails
  <2>9. CASE die(i)
    BY <2>0, <2>9 DEF die
  <2>10. QED
    BY <1>0, <2>1, <2>2, <2>3, <2>4, <2>5, <2>6, <2>7, <2>8, <2>9 DEF RunnerStep
<1>4. RunnerInv'
  <2>1. ASSUME NEW j \in Ids, j # i
        PROVE  JobInv(j)'
    BY <1>2, <2>1 DEF RunnerInv, JobInv
  <2>2. QED
    BY <1>3, <2>1 DEF RunnerInv
<1>5. ResultsKept
  BY <1>2, <1>3 DEF ResultsKept, Files
<1>6. QED
  BY <1>1, <1>4, <1>5

\* While a TestRunner takes a step the request in progress keeps its state, and
\* what it knows of the files stays true.
LEMMA RunnerKeepsReader ==
  ASSUME IndInv, ResultsKept, UNCHANGED readerVars
  PROVE  ReaderTypeOK' /\ FilesInv' /\ LoopInv' /\ PhaseInv'
<1> USE DEF readerVars
<1>1. ReaderTypeOK'
  BY DEF IndInv, TypeOK, ReaderTypeOK
<1>2. FilesInv'
  <2>1. PICK n \in Nat, i \in Ids : /\ \A j \in Files : j <= n
                                   /\ Files' \subseteq Files \cup {i}
    BY DEF IndInv, FilesInv, ResultsKept
  <2>2. i \in Nat /\ \A j \in Files : j \in Nat
    BY RunnerAssumption DEF Files
  <2>3. n + i \in Nat /\ \A j \in Files' : j <= n + i
    BY <2>1, <2>2
  <2>4. /\ atOpen' \subseteq Files' /\ seen' \subseteq Files' /\ finished' \subseteq atOpen'
        /\ (pc' \in {"loop", "parse"} /\ ~single') => atOpen' \subseteq seen'
    BY DEF IndInv, FilesInv, ResultsKept
  <2>5. \A j \in finished' : result'[j] = "complete"
    BY DEF IndInv, FilesInv, ResultsKept, TypeOK, ReaderTypeOK
  <2>6. QED
    BY <2>3, <2>4, <2>5 DEF FilesInv
<1>3. fromFound' = fromFound /\ highestId' = highestId /\ cnt' = cnt
  BY DEF fromFound, highestId, cnt
<1>4. InRange' = InRange /\ \A k : Nth(k)' = Nth(k)
  BY <1>3 DEF InRange, Nth
<1>5. LoopInv' /\ PhaseInv'
  BY <1>3, <1>4 DEF IndInv, LoopInv, PhaseInv
<1>6. QED
  BY <1>1, <1>2, <1>5

-----------------------------------------------------------------------------
(* The request in progress *)

\* Every step of a request keeps the types and what it knows of the files.
LEMMA ReaderStepInv ==
  ASSUME IndInv, ReaderNext, UNCHANGED runnerVars
  PROVE  ReaderTypeOK' /\ FilesInv' /\ LoopInv' /\ PhaseInv'
<1> USE RunnerAssumption, ParameterAssumption
<1>0. /\ TypeOK /\ FilesInv /\ LoopInv /\ PhaseInv /\ ReaderTypeOK
      /\ result' = result /\ Files' = Files /\ Files \subseteq Ids
      /\ highestId \in Int
      /\ fromId \in Int /\ max \in Int /\ cnt \in Nat
  <2>1. TypeOK /\ FilesInv /\ LoopInv /\ PhaseInv /\ ReaderTypeOK
    BY DEF IndInv, TypeOK
  <2>2. PICK n \in Nat : \A i \in seen : i <= n
    BY <2>1 DEF FilesInv
  <2>3. highestId \in Int
    BY <2>1, <2>2, HighestOf DEF highestId, ReaderTypeOK
  <2>4. fromId \in Int /\ max \in Int /\ cnt \in Nat
    BY <2>1 DEF ReaderTypeOK, cnt
  <2>5. QED
    BY <2>1, <2>3, <2>4 DEF runnerVars, Files
<1>a. <<>> \in Seq(Ids \X (FileStates \ {"none"}))
  OBVIOUS
<1>1. ASSUME NEW f \in Froms, NEW m \in Maxes, getFinishedJobs(f, m)
      PROVE  ReaderTypeOK' /\ FilesInv' /\ LoopInv' /\ PhaseInv'
  <2>1. ReaderTypeOK'
    <3>1. fromId' \in Froms \cup {0} /\ max' \in Maxes \cup {0}
      BY <1>1 DEF getFinishedJobs
    <3>2. id' \in Int
      BY <1>1 DEF getFinishedJobs
    <3>3. items' \in Seq(Ids \X (FileStates \ {"none"}))
      BY <1>1, <1>a DEF getFinishedJobs
    <3>4. /\ pc' \in {"idle", "scan", "loop", "parse"} /\ single' \in BOOLEAN /\ comma' \in BOOLEAN
          /\ atOpen' \subseteq Ids /\ seen' \subseteq Ids /\ finished' \subseteq Ids
      BY <1>0, <1>1 DEF getFinishedJobs
    <3>5. QED
      BY <3>1, <3>2, <3>3, <3>4 DEF ReaderTypeOK
  <2>2. FilesInv'
    BY <1>0, <1>1 DEF getFinishedJobs, FilesInv, Files
  <2>3. LoopInv' /\ PhaseInv'
    BY <1>1 DEF getFinishedJobs, LoopInv, PhaseInv
  <2>4. QED
    BY <2>1, <2>2, <2>3
<1>2. ASSUME NEW i \in Ids, getFinishedJob(i)
      PROVE  ReaderTypeOK' /\ FilesInv' /\ LoopInv' /\ PhaseInv'
  <2>1. Read(i) \in FileStates
    BY <1>0 DEF Read, TypeOK, RunnerTypeOK
  <2>2. items' = <<>> \/ \E s \in FileStates \ {"none"} : items' = <<<<i, s>>>>
    BY <1>2, <2>1 DEF getFinishedJob
  <2>3. items' \in Seq(Ids \X (FileStates \ {"none"}))
    <3>1. ASSUME NEW s \in FileStates \ {"none"}
          PROVE  <<<<i, s>>>> \in Seq(Ids \X (FileStates \ {"none"}))
      OBVIOUS
    <3>2. QED
      BY <1>a, <2>2, <3>1
  <2>4. ReaderTypeOK'
    BY <1>0, <1>2, <2>3 DEF getFinishedJob, ReaderTypeOK
  <2>5. FilesInv'
    BY <1>0, <1>2 DEF getFinishedJob, FilesInv
  <2>6. LoopInv' /\ PhaseInv'
    <3>1. ~comma'
      BY <1>0, <1>2 DEF getFinishedJob, PhaseInv
    <3>2. QED
      BY <1>2, <2>2, <3>1 DEF getFinishedJob, LoopInv, PhaseInv
  <2>7. QED
    BY <2>4, <2>5, <2>6
<1>3. ASSUME scanDirectory
      PROVE  ReaderTypeOK' /\ FilesInv' /\ LoopInv' /\ PhaseInv'
  <2>1. /\ atOpen \subseteq seen' /\ seen' \subseteq Files
        /\ items = <<>> /\ items' = <<>> /\ pc' = "loop" /\ single' = FALSE
        /\ single' = single
        /\ fromId' = fromId /\ max' = max /\ atOpen' = atOpen /\ finished' = finished
        /\ comma' = comma
    BY <1>0, <1>3 DEF scanDirectory, FilesInv, PhaseInv, ReaderTypeOK
  <2>2. PICK n \in Nat : \A i \in Files : i <= n
    BY <1>0 DEF FilesInv
  <2>3. highestId' \in Int
    <3>1. seen' \in SUBSET Ids /\ \A i \in seen' : i <= n
      BY <1>0, <2>1, <2>2
    <3>2. QED
      BY <3>1, HighestOf DEF highestId
  <2>4. id' = Nth(1)' /\ id' \in Int
    <3>1. id' = IF fromFound' THEN fromId ELSE highestId'
      BY <1>3 DEF scanDirectory
    <3>2. PICK h \in Int : h = highestId'
      BY <2>3
    <3>3. CASE fromFound'
      <4>1. Nth(1)' = fromId' + (1 - 1)
        BY <3>3, Zenon DEF Nth
      <4>2. QED
        BY <1>0, <2>1, <3>1, <3>3, <4>1
    <3>4. CASE ~fromFound'
      <4>1. Nth(1)' = (highestId' - 1) + 1
        BY <3>4, Zenon DEF Nth
      <4>2. Nth(1)' = (h - 1) + 1 /\ id' = h
        BY <3>1, <3>2, <3>4, <4>1, Zenon
      <4>3. QED
        BY <4>2
    <3>5. QED
      BY <3>3, <3>4
  <2>5. cnt' = 0
    BY <2>1 DEF cnt
  <2>6. ReaderTypeOK'
    BY <1>0, <2>1, <2>4 DEF ReaderTypeOK
  <2>7. FilesInv'
    BY <1>0, <2>1 DEF FilesInv
  <2>8. LoopInv' /\ PhaseInv'
    <3>1. ~comma'
      BY <1>0, <1>3, <2>1 DEF scanDirectory, PhaseInv
    <3>2. QED
      BY <2>1, <2>4, <2>5, <3>1 DEF LoopInv, PhaseInv
  <2>9. QED
    BY <2>6, <2>7, <2>8
<1>4. ASSUME readResult
      PROVE  ReaderTypeOK' /\ FilesInv' /\ LoopInv' /\ PhaseInv'
  <2>1. /\ pc = "loop" /\ pc' = "loop" /\ single' = single /\ fromId' = fromId /\ max' = max
        /\ atOpen' = atOpen /\ seen' = seen /\ comma' = comma /\ finished' = finished
        /\ InRange /\ Read(id) # "none"
        /\ ~single
    BY <1>0, <1>4 DEF readResult, PhaseInv
  <2>2. id \in Ids /\ Read(id) = result[id] /\ result[id] \in FileStates \ {"none"}
    BY <1>0, <2>1 DEF Read, TypeOK, RunnerTypeOK
  <2>3. fromFound' = fromFound /\ highestId' = highestId /\ \A k : Nth(k)' = Nth(k)
    BY <2>1 DEF fromFound, highestId, Nth
  <2>4. /\ items' \in Seq(Ids \X (FileStates \ {"none"}))
        /\ cnt' = cnt + 1
        /\ \A k \in 1 .. cnt : items'[k] = items[k]
        /\ items'[cnt + 1] = <<id, result[id]>>
    BY <1>0, <1>4, <2>2 DEF readResult, ReaderTypeOK, cnt
  <2>5. id = Nth(cnt + 1) /\ id' = Nth(cnt + 2) /\ id' \in Int
    BY <1>0, <1>4, <2>1 DEF readResult, LoopInv, Nth
  <2>6. fromFound => cnt' <= max
    BY <1>0, <2>1, <2>4, <2>5 DEF InRange, Nth
  <2>7. id \in finished => result[id] = "complete"
    BY <1>0 DEF FilesInv
  <2>8. ASSUME NEW k \in 1 .. cnt'
        PROVE  /\ items'[k][1] = Nth(k)
               /\ items'[k][1] \in finished => items'[k][2] = "complete"
    <3>1. CASE k = cnt + 1
      BY <2>4, <2>5, <2>7, <3>1
    <3>2. CASE k # cnt + 1
      <4>1. k \in 1 .. cnt
        BY <1>0, <2>4, <3>2
      <4>2. QED
        BY <1>0, <2>1, <2>4, <4>1 DEF LoopInv
    <3>3. QED
      BY <3>1, <3>2
  <2>9. ReaderTypeOK'
    BY <1>0, <2>1, <2>4, <2>5 DEF ReaderTypeOK
  <2>10. FilesInv'
    BY <1>0, <2>1 DEF FilesInv
  <2>11. LoopInv'
    <3>1. id' = Nth(cnt' + 1)
      BY <1>0, <2>4, <2>5
    <3>2. QED
      BY <2>1, <2>3, <2>6, <2>8, <3>1 DEF LoopInv
  <2>12. PhaseInv'
    BY <1>0, <2>1 DEF PhaseInv
  <2>13. QED
    BY <2>9, <2>10, <2>11, <2>12
<1>5. ASSUME leaveLoop
      PROVE  ReaderTypeOK' /\ FilesInv' /\ LoopInv' /\ PhaseInv'
  <2>1. /\ pc = "loop" /\ pc' = "parse" /\ single' = single /\ fromId' = fromId /\ max' = max
        /\ atOpen' = atOpen /\ seen' = seen /\ items' = items /\ finished' = finished
        /\ id' = id /\ ~single
        /\ ~InRange \/ Read(id) = "none"
    BY <1>0, <1>5 DEF leaveLoop, PhaseInv
  <2>2. fromFound' = fromFound /\ highestId' = highestId /\ cnt' = cnt
    BY <2>1 DEF fromFound, highestId, cnt
  <2>3. InRange' = InRange /\ \A k : Nth(k)' = Nth(k)
    BY <2>1, <2>2 DEF InRange, Nth
  <2>4. Read(id) = "none" => id \notin seen
    BY <1>0 DEF Read, FilesInv, Files
  <2>5. ReaderTypeOK'
    BY <1>0, <1>5, <2>1 DEF leaveLoop, ReaderTypeOK
  <2>6. FilesInv'
    BY <1>0, <2>1 DEF FilesInv
  <2>7. LoopInv'
    BY <1>0, <2>1, <2>2, <2>3 DEF LoopInv
  <2>8. PhaseInv'
    <3>1. comma' => fromFound' /\ InRange' /\ cnt' > 0
      <4>1. comma' = (fromFound /\ InRange /\ cnt > 0)
        BY <1>5, Zenon DEF leaveLoop
      <4>2. QED
        BY <2>2, <2>3, <4>1
    <3>2. QED
      BY <2>1, <2>3, <2>4, <3>1 DEF PhaseInv
  <2>9. QED
    BY <2>5, <2>6, <2>7, <2>8
<1>6. ASSUME respond \/ scanThrows
      PROVE  ReaderTypeOK' /\ FilesInv' /\ LoopInv' /\ PhaseInv'
  <2>0. Done
    BY <1>6 DEF respond, scanThrows
  <2>1. ReaderTypeOK'
    <3>1. fromId' \in Froms \cup {0} /\ max' \in Maxes \cup {0}
      BY <2>0 DEF Done
    <3>2. id' \in Int
      BY <2>0 DEF Done
    <3>3. items' \in Seq(Ids \X (FileStates \ {"none"}))
      BY <2>0, <1>a DEF Done
    <3>4. /\ pc' \in {"idle", "scan", "loop", "parse"} /\ single' \in BOOLEAN /\ comma' \in BOOLEAN
          /\ atOpen' \subseteq Ids /\ seen' \subseteq Ids /\ finished' \subseteq Ids
      BY <2>0 DEF Done
    <3>5. QED
      BY <3>1, <3>2, <3>3, <3>4 DEF ReaderTypeOK
  <2>2. FilesInv'
    BY <1>0, <2>0 DEF Done, FilesInv
  <2>3. LoopInv' /\ PhaseInv'
    BY <2>0 DEF Done, LoopInv, PhaseInv
  <2>4. QED
    BY <2>1, <2>2, <2>3
<1>7. QED
  BY <1>1, <1>2, <1>3, <1>4, <1>5, <1>6 DEF ReaderNext

-----------------------------------------------------------------------------
(* The theorems *)

\* The invariant holds in every reachable state.
LEMMA IndInvAlways == Spec => []IndInv
<1>1. Init => IndInv
  <2> SUFFICES ASSUME Init
               PROVE  IndInv
    OBVIOUS
  <2>1. <<>> \in Seq(Ids \X (FileStates \ {"none"}))
    OBVIOUS
  <2>2. TypeOK
    <3>1. RunnerTypeOK
      BY DEF Init, RunnerInit, RunnerTypeOK, RunnerPCs, FileStates
    <3>2. fromId \in Froms \cup {0} /\ max \in Maxes \cup {0} /\ id \in Int
      BY DEF Init
    <3>3. items \in Seq(Ids \X (FileStates \ {"none"}))
      BY <2>1 DEF Init
    <3>4. QED
      BY <3>1, <3>2, <3>3 DEF Init, TypeOK, ReaderTypeOK
  <2>3. RunnerInv
    BY DEF Init, RunnerInit, RunnerInv, JobInv
  <2>4. Files = {} /\ FilesInv
    BY DEF Init, RunnerInit, Files, FilesInv
  <2>5. LoopInv /\ PhaseInv
    BY DEF Init, LoopInv, PhaseInv
  <2>6. QED
    BY <2>2, <2>3, <2>4, <2>5 DEF IndInv
<1>2. ASSUME IndInv, [Next]_vars
      PROVE  IndInv'
  <2>1. CASE RunnerNext /\ UNCHANGED readerVars
    <3>1. RunnerTypeOK' /\ RunnerInv' /\ ResultsKept
      BY <1>2, <2>1, RunnerStepInv DEF IndInv, TypeOK
    <3>2. ReaderTypeOK' /\ FilesInv' /\ LoopInv' /\ PhaseInv'
      BY <1>2, <2>1, <3>1, RunnerKeepsReader
    <3>3. QED
      BY <3>1, <3>2 DEF IndInv, TypeOK
  <2>2. CASE ReaderNext /\ UNCHANGED runnerVars
    <3>1. RunnerTypeOK' /\ RunnerInv'
      BY <1>2, <2>2 DEF IndInv, TypeOK, RunnerTypeOK, RunnerInv, JobInv, runnerVars
    <3>2. ReaderTypeOK' /\ FilesInv' /\ LoopInv' /\ PhaseInv'
      BY <1>2, <2>2, ReaderStepInv
    <3>3. QED
      BY <3>1, <3>2 DEF IndInv, TypeOK
  <2>3. CASE UNCHANGED vars
    <3>1. RunnerTypeOK' /\ RunnerInv'
      BY <1>2, <2>3 DEF vars, IndInv, TypeOK, RunnerTypeOK, RunnerInv, JobInv, runnerVars
    <3>2. ReaderTypeOK'
      BY <1>2, <2>3 DEF vars, readerVars, IndInv, TypeOK, ReaderTypeOK
    <3>3. Files' = Files /\ fromFound' = fromFound /\ highestId' = highestId /\ cnt' = cnt
      BY <2>3 DEF vars, runnerVars, readerVars, Files, fromFound, highestId, cnt
    <3>4. FilesInv'
      BY <1>2, <2>3, <3>3 DEF vars, runnerVars, readerVars, IndInv, FilesInv
    <3>5. InRange' = InRange /\ \A k : Nth(k)' = Nth(k)
      BY <2>3, <3>3 DEF vars, readerVars, InRange, Nth
    <3>6. LoopInv' /\ PhaseInv'
      BY <1>2, <2>3, <3>3, <3>5 DEF vars, readerVars, IndInv, LoopInv, PhaseInv
    <3>7. QED
      BY <3>1, <3>2, <3>4, <3>6 DEF IndInv, TypeOK
  <2>4. QED
    BY <1>2, <2>1, <2>2, <2>3 DEF Next
<1>3. QED
  BY <1>1, <1>2, PTL DEF Spec

\* Files and request keep their types: in particular only ids with a file ever
\* get into a list, whatever the parameters.
THEOREM TypeOKAlways == Spec => []TypeOK
<1>1. IndInv => TypeOK
  BY DEF IndInv
<1>2. QED
  BY <1>1, IndInvAlways, PTL

\* A complete result file says "Ok" exactly if the script ran to its end, for
\* every way a TestRunner can fail or die on the way.
THEOREM ResultHonestAlways == Spec => []ResultHonest
<1>1. IndInv => ResultHonest
  BY DEF IndInv, RunnerInv, JobInv, ResultHonest
<1>2. QED
  BY <1>1, IndInvAlways, PTL

\* A list fails only because of a job that had not finished when the request
\* began: it holds one, or it runs upwards and is followed by one within max.
THEOREM FailsForUnfinishedAlways == Spec => []FailsForUnfinished
<1>1. ASSUME IndInv, pc = "parse", ~single, ~Parses
      PROVE  \/ \E k \in 1 .. cnt : items[k][1] \notin finished
             \/ fromFound /\ cnt \in 1 .. max - 1 /\ fromId + cnt \notin finished
  <2>1. CASE comma
    <3>1. /\ fromFound /\ InRange /\ cnt > 0 /\ id \notin seen
          /\ id = Nth(cnt + 1) /\ finished \subseteq seen
      BY <1>1, <2>1 DEF IndInv, PhaseInv, LoopInv, FilesInv
    <3>2. fromId \in Int /\ max \in Int /\ cnt \in Nat
      BY <1>1, ParameterAssumption DEF IndInv, TypeOK, ReaderTypeOK, cnt
    <3>3. id = fromId + cnt /\ id < fromId + max
      BY <3>1, <3>2 DEF Nth, InRange
    <3>4. QED
      BY <3>1, <3>2, <3>3
  <2>2. CASE ~comma
    <3>1. PICK k \in 1 .. cnt : items[k][2] # "complete"
      BY <1>1, <2>2 DEF Parses
    <3>2. items[k][1] \notin finished
      BY <1>1, <3>1 DEF IndInv, LoopInv
    <3>3. QED
      BY <3>2
  <2>3. QED
    BY <2>1, <2>2
<1>2. IndInv => FailsForUnfinished
  BY <1>1 DEF FailsForUnfinished, Status
<1>3. QED
  BY <1>2, IndInvAlways, PTL

\* A list is a run of consecutive ids, an upward one within max, whatever is
\* created while it is put together, and for any from and max.
THEOREM WithinMaxAlways == Spec => []WithinMax
<1>1. ASSUME IndInv, ~single
      PROVE  WithinMax
  <2>1. CASE pc \in {"idle", "scan"}
    <3>1. cnt = 0
      BY <1>1, <2>1 DEF IndInv, PhaseInv, cnt
    <3>2. QED
      BY <3>1 DEF WithinMax
  <2>2. CASE pc \in {"loop", "parse"}
    BY <1>1, <2>2 DEF IndInv, LoopInv, WithinMax, Nth
  <2>3. QED
    BY <1>1, <2>1, <2>2 DEF IndInv, TypeOK, ReaderTypeOK
<1>2. IndInv => WithinMax
  BY <1>1 DEF WithinMax
<1>3. QED
  BY <1>2, IndInvAlways, PTL

\* A job that had finished before the request is listed, if it lies in the
\* window and no id between it and the start of the window lacks a file.
THEOREM ListedUnlessGapAlways == Spec => []ListedUnlessGap
<1>1. ASSUME IndInv, pc = "parse", ~single, NEW i \in finished,
             InWindow(i), Between(i) \subseteq seen
      PROVE  Listed(i)
  <2>1. /\ id = Nth(cnt + 1) /\ cnt \in Nat
        /\ \A k \in 1 .. cnt : /\ items[k][1] = Nth(k)
                               /\ items[k][1] \in finished => items[k][2] = "complete"
        /\ ~InRange \/ id \notin seen
    BY <1>1 DEF IndInv, LoopInv, PhaseInv, TypeOK, ReaderTypeOK, cnt
  <2>2. fromId \in Int /\ max \in Int /\ highestId \in Int /\ i \in Nat
    <3>1. PICK n \in Nat : \A j \in seen : j <= n
      BY <1>1 DEF IndInv, FilesInv
    <3>2. highestId \in Int
      BY <1>1, <3>1, HighestOf DEF highestId, IndInv, TypeOK, ReaderTypeOK
    <3>3. QED
      BY <1>1, <3>2, RunnerAssumption, ParameterAssumption DEF IndInv, TypeOK, ReaderTypeOK
  <2>3. ASSUME NEW k \in 1 .. cnt, Nth(k) = i
        PROVE  Listed(i)
    <3>1. items[k] \in Ids \X (FileStates \ {"none"})
      BY <1>1 DEF IndInv, TypeOK, ReaderTypeOK, cnt
    <3>2. items[k][1] = i /\ items[k][2] = "complete"
      BY <2>1, <2>3
    <3>3. items[k] = <<i, "complete">>
      BY <3>1, <3>2
    <3>4. QED
      BY <3>3 DEF Listed
  <2>4. CASE fromFound
    <3>1. /\ id = fromId + cnt
          /\ i >= fromId /\ i < fromId + max
          /\ fromId .. i \subseteq seen
      BY <1>1, <2>1, <2>2, <2>4 DEF Nth, InWindow, Between
    <3>2. i < id
      BY <2>1, <2>2, <2>4, <3>1 DEF InRange
    <3>3. (i - fromId) + 1 \in 1 .. cnt /\ Nth((i - fromId) + 1) = i
      BY <2>1, <2>2, <2>4, <3>1, <3>2 DEF Nth
    <3>4. QED
      BY <2>3, <3>3
  <2>5. CASE ~fromFound
    <3>1. /\ id = highestId - cnt
          /\ i >= highestId - max /\ i <= highestId
          /\ i .. highestId \subseteq seen
      BY <1>1, <2>1, <2>2, <2>5 DEF Nth, InWindow, Between
    <3>2. i > id
      BY <2>1, <2>2, <2>5, <3>1 DEF InRange
    <3>3. (highestId - i) + 1 \in 1 .. cnt /\ Nth((highestId - i) + 1) = i
      BY <2>1, <2>2, <2>5, <3>1, <3>2 DEF Nth
    <3>4. QED
      BY <2>3, <3>3
  <2>6. QED
    BY <2>4, <2>5
<1>2. IndInv => ListedUnlessGap
  BY <1>1 DEF ListedUnlessGap
<1>3. QED
  BY <1>2, IndInvAlways, PTL
=============================================================================
