------------------------------ MODULE JobQueue ------------------------------
(***************************************************************************)
(* What the scheduler promises a client of POST /api/jobs, without         *)
(* threads, locks, signals or pids.  Within one service process ids are    *)
(* fresh, jobs start in the order of their ids, each at most once, and     *)
(* never more than Max of its TestRunners run.  Across restarts ids are    *)
(* fresh and jobs start once only as long as every request could be stored:*)
(* the next id is looked up among the stored requests.                     *)
(*                                                                         *)
(* Losing the waiting jobs when the service ends is part of the promise:   *)
(* nothing in the code reads the request files of unfinished jobs again.   *)
(***************************************************************************)
EXTENDS Naturals, Sequences, FiniteSets

CONSTANTS
  Max,  \* how many TestRunners may run at once
  Ids   \* the job ids

VARIABLES
  stored,   \* ids whose request is on disk
  issued,   \* ids handed out by this service process
  waiting,  \* accepted jobs that have no TestRunner yet
  begun,    \* ids for which this service process started a TestRunner
  started,  \* ids for which any service process did
  running,  \* begun jobs whose TestRunner has not ended
  intact    \* every request handed in so far could be stored

jobVars == <<stored, issued, waiting, begun, started, running, intact>>

JobInit ==
  /\ stored = {} /\ issued = {} /\ waiting = <<>>
  /\ begun = {} /\ started = {} /\ running = {}
  /\ intact = TRUE

Submit ==
  \E id \in Ids :
    /\ \A i \in issued : i < id
    /\ intact => \A i \in stored \cup started : i < id
    /\ \/ stored' = stored \cup {id} /\ UNCHANGED intact
       \/ stored' = stored /\ intact' = FALSE
    /\ issued' = issued \cup {id}
    /\ waiting' = Append(waiting, id)
    /\ UNCHANGED <<begun, started, running>>

StartFirst ==
  /\ waiting # <<>>
  /\ \A i \in begun : i < Head(waiting)
  /\ intact => \A i \in started : i < Head(waiting)
  /\ Cardinality(running) < Max
  /\ waiting' = Tail(waiting)
  /\ begun' = begun \cup {Head(waiting)}
  /\ started' = started \cup {Head(waiting)}
  /\ running' = running \cup {Head(waiting)}
  /\ UNCHANGED <<stored, issued, intact>>

Finish ==
  \E id \in running :
    /\ running' = running \ {id}
    /\ UNCHANGED <<stored, issued, waiting, begun, started, intact>>

ServiceEnds ==
  /\ issued' = {} /\ waiting' = <<>> /\ begun' = {} /\ running' = {}
  /\ UNCHANGED <<stored, started, intact>>

JobNext == Submit \/ StartFirst \/ Finish \/ ServiceEnds

JobSpec == JobInit /\ [][JobNext]_jobVars
=============================================================================
