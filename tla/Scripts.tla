------------------------------ MODULE Scripts -------------------------------
(***************************************************************************)
(* The test scripts of the service: DataBase::getScripts, getScript,       *)
(* updateScript and cloneScriptRepo (testService/DataBase.h, DataBase.cpp) *)
(* with getScripts.sh, as called by the HTTP handlers of api/Server.h, and *)
(* Runtime::eval of the TestRunner processes, which read the same files.   *)
(* Each request runs on a worker thread of its own, each job in a process, *)
(* and none of them takes a lock: a script may be listed, read, run,       *)
(* overwritten and deleted at the same time.                               *)
(*                                                                         *)
(* A file is an inode, so that a thread that has it open keeps it when it  *)
(* is deleted.  A text is a name (whose script it is) and a version, and   *)
(* it is read and written in blocks: texts may differ in length.           *)
(***************************************************************************)
EXTENDS Naturals, Sequences, FiniteSets

CONSTANTS
  Workers,     \* threads that serve requests, and TestRunners
  Names,       \* the scripts of the git repository
  NotFound,    \* whose text the answer "job not found" is
  NoFile,      \* no inode
  MaxVersion   \* bound: versions of a script after the one in the repository

ASSUME ScriptAssumption ==
  /\ IsFiniteSet(Workers) /\ IsFiniteSet(Names)
  /\ NotFound \notin Names
  /\ NoFile \notin Nat
  /\ MaxVersion \in Nat

VARIABLES
  repo,      \* the directory repo exists
  dir,       \* the directory repo/scripts exists
  scripts,   \* its entries: name -> inode, or NoFile
  data,      \* inode -> content, a sequence of blocks
  op,        \* what each worker does
  posted,    \* history: what was ever sent to updateScript for a script
  mixed,     \* history: scripts whose file an update opened while another update
             \* or git's checkout had it open for writing
  latest     \* history: the content an undisturbed save or reload left behind

serverVars == <<repo, dir, scripts, data, op, posted, mixed, latest>>

Inodes == 1 .. Cardinality(Names) + Cardinality(Workers)
Texts == (Names \cup {NotFound}) \X (0 .. MaxVersion)

\* Even versions are two blocks long, odd ones one.
Whole(t) == [i \in 1 .. 2 - (t[2] % 2) |-> t]
Origin(n) == Whole(<<n, 0>>)

Kinds == {"idle", "list", "get", "run", "update", "clone"}
PCs == {"start", "read", "write", "rm", "git", "checkout", "answer"}

\* Besides the locals of a request, alone is its history.  For a change: no
\* other one has begun or been under way since it began.  For a read: the file
\* was there and not mixed when it was opened, and nobody has had it open for
\* writing from then on.
Idle == [kind |-> "idle", pc |-> "start", name |-> NotFound, text |-> <<>>,
         fd |-> NoFile, todo |-> {}, status |-> 200, alone |-> FALSE]

At(w, k, l) == op[w].kind = k /\ op[w].pc = l

\* A file no directory entry and no open stream refers to.
FreeInode ==
  CHOOSE i \in Inodes : /\ \A n \in Names : scripts[n] # i
                        /\ \A w \in Workers : op[w].fd # i

Present == {n \in Names : scripts[n] # NoFile}

Changing(w) == op[w].kind \in {"update", "clone"}

ServerInit ==
  \* The clone of the start-up succeeded, or it did not.
  /\ repo \in BOOLEAN /\ dir = repo
  /\ scripts = IF dir THEN CHOOSE f \in [Names -> Inodes] :
                            \A m, n \in Names : m # n => f[m] # f[n]
               ELSE [n \in Names |-> NoFile]
  /\ data = [i \in Inodes |-> IF \E n \in Names : scripts[n] = i
                              THEN Origin(CHOOSE n \in Names : scripts[n] = i) ELSE <<>>]
  /\ op = [w \in Workers |-> Idle]
  /\ posted = [n \in Names |-> {Origin(n)}]
  /\ mixed = {}
  /\ latest = [n \in Names |-> <<>>]

-----------------------------------------------------------------------------
(* A request arrives at an idle worker. *)

Serve(w, kind, n, text) ==
  /\ op[w] = Idle
  /\ op' = [v \in Workers |->
              IF v = w
              THEN [Idle EXCEPT !.kind = kind, !.name = n, !.text = text,
                                !.alone = \A u \in Workers : ~Changing(u)]
              ELSE IF kind \in {"update", "clone"} /\ Changing(v)
                   THEN [op[v] EXCEPT !.alone = FALSE]
              ELSE op[v]]
  /\ latest' = [m \in Names |->
                  IF kind = "clone" \/ (kind = "update" /\ m = n) THEN <<>> ELSE latest[m]]
  /\ posted' = IF kind = "update" THEN [posted EXCEPT ![n] = @ \cup {text}] ELSE posted
  /\ UNCHANGED <<repo, dir, scripts, data, mixed>>

\* The answer of a request; what the client does with it is up to the client.
Answer(w) == op' = [op EXCEPT ![w] = Idle]

Done(w) == op[w].pc = "answer"

-----------------------------------------------------------------------------
\* getScripts(): directory_iterator throws if the directory is missing, and
\* httplib turns the exception into status 500.
getScripts(w) ==
  /\ At(w, "list", "start")
  /\ op' = [op EXCEPT ![w].pc = "answer",
                      ![w].status = IF dir THEN 200 ELSE 500,
                      ![w].todo = Present]
  /\ UNCHANGED <<repo, dir, scripts, data, posted, mixed, latest>>

Writing(f) == {w \in Workers : op[w].pc = "write" /\ op[w].fd = f}

Open(w) ==
  LET n == op[w].name
      f == scripts[n]
  IN [op EXCEPT ![w].pc = "read", ![w].fd = f,
                ![w].alone = n \notin mixed /\ Writing(f) = {}]

\* getScript(): std::ifstream; without the file the answer is a text, too.
openRead(w) ==
  /\ At(w, "get", "start")
  /\ op' = IF op[w].name \in Present THEN Open(w)
           ELSE [op EXCEPT ![w].pc = "answer", ![w].alone = FALSE,
                           ![w].text = Whole(<<NotFound, 0>>)]
  /\ UNCHANGED <<repo, dir, scripts, data, posted, mixed, latest>>

\* lua.script_file() in the TestRunner; without the file it throws, and the
\* job ends with an error.
script_file(w) ==
  /\ At(w, "run", "start")
  /\ op' = IF op[w].name \in Present THEN Open(w)
           ELSE [op EXCEPT ![w].pc = "answer", ![w].alone = FALSE, ![w].status = 500]
  /\ UNCHANGED <<repo, dir, scripts, data, posted, mixed, latest>>

\* Mutant: only as much as fits into one buffer is read.
readBlock_Once(w) ==
  /\ op[w].pc = "read"
  /\ op' = [op EXCEPT ![w].pc = "answer", ![w].fd = NoFile,
                      ![w].text = SubSeq(data[op[w].fd], 1, 1)]
  /\ UNCHANGED <<repo, dir, scripts, data, posted, mixed, latest>>

\* buffer << script.rdbuf(), or Lua's reader: one block at a time up to the end
\* of the file.
readBlock(w) ==
  /\ op[w].pc = "read"
  /\ LET k == Len(op[w].text) + 1
         content == data[op[w].fd]
     IN op' = IF k <= Len(content)
              THEN [op EXCEPT ![w].text = Append(@, content[k])]
              ELSE [op EXCEPT ![w].pc = "answer", ![w].fd = NoFile]
  /\ UNCHANGED <<repo, dir, scripts, data, posted, mixed, latest>>

-----------------------------------------------------------------------------
(* updateScript(): std::ofstream opens and truncates, then writes *)

\* The file f is open for writing by w; its readers lose their calm.
OpenForWriting(w, f) ==
  op' = [v \in Workers |->
           IF v = w THEN [op[v] EXCEPT !.pc = "write", !.fd = f]
           ELSE IF op[v].pc = "read" /\ op[v].fd = f THEN [op[v] EXCEPT !.alone = FALSE]
           ELSE op[v]]

\* Mutant: the file is opened without std::ios::trunc.
openWrite_NoTruncate(w) ==
  /\ At(w, "update", "start")
  /\ dir
  /\ LET n == op[w].name
         f == IF scripts[n] = NoFile THEN FreeInode ELSE scripts[n]
     IN /\ scripts' = [scripts EXCEPT ![n] = f]
        /\ mixed' = IF Writing(f) # {} THEN mixed \cup {n} ELSE mixed
        /\ OpenForWriting(w, f)
  /\ UNCHANGED <<repo, dir, data, posted, latest>>

\* std::ofstream: a new file, or the one that is there with its content gone.
openWrite(w) ==
  /\ At(w, "update", "start")
  /\ dir
  /\ LET n == op[w].name
         f == IF scripts[n] = NoFile THEN FreeInode ELSE scripts[n]
     IN /\ scripts' = [scripts EXCEPT ![n] = f]
        /\ data' = [data EXCEPT ![f] = <<>>]
        /\ mixed' = IF Writing(f) # {} THEN mixed \cup {n} ELSE mixed \ {n}
        /\ OpenForWriting(w, f)
  /\ UNCHANGED <<repo, dir, posted, latest>>

\* Without the directory the stream fails, which nobody looks at.
openWriteFails(w) ==
  /\ At(w, "update", "start")
  /\ ~dir
  /\ op' = [op EXCEPT ![w].pc = "answer", ![w].status = 500]
  /\ UNCHANGED <<repo, dir, scripts, data, posted, mixed, latest>>

\* The content goes to the start of the file, over what is there by now; the
\* end of a longer content remains.  The handler then takes the response for
\* a GetScriptsResponse: std::get throws, and the status is 500 in any case.
writeScript(w) ==
  /\ At(w, "update", "write")
  /\ LET f == op[w].fd
         t == op[w].text
     IN data' = [data EXCEPT ![f] = t \o SubSeq(@, Len(t) + 1, Len(@))]
  /\ latest' = IF op[w].alone THEN [latest EXCEPT ![op[w].name] = op[w].text] ELSE latest
  /\ op' = [op EXCEPT ![w].pc = "answer", ![w].status = 500, ![w].fd = NoFile]
  /\ UNCHANGED <<repo, dir, scripts, posted, mixed>>

-----------------------------------------------------------------------------
(* cloneScriptRepo(): system("getScripts.sh repo url") *)

\* Mutant: the repository is not removed first.
rmList_NoRm(w) ==
  /\ At(w, "clone", "start")
  /\ op' = [op EXCEPT ![w].pc = "git"]
  /\ UNCHANGED <<repo, dir, scripts, data, posted, mixed, latest>>

\* rm -rf looks at what is there.
rmList(w) ==
  /\ At(w, "clone", "start")
  /\ op' = IF repo THEN [op EXCEPT ![w].pc = "rm", ![w].todo = Present]
           ELSE [op EXCEPT ![w].pc = "git"]
  /\ UNCHANGED <<repo, dir, scripts, data, posted, mixed, latest>>

\* The entries it found, one by one.
rm(w) ==
  /\ At(w, "clone", "rm")
  /\ \E n \in op[w].todo :
       /\ scripts' = [scripts EXCEPT ![n] = NoFile]
       /\ mixed' = mixed \ {n}
       /\ op' = [op EXCEPT ![w].todo = @ \ {n}]
  /\ UNCHANGED <<repo, dir, data, posted, latest>>

\* Then the directories, unless something was put into them meanwhile; the
\* script goes on either way.
rmdir(w) ==
  /\ At(w, "clone", "rm") /\ op[w].todo = {}
  /\ dir' = (Present # {})
  /\ repo' = (Present # {})
  /\ op' = [op EXCEPT ![w].pc = "git"]
  /\ UNCHANGED <<scripts, data, posted, mixed, latest>>

\* git clone refuses a directory that exists.  Otherwise it makes repo and
\* fetches; repo/scripts comes with the first file that is checked out.
gitClone(w) ==
  /\ At(w, "clone", "git")
  /\ repo' = TRUE
  /\ op' = IF repo THEN [op EXCEPT ![w].pc = "answer"]
           ELSE [op EXCEPT ![w].pc = "checkout", ![w].todo = Names]
  /\ latest' = IF repo /\ op[w].alone THEN [n \in Names |-> Origin(n)] ELSE latest
  /\ UNCHANGED <<dir, scripts, data, posted, mixed>>

\* The remote cannot be reached: git removes the directory it made.
fetchFails(w) ==
  /\ At(w, "clone", "checkout") /\ op[w].todo = Names
  /\ repo' = FALSE /\ dir' = FALSE
  /\ scripts' = [n \in Names |-> NoFile]
  /\ mixed' = {}
  /\ op' = [op EXCEPT ![w].pc = "answer"]
  /\ UNCHANGED <<data, posted, latest>>

\* One file of the work tree is created, and the directory if it is not there;
\* a file that is in the way is replaced.
checkout(w) ==
  /\ At(w, "clone", "checkout")
  /\ repo
  /\ \E n \in op[w].todo :
       /\ scripts' = [scripts EXCEPT ![n] = FreeInode]
       /\ data' = [data EXCEPT ![FreeInode] = <<>>]
       /\ mixed' = mixed \ {n}
       /\ op' = [op EXCEPT ![w].todo = @ \ {n}, ![w].name = n, ![w].text = Origin(n),
                           ![w].pc = "write", ![w].fd = FreeInode]
  /\ dir' = TRUE
  /\ UNCHANGED <<repo, posted, latest>>

\* Beside other changes git may give up, as it does when another reload deletes
\* the repository under it; it leaves what is there.
checkoutFails(w) ==
  /\ At(w, "clone", "checkout") /\ ~op[w].alone
  /\ op' = [op EXCEPT ![w].pc = "answer"]
  /\ UNCHANGED <<repo, dir, scripts, data, posted, mixed, latest>>

\* Its content is written.
writeOut(w) ==
  /\ At(w, "clone", "write")
  /\ data' = [data EXCEPT ![op[w].fd] = op[w].text \o SubSeq(@, Len(op[w].text) + 1, Len(@))]
  /\ op' = [op EXCEPT ![w].pc = IF op[w].todo = {} THEN "answer" ELSE "checkout",
                      ![w].fd = NoFile, ![w].name = NotFound, ![w].text = <<>>]
  /\ latest' = IF op[w].alone /\ op[w].todo = {}
               THEN [n \in Names |-> Origin(n)] ELSE latest
  /\ UNCHANGED <<repo, dir, scripts, posted, mixed>>

ServerStep(w) ==
  \/ getScripts(w) \/ openRead(w) \/ script_file(w) \/ readBlock(w)
  \/ openWrite(w) \/ openWriteFails(w) \/ writeScript(w)
  \/ rmList(w) \/ rm(w) \/ rmdir(w) \/ gitClone(w) \/ fetchFails(w)
  \/ checkout(w) \/ checkoutFails(w) \/ writeOut(w)

-----------------------------------------------------------------------------
(* Properties *)

ServerTypeOK ==
  /\ repo \in BOOLEAN /\ dir \in BOOLEAN
  /\ scripts \in [Names -> Inodes \cup {NoFile}]
  /\ data \in [Inodes -> Seq(Texts)]
  /\ \A w \in Workers :
       /\ op[w].kind \in Kinds /\ op[w].pc \in PCs
       /\ op[w].name \in Names \cup {NotFound}
       /\ op[w].text \in Seq(Texts)
       /\ op[w].fd \in Inodes \cup {NoFile}
       /\ op[w].todo \subseteq Names
       /\ op[w].status \in {200, 500}
       /\ op[w].alone \in BOOLEAN
  /\ mixed \subseteq Names
  /\ latest \in [Names -> Seq(Texts)]
  /\ \A n \in Names : \A text \in posted[n] : text \in Seq(Texts)
  /\ dir => repo
  /\ ~dir => Present = {}

\* A script file nobody writes holds exactly what one update sent, or what
\* the repository has: truncation, the blocks of one write and a deletion
\* under an open file never leave a mixture or a part, unless an update opened
\* the file while another update or git's checkout had it open for writing.
WholeUnlessOverlap ==
  \A n \in Present \ mixed :
    Writing(scripts[n]) = {} => data[scripts[n]] \in posted[n]

\* What a client is shown and what a job runs is one version of the script from
\* its first to its last line, unless the file is missing, was left mixed, or
\* was open for writing while it was read: a reload that deletes the file under
\* the reader, and changes to other scripts, do not tear it.
ReadWhole ==
  \A w \in Workers :
    (op[w].kind \in {"get", "run"} /\ Done(w) /\ op[w].alone) =>
      op[w].text \in posted[op[w].name]

\* What a save or a reload that no other change disturbed has left behind is
\* what the file holds until the next change begins.
UndisturbedStays ==
  \A n \in Names :
    latest[n] # <<>> => n \in Present /\ data[scripts[n]] = latest[n]

\* api/tests/rest/BasicTest.sh:49: GET /api/scripts answers 200.
ListAnswered ==
  \A w \in Workers : At(w, "list", "answer") => op[w].status = 200
=============================================================================
