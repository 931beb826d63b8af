------------------------ MODULE ScriptEditor_proofs -------------------------
(***************************************************************************)
(* What the script files hold and what a reader of one gets, for any       *)
(* number of scripts, versions, worker threads and requests, and any       *)
(* interleaving of reads, saves and reloads of the repository.             *)
(***************************************************************************)
EXTENDS ScriptEditor, Integers, FiniteSetTheorems, SequenceTheorems, TLAPS

-----------------------------------------------------------------------------
(* The inductive invariant *)

\* What a worker does, or nothing.
Statuses == {200, 500}
Ops ==
  [kind : Kinds, pc : PCs, name : Names \cup {NotFound}, text : Seq(Texts),
   fd : Inodes \cup {NoFile}, todo : SUBSET Names, status : Statuses, alone : BOOLEAN]

TypeInv ==
  /\ TypeOK
  /\ op \in [Workers -> Ops]
  /\ posted \in [Names -> SUBSET Seq(Texts)]

\* The steps of a request follow each other as in the code.
Shape(w) ==
  /\ op[w].pc = "read" => op[w].kind \in {"get", "run"}
  /\ op[w].pc = "write" => op[w].kind \in {"update", "clone"}
  /\ op[w].fd # NoFile <=> op[w].pc \in {"read", "write"}
  /\ op[w].kind \in {"get", "run", "update"} => op[w].name \in Names
  /\ (op[w].kind \in {"get", "run"} /\ op[w].pc = "start") => op[w].text = <<>>
  /\ (op[w].kind = "clone" /\ op[w].pc = "write") =>
       op[w].name \in Names /\ op[w].text = Origin(op[w].name)
  /\ op[w].kind = "update" => op[w].text \in posted[op[w].name]

ShapeInv == \A w \in Workers : Shape(w)

\* No two entries share a file, and an open file that has an entry is open
\* under the name of that entry.
LinkInv ==
  /\ \A m, n \in Names : (scripts[m] = scripts[n] /\ scripts[m] # NoFile) => m = n
  /\ \A w \in Workers, n \in Names :
       (op[w].fd = scripts[n] /\ op[w].fd # NoFile) => op[w].name = n
  /\ \A n \in Names : Origin(n) \in posted[n]

\* A script that was never mixed is complete, or empty and open to one writer.
WholeInv ==
  \A n \in Present \ mixed :
    \/ Writing(scripts[n]) = {} /\ data[scripts[n]] \in posted[n]
    \/ (\E w \in Workers : Writing(scripts[n]) = {w}) /\ data[scripts[n]] = <<>>

\* What a reader nobody disturbed has read so far is the beginning of a
\* complete script, in the end all of it.
Reader(w) ==
  op[w].alone =>
    /\ op[w].pc = "read" =>
         /\ Writing(op[w].fd) = {}
         /\ data[op[w].fd] \in posted[op[w].name]
         /\ Len(op[w].text) <= Len(data[op[w].fd])
         /\ \A i \in 1 .. Len(op[w].text) : op[w].text[i] = data[op[w].fd][i]
    /\ (op[w].kind \in {"get", "run"} /\ op[w].pc = "answer") =>
         op[w].text \in posted[op[w].name]

ReaderInv == \A w \in Workers : Reader(w)

\* The file of n is there and holds what the repository has.
CheckedOut(n) == n \in Present /\ data[scripts[n]] = Origin(n)

\* How far a change that is the only one has come.
Undisturbed(w) ==
  (Changing(w) /\ op[w].alone) =>
    /\ \A v \in Workers \ {w} : ~Changing(v)
    /\ At(w, "update", "write") =>
         scripts[op[w].name] = op[w].fd /\ data[op[w].fd] = <<>>
    /\ At(w, "clone", "rm") => Present \subseteq op[w].todo
    /\ At(w, "clone", "git") => ~repo
    /\ At(w, "clone", "checkout") => \A n \in Names \ op[w].todo : CheckedOut(n)
    /\ At(w, "clone", "write") =>
         /\ scripts[op[w].name] = op[w].fd /\ data[op[w].fd] = <<>>
         /\ \A n \in Names \ op[w].todo : n = op[w].name \/ CheckedOut(n)

\* What such a change left behind is still there, and nobody is about to
\* change it.
StableInv ==
  /\ \A w \in Workers : Undisturbed(w)
  /\ \A n \in Names : latest[n] # <<>> =>
       /\ n \in Present /\ data[scripts[n]] = latest[n]
       /\ \A w \in Workers : (Changing(w) /\ ~Done(w)) =>
            op[w].kind = "update" /\ op[w].name # n

\* Texts of the script n, and the answer for a script that is not there.
TextsOf(n) == Seq({n, NotFound} \X (0 .. MaxVersion))

\* Workers that have the same file open have it open under the same name.
SharedInv ==
  \A v, w \in Workers :
    (op[v].fd = op[w].fd /\ op[v].fd # NoFile) => op[v].name = op[w].name

\* What is posted, stored and open under a name is a text of that name.
FilesApart ==
  /\ \A n \in Names : posted[n] \subseteq TextsOf(n)
  /\ \A n \in Names : scripts[n] # NoFile => data[scripts[n]] \in TextsOf(n)
  /\ \A w \in Workers : op[w].fd # NoFile => data[op[w].fd] \in TextsOf(op[w].name)

\* What is being fetched is the selected script, and the editor shows a text of
\* it once it has arrived.
GetsApart ==
  \A w \in Workers : op[w].kind = "get" =>
    op[w].name = selectedScript /\ op[w].text \in TextsOf(op[w].name)

PageApart ==
  GetsApart /\ ((~Fetching /\ ~missing) => content \in TextsOf(selectedScript))

\* Both hold as long as the user waits for a selected script, and does not save
\* when it has not arrived.
ApartInv == ~hasty => FilesApart /\ PageApart

IndInv ==
  /\ TypeInv /\ ShapeInv /\ LinkInv /\ WholeInv /\ ReaderInv
  /\ StableInv /\ SharedInv /\ ApartInv

-----------------------------------------------------------------------------
(* Texts and files *)

\* A complete text is a sequence of its blocks.
LEMMA WholeIsText ==
  ASSUME NEW T, NEW t \in T, t[2] \in Nat
  PROVE  Whole(t) \in Seq(T)
<1>1. 2 - (t[2] % 2) \in Nat
  OBVIOUS
<1>2. PICK k \in Nat : k = 2 - (t[2] % 2)
  BY <1>1
<1>3. [i \in 1 .. k |-> t] \in Seq(T)
  OBVIOUS
<1>4. QED
  BY <1>2, <1>3 DEF Whole

\* The texts of the repository and of the answer for a missing script.
LEMMA OriginIsText ==
  ASSUME NEW n \in Names \cup {NotFound}
  PROVE  /\ Whole(<<n, 0>>) \in Seq(Texts)
         /\ \A m : n \in {m, NotFound} => Whole(<<n, 0>>) \in TextsOf(m)
<1>1. 0 \in 0 .. MaxVersion /\ 0 \in Nat
  BY ScriptAssumption
<1>2. <<n, 0>> \in Texts /\ <<n, 0>>[2] \in Nat
  BY <1>1 DEF Texts
<1>3. ASSUME NEW m, n \in {m, NotFound}
      PROVE  Whole(<<n, 0>>) \in TextsOf(m)
  <2>1. <<n, 0>> \in {m, NotFound} \X (0 .. MaxVersion)
    BY <1>1, <1>3
  <2>2. QED
    BY <1>2, <2>1, WholeIsText DEF TextsOf
<1>4. QED
  BY <1>2, <1>3, WholeIsText

\* What writing a text over a content leaves: texts of the same kind, and
\* exactly the text if the file was empty.
LEMMA Overwritten ==
  ASSUME NEW T, NEW t \in Seq(T), NEW d \in Seq(T)
  PROVE  /\ t \o SubSeq(d, Len(t) + 1, Len(d)) \in Seq(T)
         /\ d = <<>> => t \o SubSeq(d, Len(t) + 1, Len(d)) = t
<1>1. Len(t) \in Nat /\ Len(d) \in Nat
  OBVIOUS
<1>2. SubSeq(d, Len(t) + 1, Len(d)) \in Seq(T)
  <2>1. \A i \in Len(t) + 1 .. Len(d) : i \in 1 .. Len(d)
    BY <1>1
  <2>2. QED
    BY <1>1, <2>1, SubSeqProperties
<1>3. d = <<>> => SubSeq(d, Len(t) + 1, Len(d)) = <<>>
  BY <1>1, <1>2
<1>4. QED
  BY <1>2, <1>3, ConcatProperties, ConcatEmptySeq

\* While some worker has no file open there is a file that nobody uses: there
\* are as many files as entries and workers together.
LEMMA FreeInodeIsFree ==
  ASSUME TypeInv, NEW w \in Workers, op[w].fd = NoFile
  PROVE  /\ FreeInode \in Inodes
         /\ \A n \in Names : scripts[n] # FreeInode
         /\ \A v \in Workers : op[v].fd # FreeInode
<1> DEFINE V == Workers \ {w}
           A == {scripts[n] : n \in Names}
           B == {op[v].fd : v \in V}
           Free(i) == (\A n \in Names : scripts[n] # i) /\ (\A v \in Workers : op[v].fd # i)
<1>1. /\ Cardinality(Names) \in Nat /\ Cardinality(Workers) \in Nat
      /\ IsFiniteSet(V) /\ Cardinality(V) = Cardinality(Workers) - 1
  BY ScriptAssumption, FS_CardinalityType, FS_RemoveElement
<1>2. IsFiniteSet(A) /\ Cardinality(A) <= Cardinality(Names)
  <2>1. [n \in Names |-> scripts[n]] \in Surjection(Names, A)
    BY DEF Surjection
  <2>2. QED
    BY <2>1, ScriptAssumption, FS_Surjection
<1>3. IsFiniteSet(B) /\ Cardinality(B) <= Cardinality(V)
  <2>1. [v \in V |-> op[v].fd] \in Surjection(V, B)
    BY DEF Surjection
  <2>2. QED
    BY <1>1, <2>1, FS_Surjection
<1>4. IsFiniteSet(A \cup B) /\ Cardinality(A \cup B) <= Cardinality(A) + Cardinality(B)
  <2>1. IsFiniteSet(A \cap B) /\ Cardinality(A \cap B) \in Nat
    BY <1>2, FS_Intersection, FS_CardinalityType
  <2>2. Cardinality(A) \in Nat /\ Cardinality(B) \in Nat
    BY <1>2, <1>3, FS_CardinalityType
  <2>3. /\ IsFiniteSet(A \cup B)
        /\ Cardinality(A \cup B) = Cardinality(A) + Cardinality(B) - Cardinality(A \cap B)
    BY <1>2, <1>3, FS_Union
  <2>4. QED
    BY <2>1, <2>2, <2>3
<1>5. \E i \in Inodes : Free(i)
  <2>1. SUFFICES ASSUME \A i \in Inodes : ~Free(i)
                 PROVE  FALSE
    OBVIOUS
  <2>2. ASSUME NEW i \in Inodes
        PROVE  i \in A \cup B
    <3>1. i # NoFile
      BY ScriptAssumption, <1>1 DEF Inodes
    <3>2. CASE \E n \in Names : scripts[n] = i
      BY <3>2
    <3>3. CASE \E v \in Workers : op[v].fd = i
      BY <3>1, <3>3
    <3>4. QED
      BY <2>1, <3>2, <3>3
  <2>3. Cardinality(Inodes) <= Cardinality(A \cup B)
    BY <1>4, <2>2, FS_Subset
  <2>4. Cardinality(Inodes) = Cardinality(Names) + Cardinality(Workers)
    <3>1. PICK k \in Nat : k = Cardinality(Names) + Cardinality(Workers)
      BY <1>1
    <3>2. Cardinality(1 .. k) = k
      BY FS_Interval
    <3>3. QED
      BY <3>1, <3>2 DEF Inodes
  <2>5. /\ Cardinality(A) \in Nat /\ Cardinality(B) \in Nat /\ Cardinality(A \cup B) \in Nat
    BY <1>2, <1>3, <1>4, FS_CardinalityType
  <2>6. QED
    BY <1>1, <1>2, <1>3, <1>4, <2>3, <2>4, <2>5
<1>6. FreeInode = CHOOSE i \in Inodes : Free(i)
  BY Zenon DEF FreeInode
<1>7. QED
  BY <1>5, <1>6

-----------------------------------------------------------------------------
(* The steps, by what they do to files and to the workers *)

\* The other workers go on with what they do, perhaps no longer alone.
Others(w) ==
  \A v \in Workers \ {w} :
    /\ op'[v].kind = op[v].kind /\ op'[v].pc = op[v].pc /\ op'[v].name = op[v].name
    /\ op'[v].text = op[v].text /\ op'[v].fd = op[v].fd /\ op'[v].todo = op[v].todo
    /\ op'[v].alone => op[v].alone

\* No file is opened, closed or written; entries may go.
Quiet(w) ==
  /\ op' \in [Workers -> Ops] /\ \A v \in Workers \ {w} : op'[v] = op[v]
  /\ op'[w].kind = op[w].kind /\ op'[w].name = op[w].name /\ op'[w].text = op[w].text
  /\ op'[w].fd = op[w].fd /\ op'[w].alone = op[w].alone
  /\ op[w].kind \in {"list", "update", "clone"}
  /\ op[w].pc \notin {"read", "write"} /\ op'[w].pc \notin {"start", "read", "write"}
  /\ data' = data /\ posted' = posted
  /\ \A n \in Names : \/ scripts'[n] = scripts[n] /\ (n \in mixed' <=> n \in mixed)
                      \/ scripts'[n] = NoFile

\* A step of a reader.
ReadStep(w) ==
  /\ op' \in [Workers -> Ops] /\ \A v \in Workers \ {w} : op'[v] = op[v]
  /\ op'[w].kind = op[w].kind /\ op'[w].name = op[w].name
  /\ op[w].kind \in {"get", "run"}
  /\ UNCHANGED <<repo, dir, scripts, data, posted, mixed, latest>>
  /\ \/ /\ op[w].pc = "start" /\ op[w].name \in Present
        /\ op'[w].pc = "read" /\ op'[w].fd = scripts[op[w].name]
        /\ op'[w].text = op[w].text
        /\ op'[w].alone <=> op[w].name \notin mixed /\ Writing(scripts[op[w].name]) = {}
     \/ /\ op[w].pc = "start"
        /\ op'[w].pc = "answer" /\ op'[w].fd = op[w].fd /\ ~op'[w].alone
        /\ op'[w].text \in {op[w].text, Whole(<<NotFound, 0>>)}
     \/ /\ op[w].pc = "read"
        /\ op'[w].pc = "read" /\ op'[w].fd = op[w].fd /\ op'[w].alone = op[w].alone
        /\ Len(op[w].text) + 1 <= Len(data[op[w].fd])
        /\ op'[w].text = Append(op[w].text, data[op[w].fd][Len(op[w].text) + 1])
     \/ /\ op[w].pc = "read"
        /\ op'[w].pc = "answer" /\ op'[w].fd = NoFile /\ op'[w].alone = op[w].alone
        /\ ~(Len(op[w].text) + 1 <= Len(data[op[w].fd]))
        /\ op'[w].text = op[w].text

\* The script n is opened for writing; its file f is empty.
Create(w, n, f) ==
  /\ n \in Names /\ f \in Inodes /\ repo /\ dir'
  /\ op' \in [Workers -> Ops] /\ Others(w)
  /\ \A v \in Workers \ {w} : (op[v].pc = "read" /\ op[v].fd = f) => ~op'[v].alone
  /\ op'[w].kind = op[w].kind /\ op'[w].alone = op[w].alone
  /\ op'[w].pc = "write" /\ op'[w].fd = f /\ op'[w].name = n
  /\ op[w].pc \notin {"read", "write"}
  /\ \/ op[w].kind = "update" /\ op[w].pc = "start" /\ op[w].name = n
        /\ op'[w].text = op[w].text
     \/ op[w].kind = "clone" /\ op[w].pc = "checkout" /\ n \in op[w].todo
        /\ op'[w].text = Origin(n) /\ op'[w].todo = op[w].todo \ {n}
  /\ scripts' = [scripts EXCEPT ![n] = f]
  /\ data' = [data EXCEPT ![f] = <<>>]
  /\ UNCHANGED <<repo, posted, latest>>
  /\ \/ scripts[n] = f
     \/ (\A m \in Names : scripts[m] # f) /\ (\A v \in Workers : op[v].fd # f)
  /\ \A m \in Names \ {n} : m \in mixed' <=> m \in mixed
  /\ n \notin mixed' => Writing(f) = {}

\* A text is written and its file closed.
Fill(w) ==
  /\ op' \in [Workers -> Ops] /\ \A v \in Workers \ {w} : op'[v] = op[v]
  /\ op'[w].kind = op[w].kind /\ op'[w].alone = op[w].alone /\ op'[w].todo = op[w].todo
  /\ op[w].pc = "write" /\ op'[w].fd = NoFile
  /\ \/ op[w].kind = "update" /\ op'[w].pc = "answer"
        /\ op'[w].name = op[w].name /\ op'[w].text = op[w].text
     \/ op[w].kind = "clone" /\ op'[w].pc = IF op[w].todo = {} THEN "answer" ELSE "checkout"
  /\ data' = [data EXCEPT ![op[w].fd] = op[w].text \o SubSeq(@, Len(op[w].text) + 1, Len(@))]
  /\ UNCHANGED <<repo, dir, scripts, posted, mixed>>

\* One worker's record is replaced.
LEMMA OpReplaced ==
  ASSUME TypeInv, NEW w \in Workers, NEW q \in Ops, op' = [op EXCEPT ![w] = q]
  PROVE  /\ op' \in [Workers -> Ops] /\ op'[w] = q
         /\ \A v \in Workers \ {w} : op'[v] = op[v]
BY DEF TypeInv

\* Listing, a save that fails, and the steps of a reload between its writes.
LEMMA QuietSteps ==
  ASSUME TypeInv, ShapeInv, NEW w \in Workers,
         \/ getScripts(w) \/ openWriteFails(w) \/ rmList(w) \/ rm(w) \/ rmdir(w)
         \/ gitClone(w) \/ fetchFails(w) \/ checkoutFails(w)
  PROVE  Quiet(w)
<1>1. PICK o : o = op[w]
  OBVIOUS
<1>2. o \in Ops /\ Present \in SUBSET Names /\ scripts \in [Names -> Inodes \cup {NoFile}]
  BY <1>1 DEF TypeInv, TypeOK, ServerTypeOK, Present
<1>a. "answer" \in PCs
  BY DEF PCs
<1>3. ASSUME NEW q \in Ops, op' = [op EXCEPT ![w] = q],
             q.kind = o.kind, q.name = o.name, q.text = o.text,
             q.fd = o.fd, q.alone = o.alone,
             o.kind \in {"list", "update", "clone"},
             o.pc \notin {"read", "write"}, q.pc \notin {"start", "read", "write"},
             data' = data, posted' = posted,
             \A n \in Names : \/ scripts'[n] = scripts[n] /\ (n \in mixed' <=> n \in mixed)
                              \/ scripts'[n] = NoFile
      PROVE  Quiet(w)
  BY <1>1, <1>3, OpReplaced DEF Quiet
<1>4. CASE getScripts(w)
  <2>1. PICK s \in Statuses : s = IF dir THEN 200 ELSE 500
    BY DEF Statuses
  <2>2. PICK q : q = [o EXCEPT !.pc = "answer", !.status = s, !.todo = Present]
    OBVIOUS
  <2>3. q \in Ops
    BY <1>2, <1>a, <2>2 DEF Ops
  <2>4. op' = [op EXCEPT ![w] = q]
    <3>1. op' = [op EXCEPT ![w].pc = "answer", ![w].status = s, ![w].todo = Present]
      BY <1>4, <2>1 DEF getScripts
    <3>2. QED
      BY <1>1, <2>2, <3>1
  <2>5. /\ q.kind = o.kind /\ q.name = o.name /\ q.text = o.text
        /\ q.fd = o.fd /\ q.alone = o.alone /\ q.pc = "answer"
    BY <1>2, <2>2 DEF Ops
  <2>6. /\ o.kind = "list" /\ o.pc = "start"
        /\ UNCHANGED <<repo, dir, scripts, data, posted, mixed, latest>>
    BY <1>1, <1>4 DEF getScripts, At
  <2>7. QED
    BY <1>3, <2>3, <2>4, <2>5, <2>6
<1>5. CASE openWriteFails(w)
  <2>1. PICK s \in Statuses : s = 500
    BY DEF Statuses
  <2>2. PICK q : q = [o EXCEPT !.pc = "answer", !.status = s]
    OBVIOUS
  <2>3. q \in Ops
    BY <1>2, <1>a, <2>2 DEF Ops
  <2>4. op' = [op EXCEPT ![w] = q]
    <3>1. op' = [op EXCEPT ![w].pc = "answer", ![w].status = s]
      BY <1>5, <2>1 DEF openWriteFails
    <3>2. QED
      BY <1>1, <2>2, <3>1
  <2>5. /\ q.kind = o.kind /\ q.name = o.name /\ q.text = o.text
        /\ q.fd = o.fd /\ q.alone = o.alone /\ q.pc = "answer"
    BY <1>2, <2>2 DEF Ops
  <2>6. /\ o.kind = "update" /\ o.pc = "start"
        /\ UNCHANGED <<repo, dir, scripts, data, posted, mixed, latest>>
    BY <1>1, <1>5 DEF openWriteFails, At
  <2>7. QED
    BY <1>3, <2>3, <2>4, <2>5, <2>6
<1>6. ASSUME NEW l \in {"rm", "git", "checkout", "answer"}, NEW t \in SUBSET Names,
             op' = [op EXCEPT ![w] = [o EXCEPT !.pc = l, !.todo = t]],
             o.kind = "clone", o.pc \notin {"read", "write"},
             data' = data, posted' = posted,
             \A n \in Names : \/ scripts'[n] = scripts[n] /\ (n \in mixed' <=> n \in mixed)
                              \/ scripts'[n] = NoFile
      PROVE  Quiet(w)
  <2>1. PICK q : q = [o EXCEPT !.pc = l, !.todo = t]
    OBVIOUS
  <2>2. l \in PCs
    BY DEF PCs
  <2>3. q \in Ops
    BY <1>2, <2>1, <2>2 DEF Ops
  <2>4. /\ q.kind = o.kind /\ q.name = o.name /\ q.text = o.text
        /\ q.fd = o.fd /\ q.alone = o.alone /\ q.pc = l
    BY <1>2, <2>1 DEF Ops
  <2>5. QED
    BY <1>3, <1>6, <2>1, <2>3, <2>4
<1>7. CASE rmList(w)
  <2>1. o.kind = "clone" /\ o.pc = "start" /\ UNCHANGED <<scripts, data, posted, mixed>>
    BY <1>1, <1>7 DEF rmList, At
  <2>2. CASE repo
    <3>1. op' = [op EXCEPT ![w] = [o EXCEPT !.pc = "rm", !.todo = Present]]
      BY <1>1, <1>7, <2>2 DEF rmList
    <3>2. QED
      BY <1>2, <1>6, <2>1, <3>1
  <2>3. CASE ~repo
    <3>1. op' = [op EXCEPT ![w] = [o EXCEPT !.pc = "git", !.todo = o.todo]]
      BY <1>1, <1>2, <1>7, <2>3 DEF rmList, Ops
    <3>2. o.todo \in SUBSET Names
      BY <1>2 DEF Ops
    <3>3. QED
      BY <1>6, <2>1, <3>1, <3>2
  <2>4. QED
    BY <2>2, <2>3
<1>8. CASE rm(w)
  <2>1. o.kind = "clone" /\ o.pc = "rm" /\ o.todo \in SUBSET Names
        /\ UNCHANGED <<data, posted>>
    BY <1>1, <1>2, <1>8 DEF rm, At, Ops
  <2>2. PICK n \in o.todo : /\ scripts' = [scripts EXCEPT ![n] = NoFile]
                            /\ mixed' = mixed \ {n}
                            /\ op' = [op EXCEPT ![w] = [o EXCEPT !.todo = @ \ {n}]]
    BY <1>1, <1>8 DEF rm
  <2>3. [o EXCEPT !.todo = @ \ {n}] = [o EXCEPT !.pc = "rm", !.todo = o.todo \ {n}]
    BY <1>2, <2>1 DEF Ops
  <2>4. \A m \in Names : \/ scripts'[m] = scripts[m] /\ (m \in mixed' <=> m \in mixed)
                         \/ scripts'[m] = NoFile
    BY <1>2, <2>2
  <2>5. o.todo \ {n} \in SUBSET Names
    BY <2>1
  <2>6. op' = [op EXCEPT ![w] = [o EXCEPT !.pc = "rm", !.todo = o.todo \ {n}]]
    BY <2>2, <2>3
  <2>7. QED
    BY <1>6, <2>1, <2>4, <2>5, <2>6
<1>9. CASE rmdir(w)
  <2>1. o.kind = "clone" /\ o.pc = "rm" /\ o.todo \in SUBSET Names
        /\ UNCHANGED <<scripts, data, posted, mixed>>
    BY <1>1, <1>2, <1>9 DEF rmdir, At, Ops
  <2>2. op' = [op EXCEPT ![w] = [o EXCEPT !.pc = "git", !.todo = o.todo]]
    <3>1. [o EXCEPT !.pc = "git"] = [o EXCEPT !.pc = "git", !.todo = o.todo]
      BY <1>2 DEF Ops
    <3>2. QED
      BY <1>1, <1>9, <3>1 DEF rmdir
  <2>3. QED
    BY <1>6, <2>1, <2>2
<1>10. CASE gitClone(w)
  <2>1. o.kind = "clone" /\ o.pc = "git" /\ o.todo \in SUBSET Names
        /\ UNCHANGED <<scripts, data, posted, mixed>>
    BY <1>1, <1>2, <1>10 DEF gitClone, At, Ops
  <2>2. CASE repo
    <3>1. op' = [op EXCEPT ![w] = [o EXCEPT !.pc = "answer", !.todo = o.todo]]
      BY <1>1, <1>2, <1>10, <2>2 DEF gitClone, Ops
    <3>2. QED
      BY <1>6, <2>1, <3>1
  <2>3. CASE ~repo
    <3>1. op' = [op EXCEPT ![w] = [o EXCEPT !.pc = "checkout", !.todo = Names]]
      BY <1>1, <1>10, <2>3 DEF gitClone
    <3>2. QED
      BY <1>6, <2>1, <3>1
  <2>4. QED
    BY <2>2, <2>3
<1>11. CASE fetchFails(w)
  <2>1. o.kind = "clone" /\ o.pc = "checkout" /\ o.todo \in SUBSET Names
        /\ UNCHANGED <<data, posted>> /\ scripts' = [n \in Names |-> NoFile]
    BY <1>1, <1>2, <1>11 DEF fetchFails, At, Ops
  <2>2. op' = [op EXCEPT ![w] = [o EXCEPT !.pc = "answer", !.todo = o.todo]]
    BY <1>1, <1>2, <1>11 DEF fetchFails, Ops
  <2>3. QED
    BY <1>6, <2>1, <2>2
<1>12. CASE checkoutFails(w)
  <2>1. o.kind = "clone" /\ o.pc = "checkout" /\ o.todo \in SUBSET Names
        /\ UNCHANGED <<scripts, data, posted, mixed>>
    BY <1>1, <1>2, <1>12 DEF checkoutFails, At, Ops
  <2>2. op' = [op EXCEPT ![w] = [o EXCEPT !.pc = "answer", !.todo = o.todo]]
    <3>1. [o EXCEPT !.pc = "answer"] = [o EXCEPT !.pc = "answer", !.todo = o.todo]
      BY <1>2 DEF Ops
    <3>2. QED
      BY <1>1, <1>12, <3>1 DEF checkoutFails
  <2>3. QED
    BY <1>6, <2>1, <2>2
<1>13. QED
  BY <1>4, <1>5, <1>7, <1>8, <1>9, <1>10, <1>11, <1>12

\* The steps of GET /api/scripts/<name> and of a TestRunner that loads a script.
LEMMA ReadSteps ==
  ASSUME TypeInv, ShapeInv, NEW w \in Workers,
         openRead(w) \/ script_file(w) \/ readBlock(w)
  PROVE  ReadStep(w)
<1>1. PICK o : o = op[w]
  OBVIOUS
<1>2. /\ o \in Ops /\ o.text \in Seq(Texts) /\ o.name \in Names \cup {NotFound}
      /\ o.fd \in Inodes \cup {NoFile}
  BY <1>1 DEF TypeInv, Ops
<1>3. "read" \in PCs /\ "answer" \in PCs
  BY DEF PCs
<1>4. UNCHANGED <<repo, dir, scripts, data, posted, mixed, latest>>
  BY DEF openRead, script_file, readBlock
<1>5. ASSUME o.kind \in {"get", "run"}, o.pc = "start", o.name \in Present, op' = Open(w)
      PROVE  ReadStep(w)
  <2>1. PICK f, a : f = scripts[o.name] /\ a = (o.name \notin mixed /\ Writing(f) = {})
    OBVIOUS
  <2>2. f \in Inodes \cup {NoFile} /\ a \in BOOLEAN
    BY <1>5, <2>1 DEF Present, TypeInv, TypeOK, ServerTypeOK
  <2>3. PICK q : q = [o EXCEPT !.pc = "read", !.fd = f, !.alone = a]
    OBVIOUS
  <2>4. q \in Ops
    BY <1>2, <1>3, <2>2, <2>3 DEF Ops
  <2>5. op' = [op EXCEPT ![w] = q]
    BY <1>1, <1>5, <2>1, <2>3 DEF Open
  <2>6. /\ q.kind = o.kind /\ q.name = o.name /\ q.text = o.text
        /\ q.pc = "read" /\ q.fd = f /\ q.alone = a
    BY <1>2, <2>3 DEF Ops
  <2>7. /\ op' \in [Workers -> Ops] /\ op'[w] = q
        /\ \A v \in Workers \ {w} : op'[v] = op[v]
    BY <2>4, <2>5, OpReplaced
  <2>8. QED
    BY <1>1, <1>4, <1>5, <2>1, <2>6, <2>7 DEF ReadStep
<1>6. ASSUME NEW q \in Ops, op' = [op EXCEPT ![w] = q], o.kind \in {"get", "run"},
             o.pc = "start", q.kind = o.kind, q.name = o.name, q.pc = "answer",
             q.fd = o.fd, ~q.alone, q.text \in {o.text, Whole(<<NotFound, 0>>)}
      PROVE  ReadStep(w)
  <2>1. /\ op' \in [Workers -> Ops] /\ op'[w] = q
        /\ \A v \in Workers \ {w} : op'[v] = op[v]
    BY <1>6, OpReplaced
  <2>2. QED
    BY <1>1, <1>4, <1>6, <2>1 DEF ReadStep
<1>7. CASE openRead(w)
  <2>1. o.kind = "get" /\ o.pc = "start"
    BY <1>1, <1>7 DEF openRead, At
  <2>2. CASE o.name \in Present
    <3>1. op' = Open(w)
      BY <1>1, <1>7, <2>2 DEF openRead
    <3>2. QED
      BY <1>5, <2>1, <2>2, <3>1
  <2>3. CASE o.name \notin Present
    <3>1. PICK t : t = Whole(<<NotFound, 0>>)
      OBVIOUS
    <3>2. t \in Seq(Texts)
      BY <3>1, OriginIsText
    <3>3. PICK q : q = [o EXCEPT !.pc = "answer", !.alone = FALSE, !.text = t]
      OBVIOUS
    <3>4. q \in Ops
      BY <1>2, <1>3, <3>2, <3>3 DEF Ops
    <3>5. op' = [op EXCEPT ![w] = q]
      <4>1. op' = [op EXCEPT ![w].pc = "answer", ![w].alone = FALSE, ![w].text = t]
        BY <1>1, <1>7, <2>3, <3>1 DEF openRead
      <4>2. QED
        BY <1>1, <3>3, <4>1
    <3>6. /\ q.kind = o.kind /\ q.name = o.name /\ q.pc = "answer"
          /\ q.fd = o.fd /\ ~q.alone /\ q.text = t
      BY <1>2, <3>3 DEF Ops
    <3>7. QED
      BY <1>6, <2>1, <3>1, <3>4, <3>5, <3>6
  <2>4. QED
    BY <2>2, <2>3
<1>8. CASE script_file(w)
  <2>1. o.kind = "run" /\ o.pc = "start"
    BY <1>1, <1>8 DEF script_file, At
  <2>2. CASE o.name \in Present
    <3>1. op' = Open(w)
      BY <1>1, <1>8, <2>2 DEF script_file
    <3>2. QED
      BY <1>5, <2>1, <2>2, <3>1
  <2>3. CASE o.name \notin Present
    <3>1. PICK s \in Statuses : s = 500
      BY DEF Statuses
    <3>2. PICK q : q = [o EXCEPT !.pc = "answer", !.alone = FALSE, !.status = s]
      OBVIOUS
    <3>3. q \in Ops
      BY <1>2, <1>3, <3>2 DEF Ops
    <3>4. op' = [op EXCEPT ![w] = q]
      <4>1. op' = [op EXCEPT ![w].pc = "answer", ![w].alone = FALSE, ![w].status = s]
        BY <1>1, <1>8, <2>3, <3>1 DEF script_file
      <4>2. QED
        BY <1>1, <3>2, <4>1
    <3>5. /\ q.kind = o.kind /\ q.name = o.name /\ q.pc = "answer"
          /\ q.fd = o.fd /\ ~q.alone /\ q.text = o.text
      BY <1>2, <3>2 DEF Ops
    <3>6. QED
      BY <1>6, <2>1, <3>3, <3>4, <3>5
  <2>4. QED
    BY <2>2, <2>3
<1>9. CASE readBlock(w)
  <2>1. PICK c : c = data[o.fd]
    OBVIOUS
  <2>2. o.pc = "read" /\ o.kind \in {"get", "run"} /\ o.fd \in Inodes
    BY <1>1, <1>2, <1>9 DEF readBlock, ShapeInv, Shape
  <2>3. c \in Seq(Texts)
    BY <2>1, <2>2 DEF TypeInv, TypeOK, ServerTypeOK
  <2>4. CASE Len(o.text) + 1 <= Len(c)
    <3>1. PICK t : t = Append(o.text, c[Len(o.text) + 1])
      OBVIOUS
    <3>2. t \in Seq(Texts)
      <4>1. c[Len(o.text) + 1] \in Texts
        BY <1>2, <2>3, <2>4, ElementOfSeq
      <4>2. QED
        BY <1>2, <3>1, <4>1, AppendProperties
    <3>3. PICK q : q = [o EXCEPT !.text = t]
      OBVIOUS
    <3>4. q \in Ops
      BY <1>2, <3>2, <3>3 DEF Ops
    <3>5. op' = [op EXCEPT ![w] = q]
      BY <1>1, <1>9, <2>1, <2>4, <3>1, <3>3 DEF readBlock
    <3>6. /\ q.kind = o.kind /\ q.name = o.name /\ q.pc = o.pc /\ q.fd = o.fd
          /\ q.alone = o.alone /\ q.text = t
      BY <1>2, <3>3 DEF Ops
    <3>7. /\ op' \in [Workers -> Ops] /\ op'[w] = q
          /\ \A v \in Workers \ {w} : op'[v] = op[v]
      BY <3>4, <3>5, OpReplaced
    <3>8. QED
      BY <1>1, <1>4, <2>1, <2>2, <2>4, <3>1, <3>6, <3>7 DEF ReadStep
  <2>5. CASE ~(Len(o.text) + 1 <= Len(c))
    <3>1. PICK q : q = [o EXCEPT !.pc = "answer", !.fd = NoFile]
      OBVIOUS
    <3>2. q \in Ops
      BY <1>2, <1>3, <3>1 DEF Ops
    <3>3. op' = [op EXCEPT ![w] = q]
      BY <1>1, <1>9, <2>1, <2>5, <3>1 DEF readBlock
    <3>4. /\ q.kind = o.kind /\ q.name = o.name /\ q.pc = "answer" /\ q.fd = NoFile
          /\ q.alone = o.alone /\ q.text = o.text
      BY <1>2, <3>1 DEF Ops
    <3>5. /\ op' \in [Workers -> Ops] /\ op'[w] = q
          /\ \A v \in Workers \ {w} : op'[v] = op[v]
      BY <3>2, <3>3, OpReplaced
    <3>6. QED
      BY <1>1, <1>4, <2>1, <2>2, <2>5, <3>4, <3>5 DEF ReadStep
  <2>6. QED
    BY <2>4, <2>5
<1>10. QED
  BY <1>7, <1>8, <1>9

\* std::ofstream of a save, and the creation of a file by git.
LEMMA CreateSteps ==
  ASSUME TypeInv, ShapeInv, NEW w \in Workers, openWrite(w) \/ checkout(w)
  PROVE  \E n, f : Create(w, n, f)
<1>1. PICK o : o = op[w]
  OBVIOUS
<1>2. o \in Ops /\ scripts \in [Names -> Inodes \cup {NoFile}]
  BY <1>1 DEF TypeInv, TypeOK, ServerTypeOK
<1>3. "write" \in PCs
  BY DEF PCs
<1>4. CASE openWrite(w)
  <2>1. PICK n, f : n = o.name /\ f = IF scripts[n] = NoFile THEN FreeInode ELSE scripts[n]
    OBVIOUS
  <2>2. /\ o.kind = "update" /\ o.pc = "start" /\ dir' /\ repo
        /\ scripts' = [scripts EXCEPT ![n] = f]
        /\ data' = [data EXCEPT ![f] = <<>>]
        /\ mixed' = IF Writing(f) # {} THEN mixed \cup {n} ELSE mixed \ {n}
        /\ OpenForWriting(w, f)
        /\ UNCHANGED <<repo, dir, posted, latest>>
    BY <1>1, <1>4, <2>1 DEF openWrite, At, TypeInv, TypeOK, ServerTypeOK
  <2>3. n \in Names /\ o.fd = NoFile
    BY <1>1, <2>1, <2>2 DEF ShapeInv, Shape
  <2>4. /\ f \in Inodes
        /\ \/ scripts[n] = f
           \/ (\A m \in Names : scripts[m] # f) /\ (\A v \in Workers : op[v].fd # f)
    <3>1. CASE scripts[n] = NoFile
      BY <1>1, <2>1, <2>3, <3>1, FreeInodeIsFree
    <3>2. CASE scripts[n] # NoFile
      BY <1>2, <2>1, <2>3, <3>2
    <3>3. QED
      BY <3>1, <3>2
  <2>5. ASSUME NEW v \in Workers
        PROVE  /\ op'[v] \in Ops
               /\ v = w => op'[v] = [o EXCEPT !.pc = "write", !.fd = f]
               /\ v # w => \/ op'[v] = op[v] /\ ~(op[v].pc = "read" /\ op[v].fd = f)
                           \/ op'[v] = [op[v] EXCEPT !.alone = FALSE]
    <3>1. op[v] \in Ops
      BY DEF TypeInv
    <3>2. CASE v = w
      <4>1. op'[v] = [o EXCEPT !.pc = "write", !.fd = f]
        BY <1>1, <2>2, <3>2 DEF OpenForWriting
      <4>2. [o EXCEPT !.pc = "write", !.fd = f] \in Ops
        BY <1>2, <1>3, <2>4 DEF Ops
      <4>3. QED
        BY <3>2, <4>1, <4>2
    <3>3. CASE v # w
      <4>1. \/ op'[v] = op[v] /\ ~(op[v].pc = "read" /\ op[v].fd = f)
            \/ op'[v] = [op[v] EXCEPT !.alone = FALSE]
        BY <2>2, <3>3 DEF OpenForWriting
      <4>2. [op[v] EXCEPT !.alone = FALSE] \in Ops
        BY <3>1 DEF Ops
      <4>3. QED
        BY <3>1, <3>3, <4>1, <4>2
    <3>4. QED
      BY <3>2, <3>3
  <2>6. op' \in [Workers -> Ops]
    <3>1. op' = [v \in Workers |-> op'[v]]
      BY <2>2 DEF OpenForWriting
    <3>2. QED
      BY <2>5, <3>1
  <2>7. /\ op'[w].kind = o.kind /\ op'[w].alone = o.alone /\ op'[w].pc = "write"
        /\ op'[w].fd = f /\ op'[w].name = n /\ op'[w].text = o.text
    <3>1. op'[w] = [o EXCEPT !.pc = "write", !.fd = f]
      BY <2>5
    <3>2. QED
      BY <1>2, <2>1, <3>1 DEF Ops
  <2>8. Others(w) /\ \A v \in Workers \ {w} : (op[v].pc = "read" /\ op[v].fd = f) => ~op'[v].alone
    <3>1. ASSUME NEW v \in Workers \ {w}
          PROVE  /\ op'[v].kind = op[v].kind /\ op'[v].pc = op[v].pc /\ op'[v].name = op[v].name
                 /\ op'[v].text = op[v].text /\ op'[v].fd = op[v].fd
                 /\ op'[v].todo = op[v].todo
                 /\ op'[v].alone => op[v].alone
                 /\ (op[v].pc = "read" /\ op[v].fd = f) => ~op'[v].alone
      <4>1. op[v] \in Ops
        BY DEF TypeInv
      <4>2. CASE op'[v] = [op[v] EXCEPT !.alone = FALSE]
        BY <4>1, <4>2 DEF Ops
      <4>3. QED
        BY <2>5, <4>2
    <3>2. QED
      BY <3>1 DEF Others
  <2>9. /\ \A m \in Names \ {n} : m \in mixed' <=> m \in mixed
        /\ n \notin mixed' => Writing(f) = {}
    BY <2>2
  <2>10. Create(w, n, f)
    BY <1>1, <2>1, <2>2, <2>3, <2>4, <2>6, <2>7, <2>8, <2>9 DEF Create
  <2>11. QED
    BY <2>10
<1>5. CASE checkout(w)
  <2>1. PICK f : f = FreeInode
    OBVIOUS
  <2>2. /\ o.kind = "clone" /\ o.pc = "checkout" /\ repo /\ dir'
        /\ UNCHANGED <<repo, posted, latest>>
    BY <1>1, <1>5 DEF checkout, At
  <2>3. PICK n \in o.todo :
          /\ scripts' = [scripts EXCEPT ![n] = f]
          /\ data' = [data EXCEPT ![f] = <<>>]
          /\ mixed' = mixed \ {n}
          /\ op' = [op EXCEPT ![w].todo = @ \ {n}, ![w].name = n, ![w].text = Origin(n),
                              ![w].pc = "write", ![w].fd = f]
    BY <1>1, <1>5, <2>1 DEF checkout
  <2>4. n \in Names /\ o.fd = NoFile /\ o.todo \in SUBSET Names
    <3>1. o.todo \in SUBSET Names
      BY <1>2 DEF Ops
    <3>2. o.fd = NoFile
      BY <1>1, <2>2 DEF ShapeInv, Shape
    <3>3. QED
      BY <2>3, <3>1, <3>2
  <2>5. /\ f \in Inodes
        /\ (\A m \in Names : scripts[m] # f) /\ (\A v \in Workers : op[v].fd # f)
    BY <1>1, <2>1, <2>4, FreeInodeIsFree
  <2>6. PICK t : t = Origin(n)
    OBVIOUS
  <2>7. t \in Seq(Texts)
    BY <2>4, <2>6, OriginIsText DEF Origin
  <2>8. PICK d : d = o.todo \ {n}
    OBVIOUS
  <2>9. PICK q : q = [o EXCEPT !.todo = d, !.name = n, !.text = t, !.pc = "write", !.fd = f]
    OBVIOUS
  <2>10. q \in Ops
    <3>1. d \in SUBSET Names /\ n \in Names \cup {NotFound} /\ f \in Inodes \cup {NoFile}
      BY <2>4, <2>5, <2>8
    <3>2. QED
      BY <1>2, <1>3, <2>7, <2>9, <3>1 DEF Ops
  <2>11. op' = [op EXCEPT ![w] = q]
    BY <1>1, <2>3, <2>6, <2>8, <2>9
  <2>12. /\ op' \in [Workers -> Ops] /\ op'[w] = q
         /\ \A v \in Workers \ {w} : op'[v] = op[v]
    BY <2>10, <2>11, OpReplaced
  <2>13. /\ q.kind = o.kind /\ q.alone = o.alone /\ q.pc = "write" /\ q.fd = f
         /\ q.name = n /\ q.text = t /\ q.todo = d
    BY <1>2, <2>9 DEF Ops
  <2>14. Writing(f) = {}
    BY <2>5 DEF Writing
  <2>15. Others(w) /\ \A v \in Workers \ {w} : (op[v].pc = "read" /\ op[v].fd = f) => ~op'[v].alone
    BY <2>5, <2>12 DEF Others
  <2>16. \A m \in Names \ {n} : m \in mixed' <=> m \in mixed
    BY <2>3
  <2>17. Create(w, n, f)
    BY <1>1, <1>5, <2>2, <2>3, <2>4, <2>5, <2>6, <2>8, <2>12, <2>13, <2>14, <2>15, <2>16
    DEF Create
  <2>18. QED
    BY <2>17
<1>6. QED
  BY <1>4, <1>5

\* The content of a save, and of a file of the work tree.
LEMMA FillSteps ==
  ASSUME TypeInv, ShapeInv, NEW w \in Workers, writeScript(w) \/ writeOut(w)
  PROVE  Fill(w)
<1>1. PICK o : o = op[w]
  OBVIOUS
<1>2. o \in Ops
  BY <1>1 DEF TypeInv
<1>3. /\ "answer" \in PCs /\ "checkout" \in PCs
      /\ NoFile \in Inodes \cup {NoFile} /\ NotFound \in Names \cup {NotFound}
      /\ <<>> \in Seq(Texts)
  BY DEF PCs
<1>4. CASE writeScript(w)
  <2>1. PICK s \in Statuses : s = 500
    BY DEF Statuses
  <2>2. PICK q : q = [o EXCEPT !.pc = "answer", !.status = s, !.fd = NoFile]
    OBVIOUS
  <2>3. q \in Ops
    BY <1>2, <1>3, <2>2 DEF Ops
  <2>4. op' = [op EXCEPT ![w] = q]
    <3>1. op' = [op EXCEPT ![w].pc = "answer", ![w].status = s, ![w].fd = NoFile]
      BY <1>4, <2>1 DEF writeScript
    <3>2. QED
      BY <1>1, <2>2, <3>1
  <2>5. /\ q.kind = o.kind /\ q.alone = o.alone /\ q.todo = o.todo /\ q.fd = NoFile
        /\ q.pc = "answer" /\ q.name = o.name /\ q.text = o.text
    BY <1>2, <2>2 DEF Ops
  <2>6. /\ op' \in [Workers -> Ops] /\ op'[w] = q
        /\ \A v \in Workers \ {w} : op'[v] = op[v]
    BY <2>3, <2>4, OpReplaced
  <2>7. QED
    BY <1>1, <1>4, <2>5, <2>6 DEF writeScript, At, Fill
<1>5. CASE writeOut(w)
  <2>1. PICK l, t : l = (IF o.todo = {} THEN "answer" ELSE "checkout") /\ t = <<>>
    OBVIOUS
  <2>2. PICK q : q = [o EXCEPT !.pc = l, !.fd = NoFile, !.name = NotFound, !.text = t]
    OBVIOUS
  <2>3. q \in Ops
    <3>1. l \in PCs /\ t \in Seq(Texts)
      BY <1>3, <2>1
    <3>2. QED
      BY <1>2, <1>3, <2>2, <3>1 DEF Ops
  <2>4. op' = [op EXCEPT ![w] = q]
    <3>1. op' = [op EXCEPT ![w].pc = l, ![w].fd = NoFile, ![w].name = NotFound, ![w].text = t]
      BY <1>1, <1>5, <2>1 DEF writeOut
    <3>2. QED
      BY <1>1, <2>2, <3>1
  <2>5. /\ q.kind = o.kind /\ q.alone = o.alone /\ q.todo = o.todo /\ q.fd = NoFile /\ q.pc = l
    BY <1>2, <2>2 DEF Ops
  <2>6. /\ op' \in [Workers -> Ops] /\ op'[w] = q
        /\ \A v \in Workers \ {w} : op'[v] = op[v]
    BY <2>3, <2>4, OpReplaced
  <2>7. QED
    BY <1>1, <1>5, <2>1, <2>5, <2>6 DEF writeOut, At, Fill
<1>6. QED
  BY <1>4, <1>5

\* A worker takes a request.
Accept(w, kind, n, text) ==
  /\ op' \in [Workers -> Ops] /\ Others(w)
  /\ op[w].kind = "idle" /\ op[w].fd = NoFile /\ op[w].pc = "start"
  /\ op'[w].kind = kind /\ op'[w].pc = "start" /\ op'[w].name = n /\ op'[w].text = text
  /\ op'[w].fd = NoFile
  /\ op'[w].alone => \A u \in Workers : ~Changing(u)
  /\ kind \in {"update", "clone"} =>
       \A v \in Workers \ {w} : Changing(v) => ~op'[v].alone
  /\ latest' = [m \in Names |->
                  IF kind = "clone" \/ (kind = "update" /\ m = n) THEN <<>> ELSE latest[m]]
  /\ posted' = IF kind = "update" THEN [posted EXCEPT ![n] = @ \cup {text}] ELSE posted
  /\ UNCHANGED <<repo, dir, scripts, data, mixed>>

\* An idle worker.
LEMMA IdleIsOp ==
  /\ Idle \in Ops /\ Idle.kind = "idle" /\ Idle.pc = "start" /\ Idle.fd = NoFile
  /\ Idle.text = <<>> /\ Idle.name = NotFound
<1>1. PICK s \in Statuses : s = 200
  BY DEF Statuses
<1>a. <<>> \in Seq(Texts)
  OBVIOUS
<1>2. PICK t \in Seq(Texts) : t = <<>>
  BY <1>a
<1>3. "idle" \in Kinds /\ "start" \in PCs
  BY DEF Kinds, PCs
<1>4. Idle = [kind |-> "idle", pc |-> "start", name |-> NotFound, text |-> t,
              fd |-> NoFile, todo |-> {}, status |-> s, alone |-> FALSE]
  BY <1>1, <1>2 DEF Idle
<1>5. Idle \in Ops
  BY <1>3, <1>4 DEF Ops
<1>6. QED
  BY <1>2, <1>4, <1>5

\* Serve does what Accept says.
LEMMA ServeAccepts ==
  ASSUME TypeInv, NEW w \in Workers, NEW kind \in Kinds, NEW n \in Names \cup {NotFound},
         NEW text \in Seq(Texts), Serve(w, kind, n, text)
  PROVE  Accept(w, kind, n, text)
<1>1. PICK a \in BOOLEAN : a = \A u \in Workers : ~Changing(u)
  OBVIOUS
<1>2. PICK i : i = Idle
  OBVIOUS
<1>3. i \in Ops /\ i.kind = "idle" /\ i.pc = "start" /\ i.fd = NoFile
  BY <1>2, IdleIsOp
<1>4. PICK q : q = [i EXCEPT !.kind = kind, !.name = n, !.text = text, !.alone = a]
  OBVIOUS
<1>5. q \in Ops
  BY <1>3, <1>4 DEF Ops
<1>6. /\ q.kind = kind /\ q.pc = "start" /\ q.name = n /\ q.text = text
      /\ q.fd = NoFile /\ q.alone = a
  BY <1>3, <1>4 DEF Ops
<1>7. op[w] = i /\ op'[w] = q
  <2>1. op' = [v \in Workers |->
                 IF v = w THEN q
                 ELSE IF kind \in {"update", "clone"} /\ Changing(v)
                      THEN [op[v] EXCEPT !.alone = FALSE]
                 ELSE op[v]]
    BY <1>1, <1>2, <1>4, Zenon DEF Serve
  <2>2. QED
    BY <1>2, <2>1 DEF Serve
<1>8. ASSUME NEW v \in Workers, v # w
      PROVE  /\ op'[v] \in Ops
             /\ \/ op'[v] = op[v] /\ ~(kind \in {"update", "clone"} /\ Changing(v))
                \/ op'[v] = [op[v] EXCEPT !.alone = FALSE]
  <2>1. op[v] \in Ops
    BY DEF TypeInv
  <2>2. \/ op'[v] = op[v] /\ ~(kind \in {"update", "clone"} /\ Changing(v))
        \/ op'[v] = [op[v] EXCEPT !.alone = FALSE]
    BY <1>8 DEF Serve
  <2>3. [op[v] EXCEPT !.alone = FALSE] \in Ops
    BY <2>1 DEF Ops
  <2>4. QED
    BY <2>1, <2>2, <2>3
<1>9. op' \in [Workers -> Ops]
  <2>1. op' = [v \in Workers |-> op'[v]]
    BY DEF Serve
  <2>2. \A v \in Workers : op'[v] \in Ops
    BY <1>5, <1>7, <1>8
  <2>3. QED
    BY <2>1, <2>2
<1>10. /\ Others(w)
       /\ kind \in {"update", "clone"} =>
            \A v \in Workers \ {w} : Changing(v) => ~op'[v].alone
  <2>1. ASSUME NEW v \in Workers \ {w}
        PROVE  /\ op'[v].kind = op[v].kind /\ op'[v].pc = op[v].pc /\ op'[v].name = op[v].name
               /\ op'[v].text = op[v].text /\ op'[v].fd = op[v].fd
               /\ op'[v].todo = op[v].todo
               /\ op'[v].alone => op[v].alone
               /\ (kind \in {"update", "clone"} /\ Changing(v)) => ~op'[v].alone
    <3>1. op[v] \in Ops
      BY DEF TypeInv
    <3>2. CASE op'[v] = [op[v] EXCEPT !.alone = FALSE]
      BY <3>1, <3>2 DEF Ops
    <3>3. QED
      BY <1>8, <3>2
  <2>2. QED
    BY <2>1 DEF Others
<1>11. /\ latest' = [m \in Names |->
                       IF kind = "clone" \/ (kind = "update" /\ m = n)
                       THEN <<>> ELSE latest[m]]
       /\ posted' = IF kind = "update" THEN [posted EXCEPT ![n] = @ \cup {text}] ELSE posted
       /\ UNCHANGED <<repo, dir, scripts, data, mixed>>
  BY DEF Serve
<1>12. QED
  BY <1>1, <1>3, <1>6, <1>7, <1>9, <1>10, <1>11 DEF Accept

\* The kinds and texts of the requests the page sends.
LEMMA SendAccepts ==
  ASSUME TypeInv, NEW w \in Workers,
         \/ ngOnInit(w) \/ updateScript(w) \/ newJob(w) \/ cloneRepo(w)
         \/ \E n \in Names : onSelect(w, n)
  PROVE  \/ ngOnInit(w) /\ Accept(w, "list", NotFound, <<>>)
         \/ /\ updateScript(w) /\ selectedScript \in Names
            /\ Accept(w, "update", selectedScript, content)
         \/ /\ newJob(w) /\ selectedScript \in Names
            /\ Accept(w, "run", selectedScript, <<>>)
         \/ cloneRepo(w) /\ Accept(w, "clone", NotFound, <<>>)
         \/ \E n \in Names : onSelect(w, n) /\ Accept(w, "get", n, <<>>)
<1>1. /\ <<>> \in Seq(Texts) /\ content \in Seq(Texts)
      /\ selectedScript # NoScript => selectedScript \in Names
      /\ {"list", "update", "run", "clone", "get"} \subseteq Kinds
  BY DEF TypeInv, TypeOK, Kinds
<1>2. CASE ngOnInit(w)
  BY <1>1, <1>2, ServeAccepts DEF ngOnInit, Send
<1>3. CASE updateScript(w)
  BY <1>1, <1>3, ServeAccepts DEF updateScript, Send
<1>4. CASE newJob(w)
  BY <1>1, <1>4, ServeAccepts DEF newJob, Send
<1>5. CASE cloneRepo(w)
  BY <1>1, <1>5, ServeAccepts DEF cloneRepo, Send
<1>6. ASSUME NEW n \in Names, onSelect(w, n)
      PROVE  onSelect(w, n) /\ Accept(w, "get", n, <<>>)
  BY <1>1, <1>6, ServeAccepts DEF onSelect, Send
<1>7. QED
  BY <1>2, <1>3, <1>4, <1>5, <1>6

-----------------------------------------------------------------------------
(* Types *)

\* The types of the files and of the histories about them.
FileTypes ==
  /\ repo \in BOOLEAN /\ dir \in BOOLEAN
  /\ scripts \in [Names -> Inodes \cup {NoFile}]
  /\ data \in [Inodes -> Seq(Texts)]
  /\ posted \in [Names -> SUBSET Seq(Texts)]
  /\ mixed \subseteq Names
  /\ latest \in [Names -> Seq(Texts)]
  /\ dir => repo
  /\ ~dir => \A n \in Names : scripts[n] = NoFile

PageTypes ==
  /\ loaded \in BOOLEAN
  /\ shown \subseteq Names
  /\ selectedScript \in Names \cup {NoScript}
  /\ content \in Seq(Texts)
  /\ requests \in 0 .. MaxRequests
  /\ missing \in BOOLEAN /\ hasty \in BOOLEAN

\* TypeInv by its parts.
LEMMA TypeParts ==
  TypeInv <=> (FileTypes /\ PageTypes /\ op \in [Workers -> Ops])
<1>1. ASSUME op \in [Workers -> Ops], posted \in [Names -> SUBSET Seq(Texts)]
      PROVE  /\ \A w \in Workers :
                  /\ op[w].kind \in Kinds /\ op[w].pc \in PCs
                  /\ op[w].name \in Names \cup {NotFound}
                  /\ op[w].text \in Seq(Texts)
                  /\ op[w].fd \in Inodes \cup {NoFile}
                  /\ op[w].todo \subseteq Names
                  /\ op[w].status \in {200, 500}
                  /\ op[w].alone \in BOOLEAN
             /\ \A n \in Names : \A text \in posted[n] : text \in Seq(Texts)
  <2>1. ASSUME NEW w \in Workers
        PROVE  /\ op[w].kind \in Kinds /\ op[w].pc \in PCs
               /\ op[w].name \in Names \cup {NotFound}
               /\ op[w].text \in Seq(Texts)
               /\ op[w].fd \in Inodes \cup {NoFile}
               /\ op[w].todo \subseteq Names
               /\ op[w].status \in Statuses
               /\ op[w].alone \in BOOLEAN
    BY <1>1 DEF Ops
  <2>2. QED
    BY <1>1, <2>1 DEF Statuses
<1>2. (\A n \in Names : scripts[n] = NoFile) <=> Present = {}
  BY DEF Present
<1>3. TypeInv => (FileTypes /\ PageTypes /\ op \in [Workers -> Ops])
  BY <1>2 DEF TypeInv, TypeOK, ServerTypeOK, FileTypes, PageTypes
<1>4. (FileTypes /\ PageTypes /\ op \in [Workers -> Ops]) => TypeInv
  BY <1>1, <1>2 DEF TypeInv, TypeOK, ServerTypeOK, FileTypes, PageTypes
<1>5. QED
  BY <1>3, <1>4

\* The same after a step.
LEMMA TypePartsNext ==
  (FileTypes /\ PageTypes /\ op \in [Workers -> Ops])' => TypeInv'
BY TypeParts, PTL

\* Every step of the service keeps the types.
LEMMA ServerTypeInv ==
  ASSUME TypeInv, ShapeInv, NEW w \in Workers, ServerStep(w)
  PROVE  FileTypes' /\ op' \in [Workers -> Ops]
<1> USE DEF FileTypes
<1>1. FileTypes /\ op \in [Workers -> Ops]
  BY TypeParts
<1>2. op[w] \in Ops
  BY <1>1
<1>3. \A n \in Names : Origin(n) \in Seq(Texts)
  BY OriginIsText DEF Origin
<1>4. CASE \/ getScripts(w) \/ openWriteFails(w) \/ rmList(w) \/ checkoutFails(w)
  <2>1. UNCHANGED <<repo, dir, scripts, data, posted, mixed, latest>>
    BY <1>4 DEF getScripts, openWriteFails, rmList, checkoutFails
  <2>2. op' \in [Workers -> Ops]
    BY <1>4, QuietSteps DEF Quiet
  <2>3. QED
    BY <1>1, <2>1, <2>2
<1>5. CASE rm(w)
  <2>1. op' \in [Workers -> Ops]
    BY <1>5, QuietSteps DEF Quiet
  <2>2. op[w].todo \subseteq Names
    BY <1>2 DEF Ops
  <2>3. PICK n \in Names : scripts' = [scripts EXCEPT ![n] = NoFile] /\ mixed' = mixed \ {n}
    BY <1>5, <2>2 DEF rm
  <2>4. UNCHANGED <<repo, dir, data, posted, latest>>
    BY <1>5 DEF rm
  <2>5. QED
    BY <1>1, <2>1, <2>3, <2>4
<1>6. CASE rmdir(w)
  <2>1. op' \in [Workers -> Ops]
    BY <1>6, QuietSteps DEF Quiet
  <2>2. /\ dir' = (Present # {}) /\ repo' = (Present # {})
        /\ UNCHANGED <<scripts, data, posted, mixed, latest>>
    BY <1>6 DEF rmdir
  <2>3. dir' \in BOOLEAN /\ repo' = dir' /\ (~dir' => \A n \in Names : scripts[n] = NoFile)
    BY <2>2 DEF Present
  <2>4. QED
    BY <1>1, <2>1, <2>2, <2>3
<1>7. CASE gitClone(w)
  <2>1. op' \in [Workers -> Ops]
    BY <1>7, QuietSteps DEF Quiet
  <2>2. repo' = TRUE /\ UNCHANGED <<dir, scripts, data, posted, mixed>>
    BY <1>7 DEF gitClone
  <2>3. latest' \in [Names -> Seq(Texts)]
    <3>1. latest' = latest \/ latest' = [n \in Names |-> Origin(n)]
      BY <1>7 DEF gitClone
    <3>2. QED
      BY <1>1, <1>3, <3>1
  <2>4. QED
    BY <1>1, <2>1, <2>2, <2>3
<1>8. CASE fetchFails(w)
  <2>1. op' \in [Workers -> Ops]
    BY <1>8, QuietSteps DEF Quiet
  <2>2. /\ repo' = FALSE /\ dir' = FALSE /\ scripts' = [n \in Names |-> NoFile] /\ mixed' = {}
        /\ UNCHANGED <<data, posted, latest>>
    BY <1>8 DEF fetchFails
  <2>3. QED
    BY <1>1, <2>1, <2>2
<1>9. CASE openRead(w) \/ script_file(w) \/ readBlock(w)
  <2>1. op' \in [Workers -> Ops] /\ UNCHANGED <<repo, dir, scripts, data, posted, mixed, latest>>
    BY <1>9, ReadSteps DEF ReadStep
  <2>2. QED
    BY <1>1, <2>1
<1>10. CASE openWrite(w) \/ checkout(w)
  <2>1. PICK n, f : Create(w, n, f)
    BY <1>10, CreateSteps
  <2>2. /\ n \in Names /\ f \in Inodes /\ repo /\ dir' /\ op' \in [Workers -> Ops]
        /\ scripts' = [scripts EXCEPT ![n] = f]
        /\ data' = [data EXCEPT ![f] = <<>>]
        /\ UNCHANGED <<repo, posted, latest>>
    BY <2>1 DEF Create
  <2>3. <<>> \in Seq(Texts)
    OBVIOUS
  <2>4. scripts' \in [Names -> Inodes \cup {NoFile}] /\ data' \in [Inodes -> Seq(Texts)]
    BY <1>1, <2>2, <2>3
  <2>5. mixed' \subseteq Names
    <3>1. op[w].name \in Names \cup {NotFound} /\ op[w].todo \subseteq Names
      BY <1>2 DEF Ops
    <3>2. CASE openWrite(w)
      <4>1. op[w].name \in Names
        BY <3>2 DEF openWrite, At, ShapeInv, Shape
      <4>2. mixed' \subseteq mixed \cup {op[w].name}
        BY <3>2 DEF openWrite
      <4>3. QED
        BY <1>1, <4>1, <4>2
    <3>3. CASE checkout(w)
      BY <1>1, <3>3 DEF checkout
    <3>4. QED
      BY <1>10, <3>2, <3>3
  <2>6. dir' \in BOOLEAN
    BY <1>1, <1>10 DEF openWrite, checkout
  <2>7. QED
    BY <1>1, <2>2, <2>4, <2>5, <2>6
<1>11. CASE writeScript(w) \/ writeOut(w)
  <2>1. Fill(w)
    BY <1>11, FillSteps
  <2>2. op[w].fd \in Inodes /\ op[w].text \in Seq(Texts)
    BY <1>2, <2>1 DEF Fill, ShapeInv, Shape, Ops
  <2>3. PICK t \in Seq(Texts) :
          t = op[w].text \o SubSeq(data[op[w].fd], Len(op[w].text) + 1, Len(data[op[w].fd]))
    BY <1>1, <2>2, Overwritten
  <2>4. /\ op' \in [Workers -> Ops] /\ data' = [data EXCEPT ![op[w].fd] = t]
        /\ UNCHANGED <<repo, dir, scripts, posted, mixed>>
    BY <2>1, <2>3 DEF Fill
  <2>5. latest' \in [Names -> Seq(Texts)]
    <3>1. CASE writeScript(w)
      <4>1. latest' = latest \/ latest' = [latest EXCEPT ![op[w].name] = op[w].text]
        BY <3>1 DEF writeScript
      <4>2. QED
        BY <1>1, <2>2, <4>1
    <3>2. CASE writeOut(w)
      <4>1. latest' = latest \/ latest' = [n \in Names |-> Origin(n)]
        BY <3>2 DEF writeOut
      <4>2. QED
        BY <1>1, <1>3, <4>1
    <3>3. QED
      BY <1>11, <3>1, <3>2
  <2>6. data' \in [Inodes -> Seq(Texts)]
    BY <1>1, <2>3, <2>4
  <2>7. QED
    BY <1>1, <2>4, <2>5, <2>6
<1>12. QED
  BY <1>4, <1>5, <1>6, <1>7, <1>8, <1>9, <1>10, <1>11 DEF ServerStep

\* Every step keeps the types.
LEMMA NextTypeInv ==
  ASSUME TypeInv, ShapeInv, [Next]_vars
  PROVE  TypeInv'
<1> USE DEF pageVars
<1>1. FileTypes /\ PageTypes /\ op \in [Workers -> Ops]
  BY TypeParts
<1>2. SUFFICES FileTypes' /\ PageTypes' /\ op' \in [Workers -> Ops]
  BY TypePartsNext
<1>3. CASE edit
  <2>1. UNCHANGED <<serverVars, requests, loaded, shown, selectedScript, missing, hasty>>
    BY <1>3 DEF edit
  <2>2. PICK v \in 1 .. MaxVersion :
          content[1][1] \in Names /\ content' = Whole(<<content[1][1], v>>)
    BY <1>3 DEF edit
  <2>3. content' \in Seq(Texts)
    <3>1. v \in Nat /\ v \in 0 .. MaxVersion
      BY ScriptAssumption
    <3>2. <<content[1][1], v>> \in Texts /\ <<content[1][1], v>>[2] = v
      BY <2>2, <3>1 DEF Texts
    <3>3. QED
      BY <2>2, <3>1, <3>2, WholeIsText
  <2>4. QED
    BY <1>1, <2>1, <2>3 DEF FileTypes, PageTypes, serverVars
<1>4. ASSUME NEW w \in Workers, ServerStep(w), UNCHANGED <<pageVars, requests>>
      PROVE  FileTypes' /\ PageTypes' /\ op' \in [Workers -> Ops]
  BY <1>1, <1>4, ServerTypeInv DEF PageTypes
<1>5. ASSUME NEW w \in Workers, next(w) \/ error(w)
      PROVE  FileTypes' /\ PageTypes' /\ op' \in [Workers -> Ops]
  <2>1. op' = [op EXCEPT ![w] = Idle]
    BY <1>5 DEF next, error, Answer
  <2>2. op' \in [Workers -> Ops]
    BY <1>1, <2>1, IdleIsOp
  <2>3. op[w].todo \subseteq Names /\ op[w].text \in Seq(Texts)
    BY <1>1 DEF Ops
  <2>4. shown' \subseteq Names /\ content' \in Seq(Texts)
    BY <1>1, <1>5, <2>3 DEF next, error, PageTypes
  <2>5. UNCHANGED <<repo, dir, scripts, data, posted, mixed, latest, requests, loaded,
                    selectedScript, hasty>>
    BY <1>5 DEF next, error
  <2>6. missing' \in BOOLEAN
    BY <1>5 DEF next, error
  <2>7. QED
    BY <1>1, <2>2, <2>4, <2>5, <2>6 DEF FileTypes, PageTypes
<1>6. ASSUME NEW w \in Workers, NEW kind, NEW n \in Names \cup {NotFound},
             NEW text \in Seq(Texts), kind = "update" => n \in Names,
             Accept(w, kind, n, text)
      PROVE  FileTypes' /\ op' \in [Workers -> Ops]
  <2>1. op' \in [Workers -> Ops] /\ UNCHANGED <<repo, dir, scripts, data, mixed>>
    BY <1>6 DEF Accept
  <2>2. latest' \in [Names -> Seq(Texts)]
    <3>1. <<>> \in Seq(Texts)
      OBVIOUS
    <3>2. latest' = [m \in Names |->
                       IF kind = "clone" \/ (kind = "update" /\ m = n)
                       THEN <<>> ELSE latest[m]]
      BY <1>6 DEF Accept
    <3>3. QED
      BY <1>1, <3>1, <3>2 DEF FileTypes
  <2>3. posted' \in [Names -> SUBSET Seq(Texts)]
    <3>1. CASE kind = "update"
      <4>1. posted' = [posted EXCEPT ![n] = @ \cup {text}]
        BY <1>6, <3>1 DEF Accept
      <4>2. posted[n] \cup {text} \in SUBSET Seq(Texts)
        BY <1>1, <1>6, <3>1 DEF FileTypes
      <4>3. QED
        BY <1>1, <4>1, <4>2 DEF FileTypes
    <3>2. CASE kind # "update"
      BY <1>1, <1>6, <3>2 DEF Accept, FileTypes
    <3>3. QED
      BY <3>1, <3>2
  <2>4. QED
    BY <1>1, <2>1, <2>2, <2>3 DEF FileTypes
<1>7. ASSUME NEW w \in Workers,
             \/ ngOnInit(w) \/ updateScript(w) \/ newJob(w) \/ cloneRepo(w)
             \/ \E n \in Names : onSelect(w, n)
      PROVE  FileTypes' /\ PageTypes' /\ op' \in [Workers -> Ops]
  <2>1. <<>> \in Seq(Texts) /\ content \in Seq(Texts)
    BY <1>1 DEF PageTypes
  <2>2. FileTypes' /\ op' \in [Workers -> Ops]
    BY <1>6, <1>7, <2>1, SendAccepts
  <2>3. requests' \in 0 .. MaxRequests
    <3>1. requests < MaxRequests /\ requests' = requests + 1
      BY <1>7 DEF ngOnInit, updateScript, newJob, cloneRepo, onSelect, Send
    <3>2. QED
      BY <1>1, <3>1, EditorAssumption DEF PageTypes
  <2>4. /\ loaded' \in BOOLEAN /\ shown' = shown /\ content' = content
        /\ missing' = missing /\ hasty' \in BOOLEAN
        /\ selectedScript' \in Names \cup {NoScript}
    BY <1>1, <1>7 DEF ngOnInit, updateScript, newJob, cloneRepo, onSelect, PageTypes
  <2>5. QED
    BY <1>1, <2>2, <2>3, <2>4 DEF PageTypes
<1>8. CASE UNCHANGED vars
  BY <1>1, <1>8 DEF vars, serverVars, FileTypes, PageTypes
<1>9. QED
  BY <1>3, <1>4, <1>5, <1>7, <1>8 DEF Next

-----------------------------------------------------------------------------
(* Files, readers and writers *)

\* The answer goes to the client.
Answered(w) ==
  /\ Done(w) /\ op'[w] = Idle /\ \A v \in Workers \ {w} : op'[v] = op[v]
  /\ UNCHANGED <<repo, dir, scripts, data, posted, mixed, latest>>

\* A request that the service can get.
Request(kind, n, text) ==
  \/ kind \in {"list", "clone"}
  \/ kind \in {"get", "run"} /\ n \in Names /\ text = <<>>
  \/ kind = "update" /\ n \in Names /\ text \in Seq(Texts)

\* What a step can be to the files and the workers.
LEMMA StepKinds ==
  ASSUME TypeInv, ShapeInv, [Next]_vars
  PROVE  \/ \E w \in Workers : Quiet(w) \/ ReadStep(w) \/ Fill(w) \/ Answered(w)
         \/ \E w \in Workers : \E n, f : Create(w, n, f)
         \/ \E w \in Workers : \E kind, n, text :
              Request(kind, n, text) /\ Accept(w, kind, n, text)
         \/ UNCHANGED serverVars
<1>1. CASE edit \/ UNCHANGED vars
  BY <1>1 DEF edit, vars
<1>2. ASSUME NEW w \in Workers, ServerStep(w)
      PROVE  Quiet(w) \/ ReadStep(w) \/ Fill(w) \/ \E n, f : Create(w, n, f)
  BY <1>2, QuietSteps, ReadSteps, FillSteps, CreateSteps DEF ServerStep
<1>3. ASSUME NEW w \in Workers, next(w) \/ error(w)
      PROVE  Answered(w)
  <2>1. op' = [op EXCEPT ![w] = Idle] /\ op \in [Workers -> Ops]
    BY <1>3 DEF next, error, Answer, TypeInv
  <2>2. QED
    BY <1>3, <2>1 DEF next, error, Answered
<1>4. ASSUME NEW w \in Workers,
             \/ ngOnInit(w) \/ updateScript(w) \/ newJob(w) \/ cloneRepo(w)
             \/ \E n \in Names : onSelect(w, n)
      PROVE  \E kind, n, text : Request(kind, n, text) /\ Accept(w, kind, n, text)
  <2>1. content \in Seq(Texts)
    BY DEF TypeInv, TypeOK
  <2>2. /\ Request("list", NotFound, <<>>) /\ Request("clone", NotFound, <<>>)
        /\ \A n \in Names : Request("get", n, <<>>) /\ Request("run", n, <<>>)
        /\ \A n \in Names : Request("update", n, content)
    BY <2>1 DEF Request
  <2>3. QED
    BY <1>4, <2>2, SendAccepts
<1>5. QED
  BY <1>1, <1>2, <1>3, <1>4 DEF Next

FilesInv == ShapeInv /\ LinkInv /\ WholeInv /\ ReaderInv

\* Steps that leave the open files alone.
LEMMA QuietFiles ==
  ASSUME TypeInv, TypeInv', FilesInv, NEW w \in Workers, Quiet(w)
  PROVE  FilesInv'
<1> USE DEF FilesInv
<1>1. \A v \in Workers :
        /\ op'[v].fd = op[v].fd /\ op'[v].name = op[v].name /\ op'[v].kind = op[v].kind
        /\ op'[v].text = op[v].text /\ op'[v].alone = op[v].alone
        /\ (op'[v].pc = "write" <=> op[v].pc = "write")
        /\ (op'[v].pc = "read" <=> op[v].pc = "read")
        /\ (op'[v].pc = "start" => op[v].pc = "start")
        /\ (op'[v].kind \in {"get", "run"} => op'[v] = op[v])
  BY DEF Quiet
<1>2. /\ data' = data /\ posted' = posted
      /\ \A n \in Names : \/ scripts'[n] = scripts[n] /\ (n \in mixed' <=> n \in mixed)
                          \/ scripts'[n] = NoFile
  BY DEF Quiet
<1>3. \A f : Writing(f)' = Writing(f)
  BY <1>1 DEF Writing
<1>4. ShapeInv'
  <2>1. ASSUME NEW v \in Workers
        PROVE  Shape(v)'
    BY <1>1, <1>2 DEF ShapeInv, Shape
  <2>2. QED
    BY <2>1 DEF ShapeInv
<1>5. LinkInv'
  BY <1>1, <1>2 DEF LinkInv
<1>6. WholeInv'
  <2>1. ASSUME NEW n \in (Present \ mixed)'
        PROVE  n \in Present \ mixed /\ scripts'[n] = scripts[n]
    BY <1>2, <2>1 DEF Present
  <2>2. QED
    BY <1>1, <1>2, <2>1 DEF WholeInv, Writing
<1>7. ReaderInv'
  <2>1. ASSUME NEW v \in Workers
        PROVE  Reader(v)'
    <3>1. Reader(v)
      BY DEF ReaderInv
    <3>2. CASE op'[v].kind \in {"get", "run"}
      <4>1. op'[v] = op[v]
        BY <1>1, <3>2
      <4>2. QED
        BY <1>1, <1>2, <3>1, <4>1 DEF Reader, Writing
    <3>3. CASE op'[v].kind \notin {"get", "run"}
      BY <1>4, <3>3 DEF ShapeInv, Shape, Reader
    <3>4. QED
      BY <3>2, <3>3
  <2>2. QED
    BY <2>1 DEF ReaderInv
<1>8. QED
  BY <1>4, <1>5, <1>6, <1>7

\* A client takes its answer.
LEMMA AnsweredFiles ==
  ASSUME TypeInv, TypeInv', FilesInv, NEW w \in Workers, Answered(w)
  PROVE  FilesInv'
<1> USE DEF FilesInv
<1>1. /\ op'[w].kind = "idle" /\ op'[w].pc = "start" /\ op'[w].fd = NoFile
      /\ op[w].pc = "answer"
      /\ \A v \in Workers : v # w => op'[v] = op[v]
      /\ scripts' = scripts /\ data' = data /\ posted' = posted /\ mixed' = mixed
  BY IdleIsOp DEF Answered, Done
<1>2. \A f : \A v \in Workers : op'[v].pc = "write" /\ op'[v].fd = f
                              <=> op[v].pc = "write" /\ op[v].fd = f
  BY <1>1
<1>3. ShapeInv'
  <2>1. ASSUME NEW v \in Workers
        PROVE  Shape(v)'
    BY <1>1 DEF ShapeInv, Shape
  <2>2. QED
    BY <2>1 DEF ShapeInv
<1>4. LinkInv'
  BY <1>1 DEF LinkInv
<1>5. WholeInv'
  BY <1>1, <1>2 DEF WholeInv, Writing, Present
<1>6. ReaderInv'
  <2>1. ASSUME NEW v \in Workers
        PROVE  Reader(v)'
    <3>1. CASE v = w
      BY <1>1, <3>1 DEF Reader
    <3>2. CASE v # w
      BY <1>1, <1>2, <3>2 DEF ReaderInv, Reader, Writing
    <3>3. QED
      BY <3>1, <3>2
  <2>2. QED
    BY <2>1 DEF ReaderInv
<1>7. QED
  BY <1>3, <1>4, <1>5, <1>6

\* A request is taken.
LEMMA AcceptFiles ==
  ASSUME TypeInv, TypeInv', FilesInv, NEW w \in Workers, NEW kind, NEW n, NEW text,
         Request(kind, n, text), Accept(w, kind, n, text)
  PROVE  FilesInv'
<1> USE DEF FilesInv
<1>1. /\ op[w].pc = "start" /\ op[w].fd = NoFile
      /\ op'[w].kind = kind /\ op'[w].pc = "start" /\ op'[w].name = n
      /\ op'[w].text = text /\ op'[w].fd = NoFile
      /\ scripts' = scripts /\ data' = data /\ mixed' = mixed
  BY DEF Accept
<1>2. \A v \in Workers : v # w =>
        /\ op'[v].kind = op[v].kind /\ op'[v].pc = op[v].pc /\ op'[v].name = op[v].name
        /\ op'[v].text = op[v].text /\ op'[v].fd = op[v].fd
        /\ (op'[v].alone => op[v].alone)
  BY DEF Accept, Others
<1>3. \A m \in Names : posted[m] \subseteq posted'[m]
  BY DEF Accept, TypeInv
<1>4. kind = "update" => n \in Names /\ text \in posted'[n]
  BY DEF Accept, TypeInv, Request
<1>5. \A f : \A v \in Workers : op'[v].pc = "write" /\ op'[v].fd = f
                              <=> op[v].pc = "write" /\ op[v].fd = f
  BY <1>1, <1>2
<1>6. ShapeInv'
  <2>1. ASSUME NEW v \in Workers
        PROVE  Shape(v)'
    <3>1. CASE v = w
      BY <1>1, <1>4, <3>1 DEF Shape, Request
    <3>2. CASE v # w
      BY <1>2, <1>3, <3>2 DEF ShapeInv, Shape
    <3>3. QED
      BY <3>1, <3>2
  <2>2. QED
    BY <2>1 DEF ShapeInv
<1>7. LinkInv'
  BY <1>1, <1>2, <1>3 DEF LinkInv
<1>8. WholeInv'
  <2>1. ASSUME NEW m \in (Present \ mixed)'
        PROVE  \/ Writing(scripts[m])' = {} /\ data'[scripts'[m]] \in posted'[m]
               \/ /\ \E v \in Workers : Writing(scripts[m])' = {v}
                  /\ data'[scripts'[m]] = <<>>
    <3>1. m \in Present \ mixed /\ m \in Names
      BY <1>1, <2>1 DEF Present
    <3>2. Writing(scripts[m])' = Writing(scripts[m])
      BY <1>1, <1>5 DEF Writing
    <3>3. QED
      BY <1>1, <1>3, <3>1, <3>2 DEF WholeInv
  <2>2. QED
    BY <2>1 DEF WholeInv
<1>9. ReaderInv'
  <2>1. ASSUME NEW v \in Workers
        PROVE  Reader(v)'
    <3>1. CASE v = w
      BY <1>1, <3>1 DEF Reader
    <3>2. CASE v # w /\ op'[v].kind \in {"get", "run"}
      <4>1. Reader(v) /\ op[v].name \in Names
        BY <1>2, <3>2 DEF ReaderInv, ShapeInv, Shape
      <4>2. QED
        BY <1>1, <1>2, <1>3, <1>5, <3>2, <4>1 DEF Reader, Writing
    <3>3. CASE v # w /\ op'[v].kind \notin {"get", "run"}
      BY <1>6, <3>3 DEF Reader, ShapeInv, Shape
    <3>4. QED
      BY <3>1, <3>2, <3>3
  <2>2. QED
    BY <2>1 DEF ReaderInv
<1>10. QED
  BY <1>6, <1>7, <1>8, <1>9

\* A reader opens, reads a block or comes to the end.
LEMMA ReadFiles ==
  ASSUME TypeInv, TypeInv', FilesInv, NEW w \in Workers, ReadStep(w)
  PROVE  FilesInv'
<1> USE DEF FilesInv
<1>1. /\ scripts' = scripts /\ data' = data /\ posted' = posted /\ mixed' = mixed
      /\ \A v \in Workers : v # w => op'[v] = op[v]
      /\ op'[w].kind = op[w].kind /\ op'[w].name = op[w].name
      /\ op[w].kind \in {"get", "run"} /\ op[w].name \in Names
  BY DEF ReadStep, ShapeInv, Shape
<1> DEFINE Opens ==
             /\ op[w].pc = "start" /\ op[w].name \in Present
             /\ op'[w].pc = "read" /\ op'[w].fd = scripts[op[w].name]
             /\ op'[w].text = op[w].text
             /\ op'[w].alone <=> op[w].name \notin mixed /\ Writing(scripts[op[w].name]) = {}
           Misses ==
             /\ op[w].pc = "start"
             /\ op'[w].pc = "answer" /\ op'[w].fd = op[w].fd /\ ~op'[w].alone
           Reads ==
             /\ op[w].pc = "read"
             /\ op'[w].pc = "read" /\ op'[w].fd = op[w].fd /\ op'[w].alone = op[w].alone
             /\ Len(op[w].text) + 1 <= Len(data[op[w].fd])
             /\ op'[w].text = Append(op[w].text, data[op[w].fd][Len(op[w].text) + 1])
           Ends ==
             /\ op[w].pc = "read"
             /\ op'[w].pc = "answer" /\ op'[w].fd = NoFile /\ op'[w].alone = op[w].alone
             /\ ~(Len(op[w].text) + 1 <= Len(data[op[w].fd]))
             /\ op'[w].text = op[w].text
<1>2. Opens \/ Misses \/ Reads \/ Ends
  BY DEF ReadStep
<1> HIDE DEF Opens, Misses, Reads, Ends
<1>3. op'[w].pc # "write" /\ op[w].pc # "write" /\ op'[w].pc # "start"
  BY <1>2 DEF Opens, Misses, Reads, Ends
<1>4. \A f : \A v \in Workers : op'[v].pc = "write" /\ op'[v].fd = f
                              <=> op[v].pc = "write" /\ op[v].fd = f
  BY <1>1, <1>3
<1>5. op'[w].fd # NoFile <=> op'[w].pc = "read"
  BY <1>1, <1>2 DEF Opens, Misses, Reads, Ends, Present, ShapeInv, Shape
<1>6. ShapeInv'
  <2>1. ASSUME NEW v \in Workers
        PROVE  Shape(v)'
    <3>1. CASE v = w
      BY <1>1, <1>3, <1>5, <3>1 DEF Shape
    <3>2. CASE v # w
      BY <1>1, <3>2 DEF ShapeInv, Shape
    <3>3. QED
      BY <3>1, <3>2
  <2>2. QED
    BY <2>1 DEF ShapeInv
<1>7. LinkInv'
  <2>1. ASSUME NEW m \in Names, op'[w].fd = scripts[m], op'[w].fd # NoFile
        PROVE  op[w].name = m
    <3>1. CASE Opens
      BY <1>1, <2>1, <3>1 DEF Opens, LinkInv
    <3>2. CASE Reads
      BY <2>1, <3>2 DEF Reads, LinkInv
    <3>3. QED
      BY <1>2, <1>5, <2>1, <3>1, <3>2 DEF Misses, Ends
  <2>2. QED
    BY <1>1, <2>1 DEF LinkInv
<1>8. WholeInv'
  <2>1. ASSUME NEW m \in (Present \ mixed)'
        PROVE  \/ Writing(scripts[m])' = {} /\ data'[scripts'[m]] \in posted'[m]
               \/ /\ \E v \in Workers : Writing(scripts[m])' = {v}
                  /\ data'[scripts'[m]] = <<>>
    <3>1. m \in Present \ mixed
      BY <1>1, <2>1 DEF Present
    <3>2. Writing(scripts[m])' = Writing(scripts[m])
      BY <1>1, <1>4 DEF Writing
    <3>3. QED
      BY <1>1, <3>1, <3>2 DEF WholeInv
  <2>2. QED
    BY <2>1 DEF WholeInv
<1>9. Reader(w)'
  <2>1. SUFFICES ASSUME op'[w].alone
                 PROVE  Reader(w)'
    BY DEF Reader
  <2>2. op[w].text \in Seq(Texts) /\ op[w].fd \in Inodes \cup {NoFile}
    BY DEF TypeInv, Ops
  <2>3. CASE Opens
    <3>1. op[w].text = <<>> /\ Len(op'[w].text) = 0
      BY <1>1, <2>3 DEF Opens, ShapeInv, Shape
    <3>2. op[w].name \in Present \ mixed /\ Writing(scripts[op[w].name]) = {}
      BY <2>1, <2>3 DEF Opens
    <3>3. data[scripts[op[w].name]] \in posted[op[w].name]
      BY <3>2 DEF WholeInv
    <3>4. data[scripts[op[w].name]] \in Seq(Texts)
      BY <1>1, <3>3 DEF TypeInv
    <3>5. Writing(op[w].fd)' = {}
      <4>1. op'[w].fd = scripts[op[w].name]
        BY <2>3 DEF Opens
      <4>2. Writing(op[w].fd)' = Writing(scripts[op[w].name])
        BY <1>4, <4>1 DEF Writing
      <4>3. QED
        BY <3>2, <4>2
    <3>6. QED
      BY <1>1, <2>3, <3>1, <3>3, <3>4, <3>5 DEF Opens, Reader
  <2>4. CASE Reads
    <3>1. /\ Writing(op[w].fd) = {} /\ data[op[w].fd] \in posted[op[w].name]
          /\ \A i \in 1 .. Len(op[w].text) : op[w].text[i] = data[op[w].fd][i]
      BY <2>1, <2>4 DEF Reads, ReaderInv, Reader
    <3>2. data[op[w].fd] \in Seq(Texts)
      BY <1>1, <3>1 DEF TypeInv
    <3>3. PICK d \in Seq(Texts), t \in Seq(Texts) : d = data[op[w].fd] /\ t = op[w].text
      BY <2>2, <3>2
    <3>4. d[Len(t) + 1] \in Texts /\ Len(t) + 1 <= Len(d) /\ Len(t) \in Nat
      BY <2>4, <3>3, ElementOfSeq DEF Reads
    <3>5. /\ Len(Append(t, d[Len(t) + 1])) = Len(t) + 1
          /\ \A i \in 1 .. Len(t) : Append(t, d[Len(t) + 1])[i] = t[i]
          /\ Append(t, d[Len(t) + 1])[Len(t) + 1] = d[Len(t) + 1]
      BY <3>4, AppendProperties
    <3>6. op'[w].text = Append(t, d[Len(t) + 1])
      BY <2>4, <3>3 DEF Reads
    <3>7. /\ Len(op'[w].text) <= Len(d)
          /\ \A i \in 1 .. Len(op'[w].text) : op'[w].text[i] = d[i]
      <4>1. PICK n, x : n \in Nat /\ n = Len(t) /\ x = Append(t, d[Len(t) + 1])
        BY <3>4
      <4>2. Len(x) = n + 1 /\ (\A i \in 1 .. n : x[i] = t[i]) /\ x[n + 1] = d[n + 1]
        BY <3>5, <4>1
      <4>3. \A i \in 1 .. n : t[i] = d[i]
        BY <3>1, <3>3, <4>1
      <4>4. ASSUME NEW i \in 1 .. n + 1
            PROVE  x[i] = d[i]
        <5>1. CASE i = n + 1
          BY <4>2, <5>1
        <5>2. CASE i # n + 1
          <6>1. i \in 1 .. n
            BY <4>1, <5>2
          <6>2. QED
            BY <4>2, <4>3, <6>1
        <5>3. QED
          BY <5>1, <5>2
      <4>5. n + 1 <= Len(d) /\ op'[w].text = x
        BY <3>4, <3>6, <4>1
      <4>6. QED
        BY <4>2, <4>4, <4>5
    <3>8. Writing(op[w].fd)' = {} /\ op'[w].fd = op[w].fd /\ op'[w].pc = "read"
      <4>1. op'[w].fd = op[w].fd /\ op'[w].pc = "read"
        BY <2>4 DEF Reads
      <4>2. Writing(op[w].fd)' = Writing(op[w].fd)
        BY <1>4, <4>1 DEF Writing
      <4>3. QED
        BY <3>1, <4>1, <4>2
    <3>9. QED
      BY <1>1, <3>1, <3>3, <3>7, <3>8 DEF Reader
  <2>5. CASE Ends
    <3>1. /\ data[op[w].fd] \in posted[op[w].name]
          /\ Len(op[w].text) <= Len(data[op[w].fd])
          /\ \A i \in 1 .. Len(op[w].text) : op[w].text[i] = data[op[w].fd][i]
      BY <2>1, <2>5 DEF Ends, ReaderInv, Reader
    <3>2. data[op[w].fd] \in Seq(Texts)
      BY <1>1, <3>1 DEF TypeInv
    <3>3. PICK d \in Seq(Texts), t \in Seq(Texts) : d = data[op[w].fd] /\ t = op[w].text
      BY <2>2, <3>2
    <3>4. Len(t) = Len(d)
      BY <2>5, <3>1, <3>3 DEF Ends
    <3>5. t = d
      BY <3>1, <3>3, <3>4, SeqEqual
    <3>6. QED
      BY <1>1, <2>5, <3>1, <3>3, <3>5 DEF Ends, Reader
  <2>6. QED
    BY <1>2, <2>1, <2>3, <2>4, <2>5 DEF Misses
<1>10. ReaderInv'
  <2>1. ASSUME NEW v \in Workers, v # w
        PROVE  Reader(v)'
    <3>1. Reader(v) /\ op'[v] = op[v]
      BY <1>1, <2>1 DEF ReaderInv
    <3>2. Writing(op[v].fd)' = Writing(op[v].fd)
      BY <1>4, <3>1 DEF Writing
    <3>3. QED
      BY <1>1, <3>1, <3>2 DEF Reader
  <2>2. QED
    BY <1>9, <2>1 DEF ReaderInv
<1>11. QED
  BY <1>6, <1>7, <1>8, <1>10

\* What Create does, for any other worker and any other script.
LEMMA CreateApart ==
  ASSUME TypeInv, ShapeInv, LinkInv, NEW w \in Workers, NEW n, NEW f, Create(w, n, f)
  PROVE  /\ f # NoFile /\ op[w].fd = NoFile /\ op[w].pc # "write"
         /\ scripts'[n] = f /\ data'[f] = <<>>
         /\ \A m \in Names : m # n => scripts'[m] = scripts[m] /\ scripts[m] # f
         /\ \A i \in Inodes : i # f => data'[i] = data[i]
         /\ \A v \in Workers : (v # w /\ op[v].fd = f) => op[v].name = n
<1>1. n \in Names /\ f \in Inodes /\ scripts' = [scripts EXCEPT ![n] = f]
      /\ data' = [data EXCEPT ![f] = <<>>] /\ op[w].pc \notin {"read", "write"}
  BY DEF Create
<1>2. scripts \in [Names -> Inodes \cup {NoFile}] /\ data \in [Inodes -> Seq(Texts)]
  BY DEF TypeInv, TypeOK, ServerTypeOK
<1>3. f # NoFile
  <2>1. Cardinality(Names) \in Nat /\ Cardinality(Workers) \in Nat
    BY ScriptAssumption, FS_CardinalityType
  <2>2. QED
    BY <1>1, <2>1, ScriptAssumption DEF Inodes
<1>4. op[w].fd = NoFile
  BY <1>1 DEF ShapeInv, Shape
<1>5. \/ scripts[n] = f
      \/ (\A m \in Names : scripts[m] # f) /\ (\A v \in Workers : op[v].fd # f)
  BY DEF Create
<1>6. \A m \in Names : m # n => scripts[m] # f
  BY <1>1, <1>3, <1>5 DEF LinkInv
<1>7. \A v \in Workers : op[v].fd = f => op[v].name = n
  BY <1>1, <1>3, <1>5 DEF LinkInv
<1>8. QED
  BY <1>1, <1>2, <1>3, <1>4, <1>6, <1>7

\* A file is opened for writing.
LEMMA CreateFiles ==
  ASSUME TypeInv, TypeInv', FilesInv, NEW w \in Workers, NEW n, NEW f, Create(w, n, f)
  PROVE  FilesInv'
<1> USE DEF FilesInv
<1>1. /\ f # NoFile /\ op[w].fd = NoFile /\ op[w].pc # "write"
      /\ scripts'[n] = f /\ data'[f] = <<>>
      /\ \A m \in Names : m # n => scripts'[m] = scripts[m] /\ scripts[m] # f
      /\ \A i \in Inodes : i # f => data'[i] = data[i]
      /\ \A v \in Workers : (v # w /\ op[v].fd = f) => op[v].name = n
  BY CreateApart
<1>2. \A v \in Workers : v # w =>
        /\ op'[v].kind = op[v].kind /\ op'[v].pc = op[v].pc /\ op'[v].name = op[v].name
        /\ op'[v].text = op[v].text /\ op'[v].fd = op[v].fd
        /\ (op'[v].alone => op[v].alone)
        /\ (op[v].pc = "read" /\ op[v].fd = f) => ~op'[v].alone
  BY DEF Create, Others
<1>3. /\ op'[w].kind = op[w].kind /\ op'[w].pc = "write" /\ op'[w].fd = f /\ op'[w].name = n
      /\ n \in Names /\ f \in Inodes /\ posted' = posted
      /\ \/ op[w].kind = "update" /\ op[w].name = n /\ op'[w].text = op[w].text
         \/ op[w].kind = "clone" /\ op'[w].text = Origin(n)
  BY DEF Create
<1>4. ASSUME NEW i, i # f
      PROVE  {v \in Workers : op'[v].pc = "write" /\ op'[v].fd = i} = Writing(i)
  BY <1>1, <1>2, <1>3, <1>4 DEF Writing
<1>5. ShapeInv'
  <2>1. ASSUME NEW v \in Workers
        PROVE  Shape(v)'
    <3>1. CASE v = w
      <4>1. op'[w].kind = "update" => op'[w].text \in posted'[n]
        BY <1>3 DEF ShapeInv, Shape
      <4>2. QED
        BY <1>1, <1>3, <3>1, <4>1 DEF Shape
    <3>2. CASE v # w
      BY <1>2, <1>3, <3>2 DEF ShapeInv, Shape
    <3>3. QED
      BY <3>1, <3>2
  <2>2. QED
    BY <2>1 DEF ShapeInv
<1>6. LinkInv'
  <2>1. ASSUME NEW l \in Names, NEW m \in Names, scripts'[l] = scripts'[m],
               scripts'[l] # NoFile
        PROVE  l = m
    BY <1>1, <2>1 DEF LinkInv
  <2>2. ASSUME NEW v \in Workers, NEW m \in Names, op'[v].fd = scripts'[m],
               op'[v].fd # NoFile
        PROVE  op'[v].name = m
    <3>1. CASE v = w
      BY <1>1, <1>3, <2>2, <3>1
    <3>2. CASE v # w
      BY <1>1, <1>2, <2>2, <3>2 DEF LinkInv
    <3>3. QED
      BY <3>1, <3>2
  <2>3. QED
    BY <1>3, <2>1, <2>2 DEF LinkInv
<1>7. WholeInv'
  <2>1. ASSUME NEW m \in (Present \ mixed)'
        PROVE  \/ Writing(scripts[m])' = {} /\ data'[scripts'[m]] \in posted'[m]
               \/ /\ \E v \in Workers : Writing(scripts[m])' = {v}
                  /\ data'[scripts'[m]] = <<>>
    <3>1. m \in Names /\ m \notin mixed' /\ scripts'[m] # NoFile
      BY <2>1 DEF Present
    <3>2. CASE m = n
      <4>1. Writing(f) = {}
        BY <3>1, <3>2 DEF Create
      <4>2. Writing(scripts[m])' = {w}
        BY <1>1, <1>2, <1>3, <3>2, <4>1 DEF Writing
      <4>3. QED
        BY <1>1, <3>2, <4>2
    <3>3. CASE m # n
      <4>1. m \in Present \ mixed /\ scripts'[m] = scripts[m] /\ scripts[m] # f
        BY <1>1, <3>1, <3>3 DEF Create, Present
      <4>2. Writing(scripts[m])' = Writing(scripts[m])
        BY <1>4, <4>1 DEF Writing
      <4>3. scripts[m] \in Inodes
        BY <3>1, <4>1 DEF TypeInv, TypeOK, ServerTypeOK, Present
      <4>4. QED
        BY <1>1, <1>3, <4>1, <4>2, <4>3 DEF WholeInv
    <3>4. QED
      BY <3>2, <3>3
  <2>2. QED
    BY <2>1 DEF WholeInv
<1>8. ReaderInv'
  <2>1. ASSUME NEW v \in Workers, op'[v].alone
        PROVE  Reader(v)'
    <3>1. CASE v = w
      BY <1>3, <3>1 DEF Reader
    <3>2. CASE v # w
      <4>1. Reader(v) /\ op[v].alone
        BY <1>2, <2>1, <3>2 DEF ReaderInv
      <4>2. CASE op[v].pc = "read"
        <5>1. op[v].fd \in Inodes /\ op[v].fd # f /\ op'[v].fd = op[v].fd
          BY <1>2, <2>1, <3>2, <4>2 DEF TypeInv, Ops, ShapeInv, Shape
        <5>2. Writing(op[v].fd)' = Writing(op[v].fd)
          BY <1>4, <5>1 DEF Writing
        <5>3. QED
          BY <1>1, <1>2, <1>3, <3>2, <4>1, <4>2, <5>1, <5>2 DEF Reader
      <4>3. CASE op[v].pc # "read"
        BY <1>2, <1>3, <3>2, <4>1, <4>3 DEF Reader
      <4>4. QED
        BY <4>2, <4>3
    <3>3. QED
      BY <3>1, <3>2
  <2>2. \A v \in Workers : Reader(v)'
    BY <2>1 DEF Reader
  <2>3. QED
    BY <2>2 DEF ReaderInv
<1>9. QED
  BY <1>5, <1>6, <1>7, <1>8

\* What Fill does to its file and to the others.
LEMMA FillApart ==
  ASSUME TypeInv, ShapeInv, NEW w \in Workers, Fill(w)
  PROVE  /\ op[w].fd \in Inodes /\ op[w].fd # NoFile /\ op[w].name \in Names
         /\ op[w].kind \in {"update", "clone"}
         /\ data[op[w].fd] = <<>> => data'[op[w].fd] = op[w].text
         /\ \A i \in Inodes : i # op[w].fd => data'[i] = data[i]
         /\ \A T : (op[w].text \in Seq(T) /\ data[op[w].fd] \in Seq(T)) =>
              data'[op[w].fd] \in Seq(T)
<1>1. /\ op[w].fd \in Inodes /\ op[w].fd # NoFile /\ op[w].text \in Seq(Texts)
      /\ op[w].kind \in {"update", "clone"} /\ op[w].name \in Names
  BY DEF Fill, ShapeInv, Shape, TypeInv, Ops
<1>2. data \in [Inodes -> Seq(Texts)]
  BY DEF TypeInv, TypeOK, ServerTypeOK
<1>3. PICK f, d, t : f = op[w].fd /\ d = data[f] /\ t = op[w].text
  OBVIOUS
<1>4. data' = [data EXCEPT ![f] = t \o SubSeq(d, Len(t) + 1, Len(d))]
  BY <1>3 DEF Fill
<1>5. data'[f] = t \o SubSeq(d, Len(t) + 1, Len(d)) /\ d \in Seq(Texts)
  BY <1>1, <1>2, <1>3, <1>4
<1>6. d = <<>> => data'[f] = t
  <2>1. t \in Seq(Texts) /\ d \in Seq(Texts)
    BY <1>1, <1>3, <1>5
  <2>2. d = <<>> => t \o SubSeq(d, Len(t) + 1, Len(d)) = t
    BY <2>1, Overwritten
  <2>3. QED
    BY <1>5, <2>2
<1>7. ASSUME NEW T, t \in Seq(T), d \in Seq(T)
      PROVE  data'[f] \in Seq(T)
  BY <1>5, <1>7, Overwritten
<1>8. \A i \in Inodes : i # f => data'[i] = data[i]
  BY <1>2, <1>4
<1>9. QED
  BY <1>1, <1>3, <1>6, <1>7, <1>8

\* A text is written and its file closed.
LEMMA FillFiles ==
  ASSUME TypeInv, TypeInv', FilesInv, NEW w \in Workers, Fill(w)
  PROVE  FilesInv'
<1> USE DEF FilesInv
<1>1. PICK f : f = op[w].fd
  OBVIOUS
<1>2. /\ f \in Inodes /\ f # NoFile /\ op[w].kind \in {"update", "clone"}
      /\ data[f] = <<>> => data'[f] = op[w].text
      /\ \A i \in Inodes : i # f => data'[i] = data[i]
  BY <1>1, FillApart
<1>3. /\ \A v \in Workers : v # w => op'[v] = op[v]
      /\ op'[w].kind = op[w].kind /\ op[w].pc = "write" /\ op'[w].fd = NoFile
      /\ op'[w].pc \in {"answer", "checkout"}
      /\ op[w].kind = "update" => op'[w].name = op[w].name /\ op'[w].text = op[w].text
      /\ scripts' = scripts /\ posted' = posted /\ mixed' = mixed
  BY DEF Fill
<1>4. ASSUME NEW i, i # f
      PROVE  {v \in Workers : op'[v].pc = "write" /\ op'[v].fd = i} = Writing(i)
  BY <1>1, <1>3, <1>4 DEF Writing
<1>5. ShapeInv'
  <2>1. ASSUME NEW v \in Workers
        PROVE  Shape(v)'
    <3>1. CASE v = w
      BY <1>2, <1>3, <3>1 DEF ShapeInv, Shape
    <3>2. CASE v # w
      BY <1>3, <3>2 DEF ShapeInv, Shape
    <3>3. QED
      BY <3>1, <3>2
  <2>2. QED
    BY <2>1 DEF ShapeInv
<1>6. LinkInv'
  BY <1>3 DEF LinkInv
<1>7. WholeInv'
  <2>1. ASSUME NEW m \in (Present \ mixed)'
        PROVE  \/ Writing(scripts[m])' = {} /\ data'[scripts'[m]] \in posted'[m]
               \/ /\ \E v \in Workers : Writing(scripts[m])' = {v}
                  /\ data'[scripts'[m]] = <<>>
    <3>1. m \in Present \ mixed /\ m \in Names
      BY <1>3, <2>1 DEF Present
    <3>2. CASE scripts[m] = f
      <4>1. w \in Writing(f)
        BY <1>1, <1>3 DEF Writing
      <4>2. Writing(f) = {w} /\ data[f] = <<>>
        <5>1. \/ Writing(scripts[m]) = {}
              \/ (\E v \in Workers : Writing(scripts[m]) = {v}) /\ data[scripts[m]] = <<>>
          BY <3>1 DEF WholeInv
        <5>2. QED
          BY <3>2, <4>1, <5>1
      <4>3. op[w].name = m
        BY <1>1, <1>2, <3>1, <3>2 DEF LinkInv
      <4>4. op[w].text \in posted[m]
        BY <1>2, <1>3, <3>1, <4>3 DEF ShapeInv, Shape, LinkInv
      <4>5. Writing(scripts[m])' = {}
        BY <1>3, <3>2, <4>2 DEF Writing
      <4>6. QED
        BY <1>2, <1>3, <3>2, <4>2, <4>4, <4>5
    <3>3. CASE scripts[m] # f
      <4>1. Writing(scripts[m])' = Writing(scripts[m])
        BY <1>3, <1>4, <3>3 DEF Writing
      <4>2. scripts[m] \in Inodes
        BY <3>1 DEF TypeInv, TypeOK, ServerTypeOK, Present
      <4>3. QED
        BY <1>2, <1>3, <3>1, <3>3, <4>1, <4>2 DEF WholeInv
    <3>4. QED
      BY <3>2, <3>3
  <2>2. QED
    BY <2>1 DEF WholeInv
<1>8. ReaderInv'
  <2>1. ASSUME NEW v \in Workers, op'[v].alone
        PROVE  Reader(v)'
    <3>1. CASE v = w
      BY <1>2, <1>3, <3>1 DEF Reader
    <3>2. CASE v # w
      <4>1. Reader(v) /\ op'[v] = op[v]
        BY <1>3, <3>2 DEF ReaderInv
      <4>2. CASE op[v].pc = "read"
        <5>1. Writing(op[v].fd) = {}
          BY <2>1, <4>1, <4>2 DEF Reader
        <5>2. op[v].fd \in Inodes /\ op[v].fd # f
          BY <1>1, <1>3, <4>2, <5>1 DEF TypeInv, Ops, ShapeInv, Shape, Writing
        <5>3. Writing(op[v].fd)' = Writing(op[v].fd)
          BY <1>4, <4>1, <5>2 DEF Writing
        <5>4. QED
          BY <1>2, <1>3, <4>1, <5>2, <5>3 DEF Reader
      <4>3. CASE op[v].pc # "read"
        BY <1>3, <4>1, <4>3 DEF Reader
      <4>4. QED
        BY <4>2, <4>3
    <3>3. QED
      BY <3>1, <3>2
  <2>2. \A v \in Workers : Reader(v)'
    BY <2>1 DEF Reader
  <2>3. QED
    BY <2>2 DEF ReaderInv
<1>9. QED
  BY <1>5, <1>6, <1>7, <1>8

\* Every step keeps complete scripts complete.
LEMMA NextFilesInv ==
  ASSUME TypeInv, TypeInv', FilesInv, [Next]_vars
  PROVE  FilesInv'
<1>1. CASE UNCHANGED serverVars
  <2>1. UNCHANGED <<scripts, data, op, posted, mixed>>
    BY <1>1 DEF serverVars
  <2>2. ShapeInv' /\ LinkInv' /\ WholeInv'
    BY <2>1 DEF FilesInv, ShapeInv, Shape, LinkInv, WholeInv, Writing, Present
  <2>3. ReaderInv'
    BY <2>1 DEF FilesInv, ReaderInv, Reader, Writing
  <2>4. QED
    BY <2>2, <2>3 DEF FilesInv
<1>2. ShapeInv
  BY DEF FilesInv
<1>3. QED
  BY <1>1, <1>2, StepKinds, QuietFiles, ReadFiles, FillFiles, AnsweredFiles, CreateFiles,
     AcceptFiles

-----------------------------------------------------------------------------
(* Changes that nothing disturbed *)

\* What a save or a reload left behind, while nobody is about to change it.
Left(n) ==
  latest[n] # <<>> =>
    /\ n \in Present /\ data[scripts[n]] = latest[n]
    /\ \A w \in Workers : (Changing(w) /\ ~Done(w)) =>
         op[w].kind = "update" /\ op[w].name # n

\* Steps that change nothing but the record of a worker that changes nothing.
LEMMA CalmStable ==
  ASSUME TypeInv, TypeInv', StableInv, NEW w \in Workers,
         op'[w].kind \notin {"update", "clone"},
         \A v \in Workers \ {w} : op'[v] = op[v],
         UNCHANGED <<repo, dir, scripts, data, latest>>
  PROVE  StableInv'
<1>1. \A v \in Workers : Changing(v)' => v # w /\ op'[v] = op[v] /\ Changing(v)
  BY DEF Changing
<1>2. ASSUME NEW v \in Workers, Changing(v)', op'[v].alone
      PROVE  Undisturbed(v)'
  <2>1. op'[v] = op[v] /\ Changing(v) /\ Undisturbed(v) /\ op[v].alone
    BY <1>1, <1>2 DEF StableInv
  <2>2. \A u \in Workers \ {v} : ~Changing(u)'
    BY <1>1, <2>1 DEF Undisturbed
  <2>3. QED
    BY <2>1, <2>2 DEF Undisturbed, At, CheckedOut, Present
<1>3. \A v \in Workers : Undisturbed(v)'
  BY <1>2 DEF Undisturbed
<1>4. ASSUME NEW n \in Names, latest'[n] # <<>>
      PROVE  Left(n)'
  <2>1. /\ n \in Present /\ data[scripts[n]] = latest[n]
        /\ \A v \in Workers : (Changing(v) /\ ~Done(v)) =>
             op[v].kind = "update" /\ op[v].name # n
    BY <1>4 DEF StableInv
  <2>2. QED
    BY <1>1, <2>1 DEF Left, Present, Done
<1>5. QED
  BY <1>3, <1>4 DEF StableInv, Left

\* A request is taken: changes that are under way are no longer alone.
LEMMA AcceptStable ==
  ASSUME TypeInv, TypeInv', StableInv, NEW w \in Workers, NEW kind, NEW n, NEW text,
         Accept(w, kind, n, text)
  PROVE  StableInv'
<1>1. /\ op'[w].kind = kind /\ op'[w].pc = "start" /\ op'[w].name = n
      /\ op'[w].alone => \A u \in Workers : ~Changing(u)
      /\ op[w].kind = "idle"
      /\ UNCHANGED <<repo, dir, scripts, data>>
  BY DEF Accept
<1>2. \A v \in Workers : v # w =>
        /\ op'[v].kind = op[v].kind /\ op'[v].pc = op[v].pc /\ op'[v].name = op[v].name
        /\ op'[v].text = op[v].text /\ op'[v].fd = op[v].fd /\ op'[v].todo = op[v].todo
        /\ (op'[v].alone => op[v].alone)
        /\ (kind \in {"update", "clone"} /\ Changing(v)) => ~op'[v].alone
  BY DEF Accept, Others
<1>3. \A v \in Workers : v # w => (Changing(v)' <=> Changing(v))
  BY <1>2 DEF Changing
<1>4. ASSUME NEW v \in Workers, Changing(v)', op'[v].alone
      PROVE  Undisturbed(v)'
  <2>1. CASE v = w
    <3>1. \A u \in Workers \ {v} : ~Changing(u)'
      BY <1>1, <1>3, <1>4, <2>1
    <3>2. QED
      BY <1>1, <2>1, <3>1 DEF Undisturbed, At
  <2>2. CASE v # w
    <3>1. Changing(v) /\ op[v].alone /\ Undisturbed(v) /\ kind \notin {"update", "clone"}
      BY <1>2, <1>3, <1>4, <2>2 DEF StableInv
    <3>2. \A u \in Workers \ {v} : ~Changing(u)'
      BY <1>1, <1>3, <3>1 DEF Undisturbed, Changing
    <3>3. QED
      BY <1>1, <1>2, <2>2, <3>1, <3>2 DEF Undisturbed, At, CheckedOut, Present
  <2>3. QED
    BY <2>1, <2>2
<1>5. \A v \in Workers : Undisturbed(v)'
  BY <1>4 DEF Undisturbed
<1>6. ASSUME NEW m \in Names, latest'[m] # <<>>
      PROVE  Left(m)'
  <2>1. latest'[m] = latest[m] /\ kind # "clone" /\ ~(kind = "update" /\ m = n)
    BY <1>6 DEF Accept
  <2>2. /\ m \in Present /\ data[scripts[m]] = latest[m]
        /\ \A v \in Workers : (Changing(v) /\ ~Done(v)) =>
             op[v].kind = "update" /\ op[v].name # m
    BY <1>6, <2>1 DEF StableInv
  <2>3. ASSUME NEW v \in Workers, Changing(v)', ~Done(v)'
        PROVE  op'[v].kind = "update" /\ op'[v].name # m
    <3>1. CASE v = w
      BY <1>1, <2>1, <2>3, <3>1 DEF Changing
    <3>2. CASE v # w
      BY <1>2, <1>3, <2>2, <2>3, <3>2 DEF Done
    <3>3. QED
      BY <3>1, <3>2
  <2>4. QED
    BY <1>1, <2>1, <2>2, <2>3 DEF Left, Present
<1>7. QED
  BY <1>5, <1>6 DEF StableInv, Left

\* A change that is under way disturbs all others.
LEMMA OthersDisturbed ==
  ASSUME StableInv, NEW w \in Workers, Changing(w), Others(w),
         op'[w].kind = op[w].kind, op'[w].alone = op[w].alone
  PROVE  /\ \A v \in Workers : v # w => Undisturbed(v)'
         /\ op'[w].alone => \A v \in Workers \ {w} : ~Changing(v) /\ ~Changing(v)'
<1>1. \A v \in Workers : Changing(v)' <=> Changing(v)
  BY DEF Others, Changing
<1>2. ASSUME NEW v \in Workers, v # w, Changing(v)', op'[v].alone
      PROVE  FALSE
  <2>1. Changing(v) /\ op[v].alone
    BY <1>1, <1>2 DEF Others
  <2>2. QED
    BY <1>2, <2>1 DEF StableInv, Undisturbed
<1>3. \A v \in Workers : v # w => Undisturbed(v)'
  BY <1>2 DEF Undisturbed
<1>4. op'[w].alone => \A v \in Workers \ {w} : ~Changing(v) /\ ~Changing(v)'
  BY <1>1 DEF StableInv, Undisturbed
<1>5. QED
  BY <1>3, <1>4

\* A step of a change w leaves the result of an earlier one alone: either there
\* is none, or the step belongs to the update of another script.
LEMMA EarlierLeft ==
  ASSUME StableInv, NEW w \in Workers, Changing(w), ~Done(w), Others(w),
         op'[w].kind = op[w].kind, NEW n \in Names, latest[n] # <<>>, latest'[n] = latest[n],
         op[w].kind = "update" => op'[w].name = op[w].name,
         (op[w].kind = "update" /\ op[w].name # n) =>
           scripts'[n] = scripts[n] /\ data'[scripts[n]] = data[scripts[n]]
  PROVE  Left(n)'
<1>1. /\ n \in Present /\ data[scripts[n]] = latest[n]
      /\ \A v \in Workers : (Changing(v) /\ ~Done(v)) =>
           op[v].kind = "update" /\ op[v].name # n
  BY DEF StableInv
<1>2. op[w].kind = "update" /\ op[w].name # n
  BY <1>1
<1>3. ASSUME NEW v \in Workers, Changing(v)', ~Done(v)'
      PROVE  op'[v].kind = "update" /\ op'[v].name # n
  <2>1. CASE v = w
    BY <1>2, <2>1
  <2>2. CASE v # w
    BY <1>1, <1>3, <2>2 DEF Others, Changing, Done
  <2>3. QED
    BY <2>1, <2>2
<1>4. QED
  BY <1>1, <1>2, <1>3 DEF Left, Present

\* The steps of a save that fails and of a reload between its writes.
LEMMA QuietStable ==
  ASSUME TypeInv, TypeInv', ShapeInv, StableInv, NEW w \in Workers,
         \/ openWriteFails(w) \/ rmList(w) \/ rm(w) \/ rmdir(w)
         \/ gitClone(w) \/ fetchFails(w) \/ checkoutFails(w)
  PROVE  StableInv'
<1>1. Quiet(w)
  BY QuietSteps
<1>2. op \in [Workers -> Ops] /\ op[w] \in Ops
  BY DEF TypeInv
<1>3. Changing(w) /\ ~Done(w)
  BY DEF openWriteFails, rmList, rm, rmdir, gitClone, fetchFails, checkoutFails, At, Changing, Done
<1>4. /\ op'[w].kind = op[w].kind /\ op'[w].alone = op[w].alone /\ op'[w].name = op[w].name
      /\ Others(w) /\ data' = data
  BY <1>1 DEF Quiet, Others
<1>5. /\ \A v \in Workers : v # w => Undisturbed(v)'
      /\ op'[w].alone => \A v \in Workers \ {w} : ~Changing(v) /\ ~Changing(v)'
  BY <1>3, <1>4, OthersDisturbed
<1>6. ASSUME op[w].alone
      PROVE  Undisturbed(w)'
  <2>1. Undisturbed(w)
    BY DEF StableInv
  <2>2. SUFFICES /\ ~At(w, "update", "write")' /\ ~At(w, "clone", "write")'
                 /\ At(w, "clone", "rm")' => Present' \subseteq op'[w].todo
                 /\ At(w, "clone", "git")' => ~repo'
                 /\ At(w, "clone", "checkout")' => op'[w].todo = Names
    BY <1>4, <1>5, <1>6 DEF Undisturbed
  <2>3. CASE openWriteFails(w) \/ fetchFails(w) \/ checkoutFails(w)
    <3>1. op'[w].pc = "answer"
      <4>1. CASE openWriteFails(w)
        <5>1. PICK s \in Statuses : s = 500
          BY DEF Statuses
        <5>2. op' = [op EXCEPT ![w].pc = "answer", ![w].status = s]
          BY <4>1, <5>1, Zenon DEF openWriteFails
        <5>3. QED
          BY <1>2, <5>2 DEF Ops
      <4>2. CASE fetchFails(w)
        BY <1>2, <4>2 DEF fetchFails, Ops
      <4>3. CASE checkoutFails(w)
        BY <1>2, <4>3 DEF checkoutFails, Ops
      <4>4. QED
        BY <2>3, <4>1, <4>2, <4>3
    <3>2. QED
      BY <3>1 DEF At
  <2>4. CASE rmList(w)
    <3>1. UNCHANGED <<repo, scripts>>
      BY <2>4 DEF rmList
    <3>2. CASE repo
      <4>1. op' = [op EXCEPT ![w].pc = "rm", ![w].todo = Present]
        BY <2>4, <3>2 DEF rmList
      <4>2. op'[w].pc = "rm" /\ op'[w].todo = Present
        BY <1>2, <4>1 DEF Ops
      <4>3. QED
        BY <3>1, <4>2 DEF At, Present
    <3>3. CASE ~repo
      <4>1. op'[w].pc = "git"
        BY <1>2, <2>4, <3>3 DEF rmList
      <4>2. QED
        BY <3>1, <3>3, <4>1 DEF At
    <3>4. QED
      BY <3>2, <3>3
  <2>5. CASE rm(w)
    <3>1. PICK n \in op[w].todo : /\ scripts' = [scripts EXCEPT ![n] = NoFile]
                                  /\ op' = [op EXCEPT ![w].todo = @ \ {n}]
      BY <2>5 DEF rm
    <3>2. Present \subseteq op[w].todo /\ op[w].pc = "rm"
      BY <1>3, <1>6, <2>1, <2>5 DEF Undisturbed, rm, At
    <3>3. op'[w].todo = op[w].todo \ {n} /\ op'[w].pc = "rm"
      BY <1>2, <3>1, <3>2 DEF Ops
    <3>4. Present' \subseteq Present \ {n}
      <4>1. scripts \in [Names -> Inodes \cup {NoFile}]
        BY DEF TypeInv, TypeOK, ServerTypeOK
      <4>2. QED
        BY <3>1, <4>1 DEF Present
    <3>5. QED
      BY <3>2, <3>3, <3>4 DEF At
  <2>6. CASE rmdir(w)
    <3>1. Present = {} /\ repo' = (Present # {})
      BY <1>3, <1>6, <2>1, <2>6 DEF Undisturbed, rmdir, At
    <3>2. op'[w].pc = "git"
      BY <1>2, <2>6 DEF rmdir
    <3>3. QED
      BY <3>1, <3>2 DEF At
  <2>7. CASE gitClone(w)
    <3>1. ~repo
      BY <1>3, <1>6, <2>1, <2>7 DEF Undisturbed, gitClone
    <3>2. op' = [op EXCEPT ![w].pc = "checkout", ![w].todo = Names]
      BY <2>7, <3>1 DEF gitClone
    <3>3. op'[w].pc = "checkout" /\ op'[w].todo = Names
      BY <1>2, <3>2 DEF Ops
    <3>4. QED
      BY <3>3 DEF At
  <2>8. QED
    BY <2>3, <2>4, <2>5, <2>6, <2>7
<1>7. latest' = latest
  <2>1. CASE gitClone(w)
    <3>1. ~(repo /\ op[w].alone)
      BY <1>3, <2>1 DEF gitClone, StableInv, Undisturbed
    <3>2. QED
      BY <2>1, <3>1 DEF gitClone
  <2>2. QED
    BY <2>1 DEF openWriteFails, rmList, rm, rmdir, fetchFails, checkoutFails
<1>8. ASSUME NEW n \in Names, latest'[n] # <<>>
      PROVE  Left(n)'
  <2>1. op[w].kind = "update" => scripts' = scripts
    BY DEF openWriteFails, rmList, rm, rmdir, gitClone, fetchFails, checkoutFails, At
  <2>2. QED
    BY <1>3, <1>4, <1>7, <1>8, <2>1, EarlierLeft
<1>9. \A v \in Workers : Undisturbed(v)'
  BY <1>4, <1>5, <1>6 DEF Undisturbed
<1>10. QED
  BY <1>8, <1>9 DEF StableInv, Left

\* A file is opened for writing.
LEMMA CreateStable ==
  ASSUME TypeInv, TypeInv', ShapeInv, LinkInv, StableInv, NEW w \in Workers,
         NEW n, NEW f, Create(w, n, f)
  PROVE  StableInv'
<1>1. /\ scripts'[n] = f /\ data'[f] = <<>>
      /\ \A m \in Names : m # n => scripts'[m] = scripts[m] /\ scripts[m] # f
      /\ \A i \in Inodes : i # f => data'[i] = data[i]
  BY CreateApart
<1>2. /\ op'[w].kind = op[w].kind /\ op'[w].alone = op[w].alone /\ op'[w].pc = "write"
      /\ op'[w].fd = f /\ op'[w].name = n /\ n \in Names
      /\ Others(w) /\ latest' = latest
  BY DEF Create
<1>3. Changing(w) /\ ~Done(w)
  BY DEF Create, Changing, Done
<1>4. /\ \A v \in Workers : v # w => Undisturbed(v)'
      /\ op'[w].alone => \A v \in Workers \ {w} : ~Changing(v) /\ ~Changing(v)'
  BY <1>2, <1>3, OthersDisturbed
<1>5. \A m \in Names : m # n => (CheckedOut(m) => CheckedOut(m)')
  <2>1. ASSUME NEW m \in Names, m # n, CheckedOut(m)
        PROVE  CheckedOut(m)'
    <3>1. scripts[m] \in Inodes /\ scripts'[m] = scripts[m] /\ scripts[m] # f
      BY <1>1, <2>1 DEF CheckedOut, Present, TypeInv, TypeOK, ServerTypeOK
    <3>2. QED
      BY <1>1, <2>1, <3>1 DEF CheckedOut, Present
  <2>2. QED
    BY <2>1
<1>6. ASSUME op[w].alone
      PROVE  Undisturbed(w)'
  <2>1. CASE op[w].kind = "update"
    BY <1>1, <1>2, <1>4, <1>6, <2>1 DEF Undisturbed, At
  <2>2. CASE op[w].kind = "clone"
    <3>1. op[w].pc = "checkout" /\ op'[w].todo = op[w].todo \ {n}
      BY <2>2 DEF Create
    <3>2. \A m \in Names \ op[w].todo : CheckedOut(m)
      BY <1>3, <1>6, <2>2, <3>1 DEF StableInv, Undisturbed, At
    <3>3. \A m \in Names \ op'[w].todo : m = n \/ CheckedOut(m)'
      BY <1>5, <3>1, <3>2
    <3>4. QED
      BY <1>1, <1>2, <1>4, <1>6, <2>2, <3>3 DEF Undisturbed, At
  <2>3. QED
    BY <1>3, <2>1, <2>2 DEF Changing
<1>7. ASSUME NEW m \in Names, latest'[m] # <<>>
      PROVE  Left(m)'
  <2>1. latest[m] # <<>> /\ latest'[m] = latest[m]
    BY <1>2, <1>7
  <2>2. m \in Present
    BY <2>1 DEF StableInv
  <2>3. scripts[m] \in Inodes
    BY <2>2 DEF Present, TypeInv, TypeOK, ServerTypeOK
  <2>4. op[w].kind = "update" => op[w].name = n
    BY DEF Create
  <2>5. QED
    BY <1>1, <1>2, <1>3, <2>1, <2>3, <2>4, EarlierLeft
<1>8. \A v \in Workers : Undisturbed(v)'
  BY <1>2, <1>4, <1>6 DEF Undisturbed
<1>9. QED
  BY <1>7, <1>8 DEF StableInv, Left

\* A text is written; a change that was alone has left its result behind.
LEMMA FillStable ==
  ASSUME TypeInv, TypeInv', ShapeInv, LinkInv, StableInv, NEW w \in Workers,
         writeScript(w) \/ writeOut(w)
  PROVE  StableInv'
<1>1. Fill(w)
  BY FillSteps
<1>2. PICK f, c : f = op[w].fd /\ c = op[w].name
  OBVIOUS
<1>3. /\ f \in Inodes /\ f # NoFile /\ c \in Names
      /\ data[f] = <<>> => data'[f] = op[w].text
      /\ \A i \in Inodes : i # f => data'[i] = data[i]
  BY <1>1, <1>2, FillApart
<1>4. /\ op'[w].kind = op[w].kind /\ op'[w].alone = op[w].alone /\ op'[w].todo = op[w].todo
      /\ op[w].pc = "write" /\ Others(w) /\ scripts' = scripts
      /\ op[w].kind = "update" => op'[w].pc = "answer" /\ op'[w].name = c
      /\ op[w].kind = "clone" =>
           op'[w].pc = IF op[w].todo = {} THEN "answer" ELSE "checkout"
  BY <1>1, <1>2 DEF Fill, Others
<1>5. Changing(w) /\ ~Done(w) /\ op[w].kind \in {"update", "clone"}
  BY <1>1 DEF Fill, Changing, Done
<1>6. /\ \A v \in Workers : v # w => Undisturbed(v)'
      /\ op'[w].alone => \A v \in Workers \ {w} : ~Changing(v) /\ ~Changing(v)'
  BY <1>4, <1>5, OthersDisturbed
<1>7. \A m \in Names : m # c => scripts[m] # f
  BY <1>2, <1>3 DEF LinkInv
<1>8. \A m \in Names : (m # c /\ m \in Present) => data'[scripts[m]] = data[scripts[m]]
  BY <1>3, <1>7 DEF Present, TypeInv, TypeOK, ServerTypeOK
<1>9. op[w].alone => /\ c \in Present' /\ scripts'[c] = f /\ data'[f] = op[w].text
  BY <1>2, <1>3, <1>4, <1>5 DEF StableInv, Undisturbed, At, Present
<1>10. (op[w].alone /\ op[w].kind = "clone") =>
         \A m \in Names \ op[w].todo : CheckedOut(m)'
  <2>1. ASSUME op[w].alone, op[w].kind = "clone", NEW m \in Names \ op[w].todo
        PROVE  CheckedOut(m)'
    <3>1. CASE m = c
      <4>1. op[w].text = Origin(c)
        BY <1>2, <1>4, <2>1 DEF ShapeInv, Shape
      <4>2. QED
        BY <1>9, <2>1, <3>1, <4>1 DEF CheckedOut
    <3>2. CASE m # c
      <4>1. CheckedOut(m)
        BY <1>2, <1>4, <1>5, <2>1, <3>2 DEF StableInv, Undisturbed, At
      <4>2. QED
        BY <1>4, <1>8, <3>2, <4>1 DEF CheckedOut, Present
    <3>3. QED
      BY <3>1, <3>2
  <2>2. QED
    BY <2>1
<1>11. ASSUME op[w].alone
       PROVE  Undisturbed(w)'
  <2>1. op'[w].pc \in {"answer", "checkout"} /\ (op'[w].pc = "checkout" => op[w].kind = "clone")
    BY <1>4, <1>5
  <2>2. QED
    BY <1>4, <1>6, <1>10, <1>11, <2>1 DEF Undisturbed, At
<1>12. ASSUME NEW n \in Names, latest'[n] # <<>>
       PROVE  Left(n)'
  <2>1. CASE latest'[n] = latest[n]
    <3>1. n \in Present
      BY <1>12, <2>1 DEF StableInv
    <3>2. (op[w].kind = "update" /\ op[w].name # n) => data'[scripts[n]] = data[scripts[n]]
      BY <1>2, <1>8, <3>1
    <3>3. QED
      BY <1>2, <1>4, <1>5, <1>12, <2>1, <3>2, EarlierLeft
  <2>2. CASE latest'[n] # latest[n]
    <3>1. latest \in [Names -> Seq(Texts)]
      BY DEF TypeInv, TypeOK, ServerTypeOK
    <3>2. /\ op[w].alone /\ Done(w)'
          /\ n \in Present' /\ data'[scripts'[n]] = latest'[n]
      <4>1. CASE writeScript(w)
        <5>1. op[w].kind = "update" /\ op[w].alone
          BY <2>2, <4>1 DEF writeScript, At
        <5>2. latest' = [latest EXCEPT ![c] = op[w].text]
          BY <1>2, <4>1, <5>1 DEF writeScript
        <5>3. n = c /\ latest'[n] = op[w].text
          BY <1>3, <2>2, <3>1, <5>2
        <5>4. QED
          BY <1>4, <1>9, <5>1, <5>3 DEF Done
      <4>2. CASE writeOut(w)
        <5>1. op[w].kind = "clone" /\ op[w].alone /\ op[w].todo = {}
          BY <2>2, <4>2 DEF writeOut, At
        <5>2. latest' = [m \in Names |-> Origin(m)]
          BY <4>2, <5>1 DEF writeOut
        <5>3. CheckedOut(n)' /\ latest'[n] = Origin(n)
          BY <1>10, <5>1, <5>2
        <5>4. QED
          BY <1>4, <5>1, <5>3 DEF Done, CheckedOut
      <4>3. QED
        BY <4>1, <4>2
    <3>3. \A v \in Workers : Changing(v)' => v = w
      BY <1>4, <1>6, <3>2
    <3>4. QED
      BY <3>2, <3>3 DEF Left
  <2>3. QED
    BY <2>1, <2>2
<1>13. \A v \in Workers : Undisturbed(v)'
  BY <1>4, <1>6, <1>11 DEF Undisturbed
<1>14. QED
  BY <1>12, <1>13 DEF StableInv, Left

\* Every step keeps what an undisturbed change left behind.
LEMMA NextStableInv ==
  ASSUME TypeInv, TypeInv', ShapeInv, LinkInv, StableInv, [Next]_vars
  PROVE  StableInv'
<1>1. CASE edit \/ UNCHANGED vars
  <2>1. UNCHANGED <<repo, dir, scripts, data, op, latest>>
    BY <1>1 DEF edit, vars, serverVars
  <2>2. QED
    BY <2>1 DEF StableInv, Undisturbed, At, Changing, Done, CheckedOut, Present
<1>2. ASSUME NEW w \in Workers, ServerStep(w)
      PROVE  StableInv'
  <2>1. CASE getScripts(w)
    <3>1. Quiet(w) /\ UNCHANGED <<repo, dir, scripts, data, latest>> /\ op[w].kind = "list"
      BY <2>1, QuietSteps DEF getScripts, At
    <3>2. QED
      BY <3>1, CalmStable DEF Quiet
  <2>2. CASE openRead(w) \/ script_file(w) \/ readBlock(w)
    <3>1. ReadStep(w)
      BY <2>2, ReadSteps
    <3>2. QED
      BY <3>1, CalmStable DEF ReadStep
  <2>3. CASE openWrite(w) \/ checkout(w)
    BY <2>3, CreateSteps, CreateStable
  <2>4. CASE writeScript(w) \/ writeOut(w)
    BY <2>4, FillStable
  <2>5. CASE \/ openWriteFails(w) \/ rmList(w) \/ rm(w) \/ rmdir(w)
             \/ gitClone(w) \/ fetchFails(w) \/ checkoutFails(w)
    BY <2>5, QuietStable
  <2>6. QED
    BY <1>2, <2>1, <2>2, <2>3, <2>4, <2>5 DEF ServerStep
<1>3. ASSUME NEW w \in Workers, next(w) \/ error(w)
      PROVE  StableInv'
  <2>1. op' = [op EXCEPT ![w] = Idle] /\ op \in [Workers -> Ops]
        /\ UNCHANGED <<repo, dir, scripts, data, latest>>
    BY <1>3 DEF next, error, Answer, TypeInv
  <2>2. op'[w].kind = "idle" /\ \A v \in Workers \ {w} : op'[v] = op[v]
    BY <2>1, IdleIsOp
  <2>3. QED
    BY <2>1, <2>2, CalmStable
<1>4. ASSUME NEW w \in Workers,
             \/ ngOnInit(w) \/ updateScript(w) \/ newJob(w) \/ cloneRepo(w)
             \/ \E n \in Names : onSelect(w, n)
      PROVE  StableInv'
  BY <1>4, SendAccepts, AcceptStable
<1>5. QED
  BY <1>1, <1>2, <1>3, <1>4 DEF Next

-----------------------------------------------------------------------------
(* Texts stay with their names *)

\* Every step keeps the files that are open twice under one name.
LEMMA NextSharedInv ==
  ASSUME TypeInv, ShapeInv, LinkInv, SharedInv, [Next]_vars
  PROVE  SharedInv'
<1>1. ASSUME NEW w \in Workers, op'[w].fd = NoFile,
             \A v \in Workers \ {w} : op'[v].fd = op[v].fd /\ op'[v].name = op[v].name
      PROVE  SharedInv'
  BY <1>1 DEF SharedInv
<1>2. ASSUME NEW w \in Workers, Quiet(w)
      PROVE  SharedInv'
  BY <1>2 DEF Quiet, SharedInv
<1>3. ASSUME NEW w \in Workers, ReadStep(w)
      PROVE  SharedInv'
  <2>1. /\ \A v \in Workers \ {w} : op'[v] = op[v]
        /\ op'[w].name = op[w].name /\ op[w].name \in Names
    BY <1>3 DEF ReadStep, ShapeInv, Shape
  <2>2. op'[w].fd \in {op[w].fd, NoFile, scripts[op[w].name]}
    BY <1>3 DEF ReadStep, ShapeInv, Shape
  <2>3. QED
    BY <2>1, <2>2 DEF SharedInv, LinkInv
<1>4. ASSUME NEW w \in Workers, Fill(w) \/ Answered(w)
      PROVE  SharedInv'
  BY <1>1, <1>4, IdleIsOp DEF Fill, Answered
<1>5. ASSUME NEW w \in Workers, NEW n, NEW f, Create(w, n, f)
      PROVE  SharedInv'
  <2>1. \A v \in Workers : (v # w /\ op[v].fd = f) => op[v].name = n
    BY <1>5, CreateApart
  <2>2. /\ op'[w].fd = f /\ op'[w].name = n
        /\ \A v \in Workers \ {w} : op'[v].fd = op[v].fd /\ op'[v].name = op[v].name
    BY <1>5 DEF Create, Others
  <2>3. QED
    BY <2>1, <2>2 DEF SharedInv
<1>6. ASSUME NEW w \in Workers, NEW kind, NEW n, NEW text, Accept(w, kind, n, text)
      PROVE  SharedInv'
  BY <1>1, <1>6 DEF Accept, Others
<1>7. CASE UNCHANGED serverVars
  BY <1>7 DEF serverVars, SharedInv
<1>8. QED
  BY <1>2, <1>3, <1>4, <1>5, <1>6, <1>7, StepKinds

\* A step of the service leaves the texts under their names: it copies a text
\* only between a file, a request and an answer of the same script.
LEMMA ServerFilesApart ==
  ASSUME TypeInv, ShapeInv, LinkInv, SharedInv, FilesApart, NEW w \in Workers,
         Quiet(w) \/ ReadStep(w) \/ Fill(w) \/ Answered(w) \/ \E n, f : Create(w, n, f)
  PROVE  FilesApart'
<1>0. \A m : <<>> \in TextsOf(m)
  BY DEF TextsOf
<1>1. CASE Quiet(w)
  <2>1. /\ data' = data /\ posted' = posted
        /\ \A n \in Names : scripts'[n] = scripts[n] \/ scripts'[n] = NoFile
        /\ \A v \in Workers : op'[v].fd = op[v].fd /\ op'[v].name = op[v].name
    BY <1>1 DEF Quiet
  <2>2. QED
    BY <2>1 DEF FilesApart
<1>2. CASE ReadStep(w)
  <2>1. /\ data' = data /\ posted' = posted /\ scripts' = scripts
        /\ \A v \in Workers \ {w} : op'[v] = op[v]
        /\ op'[w].name = op[w].name /\ op[w].name \in Names
    BY <1>2 DEF ReadStep, ShapeInv, Shape
  <2>2. op'[w].fd \in {op[w].fd, NoFile, scripts[op[w].name]}
    BY <1>2 DEF ReadStep, ShapeInv, Shape
  <2>3. QED
    BY <2>1, <2>2 DEF FilesApart
<1>3. CASE Answered(w)
  <2>1. /\ data' = data /\ posted' = posted /\ scripts' = scripts
        /\ op'[w].fd = NoFile /\ \A v \in Workers \ {w} : op'[v] = op[v]
    BY <1>3, IdleIsOp DEF Answered
  <2>2. QED
    BY <2>1 DEF FilesApart
<1>4. CASE Fill(w)
  <2>1. PICK f, c : f = op[w].fd /\ c = op[w].name
    OBVIOUS
  <2>2. /\ f \in Inodes /\ f # NoFile /\ c \in Names
        /\ \A i \in Inodes : i # f => data'[i] = data[i]
        /\ \A T : (op[w].text \in Seq(T) /\ data[f] \in Seq(T)) => data'[f] \in Seq(T)
    BY <1>4, <2>1, FillApart
  <2>3. /\ scripts' = scripts /\ posted' = posted /\ op'[w].fd = NoFile
        /\ \A v \in Workers \ {w} : op'[v] = op[v]
    BY <1>4 DEF Fill
  <2>4. op[w].text \in TextsOf(c)
    <3>1. op[w].pc = "write" /\ op[w].kind \in {"update", "clone"}
      BY <1>4 DEF Fill
    <3>2. op[w].text = Origin(c) \/ op[w].text \in posted[c]
      BY <2>1, <3>1 DEF ShapeInv, Shape
    <3>3. QED
      BY <2>2, <3>2, OriginIsText DEF FilesApart, Origin
  <2>5. data'[f] \in TextsOf(c)
    <3>1. data[f] \in TextsOf(c)
      BY <2>1, <2>2 DEF FilesApart
    <3>2. QED
      BY <2>2, <2>4, <3>1 DEF TextsOf
  <2>6. /\ scripts \in [Names -> Inodes \cup {NoFile}]
        /\ \A v \in Workers : op[v].fd \in Inodes \cup {NoFile}
    BY DEF TypeInv, TypeOK, ServerTypeOK
  <2>7. ASSUME NEW n \in Names, scripts'[n] # NoFile
        PROVE  data'[scripts'[n]] \in TextsOf(n)
    <3>1. CASE scripts[n] = f
      BY <2>1, <2>2, <2>3, <2>5, <3>1 DEF LinkInv
    <3>2. CASE scripts[n] # f
      BY <2>2, <2>3, <2>6, <2>7, <3>2 DEF FilesApart
    <3>3. QED
      BY <3>1, <3>2
  <2>8. ASSUME NEW v \in Workers, op'[v].fd # NoFile
        PROVE  data'[op'[v].fd] \in TextsOf(op'[v].name)
    <3>1. v # w /\ op'[v] = op[v]
      BY <2>3, <2>8
    <3>2. CASE op[v].fd = f
      BY <2>1, <2>2, <2>5, <3>1, <3>2 DEF SharedInv
    <3>3. CASE op[v].fd # f
      BY <2>2, <2>6, <2>8, <3>1, <3>3 DEF FilesApart
    <3>4. QED
      BY <3>2, <3>3
  <2>9. QED
    BY <2>3, <2>7, <2>8 DEF FilesApart
<1>5. ASSUME NEW n, NEW f, Create(w, n, f)
      PROVE  FilesApart'
  <2>1. /\ f # NoFile /\ scripts'[n] = f /\ data'[f] = <<>>
        /\ \A m \in Names : m # n => scripts'[m] = scripts[m] /\ scripts[m] # f
        /\ \A i \in Inodes : i # f => data'[i] = data[i]
    BY <1>5, CreateApart
  <2>2. /\ op'[w].fd = f /\ posted' = posted
        /\ \A v \in Workers \ {w} : op'[v].fd = op[v].fd /\ op'[v].name = op[v].name
    BY <1>5 DEF Create, Others
  <2>3. /\ scripts \in [Names -> Inodes \cup {NoFile}]
        /\ \A v \in Workers : op[v].fd \in Inodes \cup {NoFile}
    BY DEF TypeInv, TypeOK, ServerTypeOK
  <2>4. ASSUME NEW m \in Names, scripts'[m] # NoFile
        PROVE  data'[scripts'[m]] \in TextsOf(m)
    <3>1. CASE m = n
      BY <1>0, <2>1, <3>1
    <3>2. CASE m # n
      BY <2>1, <2>3, <2>4, <3>2 DEF FilesApart
    <3>3. QED
      BY <3>1, <3>2
  <2>5. ASSUME NEW v \in Workers, op'[v].fd # NoFile
        PROVE  data'[op'[v].fd] \in TextsOf(op'[v].name)
    <3>1. CASE op'[v].fd = f
      BY <1>0, <2>1, <3>1
    <3>2. CASE op'[v].fd # f
      <4>1. v # w /\ op'[v].fd = op[v].fd /\ op'[v].name = op[v].name
        BY <2>2, <3>2
      <4>2. QED
        BY <2>1, <2>3, <2>5, <3>2, <4>1 DEF FilesApart
    <3>3. QED
      BY <3>1, <3>2
  <2>6. QED
    BY <2>2, <2>4, <2>5 DEF FilesApart
<1>6. QED
  BY <1>1, <1>2, <1>3, <1>4, <1>5

\* A step of the service gives a reader texts of the script it reads.
LEMMA ServerPageApart ==
  ASSUME TypeInv, ShapeInv, LinkInv, FilesApart, PageApart, NEW w \in Workers,
         Quiet(w) \/ ReadStep(w) \/ Fill(w) \/ \E n, f : Create(w, n, f),
         UNCHANGED pageVars
  PROVE  PageApart'
<1>1. \A v \in Workers : op'[v].kind = op[v].kind
  BY DEF Quiet, ReadStep, Fill, Create, Others
<1>2. selectedScript' = selectedScript /\ content' = content /\ missing' = missing
  BY DEF pageVars
<1>3. Fetching' <=> Fetching
  BY <1>1 DEF Fetching
<1>4. ASSUME NEW v \in Workers, op[v].kind = "get"
      PROVE  op'[v].name = op[v].name /\ op'[v].text \in TextsOf(op[v].name)
  <2>1. op[v].text \in TextsOf(op[v].name)
    BY <1>4 DEF PageApart, GetsApart
  <2>2. CASE ReadStep(w) /\ v = w
    <3>1. PICK n, f, t : n = op[w].name /\ f = op[w].fd /\ t = op[w].text
      OBVIOUS
    <3>2. op'[w].name = n
      BY <2>2, <3>1 DEF ReadStep
    <3>3. CASE op'[w].text = t
      BY <2>1, <2>2, <3>1, <3>2, <3>3
    <3>4. CASE op'[w].text = Whole(<<NotFound, 0>>)
      BY <2>2, <3>1, <3>2, <3>4, OriginIsText
    <3>5. CASE /\ op[w].pc = "read" /\ Len(t) + 1 <= Len(data[f])
               /\ op'[w].text = Append(t, data[f][Len(t) + 1])
      <4>1. f # NoFile
        BY <3>1, <3>5 DEF ShapeInv, Shape
      <4>2. data[f] \in TextsOf(n) /\ t \in TextsOf(n)
        BY <2>1, <2>2, <3>1, <4>1 DEF FilesApart
      <4>3. PICK T : TextsOf(n) = Seq(T)
        BY DEF TextsOf
      <4>4. data[f] \in Seq(T) /\ t \in Seq(T)
        BY <4>2, <4>3
      <4>5. Len(t) + 1 \in 1 .. Len(data[f])
        BY <3>5, <4>4
      <4>6. data[f][Len(t) + 1] \in T
        BY <4>4, <4>5, ElementOfSeq
      <4>7. Append(t, data[f][Len(t) + 1]) \in Seq(T)
        BY <4>4, <4>6, AppendProperties
      <4>8. QED
        BY <2>2, <3>1, <3>2, <3>5, <4>3, <4>7
    <3>6. QED
      BY <2>2, <3>1, <3>3, <3>4, <3>5 DEF ReadStep
  <2>3. CASE ~(ReadStep(w) /\ v = w)
    <3>1. op'[v].name = op[v].name /\ op'[v].text = op[v].text
      BY <1>4, <2>3 DEF Quiet, ReadStep, Fill, Create, Others
    <3>2. QED
      BY <2>1, <3>1
  <2>4. QED
    BY <2>2, <2>3
<1>5. GetsApart'
  BY <1>1, <1>2, <1>4 DEF PageApart, GetsApart
<1>6. QED
  BY <1>2, <1>3, <1>5 DEF PageApart

\* Every step keeps the texts of different scripts apart, unless the user
\* clicks while a script is being fetched, or saves when it has not arrived.
LEMMA NextApartInv ==
  ASSUME TypeInv, ShapeInv, LinkInv, SharedInv, ApartInv, [Next]_vars
  PROVE  ApartInv'
<1> USE DEF pageVars
<1>0. \A m : <<>> \in TextsOf(m)
  BY DEF TextsOf
<1>1. SUFFICES ASSUME ~hasty'
               PROVE  FilesApart' /\ PageApart'
  BY DEF ApartInv
<1>2. ~hasty
  BY <1>1 DEF Next, edit, ngOnInit, onSelect, updateScript, newJob, cloneRepo, next, error, vars
<1>3. FilesApart /\ PageApart
  BY <1>2 DEF ApartInv
<1>4. CASE UNCHANGED vars
  BY <1>3, <1>4 DEF vars, serverVars, FilesApart, PageApart, GetsApart, Fetching
<1>5. CASE edit
  <2>1. /\ UNCHANGED <<scripts, data, op, posted, selectedScript, missing>>
        /\ selectedScript # NoScript /\ content # <<>>
    BY <1>5 DEF edit, serverVars
  <2>2. ASSUME ~Fetching, ~missing
        PROVE  content' \in TextsOf(selectedScript)
    <3>1. content \in Seq({selectedScript, NotFound} \X (0 .. MaxVersion))
      BY <1>3, <2>2 DEF PageApart, TextsOf
    <3>2. content[1] \in {selectedScript, NotFound} \X (0 .. MaxVersion)
      <4>1. 1 \in 1 .. Len(content)
        BY <2>1, <3>1
      <4>2. QED
        BY <3>1, <4>1, ElementOfSeq
    <3>3. PICK v \in 1 .. MaxVersion :
            content[1][1] \in Names /\ content' = Whole(<<content[1][1], v>>)
      BY <1>5 DEF edit
    <3>4. v \in Nat /\ v \in 0 .. MaxVersion
      BY ScriptAssumption
    <3>5. <<content[1][1], v>> \in {selectedScript, NotFound} \X (0 .. MaxVersion)
      BY <3>2, <3>4
    <3>6. QED
      BY <3>3, <3>4, <3>5, WholeIsText DEF TextsOf
  <2>3. QED
    BY <1>3, <2>1, <2>2 DEF FilesApart, PageApart, GetsApart, Fetching
<1>6. ASSUME NEW w \in Workers, ServerStep(w), UNCHANGED <<pageVars, requests>>
      PROVE  FilesApart' /\ PageApart'
  <2>1. Quiet(w) \/ ReadStep(w) \/ Fill(w) \/ \E n, f : Create(w, n, f)
    BY <1>6, QuietSteps, ReadSteps, FillSteps, CreateSteps DEF ServerStep
  <2>2. UNCHANGED pageVars
    BY <1>6
  <2>3. QED
    BY <1>3, <2>1, <2>2, ServerFilesApart, ServerPageApart
<1>7. ASSUME NEW w \in Workers, next(w) \/ error(w)
      PROVE  FilesApart' /\ PageApart'
  <2>1. op' = [op EXCEPT ![w] = Idle] /\ op \in [Workers -> Ops]
    BY <1>7 DEF next, error, Answer, TypeInv
  <2>2. Answered(w) /\ selectedScript' = selectedScript
    BY <1>7, <2>1 DEF next, error, Answered
  <2>3. FilesApart'
    BY <1>3, <2>2, ServerFilesApart
  <2>4. op'[w].kind = "idle" /\ \A v \in Workers \ {w} : op'[v] = op[v]
    BY <2>2, IdleIsOp DEF Answered
  <2>5. GetsApart'
    BY <1>3, <2>2, <2>4 DEF PageApart, GetsApart
  <2>6. CASE op[w].kind = "get"
    <3>1. CASE next(w)
      <4>1. content' = op[w].text
        BY <2>6, <3>1 DEF next
      <4>2. QED
        BY <1>3, <2>2, <2>3, <2>5, <2>6, <4>1 DEF PageApart, GetsApart
    <3>2. CASE error(w)
      <4>1. missing'
        BY <2>6, <3>2 DEF error
      <4>2. QED
        BY <2>3, <2>5, <4>1 DEF PageApart
    <3>3. QED
      BY <1>7, <3>1, <3>2
  <2>7. CASE op[w].kind # "get"
    <3>1. Fetching => Fetching'
      BY <2>4, <2>7 DEF Fetching
    <3>2. content' = content /\ (missing => missing')
      BY <1>7, <2>7 DEF next, error
    <3>3. QED
      BY <1>3, <2>2, <2>3, <2>5, <3>1, <3>2 DEF PageApart
  <2>8. QED
    BY <2>6, <2>7
<1>8. ASSUME NEW w \in Workers, NEW kind, NEW n, NEW text, Accept(w, kind, n, text),
             kind = "update" => n \in Names /\ text \in TextsOf(n)
      PROVE  /\ FilesApart'
             /\ \A v \in Workers \ {w} : /\ op'[v].kind = op[v].kind
                                           /\ op'[v].name = op[v].name
                                           /\ op'[v].text = op[v].text
             /\ op[w].kind = "idle" /\ op'[w].kind = kind /\ op'[w].name = n
             /\ op'[w].text = text
  <2>1. /\ data' = data /\ scripts' = scripts /\ op'[w].fd = NoFile
        /\ \A v \in Workers \ {w} : /\ op'[v].kind = op[v].kind /\ op'[v].name = op[v].name
                                      /\ op'[v].text = op[v].text /\ op'[v].fd = op[v].fd
        /\ op[w].kind = "idle" /\ op'[w].kind = kind /\ op'[w].name = n /\ op'[w].text = text
        /\ posted' = IF kind = "update" THEN [posted EXCEPT ![n] = @ \cup {text}] ELSE posted
    BY <1>8 DEF Accept, Others
  <2>2. \A m \in Names : posted'[m] \subseteq TextsOf(m)
    <3>1. posted \in [Names -> SUBSET Seq(Texts)]
      BY DEF TypeInv
    <3>2. QED
      BY <1>3, <1>8, <2>1, <3>1 DEF FilesApart
  <2>3. QED
    BY <1>3, <2>1, <2>2 DEF FilesApart
<1>9. ASSUME NEW w \in Workers, NEW kind \in {"list", "run", "clone", "update"}, NEW n, NEW text,
             Accept(w, kind, n, text), kind = "update" => n \in Names /\ text \in TextsOf(n),
             selectedScript' = selectedScript, content' = content, missing' = missing
      PROVE  FilesApart' /\ PageApart'
  <2>1. /\ FilesApart'
        /\ \A v \in Workers \ {w} : /\ op'[v].kind = op[v].kind /\ op'[v].name = op[v].name
                                      /\ op'[v].text = op[v].text
        /\ op[w].kind = "idle" /\ op'[w].kind = kind
    BY <1>8, <1>9
  <2>2. GetsApart' /\ (Fetching => Fetching')
    BY <1>3, <1>9, <2>1 DEF PageApart, GetsApart, Fetching
  <2>3. QED
    BY <1>3, <1>9, <2>1, <2>2 DEF PageApart
<1>10. ASSUME NEW w \in Workers,
             \/ ngOnInit(w) \/ updateScript(w) \/ newJob(w) \/ cloneRepo(w)
             \/ \E n \in Names : onSelect(w, n)
      PROVE  FilesApart' /\ PageApart'
  <2>1. CASE ngOnInit(w) /\ Accept(w, "list", NotFound, <<>>)
    BY <1>9, <2>1 DEF ngOnInit
  <2>2. CASE newJob(w) /\ Accept(w, "run", selectedScript, <<>>)
    BY <1>9, <2>2 DEF newJob
  <2>3. CASE cloneRepo(w) /\ Accept(w, "clone", NotFound, <<>>)
    BY <1>9, <2>3 DEF cloneRepo
  <2>4. CASE /\ updateScript(w) /\ selectedScript \in Names
             /\ Accept(w, "update", selectedScript, content)
    <3>1. /\ ~Fetching /\ ~missing /\ missing' = missing
          /\ selectedScript' = selectedScript /\ content' = content
      BY <1>1, <2>4 DEF updateScript
    <3>2. content \in TextsOf(selectedScript)
      BY <1>3, <3>1 DEF PageApart
    <3>3. QED
      BY <1>9, <2>4, <3>1, <3>2
  <2>5. ASSUME NEW n \in Names, onSelect(w, n), Accept(w, "get", n, <<>>)
        PROVE  FilesApart' /\ PageApart'
    <3>1. ~Fetching /\ selectedScript' = n
      BY <1>1, <2>5 DEF onSelect
    <3>2. /\ FilesApart'
          /\ \A v \in Workers \ {w} : op'[v].kind = op[v].kind
          /\ op'[w].kind = "get" /\ op'[w].name = n /\ op'[w].text = <<>>
      BY <1>8, <2>5
    <3>3. GetsApart' /\ Fetching'
      BY <1>0, <3>1, <3>2 DEF GetsApart, Fetching
    <3>4. QED
      BY <3>2, <3>3 DEF PageApart
  <2>6. QED
    BY <1>10, <2>1, <2>2, <2>3, <2>4, <2>5, SendAccepts
<1>11. QED
  BY <1>4, <1>5, <1>6, <1>7, <1>10 DEF Next

-----------------------------------------------------------------------------
(* The theorems *)

\* There are enough files for the entries of a fresh clone.
LEMMA FreshClone ==
  \E f \in [Names -> Inodes] : \A m, n \in Names : m # n => f[m] # f[n]
<1>1. Cardinality(Names) \in Nat /\ Cardinality(Workers) \in Nat
  BY ScriptAssumption, FS_CardinalityType
<1>2. PICK k \in Nat : k = Cardinality(Names)
  BY <1>1
<1>3. ExistsBijection(1 .. k, Names)
  BY <1>2, ScriptAssumption, FS_CardinalityType
<1>4. PICK g \in Bijection(1 .. k, Names) : TRUE
  BY <1>3 DEF ExistsBijection
<1>5. /\ g \in [1 .. k -> Names]
      /\ \A n \in Names : \E i \in 1 .. k : g[i] = n
  BY <1>4 DEF Bijection, Surjection
<1> DEFINE f == [n \in Names |-> CHOOSE i \in 1 .. k : g[i] = n]
<1>6. \A n \in Names : f[n] \in 1 .. k /\ g[f[n]] = n
  BY <1>5
<1>7. 1 .. k \subseteq Inodes
  BY <1>1, <1>2 DEF Inodes
<1>8. f \in [Names -> Inodes]
  BY <1>6, <1>7
<1>9. \A m, n \in Names : m # n => f[m] # f[n]
  BY <1>6
<1>10. QED
  BY <1>8, <1>9

\* The invariant holds initially, with or without a clone at the start-up.
LEMMA InitIndInv ==
  Init => IndInv
<1> SUFFICES ASSUME Init
             PROVE  IndInv
  OBVIOUS
<1>1. /\ repo \in BOOLEAN /\ dir = repo /\ op = [w \in Workers |-> Idle]
      /\ posted = [n \in Names |-> {Origin(n)}] /\ mixed = {}
      /\ latest = [n \in Names |-> <<>>]
  BY DEF Init, ServerInit
<1>2. /\ scripts \in [Names -> Inodes \cup {NoFile}]
      /\ \A m, n \in Names : (scripts[m] = scripts[n] /\ scripts[m] # NoFile) => m = n
      /\ ~dir => \A n \in Names : scripts[n] = NoFile
  <2>1. CASE dir
    <3>1. scripts = CHOOSE f \in [Names -> Inodes] : \A m, n \in Names : m # n => f[m] # f[n]
      BY <2>1 DEF Init, ServerInit
    <3>2. scripts \in [Names -> Inodes] /\ \A m, n \in Names : m # n => scripts[m] # scripts[n]
      BY <3>1, FreshClone
    <3>3. QED
      BY <2>1, <3>2
  <2>2. CASE ~dir
    BY <2>2 DEF Init, ServerInit
  <2>3. QED
    BY <2>1, <2>2
<1>3. ASSUME NEW n \in Names
      PROVE  Origin(n) \in Seq(Texts) /\ Origin(n) \in TextsOf(n)
  <2>1. /\ Whole(<<n, 0>>) \in Seq(Texts)
        /\ \A m : n \in {m, NotFound} => Whole(<<n, 0>>) \in TextsOf(m)
    BY OriginIsText
  <2>2. Origin(n) = Whole(<<n, 0>>) /\ n \in {n, NotFound}
    BY DEF Origin
  <2>3. QED
    BY <2>1, <2>2
<1>4. <<>> \in Seq(Texts) /\ \A m : <<>> \in TextsOf(m)
  BY DEF TextsOf
<1>5. /\ data \in [Inodes -> Seq(Texts)]
      /\ \A n \in Names : scripts[n] # NoFile => data[scripts[n]] = Origin(n)
  <2>1. data = [i \in Inodes |-> IF \E n \in Names : scripts[n] = i
                                 THEN Origin(CHOOSE n \in Names : scripts[n] = i) ELSE <<>>]
    BY DEF Init, ServerInit
  <2>2. ASSUME NEW i \in Inodes
        PROVE  data[i] \in Seq(Texts)
    <3>1. CASE \E n \in Names : scripts[n] = i
      <4>1. PICK n \in Names : n = CHOOSE m \in Names : scripts[m] = i
        BY <3>1
      <4>2. QED
        BY <1>3, <2>1, <3>1, <4>1
    <3>2. CASE ~\E n \in Names : scripts[n] = i
      BY <1>4, <2>1, <3>2
    <3>3. QED
      BY <3>1, <3>2
  <2>3. ASSUME NEW n \in Names, scripts[n] # NoFile
        PROVE  data[scripts[n]] = Origin(n)
    <3>1. PICK i \in Inodes : i = scripts[n]
      BY <1>2, <2>3
    <3>2. n = CHOOSE m \in Names : scripts[m] = i
      BY <1>2, <2>3, <3>1
    <3>3. QED
      BY <2>1, <3>1, <3>2
  <2>4. QED
    BY <2>1, <2>2, <2>3
<1>6. /\ Idle \in Ops /\ Idle.kind = "idle" /\ Idle.pc = "start" /\ Idle.fd = NoFile
      /\ \A w \in Workers : op[w] = Idle
  BY <1>1, IdleIsOp
<1>7. TypeInv
  <2>1. posted \in [Names -> SUBSET Seq(Texts)] /\ latest \in [Names -> Seq(Texts)]
    BY <1>1, <1>3, <1>4
  <2>2. FileTypes
    BY <1>1, <1>2, <1>5, <2>1 DEF FileTypes
  <2>3. PageTypes
    <3>1. 0 \in 0 .. MaxRequests
      BY EditorAssumption
    <3>2. FALSE \in BOOLEAN /\ {} \subseteq Names /\ NoScript \in Names \cup {NoScript}
      OBVIOUS
    <3>3. QED
      BY <1>4, <3>1, <3>2, Zenon DEF Init, PageTypes
  <2>4. op \in [Workers -> Ops]
    BY <1>1, <1>6
  <2>5. QED
    BY <2>2, <2>3, <2>4, TypeParts
<1>8. ShapeInv /\ ReaderInv /\ SharedInv
  BY <1>6 DEF ShapeInv, Shape, ReaderInv, Reader, SharedInv
<1>9. LinkInv
  BY <1>1, <1>2, <1>6 DEF LinkInv
<1>10. WholeInv
  BY <1>1, <1>5, <1>6 DEF WholeInv, Writing, Present
<1>11. StableInv
  BY <1>1, <1>6 DEF StableInv, Undisturbed, Changing
<1>12. ApartInv
  <2>1. \A n \in Names : posted[n] \subseteq TextsOf(n)
    BY <1>1, <1>3
  <2>2. FilesApart
    BY <1>3, <1>5, <1>6, <2>1 DEF FilesApart
  <2>3. content = <<>>
    BY DEF Init
  <2>4. QED
    BY <1>4, <1>6, <2>2, <2>3 DEF ApartInv, PageApart, GetsApart
<1>13. QED
  BY <1>7, <1>8, <1>9, <1>10, <1>11, <1>12 DEF IndInv

\* Every reachable state satisfies the inductive invariant.
THEOREM IndInvAlways == Spec => []IndInv
<1>1. IndInv /\ [Next]_vars => IndInv'
  <2>1. SUFFICES ASSUME IndInv, [Next]_vars
                 PROVE  IndInv'
    OBVIOUS
  <2>2. /\ TypeInv /\ ShapeInv /\ LinkInv /\ StableInv /\ SharedInv /\ ApartInv
        /\ FilesInv
    BY <2>1 DEF IndInv, FilesInv
  <2>3. TypeInv'
    BY <2>1, <2>2, NextTypeInv
  <2>4. FilesInv'
    BY <2>1, <2>2, <2>3, NextFilesInv
  <2>5. StableInv' /\ SharedInv' /\ ApartInv'
    BY <2>1, <2>2, <2>3, NextStableInv, NextSharedInv, NextApartInv
  <2>6. QED
    BY <2>3, <2>4, <2>5 DEF IndInv, FilesInv
<1>2. QED
  BY InitIndInv, <1>1, PTL DEF Spec

\* The files, the requests in progress and the page keep their types, and
\* there is no script without the directory (api/Server.h, DataBase.cpp,
\* ScriptComponent).
THEOREM TypeOKAlways == Spec => []TypeOK
<1>1. IndInv => TypeOK
  BY DEF IndInv, TypeInv
<1>2. QED
  BY IndInvAlways, <1>1, PTL

\* A script file nobody writes is what one updateScript sent, or what the
\* repository has, unless an update opened it while another update or git's
\* checkout had it open for writing.
THEOREM WholeUnlessOverlapAlways == Spec => []WholeUnlessOverlap
<1>1. IndInv => WholeUnlessOverlap
  BY DEF IndInv, WholeInv, WholeUnlessOverlap
<1>2. QED
  BY IndInvAlways, <1>1, PTL

\* getScript and script_file return one version of the script from its first
\* to its last block, unless the file is missing, was left mixed before, or was
\* open for writing meanwhile; a reload that deletes the file under its reader
\* does not tear it.
THEOREM ReadWholeAlways == Spec => []ReadWhole
<1>1. IndInv => ReadWhole
  BY DEF IndInv, ReaderInv, Reader, ReadWhole, Done
<1>2. QED
  BY IndInvAlways, <1>1, PTL

\* What an updateScript or a cloneScriptRepo that was the only change from its
\* first to its last step has left behind stays until the next change begins.
THEOREM UndisturbedStaysAlways == Spec => []UndisturbedStays
<1>1. IndInv => UndisturbedStays
  BY DEF IndInv, StableInv, UndisturbedStays
<1>2. QED
  BY IndInvAlways, <1>1, PTL

\* ScriptComponent never sends a script under the name of another one, as long
\* as the user waits for a selected script to arrive and does not save under
\* its name when it has not arrived.
THEOREM SaveKeepsApartAlways == Spec => []SaveKeepsApart
<1>1. ASSUME IndInv
      PROVE  SaveKeepsApart
  <2>1. SUFFICES ASSUME ~hasty, NEW n \in Names, NEW text \in posted[n], NEW i \in DOMAIN text
                 PROVE  text[i][1] \in {n, NotFound}
    BY DEF SaveKeepsApart
  <2>2. text \in Seq({n, NotFound} \X (0 .. MaxVersion))
    BY <1>1, <2>1 DEF IndInv, ApartInv, FilesApart, TextsOf
  <2>3. i \in 1 .. Len(text)
    BY <2>2
  <2>4. text[i] \in {n, NotFound} \X (0 .. MaxVersion)
    BY <2>2, <2>3, ElementOfSeq
  <2>5. QED
    BY <2>4
<1>2. QED
  BY IndInvAlways, <1>1, PTL
=============================================================================
