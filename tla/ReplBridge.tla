----------------------------- MODULE ReplBridge -----------------------------
(***************************************************************************)
(* The remote Lua console: POST /api/repl types a line into the terminal   *)
(* that the service shares with its REPL child, character by character     *)
(* (testService/Repl.h); the child (repl/console.cpp) reads lines and      *)
(* writes to a pipe; a listener thread turns what it reads from the pipe   *)
(* into events (api/Server.h), which the console page of the web client    *)
(* shows (ReplComponent).                                                  *)
(*                                                                         *)
(* What a line of Lua means is left open: any line may be complete, wrong  *)
(* or the beginning of a statement, and may print something or end the     *)
(* interpreter.  Of the connection to the page only what EventDispatcher   *)
(* makes of it is kept: an event meets a waiting client, one that is about *)
(* to wait again, or one that has not seen the event before.               *)
(*                                                                         *)
(* The stand-alone REPL service (repl/server.cpp) is the same bridge       *)
(* without events: its listener copies the output to its own stdout.       *)
(***************************************************************************)
EXTENDS Naturals, SequencesExt

CONSTANTS
  LineLengths,   \* characters of each line that is posted, its newline aside
  MaxInput,      \* LUA_MAXINPUT, the size of the buffer of pushline()
  MaxPieces,     \* bound: pieces of output of one statement
  MaxJobEvents   \* bound: JobFinishedEvents sent meanwhile

ASSUME ReplAssumption ==
  /\ LineLengths \in Seq(Nat) /\ MaxJobEvents \in Nat
  /\ MaxPieces \in Nat \ {0}
  /\ MaxInput \in Nat \ {0, 1}

Lines == DOMAIN LineLengths

VARIABLES
  standalone,  \* the process is the stand-alone REPL service
  isTty,       \* the service runs on a terminal
  typing,      \* what the HTTP thread of each line still has to type
  posted,      \* number of lines posted
  wanted,      \* history: the characters of all lines posted
  overlap,     \* history: two threads were typing at the same time
  tty,         \* characters in the terminal's input queue
  child,       \* where the REPL child is
  readLines,   \* history: the lines the child has read
  taken,       \* history: their characters
  pipe,        \* what the child has written and the listener has not read
  output,      \* history: what the child has written since the page follows it
  listener,    \* the pipe listener: "read" or "ended"
  conn,        \* the page's connection to /api/events
  message,     \* the output in the event on its way to the page
  subscribed,  \* the page still handles events
  shown,       \* what the page has written to its terminal, as it was converted
  lost,        \* history: an event passed the connected page by
  jobEvents    \* number of JobFinishedEvents

inputVars == <<standalone, isTty, typing, posted, wanted, overlap, tty>>
childVars == <<child, readLines, taken, pipe, output>>
pageVars == <<listener, conn, message, subscribed, shown, lost, jobEvents>>
vars == <<inputVars, childVars, pageVars>>

\* A character: its line and its place in it; the newline is at 0.
Chars == {char \in Lines \X Nat : char[2] <= LineLengths[char[1]]}
IsNewline(char) == char[2] = 0

\* A piece of output is what at least goes into one event.  It is numbered while
\* the page follows it, and marked by what becomes of it on the way: "plain"
\* text arrives as it is, "special" text (empty lines, or backslashes that make
\* JSON escapes) is changed, and "broken" text (a quote, a tab, another
\* backslash) makes the event no JSON.
OutputKinds == {"plain", "special", "broken"}
Pieces == Nat \X OutputKinds

Bridge ==
  /\ isTty \in BOOLEAN
  /\ typing = [l \in Lines |-> <<>>]
  /\ posted = 0 /\ wanted = <<>> /\ overlap = FALSE
  /\ tty = <<>>
  /\ child = "start"
  /\ readLines = <<>> /\ taken = <<>> /\ pipe = <<>> /\ output = <<>>
  /\ listener = "read"
  /\ conn = "none" /\ message = <<>> /\ subscribed = FALSE /\ shown = <<>>
  /\ lost = FALSE /\ jobEvents = 0

\* The constructor of Repl: the pipe, the child and the listener.
InitService == standalone = FALSE /\ Bridge

\* main() of the stand-alone service does the same.
InitStandalone == standalone = TRUE /\ Bridge

Init == InitService \/ InitStandalone

-----------------------------------------------------------------------------
(* POST /api/repl *)

\* Mutant: the loop runs one character past the end of the line.
Message_PastEnd(l) == Append([k \in 1 .. LineLengths[l] + 1 |-> <<l, k>>], <<l, 0>>)

\* message = line + "\n"
Message(l) == Append([k \in 1 .. LineLengths[l] |-> <<l, k>>], <<l, 0>>)

\* The thread of the next line starts to type.
newLine(l) ==
  /\ l = posted + 1
  /\ posted' = l
  /\ typing' = [typing EXCEPT ![l] = Message(l)]
  /\ wanted' = wanted \o Message(l)
  /\ overlap' = (overlap \/ \E k \in Lines : typing[k] # <<>>)
  /\ UNCHANGED <<standalone, isTty, tty, childVars, pageVars>>

\* ioctl(TIOCSTI) of one character; without a terminal it fails and the loop
\* goes on with the next one.
ioctl(l) ==
  /\ tty' = IF isTty THEN Append(tty, Head(typing[l])) ELSE tty
  /\ typing' = [typing EXCEPT ![l] = Tail(@)]
  /\ UNCHANGED <<standalone, isTty, posted, wanted, overlap, childVars, pageVars>>

\* One round of the loop of Repl::newLine(), and of the stand-alone service's.
newLineLoop(l) == typing[l] # <<>> /\ ~standalone /\ ioctl(l)

apiCallback(l) == typing[l] # <<>> /\ standalone /\ ioctl(l)

-----------------------------------------------------------------------------
(* The REPL child *)

\* The page has got every event so far and shows them.
Follows == subscribed /\ ~lost /\ ~standalone

\* What the child writes up to the next prompt: one piece, or several if it is
\* longer than the buffer of the listener.
Write(kinds) ==
  LET pieces == [i \in DOMAIN kinds |-> <<IF Follows THEN Len(output) + i ELSE 0, kinds[i]>>]
  IN /\ pipe' = pipe \o pieces
     /\ output' = IF Follows THEN output \o pieces ELSE <<>>

\* The program cannot be executed, has no memory for a Lua state, or LUA_INIT
\* fails: the child ends without a prompt; "test" is in the pipe already.
startFails ==
  /\ child = "start"
  /\ child' = "exited"
  /\ Write(<<"plain">>)
  /\ UNCHANGED <<readLines, taken, inputVars, pageVars>>

\* pmain() without arguments: from a terminal doREPL() reads line by line after
\* a prompt, anything else is run as a file up to its end.
pmain ==
  /\ child = "start"
  /\ child' = IF isTty THEN "fgets" ELSE "exited"
  /\ Write(<<"plain">>)
  /\ UNCHANGED <<readLines, taken, inputVars, pageVars>>

Newlines == {i \in DOMAIN tty : IsNewline(tty[i])}

\* Mutant: fgets() returns all that is in the queue.
LineEnd_All == Len(tty)

\* What was read is compiled as an expression, or with the lines before it as a
\* statement: it is a whole one, or the next prompt follows because it is
\* wrong (reported on stderr, which is not the pipe) or wants a continuation
\* line.
Compile ==
  \/ child' = "call" /\ UNCHANGED <<pipe, output>>
  \/ UNCHANGED child /\ Write(<<"plain">>)

\* Mutant: the rest of a line that does not fit into the buffer is skipped.
fgets_SkipsRest ==
  /\ child = "fgets" /\ Newlines # {}
  /\ readLines' = Append(readLines, SubSeq(tty, 1, Min(Newlines \cup {MaxInput - 1})))
  /\ taken' = taken \o SubSeq(tty, 1, Min(Newlines \cup {MaxInput - 1}))
  /\ tty' = SubSeq(tty, Min(Newlines) + 1, Len(tty))
  /\ Compile
  /\ UNCHANGED <<standalone, isTty, typing, posted, wanted, overlap, pageVars>>

\* fgets() returns the queue up to its first newline, or as much as fits into
\* the buffer with the terminating zero; the rest stays for the next call.
LineEnd == Min(Newlines \cup {MaxInput - 1})

fgets ==
  /\ child = "fgets" /\ Newlines # {}
  /\ readLines' = Append(readLines, SubSeq(tty, 1, LineEnd))
  /\ taken' = taken \o SubSeq(tty, 1, LineEnd)
  /\ tty' = SubSeq(tty, LineEnd + 1, Len(tty))
  /\ Compile
  /\ UNCHANGED <<standalone, isTty, typing, posted, wanted, overlap, pageVars>>

\* What a statement may print, its prompt included.
Outputs == UNION {[1 .. n -> OutputKinds] : n \in 1 .. MaxPieces}

\* docall() and l_print(): the statement prints something or nothing, or fails;
\* the next prompt follows.
docall ==
  /\ child = "call"
  /\ child' = "fgets"
  /\ \E kinds \in Outputs : Write(kinds)
  /\ UNCHANGED <<readLines, taken, inputVars, pageVars>>

\* The statement ends the process, after a crash without and with os.exit with
\* what it has printed; or there is no more input: doREPL() writes a newline
\* and returns.
exit ==
  /\ \/ child = "call" /\ UNCHANGED <<pipe, output>>
     \/ child = "call" /\ \E kinds \in Outputs : Write(kinds)
     \/ child = "fgets" /\ Write(<<"plain">>)
  /\ child' = "exited"
  /\ UNCHANGED <<readLines, taken, inputVars, pageVars>>

-----------------------------------------------------------------------------
(* Events *)

\* send_event(): one message_ for all.  A client that is away misses it; one
\* that was woken for the event before it waits for that one for ever.
send_event(pieces) ==
  /\ message' = IF conn = "waiting" THEN pieces ELSE <<>>
  /\ conn' = CASE conn = "waiting" -> "notified"
               [] conn = "notified" -> "stuck"
               [] OTHER -> conn
  /\ lost' = (lost \/ conn # "waiting")
  /\ IF lost' THEN output' = <<>> /\ shown' = <<>> ELSE UNCHANGED <<output, shown>>

\* Mutant: the parent keeps the write end of the pipe, too.
PipeClosed_ParentWrites == FALSE

\* read() returns 0: the child has gone, and the parent has closed its end.
PipeClosed == child = "exited" /\ pipe = <<>>

\* Mutant: what does not fit into the buffer is dropped.
readPipe_Drops ==
  /\ listener = "read" /\ pipe # <<>> /\ ~standalone
  /\ \E k \in 1 .. Len(pipe) : send_event(SubSeq(pipe, 1, k))
  /\ pipe' = <<>>
  /\ UNCHANGED <<listener, subscribed, jobEvents, child, readLines, taken, inputVars>>

\* read() returns some of what is in the pipe; the callback sends it.
readPipe ==
  /\ listener = "read" /\ pipe # <<>> /\ ~standalone
  /\ \E k \in 1 .. Len(pipe) :
       /\ send_event(SubSeq(pipe, 1, k))
       /\ pipe' = SubSeq(pipe, k + 1, Len(pipe))
  /\ UNCHANGED <<listener, subscribed, jobEvents, child, readLines, taken, inputVars>>

\* The listener of the stand-alone service sends no event.
readPipeStandalone ==
  /\ listener = "read" /\ pipe # <<>> /\ standalone
  /\ \E k \in 1 .. Len(pipe) : pipe' = SubSeq(pipe, k + 1, Len(pipe))
  /\ UNCHANGED <<child, readLines, taken, output, inputVars, pageVars>>

endListener ==
  /\ listener = "read" /\ PipeClosed
  /\ listener' = "ended"
  /\ UNCHANGED <<conn, message, subscribed, shown, lost, jobEvents>>
  /\ UNCHANGED <<inputVars, childVars>>

\* JobScheduler::jobFinished() sends events through the same dispatcher.
jobFinishedEvent ==
  /\ jobEvents < MaxJobEvents /\ ~standalone
  /\ jobEvents' = jobEvents + 1
  /\ send_event(<<>>)
  /\ UNCHANGED <<listener, subscribed, inputVars, child, readLines, taken, pipe>>

-----------------------------------------------------------------------------
(* The console page *)

\* ngAfterViewInit(): the page subscribes to the events (the stand-alone service
\* has none to send).
connect ==
  /\ conn = "none" /\ ~standalone
  /\ conn' = "away" /\ subscribed' = TRUE
  /\ lost' = FALSE
  /\ output' = pipe
  /\ UNCHANGED <<listener, message, shown, jobEvents, inputVars, child, readLines, taken, pipe>>

\* The connection's thread calls wait_event() again.
wait_event ==
  /\ conn = "away"
  /\ conn' = "waiting"
  /\ UNCHANGED <<listener, message, subscribed, shown, lost, jobEvents>>
  /\ UNCHANGED <<inputVars, childVars>>

\* The callback of the server puts the output into a JSON string without
\* escaping it: JSON.parse() throws if a piece cannot be a part of one.
Parses(pieces) == \A i \in DOMAIN pieces : pieces[i][2] # "broken"

\* What is left of the output: the callback makes one newline of several, and
\* JSON.parse() one character of a backslash and what follows it.
Convert(pieces) ==
  [i \in DOMAIN pieces |->
     <<pieces[i][1], IF pieces[i][2] = "special" THEN "altered" ELSE pieces[i][2]>>]

\* The event arrives: the page shows it, or its handler throws, which ends
\* the subscription.
receive ==
  /\ conn = "notified"
  /\ conn' = "away"
  /\ subscribed' = (subscribed /\ Parses(message))
  /\ IF subscribed' THEN shown' = shown \o Convert(message) /\ UNCHANGED output
     ELSE shown' = <<>> /\ output' = <<>>
  /\ message' = <<>>
  /\ UNCHANGED <<listener, lost, jobEvents, inputVars, child, readLines, taken, pipe>>

-----------------------------------------------------------------------------
Child == pmain \/ startFails \/ fgets \/ docall
Listener == readPipe \/ readPipeStandalone \/ endListener

Next ==
  \/ \E l \in Lines : newLine(l) \/ newLineLoop(l) \/ apiCallback(l)
  \/ pmain \/ startFails \/ fgets \/ docall \/ exit
  \/ readPipe \/ readPipeStandalone \/ endListener \/ jobFinishedEvent
  \/ connect \/ wait_event \/ receive

\* Threads and the child go on when they can, and Lua statements end; nothing
\* makes a client post a line or connect.
Fairness ==
  /\ \A l \in Lines : WF_vars(newLineLoop(l) \/ apiCallback(l))
  /\ WF_vars(Child) /\ WF_vars(Listener)
  /\ WF_vars(wait_event) /\ WF_vars(receive)

Spec == Init /\ [][Next]_vars /\ Fairness

-----------------------------------------------------------------------------
(* Properties *)

\* Of the characters of one line a comes before b, its newline last.
Before(a, b) == a[1] = b[1] => ~IsNewline(a) /\ (IsNewline(b) \/ a[2] < b[2])

InOrder(chars) == \A j \in DOMAIN chars : \A i \in 1 .. j - 1 : Before(chars[i], chars[j])

Converted == Nat \X {"plain", "altered", "broken"}

\* The types of the queues between the client, the service and the child.
TypeOK ==
  /\ standalone \in BOOLEAN /\ isTty \in BOOLEAN /\ overlap \in BOOLEAN
  /\ typing \in [Lines -> Seq(Chars)]
  /\ posted \in 0 .. Len(LineLengths)
  /\ wanted \in Seq(Chars) /\ tty \in Seq(Chars) /\ taken \in Seq(Chars)
  /\ child \in {"start", "fgets", "call", "exited"}
  /\ readLines \in Seq(Seq(Chars))
  /\ pipe \in Seq(Pieces) /\ output \in Seq(Pieces)
  /\ listener \in {"read", "ended"}
  /\ conn \in {"none", "away", "waiting", "notified", "stuck"}
  /\ message \in Seq(Pieces) /\ shown \in Seq(Converted)
  /\ subscribed \in BOOLEAN /\ lost \in BOOLEAN
  /\ jobEvents \in 0 .. MaxJobEvents

\* Repl.h:103, console.cpp:99: as long as no two clients type at the same time,
\* the child reads exactly what was posted, whatever it is doing meanwhile, and
\* if they do, still every line in its order and no character of it twice; one
\* read never spans two lines, and only a full buffer ends it before the
\* newline.
LinesIntact ==
  /\ ~overlap => IsPrefix(taken \o tty, wanted)
  /\ InOrder(taken \o tty)
  /\ \A i \in DOMAIN readLines :
       LET line == readLines[i] IN
       /\ \A k \in 1 .. Len(line) - 1 : ~IsNewline(line[k])
       /\ Len(line) < MaxInput
       /\ IsNewline(Last(line)) \/ Len(line) = MaxInput - 1

\* The page shows the child's output piece by piece, without gaps and in order,
\* each in the form that the conversion to and from JSON gives it (empty lines
\* and some backslashes are lost), from the moment the page connects, through
\* pipe, listener and events, until an event passes it by or cannot be parsed.
ShownUnlessLost ==
  Follows => (shown \o Convert(message)) \o Convert(pipe) = Convert(output)

\* On a terminal every posted line is read to its newline, also when it does
\* not fit into the child's buffer and when lines of several clients get mixed
\* up, unless the child ends.
EveryLineRead ==
  \A l \in Lines :
    posted >= l ~>
      (child = "exited" \/ \E i \in DOMAIN readLines : Last(readLines[i]) = <<l, 0>>)

\* Repl.h:89: the listener ends once the child is gone, after it has passed
\* on everything the child wrote.
ListenerEnds ==
  child = "exited" ~> (listener = "ended" /\ pipe = <<>>)
=============================================================================
